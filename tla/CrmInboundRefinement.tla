------------------------- MODULE CrmInboundRefinement -------------------------
(***************************************************************************)
(* CrmInbound implements EventStore: what the table holds is what the       *)
(* answers say, however the statements of the requests interleave.          *)
(***************************************************************************)
EXTENDS CrmInbound

Store == INSTANCE EventStore WITH
  Contents <- Event,
  stored <- table,
  asked <- [r \in Requests |-> tx[r].events],
  answer <- [r \in Requests |-> tx[r].answer],
  accepted <- [r \in Requests |-> IF tx[r].answer = "ok" THEN tx[r].accepted ELSE {}]

\* Requests are stored whole or not at all, in the step that ends them, whatever
\* the answer, and every event of a request answered with 201 or 207 is stored once
\* (crm_service.py:17-64, crm_repository.py:17-41, db/session.py:25-34).
ImplementsStore == Store!Spec
=============================================================================
