------------------------------ MODULE EventStore ------------------------------
(***************************************************************************)
(* What the CRM may rely on when it sends events, as if every request were *)
(* one atomic step: the request is stored whole or not at all, also when   *)
(* its answer is an error, and an event that is not stored again is there  *)
(* already.  CrmInbound implements this specification with concurrent      *)
(* transactions.                                                           *)
(***************************************************************************)
EXTENDS Naturals, Sequences

CONSTANTS Requests, Contents, None

VARIABLES stored,  \* events stored, by request and position
          asked,   \* events of each request, <<>> before it is received
          answer,  \* "none" before the request is answered
          accepted \* positions a request's answer counts as accepted

vars == <<stored, asked, answer, accepted>>

Entry(r, i) == [req |-> r, index |-> i, crmRecordId |-> asked[r][i].crmRecordId]

\* An entry with this crm_record_id is in the set.
Has(entries, id) == id # None /\ \E e \in entries : e.crmRecordId = id

Distinct(entries) ==
  \A e, f \in entries : e.crmRecordId = f.crmRecordId /\ e.crmRecordId # None => e = f

Init ==
  /\ stored = {}
  /\ asked = [r \in Requests |-> <<>>]
  /\ answer = [r \in Requests |-> "none"]
  /\ accepted = [r \in Requests |-> {}]

Ask(r) ==
  /\ asked[r] = <<>>
  /\ asked'[r] \in Seq(Contents) \ {<<>>}
  /\ asked' = [asked EXCEPT ![r] = asked'[r]]
  /\ UNCHANGED <<stored, answer, accepted>>

\* S: the events that were not stored before.  The outcome is an error when the
\* answer gets lost; the events are stored all the same.
Process(r, S, A, outcome) ==
  /\ asked[r] # <<>> /\ answer[r] = "none"
  /\ S \subseteq A /\ A \subseteq DOMAIN asked[r]
  /\ stored' = stored \cup {Entry(r, i) : i \in S}
  /\ Distinct(stored')
  /\ \A i \in DOMAIN asked[r] \ S : Has(stored', asked[r][i].crmRecordId)
  /\ answer' = [answer EXCEPT ![r] = outcome]
  /\ accepted' = [accepted EXCEPT ![r] = IF outcome = "ok" THEN A ELSE {}]
  /\ UNCHANGED asked

\* The one event of the request is stored already.
Conflict(r) ==
  /\ Len(asked[r]) = 1 /\ answer[r] = "none"
  /\ Has(stored, asked[r][1].crmRecordId)
  /\ answer' = [answer EXCEPT ![r] = "conflict"]
  /\ UNCHANGED <<stored, asked, accepted>>

Fail(r) ==
  /\ asked[r] # <<>> /\ answer[r] = "none"
  /\ answer' = [answer EXCEPT ![r] = "error"]
  /\ UNCHANGED <<stored, asked, accepted>>

Next ==
  \E r \in Requests :
    \/ Ask(r)
    \/ \E S, A \in SUBSET DOMAIN asked[r], outcome \in {"ok", "error"} :
         Process(r, S, A, outcome)
    \/ Conflict(r) \/ Fail(r)

Spec == Init /\ [][Next]_vars
=============================================================================
