------------------------ MODULE CrmOutboundRefinement ------------------------
(***************************************************************************)
(* The tables and the queue of CrmOutbound as the state of ExportJob:      *)
(* somebody works on a job while a message or a worker has its task.       *)
(***************************************************************************)
EXTENDS CrmOutbound

Phase(j) ==
  IF HasTask(j) THEN "queued" ELSE IF api[j] \in {"new", "inserted"} THEN "new" ELSE "over"

Export == INSTANCE ExportJob WITH
  status <- [j \in Jobs |-> job[j].status],
  phase <- [j \in Jobs |-> Phase(j)],
  wanted <- Pages,
  excused <- {j \in Jobs : lost[j] # {}}

\* Every step of the API, the queue and the workers is one step of the export's
\* promise or none of its business: crashes, retries and redelivered copies
\* included, work on an accepted job ends only with an outcome or an excuse, and
\* "sent" is written only when every page was delivered (CrmService, tasks.py).
ImplementsExport == Export!Spec
=============================================================================
