------------------------------- MODULE ExportJob -------------------------------
(***************************************************************************)
(* What an export promises, without workers, messages or attempts: once a  *)
(* job is accepted somebody works on it until it is sent or failed, or the *)
(* job has an excuse; nobody else touches it; and "sent" is never written  *)
(* before the CRM has every page.                                          *)
(***************************************************************************)
CONSTANTS Jobs

VARIABLES status,    \* status of the job's row, "none" before there is one
          phase,     \* of the work on it: "new", "queued" or "over"
          wanted,    \* pages to deliver
          delivered, \* pages of each job the CRM has
          excused    \* jobs that may be left unfinished

vars == <<status, phase, wanted, delivered, excused>>

Init ==
  /\ status = [j \in Jobs |-> "none"]
  /\ phase = [j \in Jobs |-> "new"]
  /\ delivered = [j \in Jobs |-> {}]
  /\ excused = {}

Queue(j) ==
  /\ phase[j] = "new" /\ phase' = [phase EXCEPT ![j] = "queued"]
  /\ UNCHANGED <<status, wanted, delivered, excused>>

\* Nothing was accepted.
Cancel(j) ==
  /\ phase[j] = "new" /\ status[j] = "none" /\ phase' = [phase EXCEPT ![j] = "over"]
  /\ UNCHANGED <<status, wanted, delivered, excused>>

Accept(j) ==
  /\ status[j] = "none" /\ (phase[j] = "queued" \/ j \in excused)
  /\ status' = [status EXCEPT ![j] = "pending"]
  /\ UNCHANGED <<phase, wanted, delivered, excused>>

\* The work cannot begin, or its outcome cannot be stored.
Excuse(j) ==
  /\ phase[j] # "over" /\ excused' = excused \cup {j}
  /\ phase' \in {phase, [phase EXCEPT ![j] = "over"]}
  /\ UNCHANGED <<status, wanted, delivered>>

\* Also from "sent" or "failed", when a copy of the task begins again.
Run(j) ==
  /\ phase[j] = "queued" /\ status[j] # "none"
  /\ status' = [status EXCEPT ![j] = "running"]
  /\ UNCHANGED <<phase, wanted, delivered, excused>>

Deliver(j, p) ==
  /\ phase[j] = "queued" /\ status[j] # "none" /\ p \in wanted
  /\ delivered' = [delivered EXCEPT ![j] = @ \cup {p}]
  /\ UNCHANGED <<status, phase, wanted, excused>>

Succeed(j) ==
  /\ phase[j] = "queued" /\ status[j] # "none" /\ wanted \subseteq delivered[j]
  /\ status' = [status EXCEPT ![j] = "sent"]
  /\ UNCHANGED <<phase, wanted, delivered, excused>>

Fail(j) ==
  /\ phase[j] = "queued" /\ status[j] # "none"
  /\ status' = [status EXCEPT ![j] = "failed"]
  /\ UNCHANGED <<phase, wanted, delivered, excused>>

\* Nobody works on the job any more.
Retire(j) ==
  /\ phase[j] = "queued" /\ phase' = [phase EXCEPT ![j] = "over"]
  /\ status[j] \in {"sent", "failed"} \/ j \in excused
  /\ UNCHANGED <<status, wanted, delivered, excused>>

Next ==
  \E j \in Jobs :
    \/ Queue(j) \/ Cancel(j) \/ Accept(j) \/ Excuse(j) \/ Run(j)
    \/ \E p \in wanted : Deliver(j, p)
    \/ Succeed(j) \/ Fail(j) \/ Retire(j)

Spec == Init /\ [][Next]_vars
=============================================================================
