------------------------------- MODULE CrmInbound -------------------------------
(***************************************************************************)
(* Events the CRM sends: CrmService.process_inbound_event and               *)
(* process_inbound_batch (app/services/crm_service.py), the endpoints that  *)
(* call them and then AuditService.log, and the statements of               *)
(* CrmRepository and AuditRepository they run.                              *)
(*                                                                         *)
(* A request is one PostgreSQL transaction at READ COMMITTED.  The unique   *)
(* index on crm_record_id makes an INSERT wait for the transaction that     *)
(* has inserted the same value.  A failed flush rolls the transaction back  *)
(* at once and leaves the SQLAlchemy session refusing every statement, the  *)
(* COMMIT included.                                                         *)
(***************************************************************************)
EXTENDS Naturals, Sequences, SequencesExt

CONSTANTS Requests,     \* HTTP requests, each used once (bound)
          CrmRecordIds, \* values of crm_record_id
          MaxEvents,    \* events of a batch, 500 in the code (bound)
          MaxFailures,  \* failing audit INSERTs, lost connections (bound)
          None

ASSUME ConstantsAssumption == MaxEvents \in Nat \ {0} /\ MaxFailures \in Nat

VARIABLES table,   \* table integration.crm_inbound_events: rows by their insert
          tx,      \* the transaction of each request
          failures \* failures so far (bound)

vars == <<table, tx, failures>>

\* fits: no value is longer than its column, which the schemas do not check.
Event == [crmRecordId : CrmRecordIds \cup {None}, fits : BOOLEAN]

Indices == 1..MaxEvents
Row == [req : Requests, index : Indices, crmRecordId : CrmRecordIds \cup {None}]

\* next: the event being processed; added: events flushed and not committed.
Transaction ==
  [kind : {"single", "batch"}, events : BoundedSeq(Event, MaxEvents),
   pc : {"new", "exists", "reread", "insert", "audit", "commit", "done"},
   next : 1..(MaxEvents + 1), added : SUBSET Indices, accepted : SUBSET Indices,
   aborted : BOOLEAN, answer : {"none", "ok", "conflict", "error"}]

NoTransaction == [kind |-> "single", events |-> <<>>, pc |-> "new", next |-> 1,
                  added |-> {}, accepted |-> {}, aborted |-> FALSE, answer |-> "none"]

TypeOK ==
  /\ table \subseteq Row
  /\ tx \in [Requests -> Transaction]
  /\ failures \in 0..MaxFailures

Init ==
  /\ table = {}
  /\ tx = [r \in Requests |-> NoTransaction]
  /\ failures = 0

-----------------------------------------------------------------------------
At(r, pc) == tx[r].pc = pc
Id(r) == tx[r].events[tx[r].next].crmRecordId
Rows(r) == {[req |-> r, index |-> i, crmRecordId |-> tx[r].events[i].crmRecordId] :
              i \in tx[r].added}

Registered(id) == \E row \in table : row.crmRecordId = id
Holds(r, id) == id # None /\ \E row \in Rows(r) : row.crmRecordId = id
Visible(r, id) == Registered(id) \/ Holds(r, id)

Waits(r, q) == At(r, "insert") /\ q # r /\ Holds(q, Id(r))

Becomes(r, t) == tx' = [tx EXCEPT ![r] = t]

\* The next event of the batch, or the audit record.
Advance(t) == [t EXCEPT !.next = @ + 1,
                        !.pc = IF t.next = Len(t.events) THEN "audit" ELSE "exists"]

Accept(t) == Advance([t EXCEPT !.accepted = @ \cup {t.next}])

End(t, answer) == [t EXCEPT !.pc = "done", !.added = {}, !.answer = answer]

\* Mutant: the batch loop processes a rejected event again.
RejectAgain(t, answer) ==
  IF t.kind = "batch" THEN [t EXCEPT !.pc = "exists"] ELSE End(t, answer)

\* Mutant: the batch loop rolls the session back to go on.
RejectAndRollback(t, answer) ==
  IF t.kind = "batch" THEN Advance([t EXCEPT !.added = {}, !.aborted = FALSE])
                      ELSE End(t, answer)

\* Mutant: the batch loop skips the event after a rejected one.
RejectAndSkip(t, answer) ==
  IF t.kind = "batch"
  THEN [t EXCEPT !.next = @ + 2, !.pc = IF t.next + 2 > Len(t.events) THEN "audit" ELSE "exists"]
  ELSE End(t, answer)

\* An exception of process_inbound_event: the batch loop counts the event as
\* rejected and goes on, a single event ends with the answer given.
Reject(t, answer) == IF t.kind = "batch" THEN Advance(t) ELSE End(t, answer)

FlushFails(t) == Reject([t EXCEPT !.added = {}, !.aborted = TRUE], "error")

-----------------------------------------------------------------------------
Receive(r, kind, events) ==
  /\ At(r, "new")
  /\ events # <<>>
  /\ kind = "single" => Len(events) = 1
  /\ Becomes(r, [NoTransaction EXCEPT !.kind = kind, !.events = events, !.pc = "exists"])
  /\ UNCHANGED <<table, failures>>

\* event_exists_by_crm_id; a request without crm_record_id skips the check.
EventExists(r) ==
  /\ At(r, "exists") /\ ~tx[r].aborted
  /\ Becomes(r, IF Visible(r, Id(r)) /\ Id(r) # None THEN Reject(tx[r], "conflict")
                ELSE [tx[r] EXCEPT !.pc = IF Id(r) = None THEN "insert" ELSE "reread"])
  /\ UNCHANGED <<table, failures>>

\* A session whose flush has failed refuses the SELECT (or the INSERT).
SessionRefuses(r) ==
  /\ At(r, "exists") /\ tx[r].aborted
  /\ Becomes(r, Reject(tx[r], "error"))
  /\ UNCHANGED <<table, failures>>

\* create_inbound_event reads again and returns the row it finds.
GetInboundEvent(r) ==
  /\ At(r, "reread")
  /\ Becomes(r, IF Visible(r, Id(r)) THEN Accept(tx[r]) ELSE [tx[r] EXCEPT !.pc = "insert"])
  /\ UNCHANGED <<table, failures>>

\* Mutant: the column has no unique index.
InsertWithoutIndex(r) ==
  /\ At(r, "insert")
  /\ LET t == tx[r]
     IN  Becomes(r, IF t.events[t.next].fits THEN Accept([t EXCEPT !.added = @ \cup {t.next}])
                    ELSE FlushFails(t))
  /\ UNCHANGED <<table, failures>>

\* Mutant: every event is committed on its own.
InsertAndCommit(r) ==
  /\ At(r, "insert")
  /\ LET t == tx[r]
         stored == t.events[t.next].fits /\ (Id(r) = None \/ ~Registered(Id(r)))
     IN  /\ Becomes(r, IF stored THEN Accept(t) ELSE FlushFails(t))
         /\ table' = IF stored
                     THEN table \cup {[req |-> r, index |-> t.next, crmRecordId |-> Id(r)]}
                     ELSE table
  /\ UNCHANGED failures

\* INSERT and flush, once no other transaction holds the same crm_record_id.
InsertEvent(r) ==
  /\ At(r, "insert") /\ \A q \in Requests : ~Waits(r, q)
  /\ LET t == tx[r]
         stored == t.events[t.next].fits /\ (Id(r) = None \/ ~Registered(Id(r)))
     IN  Becomes(r, IF stored THEN Accept([t EXCEPT !.added = @ \cup {t.next}])
                    ELSE FlushFails(t))
  /\ UNCHANGED <<table, failures>>

\* PostgreSQL aborts one transaction of a cycle of waiting ones.
Deadlocked(r) ==
  \E S \in SUBSET Requests :
    /\ r \in S
    /\ \A s \in S : \E q \in S : Waits(s, q)
    /\ \A q \in S : \E s \in S : Waits(s, q)

DeadlockVictim(r) ==
  /\ Deadlocked(r)
  /\ Becomes(r, FlushFails(tx[r]))
  /\ UNCHANGED <<table, failures>>

\* AuditService.log in the session of the request; it swallows every exception.
AuditLog(r) ==
  /\ At(r, "audit")
  /\ Becomes(r, [tx[r] EXCEPT !.pc = "commit"])
  /\ UNCHANGED <<table, failures>>

AuditLogFails(r) ==
  /\ At(r, "audit") /\ ~tx[r].aborted /\ failures < MaxFailures
  /\ failures' = failures + 1
  /\ Becomes(r, [tx[r] EXCEPT !.pc = "commit", !.added = {}, !.aborted = TRUE])
  /\ UNCHANGED table

\* Mutant: the answer is sent before the commit.
AnswerThenCommit(r) ==
  /\ At(r, "commit")
  /\ table' = table \cup Rows(r)
  /\ Becomes(r, End(tx[r], "ok"))
  /\ UNCHANGED failures

\* get_db commits and the answer is sent; a refused COMMIT, which stores nothing,
\* is answered with 500.
Commit(r) ==
  /\ At(r, "commit")
  /\ table' = table \cup Rows(r)
  /\ Becomes(r, End(tx[r], IF tx[r].aborted THEN "error" ELSE "ok"))
  /\ UNCHANGED failures

\* The connection is lost after the COMMIT took effect and before its
\* acknowledgement: get_db raises, and the answer is a 500 or none at all.
CommitUnanswered(r) ==
  /\ At(r, "commit") /\ ~tx[r].aborted /\ failures < MaxFailures
  /\ failures' = failures + 1
  /\ table' = table \cup Rows(r)
  /\ Becomes(r, End(tx[r], "error"))

\* The connection or the API process is lost before the COMMIT takes effect.
Die(r) ==
  /\ ~At(r, "new") /\ ~At(r, "done") /\ failures < MaxFailures
  /\ failures' = failures + 1
  /\ Becomes(r, End(tx[r], "error"))
  /\ UNCHANGED table

-----------------------------------------------------------------------------
Step(r) ==
  \/ EventExists(r) \/ SessionRefuses(r) \/ GetInboundEvent(r) \/ InsertEvent(r)
  \/ DeadlockVictim(r) \/ AuditLog(r) \/ Commit(r)

Next ==
  \E r \in Requests :
    \/ \E kind \in {"single", "batch"}, events \in BoundedSeq(Event, MaxEvents) :
         Receive(r, kind, events)
    \/ Step(r) \/ AuditLogFails(r) \/ CommitUnanswered(r) \/ Die(r)

Spec == Init /\ [][Next]_vars

\* A request keeps running; PostgreSQL looks for deadlocks when a wait lasts.
Fairness == \A r \in Requests : WF_vars(Step(r))

FairSpec == Spec /\ Fairness

-----------------------------------------------------------------------------
Events(r) == 1..Len(tx[r].events)
IdAt(r, i) == tx[r].events[i].crmRecordId

\* crm_record_id identifies a stored event, although the check, the second read
\* and the INSERT of two requests interleave (crm_service.py:22-36).
RecordsAreUnique ==
  \A row, other \in table :
    row.crmRecordId = other.crmRecordId /\ row.crmRecordId # None => row = other

\* An answer 201 or 207 is true: every event counted as accepted is stored, by
\* this request or, for a crm_record_id, by another (crm_service.py:47-64).
AcceptedEventsAreStored ==
  \A r \in Requests : tx[r].answer = "ok" =>
    \A i \in tx[r].accepted :
      \/ [req |-> r, index |-> i, crmRecordId |-> IdAt(r, i)] \in table
      \/ IdAt(r, i) # None /\ Registered(IdAt(r, i))

\* An event that a 207 reports as rejected, or a 409 refuses, is stored already:
\* the CRM need not send it again (crm_service.py:24-28, 51-57).
RejectedEventsAreDuplicates ==
  \A r \in Requests : tx[r].answer \in {"ok", "conflict"} =>
    \A i \in Events(r) \ tx[r].accepted : IdAt(r, i) # None /\ Registered(IdAt(r, i))

StoresNothing(r) == \A row \in table : row.req # r

StoredWhole(r) ==
  \A i \in Events(r) :
    \/ [req |-> r, index |-> i, crmRecordId |-> IdAt(r, i)] \in table
    \/ IdAt(r, i) # None /\ Registered(IdAt(r, i))

\* A request that ends with an error has stored nothing, or everything when its
\* COMMIT took effect unseen; never a part of its events.  A conflict stores
\* nothing (db/session.py:25-34, crm_service.py:42-64).
RefusedRequestsStoreAllOrNothing ==
  \A r \in Requests :
    /\ tx[r].answer = "conflict" => StoresNothing(r)
    /\ tx[r].answer = "error" => StoresNothing(r) \/ StoredWhole(r)

\* Every request is answered, also when batches insert the same ids in
\* different orders and wait for each other.
RequestsAreAnswered == \A r \in Requests : ~At(r, "new") ~> At(r, "done")

-----------------------------------------------------------------------------
\* What a comment promises and the code does not keep.

\* app/services/audit_service.py:4-5, the audit log does not interrupt the
\* application's flow: a request with every event accepted is not refused.
AuditDoesNotInterrupt ==
  \A r \in Requests :
    At(r, "commit") /\ tx[r].accepted = Events(r) => ~tx[r].aborted
=============================================================================
