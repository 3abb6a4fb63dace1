------------------------------ MODULE CrmOutbound ------------------------------
(***************************************************************************)
(* Export jobs to the CRM: CrmService.create_outbound_export and           *)
(* get_outbound_status (app/services/crm_service.py), the Celery task      *)
(* export_to_crm (app/workers/tasks.py) and the broker settings it runs    *)
(* under (app/workers/celery_app.py).                                      *)
(*                                                                         *)
(* The API inserts the job, publishes the task and only then commits.  A   *)
(* worker keeps its message unacknowledged until the task returns          *)
(* (acks_late), so a message comes back when the worker dies or when Redis' *)
(* visibility timeout ends before the task does.                           *)
(***************************************************************************)
EXTENDS Naturals, FiniteSets

CONSTANTS Jobs, Workers, None,
          MaxClients,      \* largest number of rows the search finds (bound)
          PageSize,        \* page_size of the task, 500 in the code
          MaxRetries,      \* max_retries of the task, 4 in the code
          MaxFaults,       \* exceptions raised inside the task (bound)
          MaxCrashes,      \* workers lost (bound)
          MaxRedeliveries  \* visibility timeouts that run out (bound)

ASSUME ConstantsAssumption ==
  /\ PageSize \in Nat \ {0}
  /\ {MaxClients, MaxRetries, MaxFaults, MaxCrashes, MaxRedeliveries} \subseteq Nat

VARIABLES clients,   \* rows of final_visao_cliente, the same for every job
          job,       \* table integration.crm_outbound_jobs, committed rows
          api,       \* the POST /export request that creates each job
          queue,     \* messages of the crm_outbound queue
          worker,    \* the task each worker executes
          delivered, \* pages of each job the CRM has received
          lost,      \* why no task may be left for a job (history)
          used       \* faults, crashes and redeliveries so far (bound)

vars == <<clients, job, api, queue, worker, delivered, lost, used>>

\* status "none": no committed row.
CrmOutboundJob == [status : {"none", "pending", "running", "sent", "failed"},
                   total : 0..MaxClients, sent : 0..MaxClients, finished : BOOLEAN]

\* copy tells redelivered messages of the same task apart.
Message == [job : Jobs, retries : 0..MaxRetries, copy : 0..(MaxCrashes + MaxRedeliveries)]

Task == [msg : Message \cup {None},
         pc : {"idle", "load", "search", "send", "progress", "finish", "handler",
               "raise", "ack"},
         page : 1..(MaxClients + 1), sent : 0..MaxClients, aborted : BOOLEAN]

IdleTask == [msg |-> None, pc |-> "idle", page |-> 1, sent |-> 0, aborted |-> FALSE]

Reasons == {"notQueued", "notFound", "failureNotSaved"}

TypeOK ==
  /\ clients \in 0..MaxClients
  /\ job \in [Jobs -> CrmOutboundJob]
  /\ api \in [Jobs -> {"new", "inserted", "published", "committed", "rolledBack"}]
  /\ queue \subseteq Message
  /\ worker \in [Workers -> Task]
  /\ delivered \in [Jobs -> SUBSET (1..(MaxClients + 1))]
  /\ lost \in [Jobs -> SUBSET Reasons]
  /\ used \in [faults : 0..MaxFaults, crashes : 0..MaxCrashes,
               redeliveries : 0..MaxRedeliveries]

-----------------------------------------------------------------------------
Init ==
  /\ clients \in 0..MaxClients
  /\ job = [j \in Jobs |->
              [status |-> "none", total |-> 0, sent |-> 0, finished |-> FALSE]]
  /\ api = [j \in Jobs |-> "new"]
  /\ queue = {}
  /\ worker = [w \in Workers |-> IdleTask]
  /\ delivered = [j \in Jobs |-> {}]
  /\ lost = [j \in Jobs |-> {}]
  /\ used = [faults |-> 0, crashes |-> 0, redeliveries |-> 0]

-----------------------------------------------------------------------------
\* create_outbound_export: INSERT and flush, export_to_crm.delay, COMMIT.
CreateJob(j) ==
  /\ api[j] = "new"
  /\ api' = [api EXCEPT ![j] = "inserted"]
  /\ UNCHANGED <<clients, job, queue, worker, delivered, lost, used>>

PublishTask(j) ==
  /\ api[j] = "inserted"
  /\ api' = [api EXCEPT ![j] = "published"]
  /\ queue' = queue \cup {[job |-> j, retries |-> 0, copy |-> 0]}
  /\ UNCHANGED <<clients, job, worker, delivered, lost, used>>

\* Redis is offline: the exception is swallowed and the job stays pending.
PublishFails(j) ==
  /\ api[j] = "inserted"
  /\ api' = [api EXCEPT ![j] = "published"]
  /\ lost' = [lost EXCEPT ![j] = @ \cup {"notQueued"}]
  /\ UNCHANGED <<clients, job, queue, worker, delivered, used>>

CommitJob(j) ==
  /\ api[j] = "published"
  /\ api' = [api EXCEPT ![j] = "committed"]
  /\ job' = [job EXCEPT ![j].status = "pending"]
  /\ UNCHANGED <<clients, queue, worker, delivered, lost, used>>

\* The request fails after the flush: the row never becomes visible.
RollbackJob(j) ==
  /\ api[j] \in {"inserted", "published"}
  /\ api' = [api EXCEPT ![j] = "rolledBack"]
  /\ UNCHANGED <<clients, job, queue, worker, delivered, lost, used>>

-----------------------------------------------------------------------------
Busy(w, pc) == worker[w].pc = pc
JobOf(w) == worker[w].msg.job
Goto(w, pc) == worker' = [worker EXCEPT ![w].pc = pc]

\* The OFFSET of a page.
RowsBefore(p) == (p - 1) * PageSize

\* Rows that search(page, page_size) returns.
PageItems(p) ==
  IF clients <= RowsBefore(p) THEN 0
  ELSE IF clients - RowsBefore(p) < PageSize THEN clients - RowsBefore(p) ELSE PageSize

Pages == {p \in 1..(MaxClients + 1) : PageItems(p) > 0}

\* prefetch 1: a worker takes a message when it is idle.  Retries carry a
\* countdown, so the queue is not first in, first out.
TakeMessage(w, m) ==
  /\ Busy(w, "idle") /\ m \in queue
  /\ queue' = queue \ {m}
  /\ worker' = [worker EXCEPT ![w] = [IdleTask EXCEPT !.msg = m, !.pc = "load"]]
  /\ UNCHANGED <<clients, job, api, delivered, lost, used>>

\* No visible row: the task logs and returns, which acknowledges the message.
JobNotFound(w) ==
  /\ Busy(w, "load") /\ job[JobOf(w)].status = "none"
  /\ lost' = [lost EXCEPT ![JobOf(w)] = @ \cup {"notFound"}]
  /\ Goto(w, "ack")
  /\ UNCHANGED <<clients, job, api, queue, delivered, used>>

\* Mutant: a job that is already running is taken for one in good hands.
MarkRunningOnce(w) ==
  /\ Busy(w, "load") /\ job[JobOf(w)].status # "none"
  /\ IF job[JobOf(w)].status = "running"
     THEN Goto(w, "ack") /\ UNCHANGED job
     ELSE Goto(w, "search") /\ job' = [job EXCEPT ![JobOf(w)].status = "running"]
  /\ UNCHANGED <<clients, api, queue, delivered, lost, used>>

MarkRunning(w) ==
  /\ Busy(w, "load") /\ job[JobOf(w)].status # "none"
  /\ job' = [job EXCEPT ![JobOf(w)].status = "running"]
  /\ Goto(w, "search")
  /\ UNCHANGED <<clients, api, queue, delivered, lost, used>>

\* The first page also stores total_records; an empty page ends the loop.
SearchPage(w) ==
  /\ Busy(w, "search")
  /\ IF PageItems(worker[w].page) = 0
     THEN Goto(w, "finish") /\ UNCHANGED job
     ELSE /\ Goto(w, "send")
          /\ job' = IF worker[w].page = 1
                    THEN [job EXCEPT ![JobOf(w)].total = clients] ELSE job
  /\ UNCHANGED <<clients, api, queue, delivered, lost, used>>

\* Mutant: the counter grows by page_size instead of len(items).
SendBatchCountsPage(w) ==
  /\ Busy(w, "send")
  /\ delivered' = [delivered EXCEPT ![JobOf(w)] = @ \cup {worker[w].page}]
  /\ worker' = [worker EXCEPT ![w].pc = "progress", ![w].sent = @ + PageSize]
  /\ UNCHANGED <<clients, job, api, queue, lost, used>>

SendBatch(w) ==
  /\ Busy(w, "send")
  /\ delivered' = [delivered EXCEPT ![JobOf(w)] = @ \cup {worker[w].page}]
  /\ worker' = [worker EXCEPT ![w].pc = "progress",
                              ![w].sent = @ + PageItems(worker[w].page)]
  /\ UNCHANGED <<clients, job, api, queue, lost, used>>

SaveProgress(w) ==
  /\ Busy(w, "progress")
  /\ job' = [job EXCEPT ![JobOf(w)].sent = worker[w].sent]
  /\ IF PageItems(worker[w].page) < PageSize
     THEN Goto(w, "finish")
     ELSE worker' = [worker EXCEPT ![w].pc = "search", ![w].page = @ + 1]
  /\ UNCHANGED <<clients, api, queue, delivered, lost, used>>

\* _send_batch_to_crm reports no failed record, so final_status is "sent".
FinishJob(w) ==
  /\ Busy(w, "finish")
  /\ job' = [job EXCEPT ![JobOf(w)].status = "sent", ![JobOf(w)].finished = TRUE]
  /\ Goto(w, "ack")
  /\ UNCHANGED <<clients, api, queue, delivered, lost, used>>

-----------------------------------------------------------------------------
UsesDatabase == {"search", "progress", "finish"}

\* Mutant: _send_batch_to_crm swallows its HTTP errors.
SendFaultSwallowed(w) ==
  /\ Busy(w, "send") /\ used.faults < MaxFaults
  /\ used' = [used EXCEPT !.faults = @ + 1]
  /\ Goto(w, "progress")
  /\ UNCHANGED <<clients, job, api, queue, delivered, lost>>

\* An exception inside the try block.  One the database raised leaves the
\* session in an aborted transaction, which nothing rolls back.
TryBlockFault(w) ==
  /\ worker[w].pc \in UsesDatabase \cup {"send"} /\ used.faults < MaxFaults
  /\ used' = [used EXCEPT !.faults = @ + 1]
  /\ \E aborted \in IF worker[w].pc \in UsesDatabase THEN BOOLEAN ELSE {FALSE} :
       worker' = [worker EXCEPT ![w].pc = "handler", ![w].aborted = aborted]
  /\ UNCHANGED <<clients, job, api, queue, delivered, lost>>

\* An exception outside the try block, or in its handler, goes to Celery.
UncaughtFault(w) ==
  /\ worker[w].pc \in {"load", "handler"} /\ used.faults < MaxFaults
  /\ used' = [used EXCEPT !.faults = @ + 1]
  /\ Goto(w, "raise")
  /\ UNCHANGED <<clients, job, api, queue, delivered, lost>>

\* The handler's UPDATE is refused in an aborted transaction.
HandlerRefused(w) ==
  /\ Busy(w, "handler") /\ worker[w].aborted
  /\ Goto(w, "raise")
  /\ UNCHANGED <<clients, job, api, queue, delivered, lost, used>>

SaveFailure(w) ==
  /\ Busy(w, "handler") /\ ~worker[w].aborted
  /\ job' = [job EXCEPT ![JobOf(w)].status = "failed", ![JobOf(w)].finished = TRUE]
  /\ Goto(w, "raise")
  /\ UNCHANGED <<clients, api, queue, delivered, lost, used>>

\* Mutant: no limit on the attempts.
RetryForEver(w) ==
  /\ Busy(w, "raise")
  /\ queue' = queue \cup {[worker[w].msg EXCEPT !.retries = @ + 1]}
  /\ Goto(w, "ack")
  /\ UNCHANGED <<clients, job, api, delivered, lost, used>>

\* autoretry_for publishes the next attempt before the message is acknowledged.
Retry(w) ==
  /\ Busy(w, "raise") /\ worker[w].msg.retries < MaxRetries
  /\ queue' = queue \cup {[worker[w].msg EXCEPT !.retries = @ + 1]}
  /\ Goto(w, "ack")
  /\ UNCHANGED <<clients, job, api, delivered, lost, used>>

\* The last attempt failed: no queue is declared for dead letters.
GiveUp(w) ==
  /\ Busy(w, "raise") /\ worker[w].msg.retries = MaxRetries
  /\ lost' = IF job[JobOf(w)].status = "failed" THEN lost
             ELSE [lost EXCEPT ![JobOf(w)] = @ \cup {"failureNotSaved"}]
  /\ Goto(w, "ack")
  /\ UNCHANGED <<clients, job, api, queue, delivered, used>>

Acknowledge(w) ==
  /\ Busy(w, "ack")
  /\ worker' = [worker EXCEPT ![w] = IdleTask]
  /\ UNCHANGED <<clients, job, api, queue, delivered, lost, used>>

Requeued(w) == [worker[w].msg EXCEPT !.copy = used.crashes + used.redeliveries + 1]

\* Mutant: the message was acknowledged when it was received.
WorkerLostAfterEarlyAck(w) ==
  /\ ~Busy(w, "idle") /\ used.crashes < MaxCrashes
  /\ used' = [used EXCEPT !.crashes = @ + 1]
  /\ worker' = [worker EXCEPT ![w] = IdleTask]
  /\ UNCHANGED <<clients, job, api, queue, delivered, lost>>

\* task_reject_on_worker_lost: the message goes back to the queue.
WorkerLost(w) ==
  /\ ~Busy(w, "idle") /\ used.crashes < MaxCrashes
  /\ used' = [used EXCEPT !.crashes = @ + 1]
  /\ queue' = queue \cup {Requeued(w)}
  /\ worker' = [worker EXCEPT ![w] = IdleTask]
  /\ UNCHANGED <<clients, job, api, delivered, lost>>

\* Redis delivers an unacknowledged message again while its task still runs.
VisibilityTimeout(w) ==
  /\ ~Busy(w, "idle") /\ used.redeliveries < MaxRedeliveries
  /\ used' = [used EXCEPT !.redeliveries = @ + 1]
  /\ queue' = queue \cup {Requeued(w)}
  /\ UNCHANGED <<clients, job, api, worker, delivered, lost>>

-----------------------------------------------------------------------------
ApiStep(j) == PublishTask(j) \/ PublishFails(j) \/ CommitJob(j)

WorkerStep(w) ==
  \/ JobNotFound(w) \/ MarkRunning(w) \/ SearchPage(w) \/ SendBatch(w)
  \/ SaveProgress(w) \/ FinishJob(w) \/ HandlerRefused(w) \/ SaveFailure(w)
  \/ Retry(w) \/ GiveUp(w) \/ Acknowledge(w)

WorkerFails(w) ==
  TryBlockFault(w) \/ UncaughtFault(w) \/ WorkerLost(w) \/ VisibilityTimeout(w)

Next ==
  \/ \E j \in Jobs : CreateJob(j) \/ ApiStep(j) \/ RollbackJob(j)
  \/ \E w \in Workers : WorkerStep(w) \/ WorkerFails(w)
  \/ \E w \in Workers, m \in queue : TakeMessage(w, m)

Spec == Init /\ [][Next]_vars

\* A request that has begun is finished; a running task goes on, its database
\* calls return or raise; an idle worker takes some message of the queue.
Fairness ==
  /\ \A j \in Jobs : WF_vars(ApiStep(j))
  /\ \A w \in Workers : WF_vars(WorkerStep(w))
  /\ WF_vars(\E w \in Workers, m \in queue : TakeMessage(w, m))

FairSpec == Spec /\ Fairness

-----------------------------------------------------------------------------
HasTask(j) ==
  \/ \E m \in queue : m.job = j
  \/ \E w \in Workers : worker[w].pc # "idle" /\ worker[w].msg.job = j

\* An unfinished job has a task that will work on it, except for the ways of
\* losing it the code has: publishing failed, the task ran before the commit,
\* or the failure of the last attempt could not be stored.  Crashes, retries
\* and redeliveries lose no job (celery_app.py:32-34, tasks.py:39-48).
UnfinishedJobsHaveTasks ==
  \A j \in Jobs :
    job[j].status \in {"pending", "running"} => HasTask(j) \/ lost[j] # {}

\* A job is "sent" only if the CRM has received every page, whichever attempt
\* or redelivered copy of the task stored the status (tasks.py:104-141).
SentMeansDelivered ==
  \A j \in Jobs : job[j].status = "sent" => Pages \subseteq delivered[j]

\* As long as no message came back to the queue, a "sent" job reports the rows
\* that were found and sent in the attempt that finished it, whatever earlier
\* attempts had stored (tasks.py:98-141).  Two copies of a task overwrite each
\* other's counters.
SentCountersAgree ==
  used.redeliveries = 0 /\ used.crashes = 0 =>
    \A j \in Jobs : job[j].status = "sent" => job[j].total = clients /\ job[j].sent = clients

\* Every committed job settles: it is sent or failed for good, or it was lost
\* in one of the three ways (tasks.py:39-48).
JobsSettle ==
  \A j \in Jobs :
    job[j].status # "none" ~>
      (job[j].status \in {"sent", "failed"} /\ ~HasTask(j)) \/ lost[j] # {}

-----------------------------------------------------------------------------
\* What a docstring promises and the code does not keep.

\* app/workers/tasks.py:58, the job is FAILED after max_retries: when Celery gives
\* up a job that an attempt has begun, the row does not say that it is running.
ExhaustedJobsDoNotRun ==
  [][\A w \in Workers : GiveUp(w) => job[JobOf(w)].status # "running"]_vars
=============================================================================
