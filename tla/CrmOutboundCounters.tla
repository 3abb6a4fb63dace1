--------------------------- MODULE CrmOutboundCounters ---------------------------
(***************************************************************************)
(* The counters of an export job, total_records and sent_records           *)
(* (app/workers/tasks.py:98-141), in runs in which no message came back to *)
(* the queue: the theorem behind CrmOutbound's SentCountersAgree, for any  *)
(* number of jobs, workers, rows, retries and faults.  The invariant says  *)
(* what CrmOutboundProofs' one does not: a job has one task at a time, and *)
(* its row holds what that task has counted.                               *)
(***************************************************************************)
EXTENDS CrmOutboundProofs

\* No worker was lost and no visibility timeout ran out.
Calm == used.redeliveries = 0 /\ used.crashes = 0

\* The worker executes a task that has not returned.
Active(w) == worker[w].pc \notin {"idle", "ack"}

\* The task of a job is one message or is executed by one worker.
OneTask(j) ==
  /\ \A m \in queue : \A n \in queue : m.job = j /\ n.job = j => m = n
  /\ \A v \in Workers : \A w \in Workers :
       Active(v) /\ Active(w) /\ JobOf(v) = j /\ JobOf(w) = j => v = w
  /\ \A m \in queue : \A w \in Workers : ~(m.job = j /\ Active(w) /\ JobOf(w) = j)

\* The stored counters are those of the pages before the task's own.
RowOfTask(w) ==
  LET t == worker[w]
      r == job[JobOf(w)]
  IN  /\ t.pc = "search" /\ t.page > 1 => r.total = clients /\ r.sent = RowsBefore(t.page)
      /\ t.pc \in {"send", "progress"} => r.total = clients
      /\ t.pc = "finish" => r.total = clients /\ r.sent = clients

RowOfSentJob(j) ==
  job[j].status = "sent" =>
    /\ ~Working(j)
    /\ job[j].total = clients /\ job[j].sent = clients

\* Counters are never larger than the number of rows.
CountersBounded(j) == job[j].total <= clients /\ job[j].sent <= clients

CInv ==
  /\ \A j \in Jobs : CountersBounded(j)
  /\ Calm => /\ \A j \in Jobs : OneTask(j) /\ RowOfSentJob(j)
             /\ \A w \in Workers : RowOfTask(w)

-----------------------------------------------------------------------------
\* A step of the one task of a job, which counts, stores or returns: the rows and
\* tasks of the other jobs are as they were.
LEMMA TaskStep ==
  ASSUME IInv, CInv, NEW w \in Workers, Active(w),
         UNCHANGED <<clients, queue>>, Calm' => Calm,
         worker'[w].pc # "idle", worker'[w].msg = worker[w].msg,
         \A q \in Workers \ {w} : worker'[q] = worker[q],
         \A j \in Jobs \ {JobOf(w)} : job'[j] = job[j],
         CountersBounded(JobOf(w))', Calm => RowOfTask(w)',
         Calm /\ job'[JobOf(w)].status = "sent" =>
           /\ worker'[w].pc = "ack"
           /\ job'[JobOf(w)].total = clients /\ job'[JobOf(w)].sent = clients
  PROVE  CInv'
  <1>i. PICK i \in Jobs : i = JobOf(w)
    BY BusyWorker DEF Active
  <1>1. \A v \in Workers : Active(v)' => Active(v) /\ worker'[v].msg = worker[v].msg
    BY DEF Active
  <1>2. \A j \in Jobs : CountersBounded(j)'
    BY <1>i DEF CInv, CountersBounded, JobOf
  <1> SUFFICES ASSUME Calm'
               PROVE  /\ \A j \in Jobs : OneTask(j)' /\ RowOfSentJob(j)'
                      /\ \A v \in Workers : RowOfTask(v)'
    BY <1>2 DEF CInv
  <1>3. Calm /\ (\A j \in Jobs : OneTask(j) /\ RowOfSentJob(j)) /\ \A v \in Workers : RowOfTask(v)
    BY DEF CInv
  <1>4. \A j \in Jobs : OneTask(j)'
    BY <1>1, <1>3 DEF OneTask, JobOf
  <1>5. ASSUME NEW v \in Workers PROVE RowOfTask(v)'
    <2>1. CASE v = w
      BY <1>3, <2>1
    <2>2. CASE v # w /\ Active(v)
      <3>1. JobOf(v) # i /\ worker'[v] = worker[v]
        BY <1>i, <1>3, <2>2 DEF OneTask
      <3>2. JobOf(v) \in Jobs
        BY <2>2, BusyWorker DEF Active
      <3>3. job'[JobOf(v)] = job[JobOf(v)] /\ JobOf(v)' = JobOf(v) /\ RowOfTask(v)
        BY <1>i, <1>3, <3>1, <3>2 DEF JobOf
      <3>4. QED BY <3>1, <3>3 DEF RowOfTask, RowsBefore
    <2>3. CASE v # w /\ ~Active(v)
      BY <2>3 DEF Active, RowOfTask
    <2>4. QED BY <2>1, <2>2, <2>3
  <1>6. ASSUME NEW j \in Jobs, job'[j].status = "sent"
        PROVE  /\ ~Working(j)' /\ job'[j].total = clients /\ job'[j].sent = clients
    <2>1. CASE j # i
      <3>1. job'[j] = job[j] /\ job[j].status = "sent" /\ RowOfSentJob(j)
        BY <1>3, <1>6, <1>i, <2>1
      <3>2. ~Working(j)
        BY <3>1 DEF RowOfSentJob
      <3>3. ~Working(j)'
        BY <1>1, <3>2 DEF Working, Active
      <3>4. QED BY <3>1, <3>3 DEF RowOfSentJob
    <2>2. CASE j = i
      <3>1. worker'[w].pc = "ack" /\ job'[j].total = clients /\ job'[j].sent = clients
        BY <1>3, <1>6, <1>i, <2>2
      <3>2. \A m \in queue : m.job # i
        BY <1>3, <1>i DEF OneTask
      <3>3. \A v \in Workers : Active(v)' => JobOf(v)' # i
        BY <1>1, <1>3, <1>i, <3>1 DEF OneTask, JobOf, Active
      <3>4. ~Working(j)'
        BY <2>2, <3>2, <3>3 DEF Working, Active, JobOf
      <3>5. QED BY <3>1, <3>4
    <2>3. QED BY <2>1, <2>2
  <1>7. QED BY <1>4, <1>5, <1>6 DEF RowOfSentJob

\* What the two invariants say of the counters of an active task.
LEMMA CountersOfTask ==
  ASSUME IInv, CInv, NEW w \in Workers, Active(w)
  PROVE  /\ worker[w] \in Task /\ worker[w].msg \in Message
         /\ JobOf(w) \in Jobs /\ job[JobOf(w)] \in CrmOutboundJob
         /\ worker \in [Workers -> Task] /\ job \in [Jobs -> CrmOutboundJob]
         /\ clients \in Nat /\ worker[w].page \in Nat \ {0}
         /\ WorkerOK(w) /\ CountersBounded(JobOf(w)) /\ (Calm => RowOfTask(w))
         /\ Calm => job[JobOf(w)].status # "sent"
  <1>1. worker[w].pc # "idle" /\ JobOf(w) \in Jobs
    BY BusyWorker DEF Active
  <1>2. Working(JobOf(w))
    BY DEF Working, Active, JobOf
  <1>3. Calm => job[JobOf(w)].status # "sent"
    BY <1>1, <1>2 DEF CInv, RowOfSentJob
  <1>4. QED BY <1>1, <1>3, BusyWorker DEF IInv, CInv

\* The total is stored with the first page; a page that is empty ends a task whose
\* counters are complete.
LEMMA SearchCounts ==
  ASSUME IInv, CInv, NEW w \in Workers, SearchPage(w)
  PROVE  CInv'
  <1>1. worker[w].pc = "search" /\ Active(w) /\ UNCHANGED <<clients, queue, used>>
    BY DEF SearchPage, Busy, Active
  <1>2. WorkerOK(w) /\ (Calm => RowOfTask(w)) /\ CountersBounded(JobOf(w))
    BY <1>1, CountersOfTask
  <1> DEFINE t == worker[w]
             empty == PageItems(t.page) = 0
             pc == IF empty THEN "finish" ELSE "send"
             row == IF ~empty /\ t.page = 1 THEN [job[JobOf(w)] EXCEPT !.total = clients]
                                            ELSE job[JobOf(w)]
  <1>3. worker' = [worker EXCEPT ![w].pc = pc] /\ job' = [job EXCEPT ![JobOf(w)] = row]
    <2>1. worker' = [worker EXCEPT ![w].pc = pc]
      BY DEF SearchPage, Goto
    <2>2. job' = [job EXCEPT ![JobOf(w)] = row]
      BY <1>1, CountersOfTask DEF SearchPage
    <2>3. QED BY <2>1, <2>2
  <1>4. /\ worker'[w].pc = pc /\ worker'[w].msg = t.msg /\ worker'[w].page = t.page
        /\ \A q \in Workers \ {w} : worker'[q] = worker[q]
        /\ job'[JobOf(w)] = row /\ \A j \in Jobs \ {JobOf(w)} : job'[j] = job[j]
    <2>1. worker \in [Workers -> Task] /\ job \in [Jobs -> CrmOutboundJob] /\ JobOf(w) \in Jobs
      BY <1>1, CountersOfTask
    <2>2. QED BY <1>3, <2>1 DEF Task
  <1>5. /\ row.status = job[JobOf(w)].status /\ row.sent = job[JobOf(w)].sent
        /\ row.total \in {clients, job[JobOf(w)].total}
        /\ ~empty /\ t.page = 1 => row.total = clients
        /\ ~(~empty /\ t.page = 1) => row.total = job[JobOf(w)].total
    BY <1>1, CountersOfTask DEF CrmOutboundJob
  <1>6. empty => t.page > 1 \/ clients = 0
    <2>1. RowsBefore(1) = 0
      BY ConstantsAssumption DEF RowsBefore
    <2>2. QED
      BY <1>1, <2>1, CountersOfTask, ConstantsAssumption DEF PageItems
  <1>7. empty => RowsBefore(t.page) = clients
    <2>1. RowsBefore(t.page) \in Nat /\ RowsBefore(t.page) <= clients
      BY <1>1, <1>2, CountersOfTask, PageFacts DEF WorkerOK
    <2>2. QED
      BY <1>1, <2>1, CountersOfTask, ConstantsAssumption DEF PageItems
  <1>8. /\ job[JobOf(w)].total \in Nat /\ job[JobOf(w)].sent \in Nat
        /\ clients \in Nat /\ t.page \in Nat \ {0}
        /\ job[JobOf(w)].total <= clients /\ job[JobOf(w)].sent <= clients
    BY <1>1, <1>2, CountersOfTask, BusyWorker DEF CrmOutboundJob, CountersBounded
  <1>9. Calm /\ t.page > 1 =>
          job[JobOf(w)].total = clients /\ job[JobOf(w)].sent = RowsBefore(t.page)
    BY <1>1, <1>2 DEF RowOfTask
  <1>a. (empty => pc = "finish") /\ (~empty => pc = "send")
    OBVIOUS
  <1>b. JobOf(w)' = JobOf(w)
    BY <1>4 DEF JobOf
  <1> HIDE DEF row, empty, pc, t
  <1>10. CountersBounded(JobOf(w))'
    BY <1>1, <1>4, <1>5, <1>8, <1>b DEF CountersBounded
  <1>11. Calm => RowOfTask(w)'
    BY <1>1, <1>4, <1>5, <1>6, <1>7, <1>8, <1>9, <1>a, <1>b DEF RowOfTask
  <1>12. Calm => job'[JobOf(w)].status # "sent"
    BY <1>1, <1>4, <1>5, CountersOfTask
  <1>13. Calm' => Calm
    BY <1>1 DEF Calm
  <1>14. worker'[w].pc # "idle" /\ worker'[w].msg = worker[w].msg
    BY <1>4, <1>a DEF t
  <1>15. QED
    BY <1>1, <1>4, <1>10, <1>11, <1>12, <1>13, <1>14, TaskStep

\* The counters of a page are stored after the CRM has received it; after the last
\* page they are complete.
LEMMA ProgressCounts ==
  ASSUME IInv, CInv, NEW w \in Workers, SaveProgress(w)
  PROVE  CInv'
  <1>1. worker[w].pc = "progress" /\ Active(w) /\ UNCHANGED <<clients, queue, used>>
    BY DEF SaveProgress, Busy, Active
  <1>2. WorkerOK(w) /\ (Calm => RowOfTask(w)) /\ CountersBounded(JobOf(w))
    BY <1>1, CountersOfTask
  <1> DEFINE t == worker[w]
             last == PageItems(t.page) < PageSize
             row == [job[JobOf(w)] EXCEPT !.sent = t.sent]
  <1>3. /\ worker \in [Workers -> Task] /\ job \in [Jobs -> CrmOutboundJob]
        /\ JobOf(w) \in Jobs /\ t \in Task /\ job[JobOf(w)] \in CrmOutboundJob
        /\ clients \in Nat /\ t.page \in Nat \ {0} /\ t.sent \in Nat
        /\ job[JobOf(w)].total \in Nat
    BY <1>1, CountersOfTask, BusyWorker DEF Task, CrmOutboundJob
  <1>4. /\ worker'[w].msg = t.msg /\ \A q \in Workers \ {w} : worker'[q] = worker[q]
        /\ last => worker'[w].pc = "finish"
        /\ ~last => worker'[w].pc = "search" /\ worker'[w].page = t.page + 1
    <2>1. CASE last
      BY <1>3, <2>1 DEF SaveProgress, Goto, Task
    <2>2. CASE ~last
      BY <1>3, <2>2 DEF SaveProgress, Task
    <2>3. QED BY <2>1, <2>2
  <1>5. job' = [job EXCEPT ![JobOf(w)] = row]
    BY <1>3 DEF SaveProgress
  <1>6. /\ row.sent = t.sent /\ row.total = job[JobOf(w)].total
        /\ row.status = job[JobOf(w)].status
    BY <1>3 DEF CrmOutboundJob
  <1>7. job'[JobOf(w)] = row /\ \A j \in Jobs \ {JobOf(w)} : job'[j] = job[j]
    BY <1>3, <1>5
  <1>8. /\ t.sent = RowsBefore(t.page) + PageItems(t.page) /\ PageItems(t.page) > 0
        /\ t.sent <= clients
    BY <1>1, <1>2, <1>3, PageFacts DEF WorkerOK
  <1>9. last => t.sent = clients
    BY <1>3, <1>8, PageFacts, ConstantsAssumption DEF PageItems
  <1>10. ~last => t.sent = RowsBefore(t.page + 1)
    <2>1. ~last => PageItems(t.page) = PageSize
      BY <1>3, PageFacts, ConstantsAssumption
    <2>2. QED BY <1>3, <1>8, <2>1, PageFacts
  <1>11. Calm => job[JobOf(w)].total = clients
    BY <1>1, <1>2 DEF RowOfTask
  <1>12. JobOf(w)' = JobOf(w)
    BY <1>4 DEF JobOf
  <1> HIDE DEF t, last, row
  <1>13. CountersBounded(JobOf(w))'
    BY <1>1, <1>2, <1>6, <1>7, <1>8, <1>12 DEF CountersBounded
  <1>14. Calm => RowOfTask(w)'
    <2>1. CASE last
      BY <1>1, <1>4, <1>6, <1>7, <1>9, <1>11, <1>12, <2>1 DEF RowOfTask
    <2>2. CASE ~last
      <3>1. RowsBefore(worker'[w].page) = t.sent
        BY <1>4, <1>10, <2>2
      <3>2. QED
        BY <1>1, <1>4, <1>6, <1>7, <1>11, <1>12, <2>2, <3>1 DEF RowOfTask, RowsBefore
    <2>3. QED BY <2>1, <2>2
  <1>15. Calm => job'[JobOf(w)].status # "sent"
    BY <1>1, <1>6, <1>7, CountersOfTask
  <1>16. Calm' => Calm
    BY <1>1 DEF Calm
  <1>17. worker'[w].pc # "idle" /\ worker'[w].msg = worker[w].msg
    BY <1>4 DEF t
  <1>18. QED
    BY <1>1, <1>4, <1>7, <1>13, <1>14, <1>15, <1>16, <1>17, TaskStep

\* The steps that leave the counters alone: the task begins, sends a page, ends well
\* or fails.
LEMMA OtherStepCounts ==
  ASSUME IInv, CInv, NEW w \in Workers,
         \/ JobNotFound(w) \/ MarkRunning(w) \/ SendBatch(w) \/ FinishJob(w)
         \/ HandlerRefused(w) \/ SaveFailure(w) \/ GiveUp(w)
         \/ TryBlockFault(w) \/ UncaughtFault(w)
  PROVE  CInv'
  <1>1. /\ Active(w) /\ UNCHANGED <<clients, queue>>
        /\ used' = used \/ used' = [used EXCEPT !.faults = @ + 1]
    BY DEF JobNotFound, MarkRunning, SendBatch, FinishJob, HandlerRefused, SaveFailure,
           GiveUp, TryBlockFault, UncaughtFault, Busy, Active, UsesDatabase
  <1>2. /\ WorkerOK(w) /\ (Calm => RowOfTask(w)) /\ CountersBounded(JobOf(w))
        /\ worker \in [Workers -> Task] /\ job \in [Jobs -> CrmOutboundJob]
        /\ JobOf(w) \in Jobs /\ worker[w] \in Task /\ job[JobOf(w)] \in CrmOutboundJob
        /\ Calm => job[JobOf(w)].status # "sent"
    BY <1>1, CountersOfTask
  <1>3. /\ job'[JobOf(w)].total = job[JobOf(w)].total
        /\ job'[JobOf(w)].sent = job[JobOf(w)].sent
        /\ \A j \in Jobs \ {JobOf(w)} : job'[j] = job[j]
        /\ ~FinishJob(w) /\ job[JobOf(w)].status # "sent" => job'[JobOf(w)].status # "sent"
    <2>1. CASE MarkRunning(w)
      BY <1>2, <2>1 DEF MarkRunning, CrmOutboundJob
    <2>2. CASE SaveFailure(w)
      BY <1>2, <2>2 DEF SaveFailure, CrmOutboundJob
    <2>3. CASE FinishJob(w)
      BY <1>2, <2>3 DEF FinishJob, CrmOutboundJob
    <2>4. CASE job' = job
      BY <2>4
    <2>5. QED
      BY <2>1, <2>2, <2>3, <2>4 DEF JobNotFound, SendBatch, HandlerRefused, GiveUp,
                                    TryBlockFault, UncaughtFault
  <1>4. /\ worker'[w].msg = worker[w].msg /\ \A q \in Workers \ {w} : worker'[q] = worker[q]
        /\ worker'[w].pc # "idle" /\ (FinishJob(w) => worker'[w].pc = "ack")
        /\ \/ worker'[w].pc \in {"ack", "raise", "handler"}
           \/ worker'[w].pc = "search" /\ worker'[w].page = 1
           \/ worker[w].pc = "send" /\ worker'[w].pc = "progress"
    <2>1. CASE TryBlockFault(w)
      <3>1. PICK aborted \in BOOLEAN :
              worker' = [worker EXCEPT ![w].pc = "handler", ![w].aborted = aborted]
        BY <2>1 DEF TryBlockFault
      <3>2. ~FinishJob(w)
        BY <1>2, <2>1, <3>1 DEF FinishJob, Goto, Task
      <3>3. QED BY <1>2, <3>1, <3>2 DEF Task
    <2>2. CASE MarkRunning(w)
      <3>1. worker[w].page = 1 /\ worker[w].pc = "load"
        BY <1>2, <2>2 DEF MarkRunning, Busy, WorkerOK
      <3>2. QED BY <1>2, <2>2, <3>1 DEF MarkRunning, FinishJob, Busy, Goto, Task
    <2>3. CASE SendBatch(w)
      BY <1>2, <2>3 DEF SendBatch, FinishJob, Busy, Task
    <2>4. CASE FinishJob(w)
      BY <1>2, <2>4 DEF FinishJob, Goto, Task
    <2>5. CASE JobNotFound(w)
      BY <1>2, <2>5 DEF JobNotFound, Goto, Task
    <2>6. CASE GiveUp(w)
      BY <1>2, <2>6 DEF GiveUp, Goto, Task
    <2>7. CASE HandlerRefused(w) \/ SaveFailure(w) \/ UncaughtFault(w)
      <3>1. worker' = [worker EXCEPT ![w].pc = "raise"]
        BY <2>7 DEF HandlerRefused, SaveFailure, UncaughtFault, Goto
      <3>2. ~FinishJob(w)
        BY <1>2, <3>1 DEF FinishJob, Goto, Task
      <3>3. QED BY <1>2, <3>1, <3>2 DEF Task
    <2>8. QED BY <2>1, <2>2, <2>3, <2>4, <2>5, <2>6, <2>7
  <1>5. JobOf(w)' = JobOf(w)
    BY <1>4 DEF JobOf
  <1>6. CountersBounded(JobOf(w))'
    BY <1>1, <1>2, <1>3, <1>5 DEF CountersBounded
  <1>7. Calm => RowOfTask(w)'
    BY <1>1, <1>2, <1>3, <1>4, <1>5 DEF RowOfTask
  <1>8. Calm' => Calm
    <2>1. used \in [faults : 0..MaxFaults, crashes : 0..MaxCrashes,
                    redeliveries : 0..MaxRedeliveries]
      BY DEF IInv, TypeOK
    <2>2. QED BY <1>1, <2>1 DEF Calm
  <1>9. Calm /\ job'[JobOf(w)].status = "sent" =>
          /\ worker'[w].pc = "ack"
          /\ job'[JobOf(w)].total = clients /\ job'[JobOf(w)].sent = clients
    <2>1. CASE FinishJob(w)
      <3>1. worker[w].pc = "finish"
        BY <2>1 DEF FinishJob, Busy
      <3>2. QED BY <1>2, <1>3, <1>4, <2>1, <3>1 DEF RowOfTask
    <2>2. CASE ~FinishJob(w)
      BY <1>2, <1>3, <2>2
    <2>3. QED BY <2>1, <2>2
  <1>10. QED
    BY <1>1, <1>3, <1>4, <1>6, <1>7, <1>8, <1>9, TaskStep

-----------------------------------------------------------------------------
\* The job's task leaves the worker: its message is acknowledged, or it waits for its
\* next attempt.
LEMMA TaskLeaves ==
  ASSUME IInv, CInv, NEW w \in Workers, Retry(w) \/ Acknowledge(w)
  PROVE  CInv'
  <1>1. /\ worker[w].pc # "idle" /\ UNCHANGED <<clients, job, used>>
        /\ \/ worker[w].pc = "raise" /\ queue' = queue \cup {[worker[w].msg EXCEPT !.retries = @ + 1]}
           \/ worker[w].pc = "ack" /\ queue' = queue
    BY DEF Retry, Acknowledge, Busy
  <1>i. PICK i \in Jobs : i = JobOf(w)
    BY <1>1, BusyWorker
  <1>2. \A q \in Workers \ {w} : worker'[q] = worker[q]
    BY <1>1, BusyWorker DEF Retry, Acknowledge, Goto
  <1>3. worker'[w].pc \in {"idle", "ack"}
    BY <1>1, BusyWorker DEF Retry, Acknowledge, Goto, IdleTask, Task
  <1>4. \A v \in Workers : Active(v)' => v # w /\ Active(v) /\ worker'[v] = worker[v]
    BY <1>2, <1>3 DEF Active
  <1>5. \A m \in queue' : m \in queue \/ (Active(w) /\ m.job = i)
    BY <1>1, <1>i, BusyWorker DEF Active, Message, JobOf
  <1>6. \A m \in queue' : \A n \in queue' : m \notin queue /\ n \notin queue => m = n
    BY <1>1
  <1>7. \A j \in Jobs : CountersBounded(j)'
    BY <1>1 DEF CInv, CountersBounded
  <1> SUFFICES ASSUME Calm'
               PROVE  /\ \A j \in Jobs : OneTask(j)' /\ RowOfSentJob(j)'
                      /\ \A v \in Workers : RowOfTask(v)'
    BY <1>7 DEF CInv
  <1>8. (\A j \in Jobs : OneTask(j) /\ RowOfSentJob(j)) /\ \A v \in Workers : RowOfTask(v)
    BY <1>1 DEF CInv, Calm
  <1>9. \A j \in Jobs : OneTask(j)'
    <2> SUFFICES ASSUME NEW j \in Jobs PROVE OneTask(j)'
      OBVIOUS
    <2>1. OneTask(j)
      BY <1>8
    <2>2. ASSUME NEW m \in queue', NEW n \in queue', m.job = j, n.job = j PROVE m = n
      BY <1>5, <1>6, <1>i, <2>1, <2>2 DEF OneTask
    <2>3. ASSUME NEW u \in Workers, NEW v \in Workers,
                 Active(u)', Active(v)', JobOf(u)' = j, JobOf(v)' = j
          PROVE  u = v
      BY <1>4, <2>1, <2>3 DEF OneTask, JobOf
    <2>4. ASSUME NEW m \in queue', NEW v \in Workers, m.job = j, Active(v)', JobOf(v)' = j
          PROVE  FALSE
      BY <1>4, <1>5, <1>i, <2>1, <2>4 DEF OneTask, JobOf
    <2>5. QED BY <2>2, <2>3, <2>4 DEF OneTask
  <1>10. ASSUME NEW v \in Workers PROVE RowOfTask(v)'
    <2>1. CASE Active(v)'
      BY <1>1, <1>4, <1>8, <2>1 DEF RowOfTask, RowsBefore, JobOf
    <2>2. CASE ~Active(v)'
      BY <2>2 DEF RowOfTask, Active
    <2>3. QED BY <2>1, <2>2
  <1>11. ASSUME NEW j \in Jobs, job[j].status = "sent" PROVE ~Working(j)'
    <2>1. ~Working(j)
      BY <1>8, <1>11 DEF RowOfSentJob
    <2>2. Active(w) => j # i
      BY <1>i, <2>1 DEF Working, Active, JobOf
    <2>3. QED
      BY <1>4, <1>5, <2>1, <2>2 DEF Working, Active
  <1>12. QED
    BY <1>1, <1>8, <1>9, <1>10, <1>11 DEF RowOfSentJob

\* An idle worker takes the job's only message.
LEMMA TakeCounts ==
  ASSUME IInv, CInv, NEW w \in Workers, NEW m \in queue, TakeMessage(w, m)
  PROVE  CInv'
  <1> DEFINE t == [IdleTask EXCEPT !.msg = m, !.pc = "load"]
  <1>1. /\ worker[w].pc = "idle" /\ queue' = queue \ {m} /\ UNCHANGED <<clients, job, used>>
        /\ worker' = [worker EXCEPT ![w] = t] /\ worker \in [Workers -> Task]
    BY DEF TakeMessage, Busy, IInv, TypeOK
  <1>2. t.msg = m /\ t.pc = "load"
    BY DEF IdleTask
  <1> HIDE DEF t
  <1>3. worker'[w] = t /\ \A q \in Workers \ {w} : worker'[q] = worker[q]
    BY <1>1
  <1>4. \A v \in Workers : Active(v)' => \/ v = w /\ JobOf(v)' = m.job
                                         \/ v # w /\ Active(v) /\ worker'[v] = worker[v]
    BY <1>2, <1>3 DEF Active, JobOf
  <1>5. \A j \in Jobs : CountersBounded(j)'
    BY <1>1 DEF CInv, CountersBounded
  <1> SUFFICES ASSUME Calm'
               PROVE  /\ \A j \in Jobs : OneTask(j)' /\ RowOfSentJob(j)'
                      /\ \A v \in Workers : RowOfTask(v)'
    BY <1>5 DEF CInv
  <1>6. (\A j \in Jobs : OneTask(j) /\ RowOfSentJob(j)) /\ \A v \in Workers : RowOfTask(v)
    BY <1>1 DEF CInv, Calm
  <1>7. \A j \in Jobs : OneTask(j)'
    <2> SUFFICES ASSUME NEW j \in Jobs PROVE OneTask(j)'
      OBVIOUS
    <2>1. OneTask(j)
      BY <1>6
    <2>2. ASSUME NEW a \in queue', NEW b \in queue', a.job = j, b.job = j PROVE a = b
      BY <1>1, <2>1, <2>2 DEF OneTask
    <2>3. ASSUME NEW u \in Workers, NEW v \in Workers,
                 Active(u)', Active(v)', JobOf(u)' = j, JobOf(v)' = j
          PROVE  u = v
      BY <1>4, <2>1, <2>3 DEF OneTask, JobOf
    <2>4. ASSUME NEW a \in queue', NEW v \in Workers, a.job = j, Active(v)', JobOf(v)' = j
          PROVE  FALSE
      BY <1>1, <1>4, <2>1, <2>4 DEF OneTask, JobOf
    <2>5. QED BY <2>2, <2>3, <2>4 DEF OneTask
  <1>8. ASSUME NEW v \in Workers PROVE RowOfTask(v)'
    <2>1. CASE v = w
      BY <1>2, <1>3, <2>1 DEF RowOfTask
    <2>2. CASE v # w
      BY <1>1, <1>3, <1>6, <2>2 DEF RowOfTask, RowsBefore, JobOf
    <2>3. QED BY <2>1, <2>2
  <1>9. ASSUME NEW j \in Jobs, job[j].status = "sent" PROVE ~Working(j)'
    <2>1. ~Working(j)
      BY <1>6, <1>9 DEF RowOfSentJob
    <2>2. m.job # j
      BY <2>1 DEF Working
    <2>3. QED
      BY <1>1, <1>4, <2>1, <2>2 DEF Working, Active, JobOf
  <1>10. QED
    BY <1>1, <1>6, <1>7, <1>8, <1>9 DEF RowOfSentJob

\* A message that comes back ends the calm; the counters stay within bounds.
LEMMA RequeueCounts ==
  ASSUME IInv, CInv, NEW w \in Workers, WorkerLost(w) \/ VisibilityTimeout(w)
  PROVE  CInv'
  <1>1. UNCHANGED <<clients, job>>
    BY DEF WorkerLost, VisibilityTimeout
  <1>2. ~Calm'
    BY DEF WorkerLost, VisibilityTimeout, Calm, IInv, TypeOK
  <1>3. QED BY <1>1, <1>2 DEF CInv, CountersBounded

\* The requests of the API publish one message for a job.
LEMMA ApiCounts ==
  ASSUME IInv, CInv, NEW i \in Jobs, CreateJob(i) \/ ApiStep(i) \/ RollbackJob(i)
  PROVE  CInv'
  <1>1. UNCHANGED <<clients, worker, used>>
    BY DEF CreateJob, ApiStep, RollbackJob, PublishTask, PublishFails, CommitJob
  <1>2. job \in [Jobs -> CrmOutboundJob] /\ JobOK(i)
    BY DEF IInv, TypeOK
  <1>3. \A j \in Jobs : /\ job'[j].total = job[j].total /\ job'[j].sent = job[j].sent
                        /\ job'[j].status = "sent" => job[j].status = "sent"
    BY <1>2 DEF CreateJob, ApiStep, RollbackJob, PublishTask, PublishFails, CommitJob,
                CrmOutboundJob
  <1>4. \A j \in Jobs : CountersBounded(j)'
    BY <1>1, <1>3 DEF CInv, CountersBounded
  <1> SUFFICES ASSUME Calm'
               PROVE  /\ \A j \in Jobs : OneTask(j)' /\ RowOfSentJob(j)'
                      /\ \A v \in Workers : RowOfTask(v)'
    BY <1>4 DEF CInv
  <1>5. (\A j \in Jobs : OneTask(j) /\ RowOfSentJob(j)) /\ \A v \in Workers : RowOfTask(v)
    BY <1>1 DEF CInv, Calm
  <1>6. ASSUME NEW v \in Workers PROVE RowOfTask(v)'
    <2>1. CASE Active(v)
      <3>1. JobOf(v) \in Jobs
        BY <2>1, BusyWorker DEF Active
      <3>2. QED BY <1>1, <1>3, <1>5, <3>1 DEF RowOfTask, RowsBefore, JobOf
    <2>2. CASE ~Active(v)
      BY <1>1, <2>2 DEF RowOfTask, Active
    <2>3. QED BY <2>1, <2>2
  <1>7. CASE queue' = queue
    <2>1. \A j \in Jobs : OneTask(j)'
      BY <1>1, <1>5, <1>7 DEF OneTask, JobOf, Active
    <2>2. \A j \in Jobs : ~Working(j) => ~Working(j)'
      BY <1>1, <1>7 DEF Working
    <2>3. QED BY <1>1, <1>3, <1>5, <1>6, <2>1, <2>2 DEF RowOfSentJob
  <1>8. CASE PublishTask(i)
    <2> DEFINE m == [job |-> i, retries |-> 0, copy |-> 0]
    <2>1. api[i] = "inserted" /\ queue' = queue \cup {m} /\ m.job = i
      BY <1>8 DEF PublishTask
    <2>2. ~HasTask(i) /\ job[i].status = "none" /\ job' = job
      BY <1>2, <1>8, <2>1 DEF JobOK, PublishTask
    <2> HIDE DEF m
    <2>3. /\ \A n \in queue : n.job # i
          /\ \A v \in Workers : Active(v) => JobOf(v) # i
      BY <2>2 DEF HasTask, Active, JobOf
    <2>4. \A j \in Jobs : OneTask(j)'
      BY <1>1, <1>5, <2>1, <2>3 DEF OneTask, JobOf, Active
    <2>5. \A j \in Jobs \ {i} : ~Working(j) => ~Working(j)'
      BY <1>1, <2>1 DEF Working
    <2>6. QED BY <1>1, <1>5, <1>6, <2>2, <2>4, <2>5 DEF RowOfSentJob
  <1>9. QED
    BY <1>7, <1>8 DEF CreateJob, ApiStep, RollbackJob, PublishFails, CommitJob

-----------------------------------------------------------------------------
\* A job's counters agree with its status for the reader of get_outbound_status, if
\* no message came back: what it was given as total_records is what the search found
\* and all of it was sent (tasks.py:98-141).
THEOREM SentCounters == Spec => []SentCountersAgree
  <1>1. Init => CInv
    <2> SUFFICES ASSUME Init PROVE CInv
      OBVIOUS
    <2>1. clients \in Nat /\ queue = {} /\ \A w \in Workers : worker[w].pc = "idle"
      BY ConstantsAssumption DEF Init, IdleTask
    <2>2. \A j \in Jobs : job[j].total = 0 /\ job[j].sent = 0 /\ job[j].status = "none"
      BY DEF Init
    <2>3. QED
      BY <2>1, <2>2 DEF CInv, CountersBounded, OneTask, RowOfSentJob, RowOfTask, Active
  <1>2. IInv /\ CInv /\ [Next]_vars => CInv'
    <2> SUFFICES ASSUME IInv, CInv, [Next]_vars PROVE CInv'
      OBVIOUS
    <2>1. CASE UNCHANGED vars
      BY <2>1 DEF vars, CInv, CountersBounded, Calm, OneTask, RowOfSentJob, RowOfTask,
                  Active, JobOf, Working, RowsBefore
    <2>2. ASSUME NEW w \in Workers, WorkerStep(w) \/ WorkerFails(w) PROVE CInv'
      BY <2>2, SearchCounts, ProgressCounts, OtherStepCounts, TaskLeaves, RequeueCounts
         DEF WorkerStep, WorkerFails
    <2>3. QED
      BY <2>1, <2>2, ApiCounts, TakeCounts DEF Next
  <1>3. CInv => SentCountersAgree
    BY DEF CInv, Calm, RowOfSentJob, SentCountersAgree
  <1>4. QED
    BY <1>1, <1>2, <1>3, Invariance, PTL DEF Spec
=============================================================================
