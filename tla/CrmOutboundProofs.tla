--------------------------- MODULE CrmOutboundProofs ---------------------------
(***************************************************************************)
(* Theorems about CrmOutbound for any number of jobs, workers, rows,       *)
(* retries, faults, lost workers and redeliveries.                         *)
(***************************************************************************)
EXTENDS CrmOutboundRefinement, TLAPS

\* Somebody will still execute a task of the job.
Working(j) ==
  \/ \E m \in queue : m.job = j
  \/ \E w \in Workers : worker[w].pc \notin {"idle", "ack"} /\ worker[w].msg.job = j

Ended(j) == job[j].status \in {"sent", "failed"} \/ lost[j] # {}

\* A running task has counted and delivered the pages before its own.
WorkerOK(w) ==
  LET t == worker[w]
      j == worker[w].msg.job
  IN  t.pc # "idle" =>
        /\ t.msg \in Message
        /\ t.pc = "load" => t.page = 1 /\ t.sent = 0
        /\ t.pc \in {"search", "send", "progress", "finish", "handler"} =>
             job[j].status # "none"
        /\ t.pc \in {"search", "send"} =>
             t.sent = RowsBefore(t.page) /\ RowsBefore(t.page) <= clients
        /\ t.pc \in {"send", "progress"} => PageItems(t.page) > 0
        /\ t.pc = "progress" =>
             /\ t.sent = RowsBefore(t.page) + PageItems(t.page)
             /\ t.page \in delivered[j]
        /\ t.pc \in {"search", "send", "progress"} =>
             \A p \in Pages : p < t.page => p \in delivered[j]
        /\ t.pc = "finish" => Pages \subseteq delivered[j]

\* What the API, the queue and the table say of one job.
JobOK(j) ==
  /\ HasTask(j) \/ api[j] \in {"published", "committed"} => Working(j) \/ Ended(j)
  /\ HasTask(j) => api[j] \notin {"new", "inserted"}
  /\ job[j].status # "none" => api[j] = "committed"
  /\ job[j].status = "sent" => Pages \subseteq delivered[j]

\* The inductive invariant.
IInv ==
  /\ TypeOK
  /\ \A w \in Workers : WorkerOK(w)
  /\ \A j \in Jobs : JobOK(j)

-----------------------------------------------------------------------------
\* Offsets and sizes of pages.
LEMMA PageFacts ==
  ASSUME clients \in Nat, NEW p \in Nat \ {0}
  PROVE  /\ RowsBefore(p) \in Nat
         /\ PageItems(p) \in Nat /\ PageItems(p) <= PageSize
         /\ PageItems(p) > 0 => RowsBefore(p) + PageItems(p) <= clients
         /\ PageItems(p) = PageSize => RowsBefore(p + 1) = RowsBefore(p) + PageItems(p)
         /\ RowsBefore(p) <= clients => p <= clients + 1
  <1>1. PageSize \in Nat \ {0}
    BY ConstantsAssumption
  <1>2. (p - 1) * PageSize \in Nat /\ (p + 1 - 1) * PageSize = (p - 1) * PageSize + PageSize
    BY <1>1
  <1>3. (p - 1) * PageSize >= p - 1
    BY <1>1
  <1>4. QED
    BY <1>1, <1>2, <1>3 DEF RowsBefore, PageItems

\* After a page that is not full there is none.
LEMMA NoPageAfter ==
  ASSUME clients \in Nat, NEW p \in Nat \ {0}, NEW q \in Nat \ {0},
         p < q, PageItems(p) < PageSize
  PROVE  PageItems(q) = 0
  <1>1. PageSize \in Nat \ {0}
    BY ConstantsAssumption
  <1>2. clients < (p - 1) * PageSize + PageSize
    <2>1. (p - 1) * PageSize \in Nat
      BY <1>1
    <2>2. QED BY <1>1, <2>1 DEF PageItems, RowsBefore
  <1>3. (q - 1) * PageSize >= p * PageSize
    <2>1. q - 1 >= p /\ q - 1 \in Nat
      OBVIOUS
    <2>2. QED BY <1>1, <2>1
  <1>4. p * PageSize = (p - 1) * PageSize + PageSize
    BY <1>1
  <1>5. (q - 1) * PageSize \in Nat /\ p * PageSize \in Nat
    BY <1>1
  <1>6. QED
    BY <1>1, <1>2, <1>3, <1>4, <1>5 DEF PageItems, RowsBefore

\* The table of clients is constant, so are the pages.
LEMMA PagesConstant ==
  ASSUME clients' = clients
  PROVE  Pages' = Pages /\ \A p : PageItems(p)' = PageItems(p)
  BY DEF Pages, PageItems, RowsBefore

-----------------------------------------------------------------------------
\* A step that leaves the other workers alone, loses no row and no page, keeps what
\* is known of their tasks.
LEMMA OtherTasks ==
  ASSUME IInv, NEW w \in Workers, clients' = clients,
         \A q \in Workers \ {w} : worker'[q] = worker[q],
         \A j \in Jobs : job[j].status # "none" => job'[j].status # "none",
         \A j \in Jobs : delivered[j] \subseteq delivered'[j]
  PROVE  \A q \in Workers \ {w} : WorkerOK(q)'
  <1> SUFFICES ASSUME NEW q \in Workers \ {w} PROVE WorkerOK(q)'
    OBVIOUS
  <1>1. WorkerOK(q) /\ worker'[q] = worker[q]
    BY DEF IInv
  <1>2. CASE worker[q].pc = "idle"
    BY <1>1, <1>2 DEF WorkerOK
  <1>3. CASE worker[q].pc # "idle"
    <2>1. worker[q].msg \in Message /\ worker[q].msg.job \in Jobs
      BY <1>1, <1>3 DEF WorkerOK, Message
    <2>2. QED
      BY <1>1, <2>1, PagesConstant DEF WorkerOK, RowsBefore
  <1>4. QED BY <1>2, <1>3

\* A step of a worker keeps what is known of the jobs if no work on an unfinished
\* job ends, and "sent" is stored only of a job whose pages are delivered.
LEMMA JobsKept ==
  ASSUME IInv, clients' = clients, api' = api,
         \A j \in Jobs : HasTask(j)' => HasTask(j),
         \A j \in Jobs : Working(j) \/ Ended(j) => Working(j)' \/ Ended(j)',
         \A j \in Jobs : job'[j].status # "none" => job[j].status # "none",
         \A j \in Jobs : job'[j].status = "sent" =>
                           job[j].status = "sent" \/ Pages \subseteq delivered[j],
         \A j \in Jobs : delivered[j] \subseteq delivered'[j]
  PROVE  \A j \in Jobs : JobOK(j)'
  <1> SUFFICES ASSUME NEW j \in Jobs PROVE JobOK(j)'
    OBVIOUS
  <1>1. JobOK(j)
    BY DEF IInv
  <1>2. Pages' = Pages
    BY PagesConstant
  <1>3. QED BY <1>1, <1>2 DEF JobOK

\* The task of a worker that goes on is the same.
LEMMA TaskGoesOn ==
  ASSUME IInv, NEW w \in Workers, queue' = queue,
         worker[w].pc \notin {"idle", "ack"}, worker'[w].pc \notin {"idle", "ack"},
         worker'[w].msg = worker[w].msg,
         \A q \in Workers \ {w} : worker'[q] = worker[q]
  PROVE  \A j \in Jobs : HasTask(j)' = HasTask(j) /\ Working(j)' = Working(j)
  <1> SUFFICES ASSUME NEW j \in Jobs
               PROVE  HasTask(j)' = HasTask(j) /\ Working(j)' = Working(j)
    OBVIOUS
  <1>1. HasTask(j)' <=> HasTask(j)
    BY DEF HasTask
  <1>2. Working(j)' <=> Working(j)
    BY DEF Working
  <1>3. QED BY <1>1, <1>2 DEF HasTask, Working

\* A running task that goes on.
LEMMA Advance ==
  ASSUME IInv, NEW w \in Workers,
         UNCHANGED <<clients, api, queue>>,
         NEW t \in Task, worker' = [worker EXCEPT ![w] = t],
         worker[w].pc \notin {"idle", "ack"}, t.pc \notin {"idle", "ack"},
         t.msg = worker[w].msg, job' \in [Jobs -> CrmOutboundJob],
         \A j \in Jobs \ {JobOf(w)} : job'[j] = job[j],
         job[JobOf(w)].status # "none" <=> job'[JobOf(w)].status # "none",
         job'[JobOf(w)].status = "sent" => job[JobOf(w)].status = "sent",
         lost' = lost, delivered' \in [Jobs -> SUBSET (1..(MaxClients + 1))],
         \A j \in Jobs : delivered[j] \subseteq delivered'[j],
         used' \in [faults : 0..MaxFaults, crashes : 0..MaxCrashes,
                    redeliveries : 0..MaxRedeliveries],
         WorkerOK(w)'
  PROVE  IInv'
  <1>1. TypeOK' /\ \A q \in Workers \ {w} : worker'[q] = worker[q]
    BY DEF IInv, TypeOK
  <1>2. worker'[w] = t
    BY DEF IInv, TypeOK
  <1>3. \A j \in Jobs : HasTask(j)' = HasTask(j) /\ Working(j)' = Working(j)
    BY <1>1, <1>2, TaskGoesOn
  <1>4. JobOf(w) \in Jobs /\ Working(JobOf(w))
    BY DEF IInv, WorkerOK, Message, JobOf, Working
  <1>5. \A q \in Workers : WorkerOK(q)'
    BY <1>1, OtherTasks
  <1>6. \A j \in Jobs : Working(j) \/ Ended(j) => Working(j)' \/ Ended(j)'
    BY <1>3, <1>4 DEF Ended
  <1>7. \A j \in Jobs : JobOK(j)'
    BY <1>3, <1>4, <1>6, JobsKept
  <1>8. QED BY <1>1, <1>5, <1>7 DEF IInv

\* What the invariant says of a busy worker.
LEMMA BusyWorker ==
  ASSUME IInv, NEW w \in Workers, worker[w].pc # "idle"
  PROVE  /\ worker[w] \in Task /\ worker[w].msg \in Message
         /\ JobOf(w) \in Jobs /\ job[JobOf(w)] \in CrmOutboundJob
         /\ worker \in [Workers -> Task] /\ job \in [Jobs -> CrmOutboundJob]
         /\ delivered \in [Jobs -> SUBSET (1..(MaxClients + 1))]
         /\ used \in [faults : 0..MaxFaults, crashes : 0..MaxCrashes,
                      redeliveries : 0..MaxRedeliveries]
         /\ clients \in Nat /\ clients <= MaxClients
         /\ {MaxClients, MaxRetries, MaxFaults, MaxCrashes, MaxRedeliveries} \subseteq Nat
         /\ worker[w].page \in Nat \ {0}
  <1>1. /\ TypeOK /\ worker[w].msg \in Message
    BY DEF IInv, WorkerOK
  <1>2. {MaxClients, MaxRetries, MaxFaults, MaxCrashes, MaxRedeliveries} \subseteq Nat
    BY ConstantsAssumption
  <1>3. QED BY <1>1, <1>2 DEF TypeOK, Message, JobOf, Task

\* The task marks the job as running.
LEMMA MarkRunningInv ==
  ASSUME IInv, NEW w \in Workers, MarkRunning(w)
  PROVE  IInv'
  <1> DEFINE t == [worker[w] EXCEPT !.pc = "search"]
             row == [job[JobOf(w)] EXCEPT !.status = "running"]
  <1>1. worker[w].pc = "load" /\ job[JobOf(w)].status # "none"
    BY DEF MarkRunning, Busy
  <1>2. worker' = [worker EXCEPT ![w] = t] /\ job' = [job EXCEPT ![JobOf(w)] = row]
    BY DEF MarkRunning, Goto
  <1>3. t \in Task /\ t.pc = "search" /\ t.msg = worker[w].msg /\ t.page = 1 /\ t.sent = 0
    BY <1>1, BusyWorker DEF Task, IInv, WorkerOK
  <1>4. row \in CrmOutboundJob /\ row.status = "running"
    BY <1>1, BusyWorker DEF CrmOutboundJob
  <1>5. UNCHANGED <<clients, api, queue, delivered, lost, used>>
    BY DEF MarkRunning
  <1> HIDE DEF t, row
  <1>6. job' \in [Jobs -> CrmOutboundJob] /\ job'[JobOf(w)] = row
        /\ \A j \in Jobs \ {JobOf(w)} : job'[j] = job[j]
    BY <1>1, <1>2, <1>4, BusyWorker
  <1>7. WorkerOK(w)'
    <2>1. worker'[w] = t /\ worker[w].msg \in Message
      BY <1>1, <1>2, BusyWorker
    <2>2. RowsBefore(1) = 0 /\ clients >= 0
      <3>1. PageSize \in Nat
        BY ConstantsAssumption
      <3>2. QED BY <1>1, <3>1, BusyWorker DEF RowsBefore
    <2>3. \A p \in Pages : ~(p < 1)
      BY <1>1, BusyWorker DEF Pages
    <2>4. QED
      BY <1>3, <1>4, <1>5, <1>6, <2>1, <2>2, <2>3, PagesConstant
         DEF WorkerOK, JobOf, RowsBefore
  <1>8. QED
    BY <1>1, <1>2, <1>3, <1>4, <1>5, <1>6, <1>7, BusyWorker, Advance

\* The search finds a page, whose total is stored with the first one, or none.
LEMMA SearchPageInv ==
  ASSUME IInv, NEW w \in Workers, SearchPage(w)
  PROVE  IInv'
  <1> DEFINE pc == IF PageItems(worker[w].page) = 0 THEN "finish" ELSE "send"
             t == [worker[w] EXCEPT !.pc = pc]
  <1>1. worker[w].pc = "search"
    BY DEF SearchPage, Busy
  <1>2. worker' = [worker EXCEPT ![w] = t] /\ UNCHANGED <<clients, api, queue, delivered, lost, used>>
    BY DEF SearchPage, Goto
  <1>3. /\ t \in Task /\ t.pc = pc /\ t.msg = worker[w].msg
        /\ t.page = worker[w].page /\ t.sent = worker[w].sent
    BY <1>1, BusyWorker DEF Task
  <1>4. /\ job' \in [Jobs -> CrmOutboundJob]
        /\ \A j \in Jobs \ {JobOf(w)} : job'[j] = job[j]
        /\ job'[JobOf(w)].status = job[JobOf(w)].status
    <2>1. CASE job' = job
      BY <1>1, <2>1, BusyWorker
    <2>2. CASE job' = [job EXCEPT ![JobOf(w)].total = clients]
      <3>1. job' = [job EXCEPT ![JobOf(w)] = [job[JobOf(w)] EXCEPT !.total = clients]]
        BY <2>2
      <3>2. [job[JobOf(w)] EXCEPT !.total = clients] \in CrmOutboundJob
        BY <1>1, BusyWorker DEF CrmOutboundJob
      <3>3. QED BY <1>1, <3>1, <3>2, BusyWorker DEF CrmOutboundJob
    <2>3. QED BY <2>1, <2>2 DEF SearchPage
  <1>5. PageItems(worker[w].page) = 0 => Pages \subseteq delivered[JobOf(w)]
    <2> SUFFICES ASSUME PageItems(worker[w].page) = 0, NEW p \in Pages
                 PROVE  p \in delivered[JobOf(w)]
      OBVIOUS
    <2>1. p \in Nat \ {0} /\ PageItems(p) > 0
      BY <1>1, BusyWorker DEF Pages
    <2>2. ~(worker[w].page <= p)
      <3>1. PageSize > 0
        BY ConstantsAssumption
      <3>2. ~(worker[w].page < p)
        BY <1>1, <2>1, <3>1, BusyWorker, NoPageAfter
      <3>3. QED BY <1>1, <2>1, <3>2, BusyWorker
    <2>3. QED
      BY <1>1, <2>1, <2>2, BusyWorker DEF IInv, WorkerOK, JobOf
  <1>6. PageItems(worker[w].page) # 0 => PageItems(worker[w].page) > 0
    BY <1>1, BusyWorker, PageFacts
  <1>7. pc \in {"finish", "send"} /\ (pc = "finish" <=> PageItems(worker[w].page) = 0)
    OBVIOUS
  <1> HIDE DEF pc, t
  <1>8. WorkerOK(w)'
    <2>1. worker'[w] = t /\ worker[w].msg \in Message /\ WorkerOK(w)
      BY <1>1, <1>2, BusyWorker DEF IInv
    <2>2. QED
      BY <1>1, <1>2, <1>3, <1>4, <1>5, <1>6, <1>7, <2>1, PagesConstant
         DEF WorkerOK, JobOf, RowsBefore
  <1>9. t.pc \notin {"idle", "ack"}
    BY <1>3, <1>7
  <1>10. QED
    BY <1>1, <1>2, <1>3, <1>4, <1>8, <1>9, BusyWorker, Advance

\* The CRM receives a page.
LEMMA SendBatchInv ==
  ASSUME IInv, NEW w \in Workers, SendBatch(w)
  PROVE  IInv'
  <1> DEFINE sent == worker[w].sent + PageItems(worker[w].page)
             t == [worker[w] EXCEPT !.pc = "progress", !.sent = sent]
             pages == delivered[JobOf(w)] \cup {worker[w].page}
  <1>1. worker[w].pc = "send" /\ PageItems(worker[w].page) > 0
    BY DEF SendBatch, Busy, IInv, WorkerOK
  <1>2. /\ worker' = [worker EXCEPT ![w] = t] /\ UNCHANGED <<clients, job, api, queue, lost, used>>
        /\ delivered' = [delivered EXCEPT ![JobOf(w)] = pages]
    BY DEF SendBatch
  <1>3. /\ worker[w].sent = RowsBefore(worker[w].page) /\ sent <= clients
        /\ sent \in 0..MaxClients
    BY <1>1, BusyWorker, PageFacts DEF IInv, WorkerOK
  <1>4. /\ t \in Task /\ t.pc = "progress" /\ t.msg = worker[w].msg
        /\ t.page = worker[w].page /\ t.sent = sent
    BY <1>1, <1>3, BusyWorker DEF Task
  <1>5. /\ delivered' \in [Jobs -> SUBSET (1..(MaxClients + 1))]
        /\ \A j \in Jobs : delivered[j] \subseteq delivered'[j]
        /\ delivered'[JobOf(w)] = pages
    <2>1. worker[w].page \in 1..(MaxClients + 1)
      BY <1>1, BusyWorker DEF Task
    <2>2. pages \in SUBSET (1..(MaxClients + 1))
      BY <1>1, <2>1, BusyWorker
    <2>3. QED BY <1>1, <1>2, <2>2, BusyWorker
  <1>6. worker[w].page \in pages /\ delivered[JobOf(w)] \subseteq pages
    OBVIOUS
  <1> HIDE DEF t, pages
  <1>7. WorkerOK(w)'
    <2>1. worker'[w] = t /\ worker[w].msg \in Message /\ WorkerOK(w)
      BY <1>1, <1>2, BusyWorker DEF IInv
    <2>2. QED
      BY <1>1, <1>2, <1>3, <1>4, <1>5, <1>6, <2>1, PagesConstant
         DEF WorkerOK, JobOf, RowsBefore
  <1>8. QED
    BY <1>1, <1>2, <1>4, <1>5, <1>7, BusyWorker, Advance

\* The counters of the page are stored; a page that is not full is the last.
LEMMA SaveProgressInv ==
  ASSUME IInv, NEW w \in Workers, SaveProgress(w)
  PROVE  IInv'
  <1> DEFINE full == PageItems(worker[w].page) = PageSize
             t == IF full THEN [worker[w] EXCEPT !.pc = "search", !.page = worker[w].page + 1]
                          ELSE [worker[w] EXCEPT !.pc = "finish"]
             row == [job[JobOf(w)] EXCEPT !.sent = worker[w].sent]
  <1>1. worker[w].pc = "progress" /\ WorkerOK(w)
    BY DEF SaveProgress, Busy, IInv
  <1>2. /\ UNCHANGED <<clients, api, queue, delivered, lost, used>>
        /\ job' = [job EXCEPT ![JobOf(w)] = row]
    BY DEF SaveProgress
  <1>3. PageSize \in Nat /\ (full \/ PageItems(worker[w].page) < PageSize)
    BY <1>1, BusyWorker, PageFacts, ConstantsAssumption
  <1>4. worker' = [worker EXCEPT ![w] = t]
    <2>1. CASE full
      <3>1. worker' = [worker EXCEPT ![w].pc = "search", ![w].page = @ + 1]
        BY <1>3, <2>1 DEF SaveProgress
      <3>2. QED BY <1>1, <2>1, <3>1, BusyWorker
    <2>2. CASE ~full
      BY <1>3, <2>2 DEF SaveProgress, Goto
    <2>3. QED BY <2>1, <2>2
  <1>5. row \in CrmOutboundJob /\ row.status = job[JobOf(w)].status
    BY <1>1, BusyWorker DEF Task, CrmOutboundJob
  <1>6. full => /\ worker[w].sent = RowsBefore(worker[w].page + 1)
                /\ RowsBefore(worker[w].page + 1) <= clients
                /\ worker[w].page + 1 \in 1..(MaxClients + 1)
    <2> SUFFICES ASSUME full
                 PROVE  /\ worker[w].sent = RowsBefore(worker[w].page + 1)
                        /\ RowsBefore(worker[w].page + 1) <= clients
                        /\ worker[w].page + 1 \in 1..(MaxClients + 1)
      OBVIOUS
    <2>1. /\ worker[w].sent = RowsBefore(worker[w].page + 1)
          /\ RowsBefore(worker[w].page + 1) <= clients
      BY <1>1, BusyWorker, PageFacts DEF WorkerOK
    <2>2. worker[w].page + 1 <= clients + 1
      <3>1. worker[w].page + 1 \in Nat \ {0} /\ clients \in Nat
        BY <1>1, BusyWorker
      <3>2. QED BY <2>1, <3>1, PageFacts
    <2>3. QED BY <1>1, <2>1, <2>2, BusyWorker
  <1>7. t \in Task /\ t.msg = worker[w].msg
    BY <1>1, <1>6, BusyWorker DEF Task
  <1>8. /\ full => t.pc = "search" /\ t.page = worker[w].page + 1 /\ t.sent = worker[w].sent
        /\ ~full => t.pc = "finish"
    BY <1>1, BusyWorker DEF Task
  <1>9. \A p \in Pages : p <= worker[w].page => p \in delivered[JobOf(w)]
    BY <1>1, BusyWorker DEF WorkerOK, JobOf, Pages
  <1>10. ~full => Pages \subseteq delivered[JobOf(w)]
    <2> SUFFICES ASSUME ~full, NEW p \in Pages PROVE p \in delivered[JobOf(w)]
      OBVIOUS
    <2>1. p \in Nat \ {0} /\ PageItems(p) > 0
      BY <1>1, BusyWorker DEF Pages
    <2>2. ~(worker[w].page < p)
      BY <1>1, <1>3, <2>1, BusyWorker, NoPageAfter
    <2>3. QED BY <1>1, <1>9, <2>1, <2>2, BusyWorker
  <1>11. \A p \in Pages : p < worker[w].page + 1 => p <= worker[w].page
    BY <1>1, BusyWorker DEF Pages
  <1> HIDE DEF full, t, row
  <1>12. /\ job' \in [Jobs -> CrmOutboundJob] /\ job'[JobOf(w)] = row
         /\ \A j \in Jobs \ {JobOf(w)} : job'[j] = job[j]
    BY <1>1, <1>2, <1>5, BusyWorker
  <1>13. WorkerOK(w)'
    <2>1. worker'[w] = t /\ worker[w].msg \in Message
      BY <1>1, <1>4, BusyWorker
    <2>2. job[JobOf(w)].status # "none"
      BY <1>1 DEF WorkerOK, JobOf
    <2>3. CASE full
      BY <1>2, <1>5, <1>6, <1>7, <1>8, <1>9, <1>11, <1>12, <2>1, <2>2, <2>3, PagesConstant
         DEF WorkerOK, JobOf, RowsBefore
    <2>4. CASE ~full
      BY <1>2, <1>5, <1>7, <1>8, <1>10, <1>12, <2>1, <2>2, <2>4, PagesConstant
         DEF WorkerOK, JobOf
    <2>5. QED BY <2>3, <2>4
  <1>14. QED
    BY <1>1, <1>2, <1>4, <1>5, <1>7, <1>8, <1>12, <1>13, BusyWorker, Advance

\* An exception, its handler or a refused UPDATE, before the task is given back.
LEMMA FaultInv ==
  ASSUME IInv, NEW w \in Workers,
         TryBlockFault(w) \/ UncaughtFault(w) \/ HandlerRefused(w) \/ SaveFailure(w)
  PROVE  IInv'
  <1>1. worker[w].pc \in {"load", "search", "send", "progress", "finish", "handler"}
    BY DEF TryBlockFault, UncaughtFault, HandlerRefused, SaveFailure, Busy, UsesDatabase
  <1>2. UNCHANGED <<clients, api, queue, delivered, lost>>
    BY DEF TryBlockFault, UncaughtFault, HandlerRefused, SaveFailure
  <1>3. used' \in [faults : 0..MaxFaults, crashes : 0..MaxCrashes,
                   redeliveries : 0..MaxRedeliveries]
    <2>1. CASE used' = used
      BY <1>1, <2>1, BusyWorker
    <2>2. CASE used' = [used EXCEPT !.faults = @ + 1] /\ used.faults < MaxFaults
      BY <1>1, <2>2, BusyWorker
    <2>3. QED
      BY <2>1, <2>2 DEF TryBlockFault, UncaughtFault, HandlerRefused, SaveFailure
  <1>4. PICK t \in Task : /\ worker' = [worker EXCEPT ![w] = t] /\ t.msg = worker[w].msg
                          /\ t.pc \in {"handler", "raise"}
                          /\ t.pc = "handler" => TryBlockFault(w)
    <2>1. CASE TryBlockFault(w)
      <3>1. PICK aborted \in BOOLEAN :
              worker' = [worker EXCEPT ![w].pc = "handler", ![w].aborted = aborted]
        BY <2>1 DEF TryBlockFault
      <3> DEFINE t == [worker[w] EXCEPT !.pc = "handler", !.aborted = aborted]
      <3>2. t \in Task /\ t.msg = worker[w].msg /\ t.pc = "handler"
        BY <1>1, BusyWorker DEF Task
      <3>3. worker' = [worker EXCEPT ![w] = t]
        BY <1>1, <3>1, BusyWorker
      <3>4. QED BY <2>1, <3>2, <3>3
    <2>2. CASE UncaughtFault(w) \/ HandlerRefused(w) \/ SaveFailure(w)
      <3> DEFINE t == [worker[w] EXCEPT !.pc = "raise"]
      <3>1. t \in Task /\ t.msg = worker[w].msg /\ t.pc = "raise"
        BY <1>1, BusyWorker DEF Task
      <3>2. worker' = [worker EXCEPT ![w] = t]
        BY <2>2 DEF UncaughtFault, HandlerRefused, SaveFailure, Goto
      <3>3. QED BY <3>1, <3>2
    <2>3. QED BY <2>1, <2>2
  <1>5. /\ job' \in [Jobs -> CrmOutboundJob]
        /\ \A j \in Jobs \ {JobOf(w)} : job'[j] = job[j]
        /\ \/ job' = job
           \/ worker[w].pc = "handler" /\ job'[JobOf(w)].status = "failed"
    <2>1. CASE SaveFailure(w)
      <3> DEFINE row == [job[JobOf(w)] EXCEPT !.status = "failed", !.finished = TRUE]
      <3>1. row \in CrmOutboundJob /\ row.status = "failed"
        BY <1>1, BusyWorker DEF CrmOutboundJob
      <3>2. job' = [job EXCEPT ![JobOf(w)] = row] /\ worker[w].pc = "handler"
        BY <1>1, <2>1, BusyWorker DEF SaveFailure, Busy
      <3>3. QED BY <1>1, <3>1, <3>2, BusyWorker
    <2>2. CASE job' = job
      BY <1>1, <2>2, BusyWorker
    <2>3. QED
      BY <2>1, <2>2 DEF TryBlockFault, UncaughtFault, HandlerRefused, SaveFailure
  <1>6. worker[w].pc # "load" => job[JobOf(w)].status # "none"
    BY <1>1 DEF IInv, WorkerOK, JobOf
  <1>7. TryBlockFault(w) => worker[w].pc # "load" /\ job' = job
    BY DEF TryBlockFault, UsesDatabase
  <1>8. WorkerOK(w)'
    <2>1. worker'[w] = t /\ worker[w].msg \in Message
      BY <1>1, <1>4, BusyWorker
    <2>2. QED
      BY <1>4, <1>6, <1>7, <2>1 DEF WorkerOK, JobOf
  <1>9. QED
    BY <1>1, <1>2, <1>3, <1>4, <1>5, <1>6, <1>8, BusyWorker, Advance

-----------------------------------------------------------------------------
\* The task of a worker comes to its end, or returns to the queue.
LEMMA TaskEnds ==
  ASSUME IInv, NEW w \in Workers, worker[w].pc \notin {"idle", "ack"},
         UNCHANGED <<clients, api, delivered, used>>,
         worker' = [worker EXCEPT ![w].pc = "ack"],
         queue \subseteq queue', queue' \subseteq Message,
         \A m \in queue' \ queue : m.job = JobOf(w),
         job' \in [Jobs -> CrmOutboundJob],
         \A j \in Jobs \ {JobOf(w)} : job'[j] = job[j],
         job[JobOf(w)].status # "none" <=> job'[JobOf(w)].status # "none",
         job'[JobOf(w)].status = "sent" =>
           job[JobOf(w)].status = "sent" \/ Pages \subseteq delivered[JobOf(w)],
         lost' \in [Jobs -> SUBSET Reasons],
         \A j \in Jobs : lost[j] \subseteq lost'[j],
         \/ job'[JobOf(w)].status \in {"sent", "failed"} \/ lost'[JobOf(w)] # {}
         \/ \E m \in queue' : m.job = JobOf(w)
  PROVE  IInv'
  <1> DEFINE t == [worker[w] EXCEPT !.pc = "ack"]
  <1>1. t \in Task /\ t.pc = "ack" /\ t.msg = worker[w].msg
    BY BusyWorker DEF Task
  <1>2. worker' = [worker EXCEPT ![w] = t]
    OBVIOUS
  <1> HIDE DEF t
  <1>3. TypeOK' /\ worker'[w] = t /\ \A q \in Workers \ {w} : worker'[q] = worker[q]
    BY <1>1, <1>2 DEF IInv, TypeOK
  <1>4. WorkerOK(w)'
    <2>1. worker[w].msg \in Message
      BY BusyWorker
    <2>2. QED BY <1>1, <1>3, <2>1 DEF WorkerOK
  <1>5. \A q \in Workers : WorkerOK(q)'
    BY <1>3, <1>4, OtherTasks
  <1>6. ASSUME NEW j \in Jobs, HasTask(j)' PROVE HasTask(j)
    <2>1. CASE j = JobOf(w)
      BY <2>1 DEF HasTask, JobOf
    <2>2. CASE j # JobOf(w)
      BY <1>1, <1>3, <1>6, <2>2 DEF HasTask, JobOf
    <2>3. QED BY <2>1, <2>2
  <1>7. ASSUME NEW j \in Jobs, Working(j) \/ Ended(j) PROVE Working(j)' \/ Ended(j)'
    <2>1. CASE j = JobOf(w)
      BY <2>1 DEF Working, Ended
    <2>2. CASE j # JobOf(w) /\ Working(j)
      BY <1>1, <1>3, <2>2 DEF Working, JobOf
    <2>3. CASE j # JobOf(w) /\ Ended(j)
      BY <2>3 DEF Ended
    <2>4. QED BY <1>7, <2>1, <2>2, <2>3
  <1>8. \A j \in Jobs : JobOK(j)'
    BY <1>6, <1>7, JobsKept
  <1>9. QED BY <1>3, <1>5, <1>8 DEF IInv

\* A task ends: its job is not found, sent, tried again or given up.
LEMMA EndInv ==
  ASSUME IInv, NEW w \in Workers,
         JobNotFound(w) \/ FinishJob(w) \/ Retry(w) \/ GiveUp(w)
  PROVE  IInv'
  <1>1. worker[w].pc \in {"load", "finish", "raise"}
    BY DEF JobNotFound, FinishJob, Retry, GiveUp, Busy
  <1>2. /\ UNCHANGED <<clients, api, delivered, used>>
        /\ worker' = [worker EXCEPT ![w].pc = "ack"]
    BY DEF JobNotFound, FinishJob, Retry, GiveUp, Goto
  <1>3. /\ queue \subseteq Message /\ lost \in [Jobs -> SUBSET Reasons]
        /\ job \in [Jobs -> CrmOutboundJob] /\ JobOf(w) \in Jobs
        /\ job[JobOf(w)] \in CrmOutboundJob /\ worker[w].msg \in Message
    BY <1>1, BusyWorker DEF IInv, TypeOK
  <1>4. CASE FinishJob(w)
    <2> DEFINE row == [job[JobOf(w)] EXCEPT !.status = "sent", !.finished = TRUE]
    <2>1. row \in CrmOutboundJob /\ row.status = "sent"
      BY <1>3 DEF CrmOutboundJob
    <2>2. job' = [job EXCEPT ![JobOf(w)] = row] /\ UNCHANGED <<queue, lost>>
      BY <1>3, <1>4 DEF FinishJob
    <2> HIDE DEF row
    <2>3. /\ job' \in [Jobs -> CrmOutboundJob] /\ job'[JobOf(w)] = row
          /\ \A j \in Jobs \ {JobOf(w)} : job'[j] = job[j]
      BY <1>3, <2>1, <2>2
    <2>4. Pages \subseteq delivered[JobOf(w)] /\ job[JobOf(w)].status # "none"
      BY <1>4 DEF FinishJob, Busy, IInv, WorkerOK, JobOf
    <2>5. QED
      BY <1>1, <1>2, <1>3, <2>1, <2>2, <2>3, <2>4, TaskEnds
  <1>5. CASE JobNotFound(w) \/ GiveUp(w)
    <2>1. job' = job /\ queue' = queue
      BY <1>5 DEF JobNotFound, GiveUp
    <2>2. lost' \in [Jobs -> SUBSET Reasons] /\ \A j \in Jobs : lost[j] \subseteq lost'[j]
      BY <1>3, <1>5 DEF JobNotFound, GiveUp, Reasons
    <2>3. job[JobOf(w)].status = "failed" \/ lost'[JobOf(w)] # {}
      BY <1>3, <1>5 DEF JobNotFound, GiveUp
    <2>4. QED
      BY <1>1, <1>2, <1>3, <2>1, <2>2, <2>3, TaskEnds
  <1>6. CASE Retry(w)
    <2> DEFINE m == [worker[w].msg EXCEPT !.retries = @ + 1]
    <2>1. m \in Message /\ m.job = JobOf(w)
      <3>1. MaxRetries \in Nat /\ worker[w].msg.retries < MaxRetries
        BY <1>6, ConstantsAssumption DEF Retry
      <3>2. QED BY <1>3, <3>1 DEF Message, JobOf
    <2>2. queue' = queue \cup {m} /\ job' = job /\ lost' = lost
      BY <1>6 DEF Retry
    <2> HIDE DEF m
    <2>3. queue' \subseteq Message /\ \E n \in queue' : n.job = JobOf(w)
      BY <1>3, <2>1, <2>2
    <2>4. \A n \in queue' \ queue : n.job = JobOf(w)
      BY <2>1, <2>2
    <2>5. QED
      BY <1>1, <1>2, <1>3, <2>2, <2>3, <2>4, TaskEnds
  <1>7. QED BY <1>4, <1>5, <1>6

\* A message comes back to the queue, with or without the loss of its worker.
LEMMA RequeueInv ==
  ASSUME IInv, NEW w \in Workers, WorkerLost(w) \/ VisibilityTimeout(w)
  PROVE  IInv'
  <1>1. worker[w].pc # "idle" /\ UNCHANGED <<clients, job, api, delivered, lost>>
    BY DEF WorkerLost, VisibilityTimeout, Busy
  <1>2. /\ queue' = queue \cup {Requeued(w)}
        /\ worker' \in {worker, [worker EXCEPT ![w] = IdleTask]}
    BY DEF WorkerLost, VisibilityTimeout
  <1>3. Requeued(w) \in Message /\ Requeued(w).job = JobOf(w)
    <2>1. used.crashes + used.redeliveries + 1 \in 0..(MaxCrashes + MaxRedeliveries)
      BY <1>1, BusyWorker DEF WorkerLost, VisibilityTimeout
    <2>2. QED BY <1>1, <2>1, BusyWorker DEF Requeued, Message, JobOf
  <1>4. used' \in [faults : 0..MaxFaults, crashes : 0..MaxCrashes,
                   redeliveries : 0..MaxRedeliveries]
    BY <1>1, BusyWorker DEF WorkerLost, VisibilityTimeout
  <1>5. IdleTask \in Task /\ IdleTask.pc = "idle"
    BY <1>1, BusyWorker DEF IdleTask, Task
  <1> HIDE DEF IdleTask
  <1>6. TypeOK'
    BY <1>1, <1>2, <1>3, <1>4, <1>5 DEF IInv, TypeOK
  <1>7. /\ \A q \in Workers \ {w} : worker'[q] = worker[q]
        /\ worker'[w] = worker[w] \/ worker'[w].pc = "idle"
    BY <1>1, <1>2, <1>5, BusyWorker
  <1>8. WorkerOK(w)'
    <2>1. CASE worker'[w] = worker[w]
      BY <1>1, <2>1, PagesConstant DEF IInv, WorkerOK, RowsBefore
    <2>2. CASE worker'[w].pc = "idle"
      BY <2>2 DEF WorkerOK
    <2>3. QED BY <1>7, <2>1, <2>2
  <1>9. \A q \in Workers : WorkerOK(q)'
    BY <1>1, <1>7, <1>8, OtherTasks
  <1>10. ASSUME NEW j \in Jobs, HasTask(j)' PROVE HasTask(j)
    <2>1. CASE j = JobOf(w)
      BY <1>1, <2>1 DEF HasTask, JobOf
    <2>2. CASE j # JobOf(w)
      BY <1>2, <1>3, <1>7, <1>10, <2>2 DEF HasTask, JobOf
    <2>3. QED BY <2>1, <2>2
  <1>11. ASSUME NEW j \in Jobs, Working(j) \/ Ended(j) PROVE Working(j)' \/ Ended(j)'
    <2>1. CASE j = JobOf(w)
      BY <1>2, <1>3, <2>1 DEF Working
    <2>2. CASE j # JobOf(w) /\ Working(j)
      BY <1>2, <1>7, <2>2 DEF Working, JobOf
    <2>3. CASE Ended(j)
      BY <1>1, <2>3 DEF Ended
    <2>4. QED BY <1>11, <2>1, <2>2, <2>3
  <1>12. \A j \in Jobs : JobOK(j)'
    BY <1>1, <1>10, <1>11, JobsKept
  <1>13. QED BY <1>6, <1>9, <1>12 DEF IInv

\* A message is acknowledged: its task has come to its end before.
LEMMA AcknowledgeInv ==
  ASSUME IInv, NEW w \in Workers, Acknowledge(w)
  PROVE  IInv'
  <1>1. /\ worker[w].pc = "ack" /\ UNCHANGED <<clients, job, api, queue, delivered, lost, used>>
        /\ worker' = [worker EXCEPT ![w] = IdleTask]
    BY DEF Acknowledge, Busy
  <1>2. IdleTask \in Task /\ IdleTask.pc = "idle"
    BY <1>1, BusyWorker DEF IdleTask, Task
  <1> HIDE DEF IdleTask
  <1>3. TypeOK'
    BY <1>1, <1>2 DEF IInv, TypeOK
  <1>4. worker'[w].pc = "idle" /\ \A q \in Workers \ {w} : worker'[q] = worker[q]
    BY <1>1, <1>2, BusyWorker
  <1>5. \A q \in Workers : WorkerOK(q)'
    BY <1>1, <1>4, OtherTasks DEF WorkerOK
  <1>6. \A j \in Jobs : /\ HasTask(j)' => HasTask(j)
                        /\ Working(j) \/ Ended(j) => Working(j)' \/ Ended(j)'
    BY <1>1, <1>4 DEF HasTask, Working, Ended
  <1>7. \A j \in Jobs : JobOK(j)'
    BY <1>1, <1>6, JobsKept
  <1>8. QED BY <1>3, <1>5, <1>7 DEF IInv

\* An idle worker takes a message: the job has a task before and after.
LEMMA TakeMessageInv ==
  ASSUME IInv, NEW w \in Workers, NEW m \in queue, TakeMessage(w, m)
  PROVE  IInv'
  <1> DEFINE t == [IdleTask EXCEPT !.msg = m, !.pc = "load"]
  <1>1. /\ worker[w].pc = "idle" /\ UNCHANGED <<clients, job, api, delivered, lost, used>>
        /\ queue' = queue \ {m} /\ worker' = [worker EXCEPT ![w] = t] /\ m \in Message
    BY DEF TakeMessage, Busy, IInv, TypeOK
  <1>2. t \in Task /\ t.pc = "load" /\ t.msg = m /\ t.page = 1 /\ t.sent = 0
    <2>1. MaxClients \in Nat
      BY ConstantsAssumption
    <2>2. IdleTask \in Task /\ IdleTask.page = 1 /\ IdleTask.sent = 0
      BY <2>1 DEF IdleTask, Task
    <2> HIDE DEF IdleTask
    <2>3. QED BY <1>1, <2>2 DEF Task
  <1> HIDE DEF t
  <1>3. TypeOK' /\ worker'[w] = t /\ \A q \in Workers \ {w} : worker'[q] = worker[q]
    BY <1>1, <1>2 DEF IInv, TypeOK
  <1>4. \A q \in Workers : WorkerOK(q)'
    BY <1>1, <1>2, <1>3, OtherTasks DEF WorkerOK
  <1>5. ASSUME NEW j \in Jobs
        PROVE  /\ HasTask(j)' => HasTask(j)
               /\ Working(j) \/ Ended(j) => Working(j)' \/ Ended(j)'
    <2>1. HasTask(j)' => HasTask(j)
      BY <1>1, <1>2, <1>3 DEF HasTask
    <2>2. CASE m.job = j
      BY <1>1, <1>2, <1>3, <2>1, <2>2 DEF Working
    <2>3. CASE m.job # j
      BY <1>1, <1>2, <1>3, <2>1, <2>3 DEF Working, Ended
    <2>4. QED BY <2>2, <2>1, <2>3
  <1>6. \A j \in Jobs : JobOK(j)'
    BY <1>1, <1>5, JobsKept
  <1>7. QED BY <1>3, <1>4, <1>6 DEF IInv

\* The statements of the request that creates a job.
LEMMA ApiInv ==
  ASSUME IInv, NEW i \in Jobs, CreateJob(i) \/ ApiStep(i) \/ RollbackJob(i)
  PROVE  IInv'
  <1>1. UNCHANGED <<clients, worker, delivered, used>>
    BY DEF CreateJob, ApiStep, PublishTask, PublishFails, CommitJob, RollbackJob
  <1> DEFINE m == [job |-> i, retries |-> 0, copy |-> 0]
  <1>2. /\ queue' = queue \/ (PublishTask(i) /\ queue' = queue \cup {m})
        /\ lost' = lost \/ (PublishFails(i) /\ lost' = [lost EXCEPT ![i] = @ \cup {"notQueued"}])
        /\ job' = job \/ (CommitJob(i) /\ job' = [job EXCEPT ![i].status = "pending"])
    BY DEF CreateJob, ApiStep, PublishTask, PublishFails, CommitJob, RollbackJob
  <1>3. m \in Message /\ m.job = i
    BY ConstantsAssumption DEF Message
  <1> HIDE DEF m
  <1>4. /\ job' \in [Jobs -> CrmOutboundJob]
        /\ \A j \in Jobs \ {i} : job'[j] = job[j]
        /\ job' = job \/ (CommitJob(i) /\ job'[i].status = "pending")
    BY <1>2 DEF IInv, TypeOK, CrmOutboundJob
  <1>5. /\ lost' \in [Jobs -> SUBSET Reasons] /\ \A j \in Jobs : lost[j] \subseteq lost'[j]
        /\ PublishFails(i) => lost'[i] # {}
    BY <1>2 DEF IInv, TypeOK, Reasons, PublishFails
  <1>6. /\ api' \in [Jobs -> {"new", "inserted", "published", "committed", "rolledBack"}]
        /\ \A j \in Jobs \ {i} : api'[j] = api[j]
        /\ \/ api[i] = "new" /\ api'[i] = "inserted" /\ CreateJob(i)
           \/ api[i] = "inserted" /\ api'[i] = "published" /\ (PublishTask(i) \/ PublishFails(i))
           \/ api[i] = "published" /\ api'[i] = "committed" /\ CommitJob(i)
           \/ api[i] \in {"inserted", "published"} /\ api'[i] = "rolledBack" /\ RollbackJob(i)
    BY DEF CreateJob, ApiStep, PublishTask, PublishFails, CommitJob, RollbackJob, IInv, TypeOK
  <1>7. TypeOK'
    BY <1>1, <1>2, <1>3, <1>4, <1>5, <1>6 DEF IInv, TypeOK
  <1>8. \A w \in Workers : WorkerOK(w)'
    <2> SUFFICES ASSUME NEW w \in Workers PROVE WorkerOK(w)'
      OBVIOUS
    <2>1. WorkerOK(w) /\ \A j \in Jobs : job[j].status # "none" => job'[j].status # "none"
      BY <1>4 DEF IInv
    <2>2. CASE worker[w].pc = "idle"
      BY <1>1, <2>2 DEF WorkerOK
    <2>3. CASE worker[w].pc # "idle"
      BY <1>1, <2>1, <2>3, BusyWorker, PagesConstant DEF WorkerOK, RowsBefore, JobOf
    <2>4. QED BY <2>2, <2>3
  <1>9. ASSUME NEW j \in Jobs PROVE JobOK(j)'
    <2>1. JobOK(j) /\ Pages' = Pages
      BY <1>1, PagesConstant DEF IInv
    <2>2. CASE j # i
      <3>1. HasTask(j)' = HasTask(j) /\ Working(j)' = Working(j)
        BY <1>1, <1>2, <1>3, <2>2 DEF HasTask, Working
      <3>2. Ended(j) => Ended(j)'
        BY <1>4, <1>5, <2>2 DEF Ended
      <3>3. QED BY <1>1, <1>4, <1>6, <2>1, <2>2, <3>1, <3>2 DEF JobOK
    <2>3. CASE j = i
      <3>1. CASE PublishTask(i)
        <4>1. queue' = queue \cup {m} /\ job' = job /\ api[i] = "inserted" /\ api'[i] = "published"
          BY <1>3, <1>6, <3>1 DEF PublishTask, m, IInv, TypeOK
        <4>2. Working(i)'
          BY <1>3, <4>1 DEF Working
        <4>3. QED BY <1>1, <2>1, <2>3, <4>1, <4>2 DEF JobOK
      <3>2. CASE ~PublishTask(i)
        <4>1. queue' = queue
          BY <1>2, <3>2
        <4>2. (HasTask(i)' <=> HasTask(i)) /\ (Working(i)' <=> Working(i))
          BY <1>1, <4>1 DEF HasTask, Working
        <4>3. CASE CreateJob(i) \/ RollbackJob(i) \/ PublishFails(i)
          <5>1. job' = job
            BY <4>3 DEF CreateJob, RollbackJob, PublishFails
          <5>2. Ended(i) => Ended(i)'
            BY <1>5, <5>1 DEF Ended
          <5>3. PublishFails(i) => Ended(i)'
            BY <1>5 DEF Ended
          <5>4. api[i] # "committed"
            BY <4>3 DEF CreateJob, RollbackJob, PublishFails
          <5>5. CASE CreateJob(i)
            BY <1>1, <1>6, <2>1, <2>3, <4>2, <5>1, <5>2, <5>4, <5>5 DEF JobOK, CreateJob
          <5>6. CASE RollbackJob(i)
            BY <1>1, <1>6, <2>1, <2>3, <4>2, <5>1, <5>2, <5>4, <5>6 DEF JobOK, RollbackJob
          <5>7. CASE PublishFails(i)
            BY <1>1, <1>6, <2>1, <2>3, <4>2, <5>1, <5>3, <5>4, <5>7 DEF JobOK, PublishFails
          <5>8. QED BY <4>3, <5>5, <5>6, <5>7
        <4>4. CASE CommitJob(i)
          <5>1. api[i] = "published" /\ api'[i] = "committed" /\ lost' = lost
            BY <1>6, <4>4 DEF CommitJob
          <5>2. job[i].status = "none" /\ job'[i].status = "pending"
            BY <2>1, <2>3, <4>4, <5>1 DEF JobOK, CommitJob, IInv, TypeOK, CrmOutboundJob
          <5>3. Ended(i) => Ended(i)'
            BY <5>1, <5>2 DEF Ended
          <5>4. QED BY <1>1, <2>1, <2>3, <4>2, <5>1, <5>2, <5>3 DEF JobOK
        <4>5. QED BY <1>6, <3>2, <4>3, <4>4
      <3>3. QED BY <3>1, <3>2
    <2>4. QED BY <2>2, <2>3
  <1>10. QED BY <1>7, <1>8, <1>9 DEF IInv

-----------------------------------------------------------------------------
\* The inductive invariant holds before the first export.
LEMMA InitInv ==
  ASSUME Init
  PROVE  IInv
  <1>1. MaxClients \in Nat /\ MaxFaults \in Nat /\ MaxCrashes \in Nat /\ MaxRedeliveries \in Nat
    BY ConstantsAssumption
  <1>2. IdleTask \in Task /\ IdleTask.pc = "idle"
    BY <1>1 DEF IdleTask, Task
  <1>3. TypeOK
    BY <1>1, <1>2 DEF Init, TypeOK, CrmOutboundJob
  <1>4. \A w \in Workers : worker[w].pc = "idle"
    BY <1>2 DEF Init
  <1>5. \A w \in Workers : WorkerOK(w)
    BY <1>4 DEF WorkerOK
  <1>6. \A j \in Jobs : JobOK(j)
    BY <1>4 DEF Init, JobOK, HasTask
  <1>7. QED BY <1>3, <1>5, <1>6 DEF IInv

\* Every step keeps the inductive invariant.
LEMMA StepInv ==
  ASSUME IInv, [Next]_vars
  PROVE  IInv'
  <1>1. CASE UNCHANGED vars
    BY <1>1 DEF vars, IInv, TypeOK, WorkerOK, JobOK, HasTask, Working, Ended, Pages,
                PageItems, RowsBefore
  <1>2. ASSUME NEW w \in Workers, WorkerStep(w) PROVE IInv'
    BY <1>2, EndInv, MarkRunningInv, SearchPageInv, SendBatchInv, SaveProgressInv, FaultInv,
       AcknowledgeInv DEF WorkerStep
  <1>3. ASSUME NEW w \in Workers, WorkerFails(w) PROVE IInv'
    BY <1>3, FaultInv, RequeueInv DEF WorkerFails
  <1>4. QED
    BY <1>1, <1>2, <1>3, ApiInv, TakeMessageInv DEF Next

\* The inductive invariant holds in every reachable state.
THEOREM Invariance == Spec => []IInv
  <1>1. Init => IInv
    BY InitInv
  <1>2. IInv /\ [Next]_vars => IInv'
    BY StepInv
  <1>3. QED BY <1>1, <1>2, PTL DEF Spec

\* Type correctness of CrmOutbound: no counter, page or attempt leaves its range.
THEOREM TypeCorrectness == Spec => []TypeOK
  <1>1. IInv => TypeOK
    BY DEF IInv
  <1>2. QED BY <1>1, Invariance, PTL

\* An unfinished job has a task or an excuse, with any number of lost workers,
\* retries and redelivered copies (celery_app.py:32-34, tasks.py:39-48).
THEOREM UnfinishedJobs == Spec => []UnfinishedJobsHaveTasks
  <1>1. IInv => UnfinishedJobsHaveTasks
    <2> SUFFICES ASSUME IInv, NEW j \in Jobs, job[j].status \in {"pending", "running"}
                 PROVE  HasTask(j) \/ lost[j] # {}
      BY DEF UnfinishedJobsHaveTasks
    <2>1. Working(j) \/ Ended(j)
      BY DEF IInv, JobOK
    <2>2. Working(j) => HasTask(j)
      BY DEF Working, HasTask
    <2>3. Ended(j) => lost[j] # {}
      BY DEF Ended
    <2>4. QED BY <2>1, <2>2, <2>3
  <1>2. QED BY <1>1, Invariance, PTL

\* A sent job was delivered in full, for any number of rows and any page size
\* (tasks.py:104-141).
THEOREM SentJobs == Spec => []SentMeansDelivered
  <1>1. IInv => SentMeansDelivered
    BY DEF IInv, JobOK, SentMeansDelivered
  <1>2. QED BY <1>1, Invariance, PTL

-----------------------------------------------------------------------------
\* The state of ExportJob, as the refinement maps it.
Status == [j \in Jobs |-> job[j].status]
Phases == [j \in Jobs |-> Phase(j)]
Excused == {j \in Jobs : lost[j] # {}}

\* Which jobs have a task, and what the API has done, decide the phases.
LEMMA PhasesKept ==
  ASSUME \A j \in Jobs : HasTask(j)' <=> HasTask(j), clients' = clients, api' = api, lost' = lost
  PROVE  Phases' = Phases /\ Excused' = Excused /\ Pages' = Pages
  BY PagesConstant DEF Phases, Phase, Excused

\* A worker that goes on with its task, or ends it, keeps it until it acknowledges.
LEMMA TaskKept ==
  ASSUME IInv, NEW w \in Workers, worker[w].pc # "idle", worker'[w].pc # "idle",
         worker'[w].msg = worker[w].msg, \A q \in Workers \ {w} : worker'[q] = worker[q],
         queue \subseteq queue', \A m \in queue' \ queue : m.job = JobOf(w)
  PROVE  /\ \A j \in Jobs : HasTask(j)' <=> HasTask(j)
         /\ JobOf(w) \in Jobs /\ HasTask(JobOf(w)) /\ Phases[JobOf(w)] = "queued"
  <1>1. JobOf(w) \in Jobs /\ HasTask(JobOf(w))
    BY BusyWorker DEF HasTask, JobOf
  <1>2. ASSUME NEW j \in Jobs PROVE HasTask(j)' <=> HasTask(j)
    <2>1. CASE j = JobOf(w)
      BY <2>1 DEF HasTask, JobOf
    <2>2. CASE j # JobOf(w)
      BY <2>2 DEF HasTask, JobOf
    <2>3. QED BY <2>1, <2>2
  <1>3. QED BY <1>1, <1>2 DEF Phases, Phase

\* The steps of the request are steps of the export's promise.
LEMMA ApiRefines ==
  ASSUME IInv, NEW i \in Jobs, CreateJob(i) \/ ApiStep(i) \/ RollbackJob(i)
  PROVE  [Export!Next]_Export!vars
  <1>1. /\ UNCHANGED <<clients, worker, delivered>> /\ Pages' = Pages
        /\ JobOK(i) /\ \A j \in Jobs \ {i} : api'[j] = api[j]
        /\ api \in [Jobs -> {"new", "inserted", "published", "committed", "rolledBack"}]
        /\ job \in [Jobs -> CrmOutboundJob] /\ lost \in [Jobs -> SUBSET Reasons]
    BY PagesConstant DEF CreateJob, ApiStep, PublishTask, PublishFails, CommitJob,
       RollbackJob, IInv, TypeOK
  <1>2. CASE PublishTask(i)
    <2> DEFINE m == [job |-> i, retries |-> 0, copy |-> 0]
    <2>1. /\ api[i] = "inserted" /\ queue' = queue \cup {m} /\ UNCHANGED <<job, lost>>
          /\ m.job = i
      BY <1>2 DEF PublishTask
    <2> HIDE DEF m
    <2>2. HasTask(i)' /\ ~HasTask(i)
      BY <1>1, <2>1 DEF HasTask, JobOK
    <2>3. \A j \in Jobs \ {i} : HasTask(j)' <=> HasTask(j)
      BY <1>1, <2>1 DEF HasTask
    <2>4. Phases[i] = "new" /\ Phases' = [Phases EXCEPT ![i] = "queued"]
      BY <1>1, <2>1, <2>2, <2>3 DEF Phases, Phase
    <2>5. Export!Queue(i)
      BY <1>1, <2>1, <2>4 DEF Export!Queue, Phases, Status
    <2>6. QED BY <2>5 DEF Export!Next
  <1>3. CASE ~PublishTask(i)
    <2>1. queue' = queue
      BY <1>3 DEF CreateJob, ApiStep, PublishFails, CommitJob, RollbackJob
    <2>2. \A j \in Jobs : HasTask(j)' <=> HasTask(j)
      BY <1>1, <2>1 DEF HasTask
    <2>3. CASE PublishFails(i)
      <3>1. /\ api[i] = "inserted" /\ api'[i] = "published" /\ job' = job
            /\ lost' = [lost EXCEPT ![i] = @ \cup {"notQueued"}]
        BY <1>1, <2>3 DEF PublishFails
      <3>2. ~HasTask(i)
        BY <1>1, <3>1 DEF JobOK
      <3>3. Phases[i] = "new" /\ Phases' = [Phases EXCEPT ![i] = "over"]
        BY <1>1, <2>2, <3>1, <3>2 DEF Phases, Phase
      <3>4. Excused' = Excused \cup {i}
        BY <1>1, <3>1 DEF Excused
      <3>5. Export!Excuse(i)
        BY <1>1, <3>1, <3>3, <3>4 DEF Export!Excuse, Phases, Status, Excused
      <3>6. QED BY <3>5 DEF Export!Next
    <2>4. CASE CommitJob(i)
      <3>1. /\ api[i] = "published" /\ api'[i] = "committed" /\ lost' = lost
            /\ job' = [job EXCEPT ![i].status = "pending"]
        BY <1>1, <2>4 DEF CommitJob
      <3>2. job[i].status = "none" /\ (Working(i) \/ Ended(i))
        BY <1>1, <3>1 DEF JobOK
      <3>3. Phases[i] = "queued" \/ i \in Excused
        <4>1. Working(i) => HasTask(i)
          BY DEF Working, HasTask
        <4>2. QED BY <3>2, <4>1 DEF Ended, Phases, Phase, Excused
      <3>4. Phases' = Phases /\ Excused' = Excused
        BY <1>1, <2>2, <3>1 DEF Phases, Phase, Excused
      <3>5. Status[i] = "none" /\ Status' = [Status EXCEPT ![i] = "pending"]
        BY <1>1, <3>1, <3>2 DEF Status, CrmOutboundJob
      <3>6. Export!Accept(i)
        BY <1>1, <3>3, <3>4, <3>5 DEF Export!Accept, Phases, Status, Excused
      <3>7. QED BY <3>6 DEF Export!Next
    <2>5. CASE CreateJob(i) \/ RollbackJob(i)
      <3>1. job' = job /\ lost' = lost
        BY <2>5 DEF CreateJob, RollbackJob
      <3>2. CASE RollbackJob(i) /\ api[i] = "inserted"
        <4>1. api'[i] = "rolledBack" /\ ~HasTask(i) /\ job[i].status = "none"
          BY <1>1, <3>2 DEF RollbackJob, JobOK
        <4>2. Phases[i] = "new" /\ Phases' = [Phases EXCEPT ![i] = "over"]
          BY <1>1, <2>2, <3>2, <4>1 DEF Phases, Phase
        <4>3. Export!Cancel(i)
          BY <1>1, <3>1, <4>1, <4>2 DEF Export!Cancel, Phases, Status
        <4>4. QED BY <4>3 DEF Export!Next
      <3>3. CASE ~(RollbackJob(i) /\ api[i] = "inserted")
        <4>1. api'[i] \in {"new", "inserted"} <=> api[i] \in {"new", "inserted"}
          BY <1>1, <2>5, <3>3 DEF CreateJob, RollbackJob
        <4>2. Phases' = Phases
          BY <1>1, <2>2, <4>1 DEF Phases, Phase
        <4>3. QED BY <1>1, <3>1, <4>2 DEF Export!vars, Phases, Status
      <3>4. QED BY <3>2, <3>3
    <2>6. QED BY <1>3, <2>3, <2>4, <2>5 DEF ApiStep
  <1>4. QED BY <1>2, <1>3

\* The steps of a task are steps of the export's promise.
LEMMA WorkerRefines ==
  ASSUME IInv, NEW w \in Workers, WorkerStep(w), ~Acknowledge(w)
  PROVE  [Export!Next]_Export!vars
  <1>0. worker[w].pc # "idle"
    BY DEF WorkerStep, JobNotFound, MarkRunning, SearchPage, SendBatch, SaveProgress,
           FinishJob, HandlerRefused, SaveFailure, Retry, GiveUp, Busy
  <1>i. PICK i \in Jobs : i = JobOf(w)
    BY <1>0, BusyWorker
  <1>1. worker[w].pc # "idle" /\ UNCHANGED <<clients, api>> /\ queue \subseteq queue'
    BY DEF WorkerStep, JobNotFound, MarkRunning, SearchPage, SendBatch, SaveProgress,
           FinishJob, HandlerRefused, SaveFailure, Retry, GiveUp, Busy
  <1>2. /\ worker'[w].pc # "idle" /\ worker'[w].msg = worker[w].msg
        /\ \A q \in Workers \ {w} : worker'[q] = worker[q]
    <2>1. worker \in [Workers -> Task]
      BY <1>i, <1>1, BusyWorker
    <2>2. CASE SendBatch(w)
      BY <2>1, <2>2 DEF SendBatch, Task
    <2>3. CASE SaveProgress(w)
      BY <2>1, <2>3 DEF SaveProgress, Goto, Task
    <2>4. CASE JobNotFound(w) \/ MarkRunning(w) \/ SearchPage(w) \/ FinishJob(w)
      BY <2>1, <2>4 DEF JobNotFound, MarkRunning, SearchPage, FinishJob, Goto, Task
    <2>5. CASE HandlerRefused(w) \/ SaveFailure(w) \/ Retry(w) \/ GiveUp(w)
      BY <2>1, <2>5 DEF HandlerRefused, SaveFailure, Retry, GiveUp, Goto, Task
    <2>6. QED BY <2>2, <2>3, <2>4, <2>5 DEF WorkerStep
  <1>3. \A m \in queue' \ queue : m.job = i
    <2>1. CASE Retry(w)
      <3>1. \A m \in queue' \ queue : m = [worker[w].msg EXCEPT !.retries = @ + 1]
        BY <2>1 DEF Retry
      <3>2. [worker[w].msg EXCEPT !.retries = @ + 1].job = i
        BY <1>i, <1>1, BusyWorker DEF Message, JobOf
      <3>3. QED BY <3>1, <3>2
    <2>2. CASE ~Retry(w)
      BY <2>2 DEF WorkerStep, JobNotFound, MarkRunning, SearchPage, SendBatch, SaveProgress,
                  FinishJob, HandlerRefused, SaveFailure, GiveUp
    <2>3. QED BY <2>1, <2>2
  <1>4. /\ \A j \in Jobs : HasTask(j)' <=> HasTask(j)
        /\ i \in Jobs /\ Phases[i] = "queued"
    BY <1>i, <1>1, <1>2, <1>3, TaskKept
  <1>5. /\ Phases' = Phases /\ Pages' = Pages /\ (lost' = lost => Excused' = Excused)
    BY <1>i, <1>1, <1>4, PagesConstant DEF Phases, Phase, Excused
  <1>6. /\ job \in [Jobs -> CrmOutboundJob] /\ job[i] \in CrmOutboundJob
        /\ lost \in [Jobs -> SUBSET Reasons] /\ WorkerOK(w)
        /\ delivered \in [Jobs -> SUBSET (1..(MaxClients + 1))]
    BY <1>i, <1>1, <1>4, BusyWorker DEF IInv, TypeOK
  <1>7. CASE MarkRunning(w)
    <2>1. /\ job' = [job EXCEPT ![i].status = "running"] /\ job[i].status # "none"
          /\ UNCHANGED <<delivered, lost>>
      BY <1>i, <1>7 DEF MarkRunning
    <2>2. Status' = [Status EXCEPT ![i] = "running"] /\ Status[i] # "none"
      BY <1>i, <1>4, <1>6, <2>1 DEF Status, CrmOutboundJob
    <2>3. Export!Run(i)
      BY <1>i, <1>4, <1>5, <2>1, <2>2 DEF Export!Run, Status, Phases, Excused
    <2>4. QED BY <1>4, <2>3 DEF Export!Next
  <1>8. CASE SendBatch(w)
    <2> DEFINE p == worker[w].page
    <2>1. /\ delivered' = [delivered EXCEPT ![i] = @ \cup {p}]
          /\ UNCHANGED <<job, lost>>
      BY <1>i, <1>8 DEF SendBatch
    <2>2. p \in Pages
      BY <1>i, <1>1, <1>8, BusyWorker DEF SendBatch, Busy, IInv, WorkerOK, Pages, Task
    <2>3. Status[i] # "none"
      BY <1>i, <1>1, <1>4, <1>6, <1>8 DEF SendBatch, Busy, WorkerOK, Status, JobOf
    <2> HIDE DEF p
    <2>4. Export!Deliver(i, p)
      BY <1>i, <1>4, <1>5, <2>1, <2>2, <2>3 DEF Export!Deliver, Status, Phases, Excused
    <2>5. QED BY <1>4, <2>2, <2>4 DEF Export!Next
  <1>9. CASE FinishJob(w)
    <2>1. /\ job' = [job EXCEPT ![i].status = "sent", ![i].finished = TRUE]
          /\ UNCHANGED <<delivered, lost>>
      BY <1>i, <1>9 DEF FinishJob
    <2>2. Pages \subseteq delivered[i] /\ Status[i] # "none"
      BY <1>i, <1>4, <1>6, <1>9 DEF FinishJob, Busy, WorkerOK, Status, JobOf
    <2>3. Status' = [Status EXCEPT ![i] = "sent"]
      BY <1>i, <1>4, <1>6, <2>1 DEF Status, CrmOutboundJob
    <2>4. Export!Succeed(i)
      BY <1>i, <1>4, <1>5, <2>1, <2>2, <2>3 DEF Export!Succeed, Status, Phases, Excused
    <2>5. QED BY <1>4, <2>4 DEF Export!Next
  <1>10. CASE SaveFailure(w)
    <2>1. /\ job' = [job EXCEPT ![i].status = "failed", ![i].finished = TRUE]
          /\ UNCHANGED <<delivered, lost>>
      BY <1>i, <1>10 DEF SaveFailure
    <2>2. Status[i] # "none"
      BY <1>i, <1>4, <1>6, <1>10 DEF SaveFailure, Busy, WorkerOK, Status, JobOf
    <2>3. Status' = [Status EXCEPT ![i] = "failed"]
      BY <1>i, <1>4, <1>6, <2>1 DEF Status, CrmOutboundJob
    <2>4. Export!Fail(i)
      BY <1>i, <1>4, <1>5, <2>1, <2>2, <2>3 DEF Export!Fail, Status, Phases, Excused
    <2>5. QED BY <1>4, <2>4 DEF Export!Next
  <1>11. CASE SearchPage(w) \/ SaveProgress(w) \/ HandlerRefused(w) \/ Retry(w)
    <2>1. UNCHANGED <<delivered, lost>>
      BY <1>i, <1>11 DEF SearchPage, SaveProgress, HandlerRefused, Retry
    <2>2. Status' = Status
      <3>1. CASE SearchPage(w)
        BY <1>i, <1>4, <1>6, <3>1 DEF SearchPage, Status, CrmOutboundJob
      <3>2. CASE SaveProgress(w)
        BY <1>i, <1>4, <1>6, <3>2 DEF SaveProgress, Status, CrmOutboundJob
      <3>3. CASE HandlerRefused(w) \/ Retry(w)
        BY <3>3 DEF HandlerRefused, Retry, Status
      <3>4. QED BY <1>11, <3>1, <3>2, <3>3
    <2>3. QED BY <1>5, <2>1, <2>2 DEF Export!vars, Status, Phases, Excused
  <1>12. CASE JobNotFound(w) \/ GiveUp(w)
    <2>1. UNCHANGED <<job, delivered>>
      BY <1>i, <1>12 DEF JobNotFound, GiveUp
    <2>2. CASE lost' = lost
      BY <1>i, <1>5, <2>1, <2>2 DEF Export!vars, Status, Phases, Excused
    <2>3. CASE lost' # lost
      <3>1. Excused' = Excused \cup {i}
        BY <1>i, <1>4, <1>6, <1>12, <2>3 DEF JobNotFound, GiveUp, Excused
      <3>2. Export!Excuse(i)
        BY <1>i, <1>4, <1>5, <2>1, <3>1 DEF Export!Excuse, Status, Phases, Excused
      <3>3. QED BY <1>4, <3>2 DEF Export!Next
    <2>4. QED BY <2>2, <2>3
  <1>13. QED
    BY <1>i, <1>7, <1>8, <1>9, <1>10, <1>11, <1>12 DEF WorkerStep

\* The acknowledgement of the last task of a job retires it.
LEMMA AcknowledgeRefines ==
  ASSUME IInv, NEW w \in Workers, Acknowledge(w)
  PROVE  [Export!Next]_Export!vars
  <1>1. /\ worker[w].pc = "ack" /\ UNCHANGED <<clients, job, api, queue, delivered, lost>>
        /\ worker' = [worker EXCEPT ![w] = IdleTask] /\ IdleTask.pc = "idle"
    BY DEF Acknowledge, Busy, IdleTask
  <1> HIDE DEF IdleTask
  <1>i. PICK i \in Jobs : i = JobOf(w)
    BY <1>1, BusyWorker
  <1>2. /\ worker'[w].pc = "idle" /\ \A q \in Workers \ {w} : worker'[q] = worker[q]
        /\ i \in Jobs /\ JobOK(i) /\ HasTask(i)
    <2>1. i \in Jobs /\ worker \in [Workers -> Task]
      BY <1>1, BusyWorker
    <2>2. QED BY <1>1, <1>i, <2>1 DEF IInv, HasTask, JobOf
  <1>3. \A j \in Jobs \ {i} : HasTask(j)' <=> HasTask(j)
    BY <1>1, <1>i, <1>2 DEF HasTask, JobOf
  <1>4. Pages' = Pages /\ Excused' = Excused
    BY <1>1, PagesConstant DEF Excused
  <1>5. CASE HasTask(i)'
    <2>1. \A j \in Jobs : HasTask(j)' <=> HasTask(j)
      BY <1>2, <1>3, <1>5
    <2>2. QED BY <1>1, <2>1, PhasesKept DEF Export!vars, Phases, Excused
  <1>6. CASE ~HasTask(i)'
    <2>1. ~Working(i)
      <3>1. Working(i) => HasTask(i)'
        BY <1>1, <1>2 DEF Working, HasTask
      <3>2. QED BY <1>6, <3>1
    <2>2. Status[i] \in {"sent", "failed"} \/ i \in Excused
      BY <1>2, <2>1 DEF JobOK, Ended, Status, Excused
    <2>3. Phases[i] = "queued" /\ Phases' = [Phases EXCEPT ![i] = "over"]
      BY <1>1, <1>2, <1>3, <1>6 DEF JobOK, Phases, Phase
    <2>4. Export!Retire(i)
      BY <1>1, <1>2, <1>4, <2>2, <2>3 DEF Export!Retire, Status, Phases, Excused
    <2>5. QED BY <1>2, <2>4 DEF Export!Next
  <1>7. QED BY <1>5, <1>6

\* Faults, lost workers, redeliveries and taken messages are none of its business.
LEMMA OthersStutter ==
  ASSUME IInv, NEW w \in Workers, WorkerFails(w) \/ \E m \in queue : TakeMessage(w, m)
  PROVE  UNCHANGED Export!vars
  <1>1. UNCHANGED <<clients, api, delivered, lost>> /\ job' = job
    BY DEF WorkerFails, TryBlockFault, UncaughtFault, WorkerLost, VisibilityTimeout, TakeMessage
  <1>2. \A j \in Jobs : HasTask(j)' <=> HasTask(j)
    <2>1. CASE TryBlockFault(w) \/ UncaughtFault(w)
      <3>1. worker[w].pc # "idle" /\ queue' = queue
        BY <2>1 DEF TryBlockFault, UncaughtFault, UsesDatabase
      <3>2. /\ worker'[w].pc # "idle" /\ worker'[w].msg = worker[w].msg
            /\ \A q \in Workers \ {w} : worker'[q] = worker[q]
        <4>1. CASE TryBlockFault(w)
          <5>1. PICK aborted \in BOOLEAN :
                  worker' = [worker EXCEPT ![w].pc = "handler", ![w].aborted = aborted]
            BY <4>1 DEF TryBlockFault
          <5>2. QED BY <3>1, <5>1, BusyWorker DEF Task
        <4>2. CASE UncaughtFault(w)
          BY <3>1, <4>2, BusyWorker DEF UncaughtFault, Goto, Task
        <4>3. QED BY <2>1, <4>1, <4>2
      <3>3. QED BY <3>1, <3>2, TaskKept
    <2>2. CASE WorkerLost(w) \/ VisibilityTimeout(w)
      <3>1. /\ worker[w].pc # "idle" /\ queue' = queue \cup {Requeued(w)}
            /\ worker' \in {worker, [worker EXCEPT ![w] = IdleTask]}
        BY <2>2 DEF WorkerLost, VisibilityTimeout, Busy
      <3>2. Requeued(w).job = JobOf(w)
        BY <3>1, BusyWorker DEF Requeued, Message, JobOf
      <3>3. IdleTask.pc = "idle"
        BY DEF IdleTask
      <3> HIDE DEF IdleTask
      <3>4. /\ worker'[w] = worker[w] \/ worker'[w].pc = "idle"
            /\ \A q \in Workers \ {w} : worker'[q] = worker[q]
        BY <3>1, <3>3, BusyWorker
      <3>5. QED BY <3>1, <3>2, <3>4 DEF HasTask, JobOf
    <2>3. ASSUME NEW m \in queue, TakeMessage(w, m)
          PROVE  \A j \in Jobs : HasTask(j)' <=> HasTask(j)
      <3> DEFINE t == [IdleTask EXCEPT !.msg = m, !.pc = "load"]
      <3>1. /\ worker[w].pc = "idle" /\ queue' = queue \ {m} /\ worker' = [worker EXCEPT ![w] = t]
            /\ worker \in [Workers -> Task]
        BY <2>3 DEF TakeMessage, Busy, IInv, TypeOK
      <3>2. t.msg = m /\ t.pc = "load"
        BY DEF IdleTask
      <3> HIDE DEF t
      <3>3. worker'[w] = t /\ \A q \in Workers \ {w} : worker'[q] = worker[q]
        BY <3>1
      <3>4. QED BY <3>1, <3>2, <3>3 DEF HasTask
    <2>4. QED BY <2>1, <2>2, <2>3 DEF WorkerFails
  <1>3. QED
    BY <1>1, <1>2, PhasesKept DEF Export!vars, Phases, Excused

\* CrmOutbound implements ExportJob: retries, crashes and redelivered copies of a
\* task are seen from outside as one piece of work on the job, which ends with an
\* outcome or an excuse (CrmService.create_outbound_export, export_to_crm).
THEOREM Refinement == Spec => ImplementsExport
  <1>1. Init => Export!Init
    <2> SUFFICES ASSUME Init PROVE Export!Init
      OBVIOUS
    <2>1. \A j \in Jobs : ~HasTask(j)
      BY DEF Init, HasTask, IdleTask
    <2>2. /\ Phases = [j \in Jobs |-> "new"] /\ Excused = {}
          /\ Status = [j \in Jobs |-> "none"]
      BY <2>1 DEF Init, Phases, Phase, Excused, Status
    <2>3. QED BY <2>2 DEF Init, Export!Init, Phases, Excused, Status
  <1>2. IInv /\ [Next]_vars => [Export!Next]_Export!vars
    <2> SUFFICES ASSUME IInv, [Next]_vars PROVE [Export!Next]_Export!vars
      OBVIOUS
    <2>1. CASE UNCHANGED vars
      BY <2>1 DEF vars, Export!vars, Phase, HasTask, Pages, PageItems, RowsBefore
    <2>2. QED
      BY <2>1, ApiRefines, WorkerRefines, AcknowledgeRefines, OthersStutter DEF Next
  <1>3. QED
    BY <1>1, <1>2, Invariance, PTL DEF Spec, Export!Spec, ImplementsExport
=============================================================================
