--------------------------- MODULE CrmInboundProofs ---------------------------
(***************************************************************************)
(* Theorems about CrmInbound for every set of requests and of ids and any  *)
(* length of a batch, with the inductive invariant they rest on.            *)
(***************************************************************************)
EXTENDS CrmInboundRefinement, TLAPS

-----------------------------------------------------------------------------
\* The inductive invariant.  Its parts about one transaction take the record.
Ids(t, i) == t.events[i].crmRecordId

Flushed(t, id) == id # None /\ \E i \in t.added : Ids(t, i) = id

\* How far a request is, and what it may have flushed.
Progress(t) ==
  /\ t.pc = "new" => t = NoTransaction
  /\ t.pc # "new" => t.events # <<>> /\ (t.kind = "single" => Len(t.events) = 1)
  /\ t.pc \in {"exists", "reread", "insert"} => t.next <= Len(t.events)
  /\ t.pc \in {"audit", "commit"} => t.next = Len(t.events) + 1
  /\ t.accepted \subseteq 1..Len(t.events)
  /\ t.pc # "done" => \A i \in t.accepted : i < t.next
  /\ t.added \subseteq t.accepted
  /\ t.pc = "done" => t.added = {}
  /\ t.answer = "none" <=> t.pc # "done"
  /\ t.aborted => t.added = {} /\ t.pc \notin {"reread", "insert"}
  /\ t.pc = "reread" => Ids(t, t.next) # None
  /\ t.pc = "insert" => ~Flushed(t, Ids(t, t.next))

\* In a transaction that is not aborted every event passed over so far is
\* stored: by another request, or by this one once it commits.
PassedEventsAreStored(t) ==
  t.pc # "done" /\ ~t.aborted =>
    \A i \in 1..Len(t.events) : i < t.next =>
      \/ i \in t.added
      \/ Ids(t, i) # None /\ (Registered(Ids(t, i)) \/ Flushed(t, Ids(t, i)))

\* What an answer says is stored is stored.
AnswerIsTrue(r, t) ==
  /\ t.answer = "ok" => \A i \in 1..Len(t.events) :
       \/ /\ i \in t.accepted
          /\ [req |-> r, index |-> i, crmRecordId |-> Ids(t, i)] \in table
       \/ Ids(t, i) # None /\ Registered(Ids(t, i))
  /\ t.answer = "conflict" => /\ Len(t.events) = 1 /\ t.accepted = {}
                              /\ Ids(t, 1) # None /\ Registered(Ids(t, 1))
  /\ t.answer = "error" =>
       \/ \A row \in table : row.req # r
       \/ \A i \in 1..Len(t.events) :
            \/ [req |-> r, index |-> i, crmRecordId |-> Ids(t, i)] \in table
            \/ Ids(t, i) # None /\ Registered(Ids(t, i))

\* Rows that are flushed and not committed are in nobody's way.
FlushedRowsAreNew ==
  \A r, q \in Requests : \A i \in tx[r].added :
    Ids(tx[r], i) # None =>
      /\ ~Registered(Ids(tx[r], i))
      /\ \A k \in tx[q].added : Ids(tx[q], k) = Ids(tx[r], i) => q = r /\ k = i

\* A committed row belongs to a request that has ended, and not with a conflict.
RowsHaveAnswers ==
  \A row \in table : /\ tx[row.req].answer \in {"ok", "error"}
                     /\ row.index \in 1..Len(tx[row.req].events)
                     /\ row.crmRecordId = Ids(tx[row.req], row.index)

IInv ==
  /\ TypeOK
  /\ \A r \in Requests : /\ Progress(tx[r])
                         /\ PassedEventsAreStored(tx[r])
                         /\ AnswerIsTrue(r, tx[r])
  /\ FlushedRowsAreNew
  /\ RowsHaveAnswers
  /\ RecordsAreUnique

-----------------------------------------------------------------------------
\* Transactions, and the ways the code moves them on.

LEMMA Batches ==
  ASSUME NEW e \in BoundedSeq(Event, MaxEvents)
  PROVE  /\ e \in Seq(Event) /\ Len(e) \in Nat /\ Len(e) <= MaxEvents
         /\ DOMAIN e = 1..Len(e)
         /\ e # <<>> => Len(e) >= 1
         /\ \A i \in 1..Len(e) : e[i].crmRecordId \in CrmRecordIds \cup {None}
  <1>1. PICK m \in 0..MaxEvents : e \in [1..m -> Event]
    BY DEF BoundedSeq, SeqOf
  <1>2. m \in Nat /\ m <= MaxEvents
    BY ConstantsAssumption
  <1>3. e \in Seq(Event) /\ Len(e) = m /\ DOMAIN e = 1..m
    BY <1>1, <1>2
  <1>4. e # <<>> => m >= 1
    BY <1>1, <1>2, <1>3
  <1>5. \A i \in 1..m : e[i].crmRecordId \in CrmRecordIds \cup {None}
    BY <1>1 DEF Event
  <1>6. QED BY <1>2, <1>3, <1>4, <1>5

LEMMA NoTransactionTyped == NoTransaction \in Transaction
  <1>1. <<>> \in BoundedSeq(Event, MaxEvents)
    <2>1. <<>> \in [1..0 -> Event] /\ 0 \in 0..MaxEvents
      BY ConstantsAssumption
    <2>2. QED BY <2>1 DEF BoundedSeq, SeqOf
  <1>2. 1 \in 1..(MaxEvents + 1)
    BY ConstantsAssumption
  <1>3. QED BY <1>1, <1>2 DEF NoTransaction, Transaction

\* A transaction that is processing an event.
Processing(t) ==
  /\ t \in Transaction /\ t.events # <<>> /\ (t.kind = "single" => Len(t.events) = 1)
  /\ t.next <= Len(t.events) /\ t.accepted \subseteq 1..t.next
  /\ t.added \subseteq t.accepted /\ (t.aborted => t.added = {}) /\ t.answer = "none"

LEMMA AdvanceOK ==
  ASSUME NEW t, Processing(t)
  PROVE  Advance(t) \in Transaction /\ Progress(Advance(t))
  <1> DEFINE n == Advance(t)
  <1>1. t.events \in BoundedSeq(Event, MaxEvents) /\ t.next \in Nat /\ t.next >= 1
    BY DEF Processing, Transaction
  <1>2. Len(t.events) \in Nat /\ Len(t.events) <= MaxEvents
    BY <1>1, Batches
  <1>3. t.next + 1 \in 1..(MaxEvents + 1) /\ t.next <= Len(t.events)
    BY <1>1, <1>2, ConstantsAssumption DEF Processing
  <1>4. n \in Transaction
    BY <1>3 DEF Advance, Processing, Transaction
  <1>5. /\ n.events = t.events /\ n.kind = t.kind /\ n.added = t.added
        /\ n.accepted = t.accepted /\ n.answer = t.answer /\ n.aborted = t.aborted
        /\ n.next = t.next + 1
        /\ n.pc = IF t.next = Len(t.events) THEN "audit" ELSE "exists"
    BY DEF Advance, Processing, Transaction
  <1> HIDE DEF n
  <1>6. n.accepted \subseteq 1..Len(n.events) /\ \A i \in n.accepted : i < n.next
    BY <1>1, <1>2, <1>3, <1>5 DEF Processing
  <1>7. n.added \subseteq n.accepted /\ (n.aborted => n.added = {}) /\ n.answer = "none"
    BY <1>5 DEF Processing
  <1>8. n.events # <<>> /\ (n.kind = "single" => Len(n.events) = 1)
    BY <1>5 DEF Processing
  <1>9. /\ n.pc \in {"audit", "exists"}
        /\ n.pc = "exists" => n.next <= Len(n.events)
        /\ n.pc = "audit" => n.next = Len(n.events) + 1
    BY <1>1, <1>2, <1>3, <1>5
  <1>10. Progress(n)
    BY <1>6, <1>7, <1>8, <1>9 DEF Progress
  <1>11. QED BY <1>4, <1>10 DEF n

LEMMA EndOK ==
  ASSUME NEW t \in Transaction, NEW answer \in {"ok", "conflict", "error"},
         t.events # <<>>, t.kind = "single" => Len(t.events) = 1,
         t.accepted \subseteq 1..Len(t.events)
  PROVE  End(t, answer) \in Transaction /\ Progress(End(t, answer))
  BY DEF End, Transaction, Progress

\* What the two ways of rejecting an event leave of the transaction.
LEMMA RejectOK ==
  ASSUME NEW t, Processing(t), NEW answer \in {"conflict", "error"}
  PROVE  LET n == Reject(t, answer)
         IN  /\ n \in Transaction /\ Progress(n)
             /\ n.events = t.events /\ n.accepted = t.accepted /\ n.added \subseteq t.added
             /\ t.kind = "batch" => /\ n.answer = "none" /\ n.pc # "done"
                                    /\ n.added = t.added /\ n.aborted = t.aborted
                                    /\ n.next = t.next + 1
             /\ t.kind # "batch" => n.answer = answer /\ n.pc = "done"
  <1>1. t \in Transaction /\ t.next \in Nat /\ Len(t.events) \in Nat
    BY Batches DEF Processing, Transaction
  <1>2. t.accepted \subseteq 1..Len(t.events)
    BY <1>1 DEF Processing
  <1>3. CASE t.kind = "batch"
    <2> DEFINE n == Advance(t)
    <2>1. n \in Transaction /\ Progress(n) /\ Reject(t, answer) = n
      BY <1>3, AdvanceOK DEF Reject
    <2>2. /\ n.events = t.events /\ n.accepted = t.accepted /\ n.added = t.added
          /\ n.answer = "none" /\ n.aborted = t.aborted /\ n.next = t.next + 1
          /\ n.pc # "done"
      BY <1>1 DEF Advance, Processing, Transaction
    <2> HIDE DEF n
    <2>3. QED BY <1>3, <2>1, <2>2
  <1>4. CASE t.kind # "batch"
    <2> DEFINE n == End(t, answer)
    <2>1. n \in Transaction /\ Progress(n) /\ Reject(t, answer) = n
      BY <1>1, <1>2, <1>4, EndOK DEF Reject, Processing
    <2>2. /\ n.events = t.events /\ n.accepted = t.accepted /\ n.added = {}
          /\ n.answer = answer /\ n.pc = "done"
      BY <1>1 DEF End, Transaction
    <2> HIDE DEF n
    <2>3. QED BY <1>4, <2>1, <2>2
  <1>5. QED BY <1>3, <1>4

LEMMA FlushFailsOK ==
  ASSUME NEW t, Processing(t)
  PROVE  LET n == FlushFails(t)
         IN  /\ n \in Transaction /\ Progress(n)
             /\ n.events = t.events /\ n.added = {}
             /\ n.answer \in {"none", "error"}
             /\ n.pc # "done" => n.aborted
  <1> DEFINE m == [t EXCEPT !.added = {}, !.aborted = TRUE]
  <1>1. Processing(m) /\ m.events = t.events /\ m.added = {} /\ m.aborted
    BY DEF Processing, Transaction, Indices
  <1>2. FlushFails(t) = Reject(m, "error")
    BY DEF FlushFails
  <1> HIDE DEF m
  <1>3. QED BY <1>1, <1>2, RejectOK

\* An accepted event may have been flushed.
LEMMA AcceptOK ==
  ASSUME NEW t \in Transaction, t.events # <<>>, t.kind = "single" => Len(t.events) = 1,
         t.next <= Len(t.events), t.accepted \subseteq 1..t.next,
         t.added \subseteq t.accepted \cup {t.next}, ~t.aborted, t.answer = "none"
  PROVE  LET n == Accept(t)
         IN  /\ n \in Transaction /\ Progress(n)
             /\ n.events = t.events /\ n.added = t.added /\ n.next = t.next + 1
             /\ n.answer = "none" /\ ~n.aborted
  <1> DEFINE m == [t EXCEPT !.accepted = @ \cup {t.next}]
             n == Advance(m)
  <1>1. /\ t.events \in BoundedSeq(Event, MaxEvents) /\ t.next \in 1..(MaxEvents + 1)
        /\ Len(t.events) \in Nat /\ Len(t.events) <= MaxEvents
    BY Batches DEF Transaction
  <1>2. t.next \in Indices /\ t.next \in 1..t.next
    BY <1>1, ConstantsAssumption DEF Indices
  <1>3. m \in Transaction
    BY <1>2 DEF Transaction
  <1>4. /\ m.events = t.events /\ m.added = t.added /\ m.next = t.next /\ m.kind = t.kind
        /\ m.accepted = t.accepted \cup {t.next} /\ m.answer = "none" /\ ~m.aborted
    BY DEF Transaction
  <1> HIDE DEF m
  <1>5. Processing(m)
    BY <1>2, <1>3, <1>4 DEF Processing
  <1>6. n \in Transaction /\ Progress(n) /\ Accept(t) = n
    BY <1>5, AdvanceOK DEF Accept, m
  <1>7. /\ n.events = m.events /\ n.added = m.added /\ n.next = m.next + 1
        /\ n.answer = m.answer /\ n.aborted = m.aborted
    BY <1>3 DEF Advance, Transaction
  <1> HIDE DEF n
  <1>8. QED BY <1>4, <1>6, <1>7

-----------------------------------------------------------------------------
\* Steps of one request.

LEMMA Typed ==
  ASSUME IInv, NEW r \in Requests
  PROVE  /\ tx[r] \in Transaction
         /\ tx[r].events \in BoundedSeq(Event, MaxEvents)
         /\ Len(tx[r].events) \in Nat /\ tx[r].next \in Nat /\ tx[r].next >= 1
         /\ Progress(tx[r])
  <1>1. tx[r] \in Transaction /\ Progress(tx[r])
    BY DEF IInv, TypeOK
  <1>2. tx[r].events \in BoundedSeq(Event, MaxEvents) /\ tx[r].next \in 1..(MaxEvents + 1)
    BY <1>1 DEF Transaction
  <1>3. QED BY <1>1, <1>2, Batches

\* A request that works on an event.
LEMMA AtEvent ==
  ASSUME IInv, NEW r \in Requests, tx[r].pc \in {"exists", "reread", "insert"}
  PROVE  Processing(tx[r]) /\ \A i \in tx[r].accepted : i < tx[r].next
  <1>1. tx[r] \in Transaction /\ Len(tx[r].events) \in Nat /\ tx[r].next \in Nat
    BY Typed
  <1>2. Progress(tx[r])
    BY Typed
  <1>3. tx[r].accepted \subseteq 1..tx[r].next
    BY <1>1, <1>2 DEF Progress
  <1>4. QED BY <1>1, <1>2, <1>3 DEF Progress, Processing

\* What a step of the requests has to keep: the invariant, and the promise that
\* it is a step of the store or none.
Keeps == IInv' /\ [Store!Next]_(Store!vars)

\* A step that stores nothing is the receipt or the refusal of a request, or
\* nothing that the store knows of.
LEMMA LocalStepAbstract ==
  ASSUME IInv, NEW r \in Requests, NEW t \in Transaction, Becomes(r, t),
         tx[r].pc = "new" => t.answer = "none" /\ t.events # <<>>,
         table' = table, tx[r].pc # "done",
         tx[r].pc = "new" \/ t.events = tx[r].events,
         t.answer # "ok", AnswerIsTrue(r, t)
  PROVE  [Store!Next]_(Store!vars)
  <1> DEFINE asked == [q \in Requests |-> tx[q].events]
             answer == [q \in Requests |-> tx[q].answer]
             accepted == [q \in Requests |-> IF tx[q].answer = "ok" THEN tx[q].accepted ELSE {}]
  <1>1. tx' \in [Requests -> Transaction] /\ tx'[r] = t
        /\ \A q \in Requests \ {r} : tx'[q] = tx[q]
    BY DEF IInv, TypeOK, Becomes
  <1>2. tx[r].answer = "none" /\ Progress(tx[r])
    BY Typed DEF Progress
  <1>3. accepted' = accepted
    BY <1>1, <1>2
  <1>4. answer' = [answer EXCEPT ![r] = t.answer] /\ answer[r] = "none"
    BY <1>1, <1>2
  <1>5. t.events \in Seq(Event) /\ t.answer \in {"none", "conflict", "error"}
    BY Batches DEF Transaction
  <1>6. CASE tx[r].pc = "new"
    <2>1. answer' = answer
      BY <1>2, <1>4, <1>6
    <2>2. asked[r] = <<>> /\ asked' = [asked EXCEPT ![r] = asked'[r]] /\ asked'[r] = t.events
      <3>1. tx[r].events = <<>>
        BY <1>2, <1>6 DEF Progress, NoTransaction
      <3>2. QED BY <1>1, <3>1
    <2>3. Store!Ask(r)
      BY <1>3, <1>5, <1>6, <2>1, <2>2 DEF Store!Ask
    <2>4. QED BY <2>3 DEF Store!Next
  <1>7. CASE tx[r].pc # "new"
    <2>1. asked' = asked /\ asked[r] = t.events /\ t.events # <<>>
      BY <1>1, <1>2, <1>7 DEF Progress
    <2>2. CASE t.answer = "none"
      <3>1. answer' = answer
        BY <1>4, <2>2
      <3>2. QED BY <1>3, <2>1, <3>1 DEF Store!vars
    <2>3. CASE t.answer = "error"
      <3>1. Store!Fail(r)
        BY <1>3, <1>4, <2>1, <2>3 DEF Store!Fail
      <3>2. QED BY <3>1 DEF Store!Next
    <2>4. CASE t.answer = "conflict"
      <3>1. Len(t.events) = 1 /\ Store!Has(table, t.events[1].crmRecordId)
        BY <2>4 DEF AnswerIsTrue, Registered, Ids, Store!Has
      <3>2. Store!Conflict(r)
        BY <1>3, <1>4, <2>1, <2>4, <3>1 DEF Store!Conflict
      <3>3. QED BY <3>2 DEF Store!Next
    <2>5. QED BY <1>5, <2>2, <2>3, <2>4
  <1>8. QED BY <1>6, <1>7

\* A step that stores nothing and answers nothing but a true conflict.

LEMMA LocalStep ==
  ASSUME IInv, NEW r \in Requests, NEW t \in Transaction, Becomes(r, t),
         tx[r].pc = "new" => t.answer = "none" /\ t.events # <<>>,
         table' = table, failures' \in 0..MaxFailures,
         tx[r].pc # "done", Progress(t), PassedEventsAreStored(t),
         tx[r].pc = "new" \/ t.events = tx[r].events,
         t.added \subseteq tx[r].added,
         t.answer # "ok", AnswerIsTrue(r, t)
  PROVE  Keeps
  <1>1. tx' \in [Requests -> Transaction] /\ tx'[r] = t
        /\ \A q \in Requests \ {r} : tx'[q] = tx[q]
    BY DEF IInv, TypeOK, Becomes
  <1>2. TypeOK'
    BY <1>1 DEF IInv, TypeOK
  <1>3. \A q \in Requests : /\ Progress(tx'[q])
                           /\ PassedEventsAreStored(tx'[q])
                           /\ AnswerIsTrue(q, tx'[q])
    BY <1>1 DEF IInv
  <1>4. \A q \in Requests : /\ Progress(tx[q])'
                           /\ PassedEventsAreStored(tx[q])'
                           /\ AnswerIsTrue(q, tx[q])'
    BY <1>3 DEF Progress, PassedEventsAreStored, AnswerIsTrue, Registered, Ids, Flushed
  <1>5. FlushedRowsAreNew'
    <2>1. \A q \in Requests : /\ tx'[q].added \subseteq tx[q].added
                             /\ \A i \in tx[q].added : tx'[q].events = tx[q].events
      <3>1. tx[r].pc = "new" => tx[r].added = {}
        BY Typed DEF Progress, NoTransaction
      <3>2. \A i \in tx[r].added : tx'[r].events = tx[r].events
        BY <1>1, <3>1
      <3>3. QED BY <1>1, <3>2
    <2>2. SUFFICES ASSUME NEW q \in Requests, NEW o \in Requests,
                          NEW i \in tx'[q].added, Ids(tx[q], i)' # None
                   PROVE  /\ ~Registered(Ids(tx[q], i))'
                          /\ \A k \in tx'[o].added :
                               Ids(tx[o], k)' = Ids(tx[q], i)' => o = q /\ k = i
      BY DEF FlushedRowsAreNew
    <2>3. i \in tx[q].added /\ Ids(tx[q], i)' = Ids(tx[q], i)
      <3>1. i \in tx[q].added /\ tx'[q].events = tx[q].events
        BY <2>1, <2>2
      <3>2. QED BY <3>1 DEF Ids
    <2>4. \A k \in tx'[o].added : k \in tx[o].added /\ Ids(tx[o], k)' = Ids(tx[o], k)
      <3>1. \A k \in tx'[o].added : k \in tx[o].added /\ tx'[o].events = tx[o].events
        BY <2>1
      <3>2. QED BY <3>1 DEF Ids
    <2>5. Registered(Ids(tx[q], i))' = Registered(Ids(tx[q], i))
      BY <2>3 DEF Registered
    <2>6. ~Registered(Ids(tx[q], i))
      BY <2>2, <2>3 DEF IInv, FlushedRowsAreNew
    <2>7. QED BY <2>2, <2>3, <2>4, <2>5, <2>6 DEF IInv, FlushedRowsAreNew
  <1>6. RowsHaveAnswers'
    <2>1. tx[r].answer = "none"
      BY Typed DEF Progress
    <2>2. \A row \in table : row.req \in Requests /\ row.req # r
      BY <2>1 DEF IInv, RowsHaveAnswers, TypeOK, Row
    <2>3. \A row \in table : tx'[row.req] = tx[row.req]
      BY <1>1, <2>2
    <2>4. QED BY <2>3 DEF IInv, RowsHaveAnswers, Ids
  <1>7. RecordsAreUnique'
    BY DEF IInv, RecordsAreUnique
  <1>8. IInv'
    BY <1>2, <1>4, <1>5, <1>6, <1>7 DEF IInv
  <1>9. QED BY <1>8, LocalStepAbstract DEF Keeps

LEMMA HoldsIsFlushed ==
  ASSUME NEW r \in Requests, NEW id
  PROVE  Holds(r, id) <=> Flushed(tx[r], id)
  <1>1. (\E row \in Rows(r) : row.crmRecordId = id)
          <=> \E i \in tx[r].added : tx[r].events[i].crmRecordId = id
    <2> DEFINE rowOf(i) == [req |-> r, index |-> i, crmRecordId |-> tx[r].events[i].crmRecordId]
    <2>1. \A i : rowOf(i).crmRecordId = tx[r].events[i].crmRecordId
      OBVIOUS
    <2>2. Rows(r) = {rowOf(i) : i \in tx[r].added}
      BY DEF Rows
    <2> HIDE DEF rowOf
    <2>3. QED BY <2>1, <2>2
  <1>2. QED BY <1>1 DEF Holds, Flushed, Ids

LEMMA ReceiveKeeps ==
  ASSUME IInv, NEW r \in Requests, NEW kind \in {"single", "batch"},
         NEW events \in BoundedSeq(Event, MaxEvents), Receive(r, kind, events)
  PROVE  Keeps
  <1> DEFINE t == [NoTransaction EXCEPT !.kind = kind, !.events = events, !.pc = "exists"]
  <1>1. Len(events) \in Nat /\ Len(events) >= 1 /\ (kind = "single" => Len(events) = 1)
    BY Batches DEF Receive
  <1>2. t \in Transaction
    BY NoTransactionTyped DEF Transaction
  <1>3. /\ t.kind = kind /\ t.events = events /\ t.pc = "exists" /\ t.next = 1
        /\ t.added = {} /\ t.accepted = {} /\ t.aborted = FALSE /\ t.answer = "none"
    BY DEF NoTransaction
  <1>4. Becomes(r, t) /\ table' = table /\ failures' = failures /\ tx[r].pc = "new"
    BY DEF Receive, At
  <1> HIDE DEF t
  <1>5. Progress(t) /\ PassedEventsAreStored(t) /\ AnswerIsTrue(r, t)
    BY <1>1, <1>3 DEF Receive, Progress, PassedEventsAreStored, AnswerIsTrue
  <1>6. failures' \in 0..MaxFailures /\ t.events # <<>>
    BY <1>3, <1>4 DEF IInv, TypeOK, Receive
  <1>7. QED BY <1>2, <1>3, <1>4, <1>5, <1>6, LocalStep

LEMMA EventExistsKeeps ==
  ASSUME IInv, NEW r \in Requests, EventExists(r)
  PROVE  Keeps
  <1> DEFINE t == tx[r]
             id == Ids(tx[r], tx[r].next)
  <1>1. Processing(t) /\ (\A i \in t.accepted : i < t.next) /\ t.pc = "exists" /\ ~t.aborted
    BY AtEvent DEF EventExists, At
  <1>2. /\ t \in Transaction /\ Progress(t) /\ Len(t.events) \in Nat
        /\ t.next \in Nat /\ t.next >= 1 /\ t.next <= Len(t.events)
    BY <1>1, Typed DEF Processing
  <1>3. PassedEventsAreStored(t)
    BY DEF IInv
  <1>4. Id(r) = id /\ table' = table /\ failures' \in 0..MaxFailures
    BY DEF EventExists, Id, Ids, IInv, TypeOK
  <1>5. CASE Visible(r, Id(r)) /\ Id(r) # None
    <2> DEFINE n == Reject(t, "conflict")
    <2>1. Becomes(r, n)
      BY <1>5 DEF EventExists
    <2>2. id # None /\ (Registered(id) \/ Flushed(t, id))
      BY <1>4, <1>5, HoldsIsFlushed DEF Visible
    <2>3. /\ n \in Transaction /\ Progress(n)
          /\ n.events = t.events /\ n.accepted = t.accepted /\ n.added \subseteq t.added
          /\ t.kind = "batch" => /\ n.answer = "none" /\ n.pc # "done"
                                 /\ n.added = t.added /\ n.aborted = t.aborted
                                 /\ n.next = t.next + 1
          /\ t.kind # "batch" => n.answer = "conflict" /\ n.pc = "done"
      BY <1>1, RejectOK
    <2> HIDE DEF n
    <2>4. CASE t.kind = "batch"
      <3>1. PassedEventsAreStored(n)
        <4>1. SUFFICES ASSUME NEW i \in 1..Len(n.events), i < n.next
                       PROVE  \/ i \in n.added
                              \/ Ids(n, i) # None /\ (Registered(Ids(n, i)) \/ Flushed(n, Ids(n, i)))
          BY DEF PassedEventsAreStored
        <4>2. Ids(n, i) = Ids(t, i) /\ (Flushed(n, Ids(n, i)) <=> Flushed(t, Ids(t, i)))
          BY <2>3, <2>4 DEF Ids, Flushed
        <4>3. i < t.next \/ i = t.next
          BY <1>2, <2>3, <2>4, <4>1
        <4>4. CASE i < t.next
          <5>1. i \in 1..Len(t.events) /\ t.pc # "done" /\ ~t.aborted
            <6>1. i \in 1..Len(t.events)
              BY <2>3
            <6>2. QED BY <1>1, <6>1
          <5>2. i \in t.added \/ (Ids(t, i) # None
                                 /\ (Registered(Ids(t, i)) \/ Flushed(t, Ids(t, i))))
            BY <1>3, <4>4, <5>1 DEF PassedEventsAreStored
          <5>3. QED BY <2>3, <2>4, <4>2, <5>2
        <4>5. CASE i = t.next
          BY <2>2, <4>2, <4>5
        <4>6. QED BY <4>3, <4>4, <4>5
      <3>2. AnswerIsTrue(r, n) /\ n.answer # "ok"
        BY <2>3, <2>4 DEF AnswerIsTrue
      <3>3. QED BY <1>1, <1>4, <2>1, <2>3, <3>1, <3>2, LocalStep
    <2>5. CASE t.kind # "batch"
      <3>1. t.kind = "single" /\ Len(t.events) = 1 /\ t.next = 1
        <4>1. t.kind = "single"
          BY <1>2, <2>5 DEF Transaction
        <4>2. Len(t.events) = 1
          BY <1>1, <4>1 DEF Processing
        <4>3. QED BY <1>2, <4>1, <4>2
      <3>2. t.accepted = {} /\ t.added = {}
        BY <1>1, <1>2, <3>1 DEF Processing
      <3>3. Registered(Ids(n, 1)) /\ Ids(n, 1) # None
        BY <2>2, <2>3, <3>1, <3>2 DEF Flushed, Ids
      <3>4. AnswerIsTrue(r, n) /\ n.answer # "ok" /\ PassedEventsAreStored(n)
        BY <2>3, <2>5, <3>1, <3>2, <3>3 DEF AnswerIsTrue, PassedEventsAreStored
      <3>5. QED BY <1>1, <1>4, <2>1, <2>3, <3>4, LocalStep
    <2>6. QED BY <2>4, <2>5
  <1>6. CASE ~(Visible(r, Id(r)) /\ Id(r) # None)
    <2> DEFINE n == [t EXCEPT !.pc = IF Id(r) = None THEN "insert" ELSE "reread"]
    <2>1. Becomes(r, n)
      BY <1>6 DEF EventExists
    <2>2. n \in Transaction
      BY <1>2 DEF Transaction
    <2>3. /\ n.events = t.events /\ n.accepted = t.accepted /\ n.added = t.added
          /\ n.kind = t.kind /\ n.next = t.next /\ n.answer = t.answer
          /\ n.aborted = t.aborted
          /\ n.pc = IF id = None THEN "insert" ELSE "reread"
      BY <1>2, <1>4 DEF Transaction
    <2> HIDE DEF n
    <2>4. Progress(n)
      BY <1>1, <1>2, <2>3 DEF Progress, Ids, Flushed
    <2>5. PassedEventsAreStored(n)
      BY <1>1, <1>3, <2>3 DEF PassedEventsAreStored, Ids, Flushed
    <2>6. n.answer # "ok" /\ AnswerIsTrue(r, n)
      BY <1>1, <2>3 DEF Processing, AnswerIsTrue
    <2>7. QED BY <1>1, <1>4, <2>1, <2>2, <2>3, <2>4, <2>5, <2>6, LocalStep
  <1>7. QED BY <1>5, <1>6

\* A step by which a transaction is aborted or ends with an error.
LEMMA FailureKeeps ==
  ASSUME IInv, NEW r \in Requests, NEW n, Becomes(r, n), table' = table,
         failures' \in 0..MaxFailures, tx[r].pc # "new", tx[r].pc # "done",
         n \in Transaction, Progress(n), n.events = tx[r].events,
         n.added \subseteq tx[r].added, n.answer \in {"none", "error"},
         n.pc # "done" => n.aborted
  PROVE  Keeps
  <1>1. PassedEventsAreStored(n)
    BY DEF PassedEventsAreStored
  <1>2. tx[r].answer = "none"
    BY Typed DEF Progress
  <1>3. \A row \in table : row.req # r
    BY <1>2 DEF IInv, RowsHaveAnswers
  <1>4. AnswerIsTrue(r, n) /\ n.answer # "ok"
    BY <1>3 DEF AnswerIsTrue
  <1>5. QED BY <1>1, <1>4, LocalStep

LEMMA SessionRefusesKeeps ==
  ASSUME IInv, NEW r \in Requests, SessionRefuses(r)
  PROVE  Keeps
  <1> DEFINE n == Reject(tx[r], "error")
  <1>1. Becomes(r, n) /\ table' = table /\ failures' \in 0..MaxFailures
    BY DEF SessionRefuses, IInv, TypeOK
  <1>2. Processing(tx[r]) /\ tx[r].aborted /\ tx[r].pc = "exists" /\ tx[r] \in Transaction
    BY AtEvent, Typed DEF SessionRefuses, At
  <1>3. tx[r].kind \in {"single", "batch"}
    BY <1>2 DEF Transaction
  <1>4. /\ n \in Transaction /\ Progress(n)
        /\ n.events = tx[r].events /\ n.added \subseteq tx[r].added
        /\ tx[r].kind = "batch" => n.answer = "none" /\ n.aborted = tx[r].aborted
        /\ tx[r].kind # "batch" => n.answer = "error" /\ n.pc = "done"
    BY <1>2, RejectOK
  <1> HIDE DEF n
  <1>5. n.answer \in {"none", "error"} /\ (n.pc # "done" => n.aborted)
    BY <1>2, <1>4
  <1>6. QED BY <1>1, <1>2, <1>4, <1>5, FailureKeeps

LEMMA FlushFailsKeeps ==
  ASSUME IInv, NEW r \in Requests, tx[r].pc = "insert", Becomes(r, FlushFails(tx[r])),
         table' = table, failures' = failures
  PROVE  Keeps
  <1> DEFINE n == FlushFails(tx[r])
  <1>1. Processing(tx[r])
    BY AtEvent
  <1>2. /\ n \in Transaction /\ Progress(n) /\ n.events = tx[r].events /\ n.added = {}
        /\ n.answer \in {"none", "error"} /\ (n.pc # "done" => n.aborted)
    BY <1>1, FlushFailsOK
  <1>3. Becomes(r, n) /\ failures' \in 0..MaxFailures
    BY DEF IInv, TypeOK
  <1> HIDE DEF n
  <1>4. n.added \subseteq tx[r].added
    BY <1>2
  <1>5. QED BY <1>2, <1>3, <1>4, FailureKeeps

LEMMA DeadlockVictimKeeps ==
  ASSUME IInv, NEW r \in Requests, DeadlockVictim(r)
  PROVE  Keeps
  <1>1. tx[r].pc = "insert"
    BY DEF DeadlockVictim, Deadlocked, Waits, At
  <1>2. QED BY <1>1, FlushFailsKeeps DEF DeadlockVictim

LEMMA AuditLogFailsKeeps ==
  ASSUME IInv, NEW r \in Requests, AuditLogFails(r)
  PROVE  Keeps
  <1> DEFINE t == tx[r]
             n == [tx[r] EXCEPT !.pc = "commit", !.added = {}, !.aborted = TRUE]
  <1>1. /\ t \in Transaction /\ Progress(t) /\ t.pc = "audit" /\ Becomes(r, n)
        /\ table' = table
    BY Typed DEF AuditLogFails, At
  <1>2. failures' \in 0..MaxFailures
    BY ConstantsAssumption DEF AuditLogFails, IInv, TypeOK
  <1>3. n \in Transaction
    BY <1>1 DEF Transaction
  <1>4. /\ n.events = t.events /\ n.kind = t.kind /\ n.added = {} /\ n.next = t.next
        /\ n.accepted = t.accepted /\ n.answer = t.answer /\ n.aborted /\ n.pc = "commit"
    BY <1>1 DEF Transaction
  <1> HIDE DEF n
  <1>5. Progress(n) /\ n.answer = "none"
    BY <1>1, <1>4 DEF Progress
  <1>6. QED BY <1>1, <1>2, <1>3, <1>4, <1>5, FailureKeeps

LEMMA DieKeeps ==
  ASSUME IInv, NEW r \in Requests, Die(r)
  PROVE  Keeps
  <1> DEFINE t == tx[r]
             n == End(tx[r], "error")
  <1>1. /\ t \in Transaction /\ Progress(t) /\ t.pc # "done" /\ t.pc # "new"
        /\ Becomes(r, n) /\ table' = table
    BY Typed DEF Die, At
  <1>2. failures' \in 0..MaxFailures
    BY ConstantsAssumption DEF Die, IInv, TypeOK
  <1>3. n \in Transaction /\ Progress(n)
    <2>1. t.events # <<>> /\ (t.kind = "single" => Len(t.events) = 1)
          /\ t.accepted \subseteq 1..Len(t.events)
      BY <1>1 DEF Progress
    <2>2. QED BY <1>1, <2>1, EndOK
  <1>4. n.events = t.events /\ n.added = {} /\ n.answer = "error" /\ n.pc = "done"
    BY <1>1 DEF End, Transaction
  <1> HIDE DEF n
  <1>5. QED BY <1>1, <1>2, <1>3, <1>4, FailureKeeps

LEMMA AuditLogKeeps ==
  ASSUME IInv, NEW r \in Requests, AuditLog(r)
  PROVE  Keeps
  <1> DEFINE t == tx[r]
             n == [tx[r] EXCEPT !.pc = "commit"]
  <1>1. /\ t \in Transaction /\ Progress(t) /\ t.pc = "audit" /\ Becomes(r, n)
        /\ table' = table /\ failures' \in 0..MaxFailures /\ PassedEventsAreStored(t)
    BY Typed DEF AuditLog, At, IInv, TypeOK
  <1>2. n \in Transaction
    BY <1>1 DEF Transaction
  <1>3. /\ n.events = t.events /\ n.kind = t.kind /\ n.added = t.added /\ n.next = t.next
        /\ n.accepted = t.accepted /\ n.answer = t.answer /\ n.aborted = t.aborted
        /\ n.pc = "commit"
    BY <1>1 DEF Transaction
  <1> HIDE DEF n
  <1>4. Progress(n) /\ n.answer = "none"
    BY <1>1, <1>3 DEF Progress
  <1>5. PassedEventsAreStored(n) /\ AnswerIsTrue(r, n)
    BY <1>1, <1>3, <1>4 DEF PassedEventsAreStored, AnswerIsTrue, Ids, Flushed
  <1>6. QED BY <1>1, <1>2, <1>3, <1>4, <1>5, LocalStep

\* An event is passed over that is stored or flushed.
LEMMA PassedOver ==
  ASSUME NEW t, NEW n, PassedEventsAreStored(t), t.pc # "done", ~t.aborted,
         t.next \in Nat, Len(t.events) \in Nat,
         n.events = t.events, n.next = t.next + 1, t.added \subseteq n.added,
         \/ t.next \in n.added
         \/ /\ Ids(t, t.next) # None
            /\ Registered(Ids(t, t.next)) \/ Flushed(t, Ids(t, t.next))
  PROVE  PassedEventsAreStored(n)
  <1>1. SUFFICES ASSUME NEW i \in 1..Len(n.events), i < n.next
                 PROVE  \/ i \in n.added
                        \/ Ids(n, i) # None /\ (Registered(Ids(n, i)) \/ Flushed(n, Ids(n, i)))
    BY DEF PassedEventsAreStored
  <1>2. Ids(n, i) = Ids(t, i) /\ (Flushed(t, Ids(t, i)) => Flushed(n, Ids(n, i)))
    BY DEF Ids, Flushed
  <1>3. i \in 1..Len(t.events) /\ (i < t.next \/ i = t.next)
    BY <1>1
  <1>4. CASE i < t.next
    <2>1. i \in t.added \/ (Ids(t, i) # None
                           /\ (Registered(Ids(t, i)) \/ Flushed(t, Ids(t, i))))
      BY <1>3, <1>4 DEF PassedEventsAreStored
    <2>2. QED BY <1>2, <2>1
  <1>5. CASE i = t.next
    BY <1>2, <1>5
  <1>6. QED BY <1>3, <1>4, <1>5

LEMMA GetInboundEventKeeps ==
  ASSUME IInv, NEW r \in Requests, GetInboundEvent(r)
  PROVE  Keeps
  <1> DEFINE t == tx[r]
             id == Ids(tx[r], tx[r].next)
  <1>1. Processing(t) /\ (\A i \in t.accepted : i < t.next) /\ t.pc = "reread"
    BY AtEvent DEF GetInboundEvent, At
  <1>2. /\ t \in Transaction /\ Progress(t) /\ Len(t.events) \in Nat
        /\ t.next \in Nat /\ t.next >= 1
    BY Typed
  <1>3. PassedEventsAreStored(t) /\ table' = table /\ failures' \in 0..MaxFailures
    BY DEF IInv, TypeOK, GetInboundEvent
  <1>4. id # None /\ ~t.aborted /\ Id(r) = id
    BY <1>1, <1>2 DEF Progress, Id, Ids
  <1>5. CASE Visible(r, Id(r))
    <2> DEFINE n == Accept(t)
    <2>1. Becomes(r, n)
      BY <1>5 DEF GetInboundEvent
    <2>2. Registered(id) \/ Flushed(t, id)
      BY <1>4, <1>5, HoldsIsFlushed DEF Visible
    <2>3. /\ n \in Transaction /\ Progress(n)
          /\ n.events = t.events /\ n.added = t.added /\ n.next = t.next + 1
          /\ n.answer = "none" /\ ~n.aborted
      BY <1>1, <1>4, AcceptOK DEF Processing
    <2> HIDE DEF n
    <2>4. PassedEventsAreStored(n)
      BY <1>1, <1>2, <1>3, <1>4, <2>2, <2>3, PassedOver
    <2>5. AnswerIsTrue(r, n)
      BY <2>3 DEF AnswerIsTrue
    <2>6. QED BY <1>1, <1>3, <2>1, <2>3, <2>4, <2>5, LocalStep
  <1>6. CASE ~Visible(r, Id(r))
    <2> DEFINE n == [t EXCEPT !.pc = "insert"]
    <2>1. Becomes(r, n)
      BY <1>6 DEF GetInboundEvent
    <2>2. n \in Transaction
      BY <1>2 DEF Transaction
    <2>3. /\ n.events = t.events /\ n.accepted = t.accepted /\ n.added = t.added
          /\ n.kind = t.kind /\ n.next = t.next /\ n.answer = t.answer
          /\ n.aborted = t.aborted /\ n.pc = "insert"
      BY <1>2 DEF Transaction
    <2> HIDE DEF n
    <2>4. ~Flushed(n, Ids(n, n.next))
      BY <1>4, <1>6, <2>3, HoldsIsFlushed DEF Visible, Flushed, Ids
    <2>5. Progress(n)
      BY <1>1, <1>2, <1>4, <2>3, <2>4 DEF Progress
    <2>6. PassedEventsAreStored(n)
      BY <1>1, <1>3, <1>4, <2>3 DEF PassedEventsAreStored, Ids, Flushed
    <2>7. n.answer # "ok" /\ AnswerIsTrue(r, n)
      BY <1>1, <2>3 DEF Processing, AnswerIsTrue
    <2>8. QED BY <1>1, <1>3, <2>1, <2>2, <2>3, <2>5, <2>6, <2>7, LocalStep
  <1>7. QED BY <1>5, <1>6

LEMMA InsertEventKeeps ==
  ASSUME IInv, NEW r \in Requests, InsertEvent(r)
  PROVE  Keeps
  <1> DEFINE t == tx[r]
             id == Ids(tx[r], tx[r].next)
             stored == t.events[t.next].fits /\ (Id(r) = None \/ ~Registered(Id(r)))
             m == [t EXCEPT !.added = @ \cup {t.next}]
             n == Accept(m)
  <1>1. Processing(t) /\ (\A i \in t.accepted : i < t.next) /\ t.pc = "insert"
    BY AtEvent DEF InsertEvent, At
  <1>2. /\ t \in Transaction /\ Progress(t) /\ Len(t.events) \in Nat
        /\ t.next \in Nat /\ t.next >= 1
    BY Typed
  <1>3. PassedEventsAreStored(t) /\ table' = table /\ failures' = failures
    BY DEF IInv, InsertEvent
  <1>4. ~t.aborted /\ Id(r) = id /\ ~Flushed(t, id)
    BY <1>1, <1>2 DEF Progress, Id, Ids
  <1>5. Becomes(r, IF stored THEN n ELSE FlushFails(t))
    BY DEF InsertEvent
  <1>6. CASE ~stored
    BY <1>1, <1>3, <1>5, <1>6, FlushFailsKeeps
  <1>7. CASE stored
    <2>1. id = None \/ ~Registered(id)
      BY <1>4, <1>7
    <2>2. Becomes(r, n)
      BY <1>5, <1>7
    <2>3. \A q \in Requests : q # r => ~Flushed(tx[q], id)
      BY <1>1, <1>4, HoldsIsFlushed DEF InsertEvent, Waits, At
    <2>4. t.next \in Indices
      <3>1. t.events \in BoundedSeq(Event, MaxEvents) /\ t.next <= Len(t.events)
        BY <1>1, <1>2 DEF Transaction, Processing
      <3>2. Len(t.events) <= MaxEvents
        BY <3>1, Batches
      <3>3. QED BY <1>2, <3>1, <3>2, ConstantsAssumption DEF Indices
    <2>5. m \in Transaction
      BY <1>2, <2>4 DEF Transaction
    <2>6. /\ m.events = t.events /\ m.kind = t.kind /\ m.next = t.next
          /\ m.accepted = t.accepted /\ m.added = t.added \cup {t.next}
          /\ m.answer = t.answer /\ m.aborted = t.aborted
      BY <1>2 DEF Transaction
    <2> HIDE DEF m
    <2>7. /\ n \in Transaction /\ Progress(n)
          /\ n.events = t.events /\ n.added = t.added \cup {t.next}
          /\ n.next = t.next + 1 /\ n.answer = "none" /\ ~n.aborted
      <3>1. /\ m.events # <<>> /\ (m.kind = "single" => Len(m.events) = 1)
            /\ m.next <= Len(m.events) /\ m.accepted \subseteq 1..m.next
            /\ m.added \subseteq m.accepted \cup {m.next} /\ ~m.aborted /\ m.answer = "none"
        BY <1>1, <1>4, <2>6 DEF Processing
      <3>2. QED BY <2>5, <2>6, <3>1, AcceptOK
    <2> HIDE DEF n
    <2>8. PassedEventsAreStored(n) /\ AnswerIsTrue(r, n)
      <3>1. AnswerIsTrue(r, n)
        BY <2>7 DEF AnswerIsTrue
      <3>2. QED BY <1>1, <1>2, <1>3, <1>4, <2>7, <3>1, PassedOver
    <2>9. tx' \in [Requests -> Transaction] /\ tx'[r] = n
          /\ \A q \in Requests \ {r} : tx'[q] = tx[q]
      BY <2>2, <2>7 DEF IInv, TypeOK, Becomes
    <2>10. TypeOK'
      BY <1>3, <2>9 DEF IInv, TypeOK
    <2>11. \A q \in Requests : /\ Progress(tx'[q])
                              /\ PassedEventsAreStored(tx'[q])
                              /\ AnswerIsTrue(q, tx'[q])
      BY <2>7, <2>8, <2>9 DEF IInv
    <2>12. \A q \in Requests : /\ Progress(tx[q])'
                              /\ PassedEventsAreStored(tx[q])'
                              /\ AnswerIsTrue(q, tx[q])'
      BY <1>3, <2>11 DEF Progress, PassedEventsAreStored, AnswerIsTrue, Registered, Ids, Flushed
    <2>13. FlushedRowsAreNew'
      <3>1. SUFFICES ASSUME NEW q \in Requests, NEW o \in Requests,
                            NEW i \in tx'[q].added, NEW k \in tx'[o].added,
                            Ids(tx[q], i)' # None
                     PROVE  /\ ~Registered(Ids(tx[q], i))'
                            /\ Ids(tx[o], k)' = Ids(tx[q], i)' => o = q /\ k = i
        <4>1. \A q \in Requests : \A i \in tx'[q].added :
                Ids(tx[q], i)' # None => ~Registered(Ids(tx[q], i))'
          BY <3>1
        <4>2. QED BY <3>1, <4>1 DEF FlushedRowsAreNew
      <3>2. \A p \in Requests : \A c : Ids(tx[p], c)' = Ids(tx[p], c)
        BY <2>7, <2>9 DEF Ids
      <3>3. \A p \in Requests : \A c \in tx'[p].added :
              c \in tx[p].added \/ (p = r /\ c = t.next)
        BY <2>7, <2>9
      <3>4. \A p \in Requests : \A c \in tx[p].added : id # None => Ids(tx[p], c) # id
        BY <1>4, <2>3 DEF Flushed
      <3>5. Registered(Ids(tx[q], i))' <=> Registered(Ids(tx[q], i))
        BY <1>3, <3>2 DEF Registered
      <3>6. ~Registered(Ids(tx[q], i))
        BY <2>1, <3>1, <3>2, <3>3 DEF IInv, FlushedRowsAreNew
      <3>7. Ids(tx[o], k) = Ids(tx[q], i) => o = q /\ k = i
        BY <3>1, <3>2, <3>3, <3>4 DEF IInv, FlushedRowsAreNew
      <3>8. QED BY <3>2, <3>5, <3>6, <3>7
    <2>14. RowsHaveAnswers'
      <3>1. tx[r].answer = "none"
        BY <1>1 DEF Processing
      <3>2. \A row \in table : row.req \in Requests /\ row.req # r
        BY <3>1 DEF IInv, RowsHaveAnswers, TypeOK, Row
      <3>3. \A row \in table : tx'[row.req] = tx[row.req]
        BY <2>9, <3>2
      <3>4. QED BY <1>3, <3>3 DEF IInv, RowsHaveAnswers, Ids
    <2>15. RecordsAreUnique'
      BY <1>3 DEF IInv, RecordsAreUnique
    <2>16. [Store!Next]_(Store!vars)
      BY <1>1, <1>3, <2>2, <2>7, <2>8, LocalStepAbstract
    <2>17. QED BY <2>10, <2>12, <2>13, <2>14, <2>15, <2>16 DEF IInv, Keeps
  <1>8. QED BY <1>6, <1>7

\* The rows a commit adds.
LEMMA RowsOf ==
  ASSUME NEW r \in Requests
  PROVE  \A row : row \in Rows(r) <=>
           \E i \in tx[r].added :
             row = [req |-> r, index |-> i, crmRecordId |-> Ids(tx[r], i)]
  BY DEF Rows, Ids

\* A COMMIT that takes effect, whether it is acknowledged or not.
LEMMA StoredKeeps ==
  ASSUME IInv, NEW r \in Requests, NEW answer \in {"ok", "error"},
         tx[r].pc = "commit", ~tx[r].aborted, Becomes(r, End(tx[r], answer)),
         table' = table \cup Rows(r), failures' \in 0..MaxFailures
  PROVE  Keeps
  <1> DEFINE t == tx[r]
             n == End(tx[r], answer)
  <1>1. /\ t \in Transaction /\ Progress(t) /\ t.pc = "commit" /\ Becomes(r, n)
        /\ table' = table \cup Rows(r) /\ failures' \in 0..MaxFailures
        /\ PassedEventsAreStored(t) /\ Len(t.events) \in Nat
    BY Typed DEF IInv
  <1>2. n \in Transaction /\ Progress(n)
    <2>1. t.events # <<>> /\ (t.kind = "single" => Len(t.events) = 1)
          /\ t.accepted \subseteq 1..Len(t.events)
      BY <1>1 DEF Progress
    <2>2. QED BY <1>1, <2>1, EndOK
  <1>3. /\ n.events = t.events /\ n.added = {} /\ n.accepted = t.accepted
        /\ n.answer = answer /\ n.pc = "done"
    BY <1>1 DEF End, Transaction
  <1> HIDE DEF n
  <1>5. ~t.aborted
    OBVIOUS
  <1>6. Keeps
    <2> DEFINE row(i) == [req |-> r, index |-> i, crmRecordId |-> Ids(t, i)]
    <2>1. /\ n.answer \in {"ok", "error"} /\ t.next = Len(t.events) + 1
          /\ t.added \subseteq t.accepted
          /\ t.added \subseteq 1..Len(t.events) /\ t.answer = "none"
      BY <1>1, <1>3, <1>5 DEF Progress
    <2>2. tx' \in [Requests -> Transaction] /\ tx'[r] = n
          /\ \A q \in Requests \ {r} : tx'[q] = tx[q]
      BY <1>1, <1>2 DEF IInv, TypeOK, Becomes
    <2>3. \A x : x \in Rows(r) <=> \E i \in t.added : x = row(i)
      BY RowsOf
    <2>4. \A i : row(i).req = r /\ row(i).index = i /\ row(i).crmRecordId = Ids(t, i)
      OBVIOUS
    <2>5. \A i \in t.added : row(i) \in Row
      <3>1. t.added \subseteq Indices
        BY <1>1 DEF Transaction
      <3>2. \A i \in t.added : Ids(t, i) \in CrmRecordIds \cup {None}
        BY <1>1, <2>1, Batches DEF Transaction, Ids
      <3>3. QED BY <3>1, <3>2 DEF Row
    <2> HIDE DEF row
    <2>6. \A id : Registered(id)' <=> Registered(id) \/ \E i \in t.added : Ids(t, i) = id
      BY <1>1, <2>3, <2>4 DEF Registered
    <2>7. TypeOK'
      BY <1>1, <2>2, <2>3, <2>5 DEF IInv, TypeOK
    <2>8. \A q \in Requests : Progress(tx[q])'
      <3>1. \A q \in Requests : Progress(tx'[q])
        BY <1>2, <2>2 DEF IInv
      <3>2. QED BY <3>1 DEF Progress, Ids, Flushed
    <2>9. \A q \in Requests : PassedEventsAreStored(tx[q])'
      <3>1. \A q \in Requests \ {r} : PassedEventsAreStored(tx[q])'
        BY <2>2, <2>6 DEF IInv, PassedEventsAreStored, Ids, Flushed
      <3>2. PassedEventsAreStored(tx[r])'
        BY <1>3, <2>2 DEF PassedEventsAreStored
      <3>3. QED BY <3>1, <3>2
    <2>10. \A q \in Requests : AnswerIsTrue(q, tx[q])'
      <3>1. \A q \in Requests \ {r} : AnswerIsTrue(q, tx[q])'
        <4>1. \A x \in Rows(r) : x.req = r
          BY <2>3, <2>4
        <4>2. QED BY <1>1, <2>2, <2>6, <4>1 DEF IInv, AnswerIsTrue, Ids
      <3>2. AnswerIsTrue(r, tx[r])'
        <4>1. SUFFICES ASSUME NEW i \in 1..Len(t.events)
                       PROVE  \/ /\ i \in t.accepted
                                 /\ row(i) \in table'
                              \/ Ids(t, i) # None /\ Registered(Ids(tx[r], i))'
          BY <1>3, <2>1, <2>2 DEF AnswerIsTrue, Ids, row
        <4>2. CASE i \in t.added
          BY <1>1, <2>1, <2>3, <4>2
        <4>3. CASE i \notin t.added
          <5>1. Ids(t, i) # None /\ (Registered(Ids(t, i)) \/ Flushed(t, Ids(t, i)))
            BY <1>1, <1>5, <2>1, <4>3 DEF PassedEventsAreStored
          <5>2. Ids(tx[r], i)' = Ids(t, i)
            BY <1>3, <2>2 DEF Ids
          <5>3. PICK id : id = Ids(t, i)
            OBVIOUS
          <5>4. Registered(id)'
            BY <2>6, <5>1, <5>3 DEF Flushed
          <5>5. QED BY <5>1, <5>2, <5>3, <5>4 DEF Registered
        <4>4. QED BY <4>2, <4>3
      <3>3. QED BY <3>1, <3>2
    <2>11. FlushedRowsAreNew'
      <3>1. \A q \in Requests : \A i \in tx'[q].added :
              q # r /\ i \in tx[q].added /\ tx'[q] = tx[q]
        BY <1>3, <2>2
      <3>2. \A q \in Requests : \A i \in tx[q].added :
              q # r /\ Ids(tx[q], i) # None =>
                \A k \in t.added : Ids(t, k) # Ids(tx[q], i)
        BY DEF IInv, FlushedRowsAreNew
      <3>3. QED BY <2>6, <3>1, <3>2 DEF IInv, FlushedRowsAreNew, Ids, Registered
    <2>12. RowsHaveAnswers'
      <3>1. \A x \in table : x.req \in Requests /\ x.req # r
        BY <2>1 DEF IInv, RowsHaveAnswers, TypeOK, Row
      <3>2. \A x \in table : tx'[x.req] = tx[x.req]
        BY <2>2, <3>1
      <3>3. \A i \in t.added : /\ tx'[row(i).req].answer \in {"ok", "error"}
                              /\ row(i).index \in 1..Len(tx'[row(i).req].events)
                              /\ row(i).crmRecordId = Ids(tx'[row(i).req], row(i).index)
        BY <1>3, <2>1, <2>2, <2>4 DEF Ids
      <3>4. QED BY <1>1, <2>3, <3>2, <3>3 DEF IInv, RowsHaveAnswers, Ids
    <2>13. RecordsAreUnique'
      <3>1. \A i \in t.added, x \in table : Ids(t, i) # None => x.crmRecordId # Ids(t, i)
        BY DEF IInv, FlushedRowsAreNew, Registered
      <3>2. \A i, k \in t.added : Ids(t, i) # None /\ Ids(t, i) = Ids(t, k) => i = k
        BY DEF IInv, FlushedRowsAreNew
      <3>3. QED BY <1>1, <2>3, <2>4, <3>1, <3>2 DEF IInv, RecordsAreUnique
    <2>14. IInv'
      BY <2>7, <2>8, <2>9, <2>10, <2>11, <2>12, <2>13 DEF IInv
    <2>15. Store!Next
      <3> DEFINE asked == [q \in Requests |-> tx[q].events]
                 answers == [q \in Requests |-> tx[q].answer]
                 accepted == [q \in Requests |->
                                IF tx[q].answer = "ok" THEN tx[q].accepted ELSE {}]
      <3>1. asked' = asked /\ asked[r] = t.events
        BY <1>3, <2>2
      <3>2. answers' = [answers EXCEPT ![r] = answer] /\ answers[r] = "none"
        BY <1>3, <2>1, <2>2
      <3>3. accepted' = [accepted EXCEPT ![r] = IF answer = "ok" THEN t.accepted ELSE {}]
        BY <1>3, <2>1, <2>2
      <3>4. t.events # <<>> /\ t.accepted \subseteq 1..Len(t.events)
            /\ DOMAIN t.events = 1..Len(t.events)
        BY <1>1, Batches DEF Progress, Transaction
      <3>5. table' = table \cup {Store!Entry(r, i) : i \in t.added}
        BY <1>1, <2>3, <3>1 DEF Store!Entry, row, Ids
      <3>6. Store!Distinct(table')
        BY <2>13 DEF RecordsAreUnique, Store!Distinct
      <3>7. \A i \in DOMAIN t.events \ t.added : Store!Has(table', t.events[i].crmRecordId)
        <4>1. SUFFICES ASSUME NEW i \in 1..Len(t.events), i \notin t.added
                       PROVE  Store!Has(table', Ids(t, i))
          BY <3>4 DEF Ids
        <4>2. PICK id : id = Ids(t, i)
          OBVIOUS
        <4>3. id # None /\ (Registered(id) \/ Flushed(t, id))
          BY <1>1, <1>5, <2>1, <4>1, <4>2 DEF PassedEventsAreStored
        <4>4. Registered(id)'
          BY <2>6, <4>3 DEF Flushed
        <4>5. QED BY <4>2, <4>3, <4>4 DEF Registered, Store!Has
      <3>8. Store!Process(r, t.added, t.accepted, answer)
        BY <2>1, <3>1, <3>2, <3>3, <3>4, <3>5, <3>6, <3>7 DEF Store!Process
      <3>9. t.added \in SUBSET DOMAIN asked[r] /\ t.accepted \in SUBSET DOMAIN asked[r]
        BY <2>1, <3>1, <3>4
      <3>10. \E S, A \in SUBSET DOMAIN asked[r], outcome \in {"ok", "error"} :
               Store!Process(r, S, A, outcome)
        <4> HIDE DEF asked, answers, accepted
        <4>1. \E outcome \in {"ok", "error"} : Store!Process(r, t.added, t.accepted, outcome)
          BY <3>8 DEF Store!Process
        <4>2. \A S, A : S = t.added /\ A = t.accepted =>
                \E outcome \in {"ok", "error"} : Store!Process(r, S, A, outcome)
          BY <4>1 DEF Store!Process
        <4>3. QED BY <3>9, <4>2
      <3>11. QED BY <3>10 DEF Store!Next
    <2>16. QED BY <2>14, <2>15 DEF Keeps
  <1>7. QED BY <1>6

LEMMA CommitKeeps ==
  ASSUME IInv, NEW r \in Requests, Commit(r)
  PROVE  Keeps
  <1> DEFINE t == tx[r]
             n == End(tx[r], "error")
  <1>1. /\ t \in Transaction /\ Progress(t) /\ t.pc = "commit"
        /\ table' = table \cup Rows(r) /\ failures' \in 0..MaxFailures
    BY Typed DEF Commit, At, IInv, TypeOK
  <1>2. CASE ~t.aborted
    <2>1. Becomes(r, End(t, "ok"))
      BY <1>2 DEF Commit
    <2>2. QED BY <1>1, <1>2, <2>1, StoredKeeps
  <1>3. CASE t.aborted
    <2>1. table' = table /\ Becomes(r, n)
      BY <1>1, <1>3 DEF Commit, Progress, Rows
    <2>2. n \in Transaction /\ Progress(n)
      <3>1. t.events # <<>> /\ (t.kind = "single" => Len(t.events) = 1)
            /\ t.accepted \subseteq 1..Len(t.events)
        BY <1>1 DEF Progress
      <3>2. QED BY <1>1, <3>1, EndOK
    <2>3. n.events = t.events /\ n.added = {} /\ n.answer = "error" /\ n.pc = "done"
      BY <1>1 DEF End, Transaction
    <2> HIDE DEF n
    <2>4. QED BY <1>1, <2>1, <2>2, <2>3, FailureKeeps
  <1>4. QED BY <1>2, <1>3

LEMMA CommitUnansweredKeeps ==
  ASSUME IInv, NEW r \in Requests, CommitUnanswered(r)
  PROVE  Keeps
  <1>1. failures' \in 0..MaxFailures
    BY ConstantsAssumption DEF CommitUnanswered, IInv, TypeOK
  <1>2. QED BY <1>1, StoredKeeps DEF CommitUnanswered, At

-----------------------------------------------------------------------------
\* The theorems.

LEMMA InitKeeps == Init => IInv /\ Store!Init
  <1> SUFFICES ASSUME Init PROVE IInv /\ Store!Init
    OBVIOUS
  <1>1. \A r \in Requests : tx[r] = NoTransaction
    BY DEF Init
  <1>2. NoTransaction \in Transaction
    BY NoTransactionTyped
  <1>3. TypeOK
    BY <1>2, ConstantsAssumption DEF Init, TypeOK
  <1>4. Progress(NoTransaction) /\ PassedEventsAreStored(NoTransaction)
    BY DEF NoTransaction, Progress, PassedEventsAreStored
  <1>5. \A r \in Requests : AnswerIsTrue(r, NoTransaction)
    BY DEF NoTransaction, AnswerIsTrue
  <1>6. FlushedRowsAreNew /\ RowsHaveAnswers /\ RecordsAreUnique
    BY <1>1 DEF Init, NoTransaction, FlushedRowsAreNew, RowsHaveAnswers, RecordsAreUnique
  <1>7. Store!Init
    BY <1>1 DEF Init, NoTransaction, Store!Init
  <1>8. QED BY <1>1, <1>3, <1>4, <1>5, <1>6, <1>7 DEF IInv

LEMMA StepKeeps == IInv /\ [Next]_vars => Keeps
  <1> SUFFICES ASSUME IInv, [Next]_vars PROVE Keeps
    OBVIOUS
  <1>1. CASE UNCHANGED vars
    <2>1. IInv'
      BY <1>1 DEF vars, IInv, TypeOK, Progress, PassedEventsAreStored, AnswerIsTrue,
                  FlushedRowsAreNew, RowsHaveAnswers, RecordsAreUnique, Registered, Ids, Flushed
    <2>2. UNCHANGED Store!vars
      BY <1>1 DEF vars, Store!vars
    <2>3. QED BY <2>1, <2>2 DEF Keeps
  <1>2. ASSUME NEW r \in Requests, NEW kind \in {"single", "batch"},
               NEW events \in BoundedSeq(Event, MaxEvents), Receive(r, kind, events)
        PROVE  Keeps
    BY <1>2, ReceiveKeeps
  <1>3. ASSUME NEW r \in Requests, Step(r) PROVE Keeps
    BY <1>3, EventExistsKeeps, SessionRefusesKeeps, GetInboundEventKeeps, InsertEventKeeps,
       DeadlockVictimKeeps, AuditLogKeeps, CommitKeeps DEF Step
  <1>4. ASSUME NEW r \in Requests, AuditLogFails(r) \/ CommitUnanswered(r) \/ Die(r)
        PROVE  Keeps
    BY <1>4, AuditLogFailsKeeps, CommitUnansweredKeeps, DieKeeps
  <1>5. QED BY <1>1, <1>2, <1>3, <1>4 DEF Next

\* The inductive invariant holds in every reachable state.
THEOREM Invariance == Spec => []IInv
  BY InitKeeps, StepKeeps, PTL DEF Spec, Keeps

\* Every reachable state is well typed, for any requests, ids and batches.
THEOREM TypeCorrectness == Spec => []TypeOK
  <1>1. IInv => TypeOK
    BY DEF IInv
  <1>2. QED BY <1>1, Invariance, PTL

\* crm_record_id identifies a stored event: the unique index makes up for the
\* check and the second read of CrmService and CrmRepository, which interleave.
THEOREM UniqueRecords == Spec => []RecordsAreUnique
  <1>1. IInv => RecordsAreUnique
    BY DEF IInv
  <1>2. QED BY <1>1, Invariance, PTL

\* What process_inbound_event and process_inbound_batch count as accepted is stored.
THEOREM TrueAcceptances == Spec => []AcceptedEventsAreStored
  <1>1. ASSUME IInv PROVE AcceptedEventsAreStored
    <2>1. SUFFICES ASSUME NEW r \in Requests, tx[r].answer = "ok", NEW i \in tx[r].accepted
                   PROVE  \/ [req |-> r, index |-> i, crmRecordId |-> IdAt(r, i)] \in table
                          \/ IdAt(r, i) # None /\ Registered(IdAt(r, i))
      BY DEF AcceptedEventsAreStored
    <2>2. i \in 1..Len(tx[r].events)
      BY <1>1, Typed DEF Progress
    <2>3. QED BY <1>1, <2>1, <2>2 DEF IInv, AnswerIsTrue, IdAt, Ids
  <1>2. QED BY <1>1, Invariance, PTL

\* What they reject is there already.
THEOREM TrueRejections == Spec => []RejectedEventsAreDuplicates
  <1>1. ASSUME IInv PROVE RejectedEventsAreDuplicates
    <2>1. SUFFICES ASSUME NEW r \in Requests, tx[r].answer \in {"ok", "conflict"},
                          NEW i \in Events(r) \ tx[r].accepted
                   PROVE  IdAt(r, i) # None /\ Registered(IdAt(r, i))
      BY DEF RejectedEventsAreDuplicates
    <2>2. AnswerIsTrue(r, tx[r]) /\ i \in 1..Len(tx[r].events)
      BY <1>1 DEF IInv, Events
    <2>3. CASE tx[r].answer = "ok"
      BY <2>1, <2>2, <2>3 DEF AnswerIsTrue, IdAt, Ids
    <2>4. CASE tx[r].answer = "conflict"
      <3>1. Len(tx[r].events) = 1
        BY <2>2, <2>4 DEF AnswerIsTrue
      <3>2. i = 1
        BY <2>2, <3>1
      <3>3. QED BY <2>2, <2>4, <3>2 DEF AnswerIsTrue, IdAt, Ids
    <2>5. QED BY <2>1, <2>3, <2>4
  <1>2. QED BY <1>1, Invariance, PTL

\* A request that is refused, or whose answer is lost, is stored whole or not at
\* all: get_db rolls back everything, or its COMMIT had taken everything.
THEOREM RefusedRequests == Spec => []RefusedRequestsStoreAllOrNothing
  <1>1. ASSUME IInv PROVE RefusedRequestsStoreAllOrNothing
    <2>1. SUFFICES ASSUME NEW r \in Requests
                   PROVE  /\ tx[r].answer = "conflict" => StoresNothing(r)
                          /\ tx[r].answer = "error" => StoresNothing(r) \/ StoredWhole(r)
      BY DEF RefusedRequestsStoreAllOrNothing
    <2>2. tx[r].answer = "conflict" => StoresNothing(r)
      BY <1>1 DEF IInv, RowsHaveAnswers, StoresNothing
    <2>3. tx[r].answer = "error" => StoresNothing(r) \/ StoredWhole(r)
      BY <1>1 DEF IInv, AnswerIsTrue, StoresNothing, StoredWhole, Events, IdAt, Ids
    <2>4. QED BY <2>2, <2>3
  <1>2. QED BY <1>1, Invariance, PTL

\* The concurrent requests implement the atomic store.
THEOREM Refinement == Spec => ImplementsStore
  <1>1. IInv /\ [Next]_vars => [Store!Next]_(Store!vars)
    BY StepKeeps DEF Keeps
  <1>2. Init => Store!Init
    BY InitKeeps
  <1>3. QED BY <1>1, <1>2, Invariance, PTL DEF Spec, ImplementsStore, Store!Spec
=============================================================================
