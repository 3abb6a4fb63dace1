---------------------------- MODULE PagedListsProofs ----------------------------
(***************************************************************************)
(* What PagedLists keeps for tables, teams and pages of any size: totals   *)
(* cover the pages they come with, a gestor receives the logs of its team  *)
(* only, and walks of quiet and of growing lists miss nothing.             *)
(*                                                                         *)
(* The second half counts places: in a list without ties a row stands      *)
(* where the number of rows ahead of it says, so two statements that see   *)
(* the same rows list them alike, and a row that is not received yet stands *)
(* at the offset of the next page or behind it.                            *)
(***************************************************************************)
EXTENDS PagedLists, SequenceTheorems, FiniteSetTheorems, TLAPS

Running == {"page", "count", "answer"}

\* A log that this gestor may receive.
Mine(i) ==
  /\ table[i] # None
  /\ table[i].owner \in everTeam \cup {Self}
  /\ query.asked \in {None, table[i].owner}

\* Only rows are added.
Grows == query.list \in {"historico", "audit"}

PageInTable == items # <<>> => Before(page) + Len(items) <= MaxId

PageInSelection ==
  pc = "count" /\ Grows /\ items # <<>> =>
    Before(page) + Len(items) <= Cardinality(Selected(scope))

TeamIsRemembered ==
  ReadsTeam /\ (page > 1 \/ pc # "scope") => team \subseteq everTeam

ScopeIsMine ==
  ReadsTeam /\ pc \in Running =>
    /\ scope \subseteq everTeam \cup {Self}
    /\ query.asked # None => scope \subseteq {query.asked}

LogsAreMine ==
  ReadsTeam => /\ \A k \in DOMAIN items : Mine(items[k])
               /\ \A k \in DOMAIN walk : Mine(walk[k])

IInv ==
  /\ TypeOK
  /\ pc \notin {"count", "answer"} => items = <<>>
  /\ page = 1 /\ pc # "done" => walk = <<>>
  /\ PageInTable
  /\ PageInSelection
  /\ TotalsCoverPages
  /\ TeamIsRemembered
  /\ ScopeIsMine
  /\ LogsAreMine

-----------------------------------------------------------------------------
\* The numbers of a request.
LEMMA Numbers ==
  ASSUME TypeOK
  PROVE  query.size \in Nat \ {0} /\ page \in 1..(MaxId + 1) /\ page \in Nat /\ MaxId \in Nat
  <1>1. query.size \in PageSizes /\ page \in 1..(MaxId + 1)
    BY DEF TypeOK, Query
  <1>2. PageSizes \subseteq Nat \ {0} /\ MaxId \in Nat
    BY ConstantsAssumption
  <1>3. query.size \in Nat \ {0}
    BY <1>1, <1>2
  <1>4. page \in Nat
    BY <1>1, <1>2
  <1>5. QED BY <1>1, <1>2, <1>3, <1>4

\* A statement selects finitely many rows.
LEMMA SelectedFinite ==
  ASSUME NEW owners
  PROVE  /\ Selected(owners) \subseteq Ids /\ IsFiniteSet(Selected(owners))
         /\ Cardinality(Selected(owners)) \in 0..MaxId
  <1>1. Selected(owners) \in SUBSET (1..MaxId)
    BY DEF Selected, Ids
  <1>2. IsFiniteSet(1..MaxId) /\ Cardinality(1..MaxId) = MaxId
    BY FS_Interval, ConstantsAssumption
  <1>3. IsFiniteSet(Selected(owners)) /\ Cardinality(Selected(owners)) <= MaxId
    BY <1>1, <1>2, FS_Subset
  <1>4. QED BY <1>1, <1>3, FS_CardinalityType, ConstantsAssumption DEF Ids

\* A page is part of what its statement selects, and no longer than asked for.
LEMMA PageFacts ==
  ASSUME TypeOK, NEW owners, NEW s \in Listings(owners)
  PROVE  /\ PageOf(s, page) \in Seq(Selected(owners))
         /\ Len(PageOf(s, page)) <= query.size
         /\ PageOf(s, page) # <<>> =>
              Before(page) + Len(PageOf(s, page)) <= Cardinality(Selected(owners))
  <1> DEFINE n == Cardinality(Selected(owners))
             k == Before(page)
             last == IF k + query.size < Len(s) THEN k + query.size ELSE Len(s)
  <1>1. n \in Nat /\ query.size \in Nat \ {0}
    BY Numbers, SelectedFinite
  <1>2. s \in [1..n -> Selected(owners)]
    BY DEF Listings, SetToSeqs
  <1>3. s \in Seq(Selected(owners)) /\ Len(s) = n
    BY <1>1, <1>2
  <1>4. k \in Nat
    BY <1>1 DEF Before, TypeOK
  <1>5. PageOf(s, page) = SubSeq(s, k + 1, last)
    BY DEF PageOf
  <1> HIDE DEF n, k
  <1>6. /\ last \in Int /\ k + 1 \in Int /\ last <= n /\ last <= k + query.size
        /\ \A i \in (k + 1)..last : s[i] \in Selected(owners)
    <2>1. last \in Int /\ last <= n /\ last <= k + query.size
      BY <1>1, <1>3, <1>4
    <2>2. (k + 1)..last \subseteq 1..n
      BY <2>1, <1>1, <1>4
    <2>3. QED BY <2>1, <2>2, <1>2, <1>4
  <1> HIDE DEF last
  <1>7. /\ SubSeq(s, k + 1, last) \in Seq(Selected(owners))
        /\ Len(SubSeq(s, k + 1, last)) = IF k + 1 <= last THEN last - k ELSE 0
    <2>1. /\ SubSeq(s, k + 1, last) \in Seq(Selected(owners))
          /\ Len(SubSeq(s, k + 1, last)) = IF k + 1 <= last THEN last - (k + 1) + 1 ELSE 0
      BY <1>6, SubSeqProperties
    <2>2. QED BY <2>1, <1>4, <1>6
  <1>8. Len(SubSeq(s, k + 1, last)) <= query.size
    BY <1>1, <1>4, <1>6, <1>7
  <1>9. SubSeq(s, k + 1, last) # <<>> => k + Len(SubSeq(s, k + 1, last)) <= n
    BY <1>1, <1>4, <1>6, <1>7
  <1>10. QED BY <1>5, <1>7, <1>8, <1>9 DEF n, k

\* While no row is changed or removed a statement selects no fewer rows later.
LEMMA SelectionGrows ==
  ASSUME scope' = scope, \A i \in Ids : table[i] # None => table'[i] = table[i]
  PROVE  /\ Cardinality(Selected(scope)) <= Cardinality(Selected(scope)')
         /\ Cardinality(Selected(scope)') \in Nat
  <1> DEFINE later == Selected(scope)'
  <1>1. IsFiniteSet(1..MaxId)
    BY FS_Interval, ConstantsAssumption
  <1>2. later \in SUBSET (1..MaxId)
    BY DEF Selected, Ids
  <1>3. Selected(scope) \in SUBSET later
    BY DEF Selected
  <1> HIDE DEF later
  <1>4. IsFiniteSet(later)
    BY <1>1, <1>2, FS_Subset
  <1>5. Cardinality(Selected(scope)) <= Cardinality(later) /\ Cardinality(later) \in Nat
    BY <1>3, <1>4, FS_Subset, FS_CardinalityType
  <1>6. QED BY <1>5 DEF later

\* The walk begins in the invariant.
LEMMA InitOK == Init => IInv
  <1> SUFFICES ASSUME Init PROVE IInv
    OBVIOUS
  <1>1. TypeOK
    <2>1. query \in Query /\ query.size \in Nat
      BY ConstantsAssumption DEF Init, Query
    <2>2. team \subseteq Owners \ {Self}
      BY DEF Init
    <2>3. role \in {"admin", "gestor", "operador"}
      BY <2>1 DEF Init, Query
    <2>4. table \in [Ids -> Row \cup {None}]
      BY DEF Init
    <2>5. page \in 1..(MaxId + 1) /\ total \in 0..MaxId /\ changes \in 0..MaxChanges
      BY ConstantsAssumption DEF Init
    <2>6. items \in Seq(Ids) /\ walk \in Seq(Ids) /\ Len(items) <= query.size
      BY <2>1 DEF Init
    <2>7. QED BY <2>1, <2>2, <2>3, <2>4, <2>5, <2>6 DEF Init, TypeOK
  <1>2. QED
    BY <1>1 DEF Init, IInv, PageInTable, PageInSelection, TotalsCoverPages, TeamIsRemembered,
                ScopeIsMine, LogsAreMine, Running

-----------------------------------------------------------------------------
\* What a gestor may see is read: scope and memory of the team fit together.
LEMMA ReadScopeOK == ASSUME IInv, ReadScope PROVE IInv'
  <1>1. /\ pc = "scope" /\ pc' = "page" /\ scope' = ScopeOfRequest
        /\ page' = page /\ query' = query /\ table' = table /\ team' = team /\ walk' = walk
        /\ items' = items /\ total' = total /\ role' = role /\ changes' = changes
        /\ items = <<>> /\ (page = 1 => walk = <<>>)
    BY DEF ReadScope, IInv
  <1>2. /\ team \subseteq Owners /\ everTeam' \subseteq Owners
        /\ ReadsTeam => team \subseteq everTeam'
    <2>1. CASE page = 1
      BY <2>1 DEF ReadScope, IInv, TypeOK
    <2>2. CASE page # 1
      <3>1. page > 1
        BY <2>2, ConstantsAssumption DEF IInv, TypeOK
      <3>2. QED BY <2>2, <3>1 DEF ReadScope, IInv, TypeOK, TeamIsRemembered
    <2>3. QED BY <2>1, <2>2
  <1>3. TeamUsers \subseteq team
    BY DEF TeamUsers
  <1>4. query.asked \in Owners \cup {None} /\ Self \in Owners
    BY ConstantsAssumption DEF IInv, TypeOK, Query
  <1>5. scope' \subseteq Owners
    BY <1>1, <1>2, <1>3, <1>4 DEF ScopeOfRequest, TeamLogs
  <1>6. TypeOK'
    <2>1. start' \subseteq Ids /\ changed' \subseteq Kinds
      BY DEF ReadScope, Selected, IInv, TypeOK
    <2>2. pc' \in {"scope", "page", "count", "answer", "done"}
      BY <1>1
    <2>3. QED BY <1>1, <1>2, <1>5, <2>1, <2>2 DEF TypeOK, IInv
  <1>7. ScopeIsMine'
    <2>1. ASSUME ReadsTeam
          PROVE  /\ scope' \subseteq everTeam' \cup {Self}
                 /\ query.asked # None => scope' \subseteq {query.asked}
      <3>1. query.list = "audit"
        BY <2>1 DEF ReadsTeam
      <3>2. scope' = TeamLogs(query.asked)
        BY <1>1, <2>1, <3>1 DEF ScopeOfRequest
      <3>3. QED BY <1>2, <1>3, <2>1, <3>2 DEF TeamLogs
    <2>2. QED BY <1>1, <2>1 DEF ScopeIsMine, ReadsTeam
  <1>8. LogsAreMine'
    <2>1. CASE page = 1
      BY <1>1, <2>1 DEF LogsAreMine
    <2>2. CASE page # 1
      BY <1>1, <2>2 DEF ReadScope, LogsAreMine, Mine, ReadsTeam, IInv
    <2>3. QED BY <2>1, <2>2
  <1>9. PageInTable' /\ PageInSelection' /\ TotalsCoverPages' /\ TeamIsRemembered'
    BY <1>1, <1>2 DEF PageInTable, PageInSelection, TotalsCoverPages, TeamIsRemembered, ReadsTeam
  <1>10. QED BY <1>1, <1>6, <1>7, <1>8, <1>9 DEF IInv

\* A page is within the table, and its logs are the gestor's.
LEMMA ReadPageOK == ASSUME IInv, ReadPage PROVE IInv'
  <1>1. PICK s \in Listings(scope) : items' = PageOf(s, page)
    BY DEF ReadPage
  <1>2. /\ pc = "page" /\ pc' = "count" /\ TypeOK
        /\ UNCHANGED <<query, table, team, role, page, scope, total, walk, start, everTeam,
                       changed, changes>>
    BY DEF ReadPage, IInv
  <1>3. /\ items' \in Seq(Selected(scope)) /\ Len(items') <= query.size
        /\ items' # <<>> => Before(page) + Len(items') <= Cardinality(Selected(scope))
    BY <1>1, <1>2, PageFacts
  <1>4. \A k \in DOMAIN items' : items'[k] \in Selected(scope)
    BY <1>3
  <1>5. Selected(scope) \subseteq Ids /\ Cardinality(Selected(scope)) \in 0..MaxId
    BY SelectedFinite
  <1>6. TypeOK'
    <2>1. items' \in Seq(Ids)
      BY <1>3, <1>5, SeqMonotonic
    <2>2. pc' \in {"scope", "page", "count", "answer", "done"}
      BY <1>2
    <2>3. QED BY <1>2, <1>3, <2>1, <2>2 DEF TypeOK
  <1>7. PageInTable' /\ PageInSelection' /\ TotalsCoverPages'
    <2>1. Before(page)' = Before(page) /\ Selected(scope)' = Selected(scope)
      BY <1>2 DEF Before, Selected
    <2>2. Before(page) \in Int /\ Len(items') \in Nat /\ MaxId \in Nat
      BY <1>2, <1>3, Numbers, LenProperties DEF Before
    <2>3. QED BY <1>2, <1>3, <1>5, <2>1, <2>2 DEF PageInTable, PageInSelection, TotalsCoverPages
  <1>8. TeamIsRemembered' /\ ScopeIsMine'
    BY <1>2 DEF TeamIsRemembered, ScopeIsMine, ReadsTeam, Running, IInv
  <1>9. LogsAreMine'
    <2>1. ASSUME ReadsTeam, NEW i \in Selected(scope) PROVE Mine(i)
      <3>1. table[i] # None /\ table[i].owner \in scope
        BY <2>1 DEF Selected
      <3>2. scope \subseteq everTeam \cup {Self} /\ (query.asked # None => scope \subseteq {query.asked})
        BY <1>2, <2>1 DEF IInv, ScopeIsMine, Running
      <3>3. QED BY <3>1, <3>2 DEF Mine
    <2>2. QED BY <1>2, <1>4, <2>1 DEF LogsAreMine, Mine, ReadsTeam, IInv
  <1>10. QED BY <1>2, <1>6, <1>7, <1>8, <1>9 DEF IInv

\* A list that only grows is counted after its page, so the total covers it.
LEMMA CountOK == ASSUME IInv, Count PROVE IInv'
  <1>1. /\ pc = "count" /\ pc' = "answer" /\ total' = Cardinality(Selected(scope))
        /\ UNCHANGED <<query, table, team, role, page, scope, items, walk, start, everTeam,
                       changed, changes>>
    BY DEF Count
  <1>2. TypeOK'
    <2>1. total' \in 0..MaxId
      BY <1>1, SelectedFinite
    <2>2. pc' \in {"scope", "page", "count", "answer", "done"}
      BY <1>1
    <2>3. QED BY <1>1, <2>1, <2>2 DEF TypeOK, IInv
  <1>3. TotalsCoverPages'
    BY <1>1 DEF TotalsCoverPages, PageInSelection, Grows, Before, IInv
  <1>4. PageInTable' /\ PageInSelection' /\ TeamIsRemembered' /\ ScopeIsMine' /\ LogsAreMine'
    BY <1>1 DEF PageInTable, PageInSelection, TeamIsRemembered, ScopeIsMine, LogsAreMine,
                Mine, ReadsTeam, Running, Before, IInv
  <1>5. QED BY <1>1, <1>2, <1>3, <1>4 DEF IInv

\* A failed request leaves nothing behind.
LEMMA RequestFailsOK == ASSUME IInv, RequestFails PROVE IInv'
  <1>1. /\ pc \in Running /\ pc' = "scope" /\ items' = <<>> /\ total' = 0
        /\ UNCHANGED <<query, table, team, role, page, scope, walk, start, everTeam,
                       changed, changes>>
    BY DEF RequestFails, Running
  <1>2. TypeOK'
    <2>1. query.size \in Nat /\ MaxId \in Nat
      BY ConstantsAssumption DEF IInv, TypeOK, Query
    <2>2. items' \in Seq(Ids) /\ Len(items') <= query.size /\ total' \in 0..MaxId
      BY <1>1, <2>1
    <2>3. pc' \in {"scope", "page", "count", "answer", "done"}
      BY <1>1
    <2>4. QED BY <1>1, <2>2, <2>3 DEF TypeOK, IInv
  <1>3. page' = 1 => walk' = <<>>
    BY <1>1 DEF IInv, Running
  <1>4. QED
    BY <1>1, <1>2, <1>3 DEF IInv, PageInTable, PageInSelection, TotalsCoverPages,
                            TeamIsRemembered, ScopeIsMine, LogsAreMine, Mine, ReadsTeam, Running

\* What an answer keeps, whether the walk goes on or ends.
LEMMA AnswerStep ==
  ASSUME IInv, pc = "answer", walk' = walk \o items, items' = <<>>, total' = 0,
         UNCHANGED <<query, table, team, role, scope, start, everTeam, changed, changes>>,
         page' \in 1..(MaxId + 1), pc' \in {"scope", "done"}, page' = 1 => pc' = "done"
  PROVE  IInv'
  <1>1. items \in Seq(Ids) /\ walk \in Seq(Ids)
    BY DEF IInv, TypeOK
  <1>2. /\ walk' \in Seq(Ids) /\ Len(walk') = Len(walk) + Len(items)
        /\ \A k \in DOMAIN walk' : \/ k \in DOMAIN walk /\ walk'[k] = walk[k]
                                   \/ k - Len(walk) \in DOMAIN items
                                      /\ walk'[k] = items[k - Len(walk)]
    BY <1>1, ConcatProperties, LenProperties
  <1>3. TypeOK'
    <2>1. MaxId \in Nat /\ PageSizes \subseteq Nat \ {0}
      BY ConstantsAssumption
    <2>2. query.size \in Nat
      BY <2>1 DEF IInv, TypeOK, Query
    <2>3. items' \in Seq(Ids) /\ Len(items') <= query.size /\ total' \in 0..MaxId
      BY <2>1, <2>2
    <2>4. pc' \in {"scope", "page", "count", "answer", "done"}
      OBVIOUS
    <2>5. QED BY <1>2, <2>3, <2>4 DEF IInv, TypeOK
  <1>4. PageInTable' /\ PageInSelection' /\ TotalsCoverPages' /\ ScopeIsMine'
    BY DEF PageInTable, PageInSelection, TotalsCoverPages, ScopeIsMine, Running
  <1>5. TeamIsRemembered'
    BY DEF IInv, TeamIsRemembered, ReadsTeam
  <1>6. LogsAreMine'
    <2>1. ASSUME ReadsTeam, NEW k \in DOMAIN walk' PROVE Mine(walk'[k])
      BY <1>2, <2>1 DEF IInv, LogsAreMine
    <2>2. \A i : Mine(i) <=> Mine(i)'
      BY DEF Mine
    <2>3. QED BY <2>1 DEF LogsAreMine, Mine, ReadsTeam
  <1>7. QED BY <1>3, <1>4, <1>5, <1>6 DEF IInv

\* A full page leads to the next one, which the table still has room for.
LEMMA AnswerOK == ASSUME IInv, Answer PROVE IInv'
  <1>1. /\ pc = "answer" /\ walk' = walk \o items /\ items' = <<>> /\ total' = 0 /\ TypeOK
        /\ UNCHANGED <<query, table, team, role, scope, start, everTeam, changed, changes>>
    BY DEF Answer, IInv
  <1>2. query.size \in Nat \ {0} /\ MaxId \in Nat /\ page \in 1..(MaxId + 1) /\ Len(items) \in Nat
    BY <1>1, Numbers, LenProperties DEF TypeOK
  <1>3. CASE Len(items) < query.size
    <2>1. pc' = "done" /\ page' = page
      BY <1>3 DEF Answer
    <2>2. QED BY <1>1, <2>1, <1>2, AnswerStep
  <1>4. CASE ~(Len(items) < query.size)
    <2>1. pc' = "scope" /\ page' = page + 1 /\ items # <<>>
      BY <1>2, <1>4 DEF Answer
    <2>2. Before(page) + Len(items) <= MaxId
      BY <2>1 DEF IInv, PageInTable
    <2>3. Len(items) = query.size
      BY <1>1, <1>2, <1>4 DEF TypeOK
    <2>4. page + 1 \in 1..(MaxId + 1)
      <3>1. Before(page) \in Nat /\ page - 1 <= Before(page)
        BY <1>2 DEF Before
      <3>2. QED BY <1>2, <2>2, <2>3, <3>1
    <2>5. page' # 1
      BY <1>2, <2>1
    <2>6. QED BY <1>1, <2>1, <2>4, <2>5, AnswerStep
  <1>5. QED BY <1>3, <1>4

-----------------------------------------------------------------------------
\* A new row is not among those received and does not move them beyond the table.
LEMMA InsertOK ==
  ASSUME IInv, NEW i \in Ids, NEW row \in Row, Insert(i, row) PROVE IInv'
  <1>1. /\ table[i] = None /\ table' = [table EXCEPT ![i] = row]
        /\ UNCHANGED <<query, team, role, pc, page, scope, items, total, walk, start, everTeam>>
        /\ changed' = changed \cup {"insert"} /\ changes' = changes + 1 /\ changes < MaxChanges
    BY DEF Insert, Change
  <1>2. table \in [Ids -> Row \cup {None}]
    BY DEF IInv, TypeOK
  <1>3. \A j \in Ids : table[j] # None => table'[j] = table[j]
    BY <1>1, <1>2
  <1>4. TypeOK'
    <2>1. table' \in [Ids -> Row \cup {None}]
      BY <1>1, <1>2
    <2>2. changes' \in 0..MaxChanges
      BY <1>1, ConstantsAssumption DEF IInv, TypeOK
    <2>3. changed' \subseteq Kinds
      BY <1>1 DEF IInv, TypeOK, Kinds
    <2>4. QED BY <1>1, <2>1, <2>2, <2>3 DEF IInv, TypeOK
  <1>5. PageInSelection'
    <2>1. /\ Cardinality(Selected(scope)) <= Cardinality(Selected(scope)')
          /\ Cardinality(Selected(scope)') \in Nat
      BY <1>1, <1>3, SelectionGrows
    <2>2. Cardinality(Selected(scope)) \in Nat
      BY SelectedFinite, ConstantsAssumption
    <2>3. Before(page) + Len(items) \in Int
      BY Numbers, LenProperties DEF IInv, TypeOK, Before
    <2>4. Before(page)' = Before(page)
      BY <1>1 DEF Before
    <2>5. Cardinality(Selected(scope))' = Cardinality(Selected(scope)')
      OBVIOUS
    <2>6. QED BY <1>1, <2>1, <2>2, <2>3, <2>4, <2>5 DEF IInv, PageInSelection, Grows
  <1>6. LogsAreMine'
    <2>1. /\ \A k \in DOMAIN items : items[k] \in Ids
          /\ \A k \in DOMAIN walk : walk[k] \in Ids
      BY DEF IInv, TypeOK
    <2>2. \A j \in Ids : Mine(j) => Mine(j)'
      BY <1>1, <1>3 DEF Mine
    <2>3. QED BY <1>1, <2>1, <2>2 DEF IInv, LogsAreMine, ReadsTeam
  <1>7. PageInTable' /\ TotalsCoverPages' /\ TeamIsRemembered' /\ ScopeIsMine'
    BY <1>1 DEF IInv, PageInTable, TotalsCoverPages, TeamIsRemembered, ScopeIsMine, ReadsTeam,
                Running, Before
  <1>8. QED BY <1>1, <1>4, <1>5, <1>6, <1>7 DEF IInv

\* Rows of a list that a gestor reads for its team, or that only grows, are not
\* updated.
LEMMA UpdateOK ==
  ASSUME IInv, NEW i \in Ids, NEW row \in Row, Update(i, row) PROVE IInv'
  <1>1. /\ query.list \in {"clientes", "users"} /\ table' = [table EXCEPT ![i] = row]
        /\ UNCHANGED <<query, team, role, pc, page, scope, items, total, walk, start, everTeam>>
        /\ changed' = changed \cup {"update"} /\ changes' = changes + 1 /\ changes < MaxChanges
    BY DEF Update, Change
  <1>2. TypeOK'
    <2>1. table' \in [Ids -> Row \cup {None}]
      BY <1>1 DEF IInv, TypeOK
    <2>2. changes' \in 0..MaxChanges
      BY <1>1, ConstantsAssumption DEF IInv, TypeOK
    <2>3. changed' \subseteq Kinds
      BY <1>1 DEF IInv, TypeOK, Kinds
    <2>4. QED BY <1>1, <2>1, <2>2, <2>3 DEF IInv, TypeOK
  <1>3. ~ReadsTeam' /\ ~Grows'
    BY <1>1 DEF ReadsTeam, Grows
  <1>4. /\ PageInTable' /\ PageInSelection' /\ TotalsCoverPages'
        /\ TeamIsRemembered' /\ ScopeIsMine' /\ LogsAreMine'
    BY <1>1, <1>3 DEF IInv, PageInTable, PageInSelection, TotalsCoverPages, TeamIsRemembered,
                      ScopeIsMine, LogsAreMine, Before
  <1>5. QED BY <1>1, <1>2, <1>4 DEF IInv

\* Who joins the team is remembered, who leaves it is not forgotten.
LEMMA ChangeTeamOK ==
  ASSUME IInv, NEW u \in Owners \ {Self}, ChangeTeam(u) PROVE IInv'
  <1>1. /\ team' \subseteq team \cup {u} /\ everTeam' = everTeam \cup team'
        /\ UNCHANGED <<query, table, role, pc, page, scope, items, total, walk, start>>
        /\ changed' = changed \cup {"scope"} /\ changes' = changes + 1 /\ changes < MaxChanges
    BY DEF ChangeTeam, Change
  <1>2. TypeOK'
    <2>1. changes' \in 0..MaxChanges
      BY <1>1, ConstantsAssumption DEF IInv, TypeOK
    <2>2. changed' \subseteq Kinds
      BY <1>1 DEF IInv, TypeOK, Kinds
    <2>3. team' \subseteq Owners \ {Self} /\ everTeam' \subseteq Owners
      BY <1>1 DEF IInv, TypeOK
    <2>4. QED BY <1>1, <2>1, <2>2, <2>3 DEF IInv, TypeOK
  <1>3. TeamIsRemembered' /\ ScopeIsMine' /\ LogsAreMine'
    BY <1>1 DEF IInv, TeamIsRemembered, ScopeIsMine, LogsAreMine, Mine, ReadsTeam, Running
  <1>4. PageInTable' /\ PageInSelection' /\ TotalsCoverPages'
    BY <1>1 DEF IInv, PageInTable, PageInSelection, TotalsCoverPages, Grows, Before, Selected
  <1>5. QED BY <1>1, <1>2, <1>3, <1>4 DEF IInv

\* The role in the row matters to the list of users only.
LEMMA ChangeRoleOK ==
  ASSUME IInv, NEW new \in {"admin", "gestor", "operador"}, ChangeRole(new) PROVE IInv'
  <1>1. /\ role' = new
        /\ UNCHANGED <<query, table, team, everTeam, pc, page, scope, items, total, walk, start>>
        /\ changed' = changed \cup {"scope"} /\ changes' = changes + 1 /\ changes < MaxChanges
    BY DEF ChangeRole, Change
  <1>2. TypeOK'
    <2>1. changes' \in 0..MaxChanges
      BY <1>1, ConstantsAssumption DEF IInv, TypeOK
    <2>2. changed' \subseteq Kinds
      BY <1>1 DEF IInv, TypeOK, Kinds
    <2>3. QED BY <1>1, <2>1, <2>2 DEF IInv, TypeOK
  <1>3. TeamIsRemembered' /\ ScopeIsMine' /\ LogsAreMine'
    BY <1>1 DEF IInv, TeamIsRemembered, ScopeIsMine, LogsAreMine, Mine, ReadsTeam, Running
  <1>4. PageInTable' /\ PageInSelection' /\ TotalsCoverPages'
    BY <1>1 DEF IInv, PageInTable, PageInSelection, TotalsCoverPages, Grows, Before, Selected
  <1>5. QED BY <1>1, <1>2, <1>3, <1>4 DEF IInv

\* So does a step that changes nothing.
LEMMA StutterOK == ASSUME IInv, UNCHANGED vars PROVE IInv'
  BY DEF IInv, vars, TypeOK, PageInTable, PageInSelection, TotalsCoverPages, TeamIsRemembered,
         ScopeIsMine, LogsAreMine, Mine, ReadsTeam, Running, Grows, Before, Selected

\* Every step keeps the invariant.
LEMMA StepOK == IInv /\ [Next]_vars => IInv'
  <1> SUFFICES ASSUME IInv, [Next]_vars PROVE IInv'
    OBVIOUS
  <1>1. CASE ReadScope \/ ReadPage \/ Count \/ Answer \/ RequestFails
    BY <1>1, ReadScopeOK, ReadPageOK, CountOK, AnswerOK, RequestFailsOK
  <1>2. CASE \E i \in Ids, row \in Row : Insert(i, row) \/ Update(i, row)
    BY <1>2, InsertOK, UpdateOK
  <1>3. CASE \E u \in Owners \ {Self} : ChangeTeam(u)
    BY <1>3, ChangeTeamOK
  <1>4. CASE \E new \in {"admin", "gestor", "operador"} : ChangeRole(new)
    BY <1>4, ChangeRoleOK
  <1>5. CASE UNCHANGED vars
    BY <1>5, StutterOK
  <1>6. QED BY <1>1, <1>2, <1>3, <1>4, <1>5 DEF Next

\* The inductive invariant holds in every state of a walk.
THEOREM Invariance == Spec => []IInv
  BY InitOK, StepOK, PTL DEF Spec

\* The variables keep their types; in particular a page is never longer than
\* asked for, and a walk takes at most one page more than there may be rows
\* (visao_cliente_repository.py:122, 137, 251).
THEOREM TypeCorrectness == Spec => []TypeOK
  <1>1. IInv => TypeOK
    BY DEF IInv
  <1>2. QED BY <1>1, Invariance, PTL

\* The total of a list that only grows covers the page it comes with.
THEOREM Totals == Spec => []TotalsCoverPages
  <1>1. IInv => TotalsCoverPages
    BY DEF IInv
  <1>2. QED BY <1>1, Invariance, PTL

\* A gestor receives its own logs and those of operators that were in the team
\* during the walk, and only those of the user it asked for.
THEOREM GestorScope == Spec => []GestorsReadTheirTeamsLogs
  <1>1. IInv => GestorsReadTheirTeamsLogs
    <2> SUFFICES ASSUME IInv, ReadsTeam, NEW i \in Received
                 PROVE  /\ table[i].owner \in everTeam \cup {Self}
                        /\ query.asked \in {None, table[i].owner}
      BY DEF GestorsReadTheirTeamsLogs
    <2>1. PICK k \in DOMAIN walk : i = walk[k]
      BY DEF Received, ToSet
    <2>2. QED BY <2>1 DEF IInv, LogsAreMine, Mine
  <1>2. QED BY <1>1, Invariance, PTL
-----------------------------------------------------------------------------
\* The walk has begun, and what it began with is in the history variables.
Underway == page > 1 \/ pc # "scope"

\* No two rows of the list are equal in its order.
Ordered == query.list = "historico" \/ KeysDiffer

\* The place of a row in the list, counted from 0.
RowsAhead(i) == {j \in Selected(scope) : Precedes(j, i)}
Place(i) == Cardinality(RowsAhead(i))

\* The row is received, or on the page that was read, or not reached yet.
Reached(i) ==
  \/ i \in Received
  \/ /\ pc # "done" /\ Place(i) >= Before(page)
     /\ pc \in {"count", "answer"} =>
          \/ i \in ToSet(items)
          \/ Len(items) = query.size /\ Place(i) >= Before(page) + query.size

ScopeIsKept == Underway /\ "scope" \notin changed => scope = ScopeOfRequest

RowsAreReached ==
  Underway /\ "scope" \notin changed /\ Grows /\ Ordered =>
    \A i \in start : table[i] # None /\ (table[i].owner \in scope => Reached(i))

\* The walk follows a listing of the table.
Follows(s) ==
  /\ pc = "done" => walk = s
  /\ pc # "done" => Before(page) <= Len(s) /\ walk = SubSeq(s, 1, Before(page))
  /\ pc \in {"count", "answer"} => items = PageOf(s, page)

WalkIsPrefix ==
  Underway /\ changed = {} /\ Ordered =>
    \/ page = 1 /\ pc \in {"scope", "page"}
    \/ \E s \in Listings(scope) : Follows(s)

WInv == ScopeIsKept /\ RowsAreReached /\ WalkIsPrefix

-----------------------------------------------------------------------------
\* Where no two rows are equal in the order, it is total.
LEMMA OrderFacts ==
  ASSUME TypeOK, Ordered, NEW i \in Selected(scope), NEW j \in Selected(scope)
  PROVE  ~Precedes(i, i) /\ (i # j => Precedes(i, j) \/ Precedes(j, i))
  <1>1. /\ i \in Ids /\ table[i] # None /\ j \in Ids /\ table[j] # None
        /\ i \in Selected(Owners) /\ j \in Selected(Owners)
    BY DEF Selected, TypeOK
  <1>2. table[i].key \in Nat /\ table[j].key \in Nat /\ i \in Nat /\ j \in Nat
    <2>1. table[i] \in Row /\ table[j] \in Row
      BY <1>1 DEF TypeOK
    <2>2. table[i].key \in 1..MaxKey /\ table[j].key \in 1..MaxKey
      BY <2>1 DEF Row, Keys
    <2>3. MaxId \in Nat /\ MaxKey \in Nat
      BY ConstantsAssumption
    <2>4. QED BY <1>1, <2>2, <2>3 DEF Ids
  <1>3. query.list # "historico" /\ i # j => table[i].key # table[j].key
    BY <1>1 DEF Ordered, KeysDiffer
  <1>4. CASE query.list = "clientes"
    BY <1>2, <1>3, <1>4 DEF Precedes
  <1>5. CASE query.list = "historico"
    BY <1>2, <1>5 DEF Precedes
  <1>6. CASE query.list \notin {"clientes", "historico"}
    BY <1>2, <1>3, <1>6 DEF Precedes
  <1>7. QED BY <1>4, <1>5, <1>6

\* A listing shows every selected row once, and none before a row that precedes it.
LEMMA ListingFacts ==
  ASSUME NEW s \in Listings(scope)
  PROVE  /\ s \in Seq(Selected(scope)) /\ s \in Seq(Ids) /\ Len(s) \in Nat
         /\ \A m \in 1..Len(s) : s[m] \in Selected(scope)
         /\ \A m \in 1..Len(s) : \A k \in 1..Len(s) :
              /\ s[m] = s[k] => m = k
              /\ m < k => ~Precedes(s[k], s[m])
         /\ \A i \in Selected(scope) : \E m \in 1..Len(s) : s[m] = i
  <1> DEFINE S == Selected(scope)
             n == Cardinality(S)
  <1>1. n \in Nat /\ IsFiniteSet(S) /\ S \subseteq Ids
    BY SelectedFinite, ConstantsAssumption
  <1>2. /\ s \in [1..n -> S] /\ \A m, k \in 1..n : m # k => s[m] # s[k]
        /\ \A m, k \in DOMAIN s : m < k => ~Precedes(s[k], s[m])
    BY DEF Listings, SetToSeqs
  <1> HIDE DEF n
  <1>3. s \in Seq(S) /\ Len(s) = n /\ s \in Seq(Ids)
    BY <1>1, <1>2
  <1>4. s \in Injection(1..n, S)
    BY <1>2 DEF Injection, IsInjective
  <1>5. IsFiniteSet(1..n) /\ Cardinality(1..n) = n
    BY <1>1, FS_Interval
  <1>6. s \in Surjection(1..n, S)
    BY <1>1, <1>4, <1>5, FS_Injection DEF n
  <1>7. QED BY <1>1, <1>2, <1>3, <1>6 DEF Surjection

\* A row stands in a listing where the number of rows ahead of it says.
LEMMA PlaceInListing ==
  ASSUME TypeOK, Ordered, NEW s \in Listings(scope), NEW m \in 1..Len(s)
  PROVE  Place(s[m]) = m - 1
  <1> DEFINE ahead == 1..(m - 1)
             f == [k \in ahead |-> s[k]]
  <1>1. Len(s) \in Nat /\ \A k \in ahead : k \in 1..Len(s)
    BY ListingFacts
  <1>2. \A j \in RowsAhead(s[m]) : \E k \in ahead : s[k] = j
    <2> SUFFICES ASSUME NEW j \in RowsAhead(s[m]) PROVE \E k \in ahead : s[k] = j
      OBVIOUS
    <2>1. j \in Selected(scope) /\ Precedes(j, s[m])
      BY DEF RowsAhead
    <2>2. PICK k \in 1..Len(s) : s[k] = j
      BY <2>1, ListingFacts
    <2>3. ~(m < k)
      BY <2>1, <2>2, ListingFacts
    <2>4. k # m
      BY <2>1, <2>2, ListingFacts, OrderFacts
    <2>5. QED BY <1>1, <2>2, <2>3, <2>4
  <1>3. \A k \in ahead : s[k] \in RowsAhead(s[m])
    <2> SUFFICES ASSUME NEW k \in ahead PROVE s[k] \in RowsAhead(s[m])
      OBVIOUS
    <2>1. k \in 1..Len(s) /\ k < m
      BY <1>1
    <2>2. s[k] # s[m] /\ ~Precedes(s[m], s[k]) /\ s[k] \in Selected(scope) /\ s[m] \in Selected(scope)
      BY <2>1, ListingFacts
    <2>3. QED BY <2>2, OrderFacts DEF RowsAhead
  <1>4. f \in Bijection(ahead, RowsAhead(s[m]))
    <2>1. f \in [ahead -> RowsAhead(s[m])]
      BY <1>3
    <2>2. \A k \in ahead : \A l \in ahead : s[k] = s[l] => k = l
      BY <1>1, ListingFacts
    <2>3. f \in Injection(ahead, RowsAhead(s[m]))
      BY <2>1, <2>2 DEF Injection, IsInjective
    <2>4. f \in Surjection(ahead, RowsAhead(s[m]))
      BY <1>2, <2>1 DEF Surjection
    <2>5. QED BY <2>3, <2>4 DEF Bijection
  <1>5. IsFiniteSet(ahead) /\ Cardinality(ahead) = m - 1
    <2>1. m \in Nat \ {0} /\ m - 1 \in Int /\ 1 \in Int
      BY <1>1
    <2>2. IsFiniteSet(ahead) /\ Cardinality(ahead) = IF 1 > m - 1 THEN 0 ELSE m - 1 - 1 + 1
      BY <2>1, FS_Interval
    <2>3. QED BY <2>1, <2>2
  <1>6. QED
    BY <1>4, <1>5, FS_Bijection DEF ExistsBijection, Place

\* A table that orders its rows has one listing.
LEMMA OneListing ==
  ASSUME TypeOK, Ordered, NEW s \in Listings(scope), NEW t \in Listings(scope)
  PROVE  s = t
  <1>1. \A m \in 1..Len(s) : m \in 1..Len(t) /\ s[m] = t[m]
    <2> SUFFICES ASSUME NEW m \in 1..Len(s) PROVE m \in 1..Len(t) /\ s[m] = t[m]
      OBVIOUS
    <2>1. PICK k \in 1..Len(t) : t[k] = s[m]
      BY ListingFacts
    <2>2. Place(s[m]) = m - 1 /\ Place(t[k]) = k - 1
      BY PlaceInListing
    <2>3. m = k
      BY <2>1, <2>2, ListingFacts
    <2>4. QED BY <2>1, <2>3
  <1>2. Len(s) = Len(t)
    <2> DEFINE n == Cardinality(Selected(scope))
    <2>1. n \in Nat
      BY SelectedFinite, ConstantsAssumption
    <2>2. s \in [1..n -> Selected(scope)] /\ t \in [1..n -> Selected(scope)]
      BY DEF Listings, SetToSeqs
    <2> HIDE DEF n
    <2>3. QED BY <2>1, <2>2
  <1>3. QED
    BY <1>1, <1>2, ListingFacts, SeqEqual

-----------------------------------------------------------------------------
\* What a page shows of a listing.
LEMMA PageShows ==
  ASSUME TypeOK, NEW s \in Listings(scope)
  PROVE  /\ Before(page) \in Nat /\ query.size \in Nat \ {0}
         /\ \A m \in 1..Len(s) : Before(page) < m /\ m <= Before(page) + query.size =>
              s[m] \in ToSet(PageOf(s, page))
         /\ Before(page) + query.size < Len(s) => Len(PageOf(s, page)) = query.size
         /\ \A m \in 1..Len(s) : m > Before(page) + query.size =>
              Len(PageOf(s, page)) = query.size
         /\ Before(page) <= Len(s) =>
              /\ SubSeq(s, 1, Before(page)) \o PageOf(s, page) =
                   SubSeq(s, 1, Before(page) + Len(PageOf(s, page)))
              /\ Before(page) + Len(PageOf(s, page)) <= Len(s)
              /\ Len(PageOf(s, page)) < query.size =>
                   Before(page) + Len(PageOf(s, page)) = Len(s)
         /\ Len(PageOf(s, page)) <= query.size
  <1> DEFINE b == Before(page)
             last == IF b + query.size < Len(s) THEN b + query.size ELSE Len(s)
             p == PageOf(s, page)
  <1>1. /\ s \in Seq(Ids) /\ Len(s) \in Nat /\ query.size \in Nat \ {0} /\ b \in Nat
        /\ \A m \in 1..Len(s) : s[m] \in Ids
    <2>1. query.size \in Nat \ {0} /\ page \in Nat \ {0}
      BY Numbers
    <2>2. b \in Nat
      BY <2>1 DEF Before
    <2>3. QED BY <2>1, <2>2, ListingFacts
  <1>2. p = SubSeq(s, b + 1, last)
    BY DEF PageOf
  <1> HIDE DEF b, p
  <1>3. last \in Nat /\ last <= Len(s) /\ last <= b + query.size
    BY <1>1
  <1>4. (last = b + query.size /\ b + query.size < Len(s)) \/ (last = Len(s) /\ Len(s) <= b + query.size)
    BY <1>1
  <1> HIDE DEF last
  <1>5. /\ Len(p) = IF b + 1 <= last THEN last - b ELSE 0
        /\ \A k \in 1..(last - b) : p[k] = s[b + k]
        /\ p \in Seq(Ids)
    <2>1. PICK c \in Int : c = b + 1
      BY <1>1
    <2>2. last \in Int /\ \A k \in c..last : s[k] \in Ids
      BY <1>1, <1>3, <2>1
    <2>3. /\ SubSeq(s, c, last) \in Seq(Ids)
          /\ Len(SubSeq(s, c, last)) = IF c <= last THEN last - c + 1 ELSE 0
          /\ \A k \in 1..(last - c + 1) : SubSeq(s, c, last)[k] = s[c + k - 1]
      BY <2>2, SubSeqProperties
    <2>4. last - c + 1 = last - b /\ \A k \in 1..(last - b) : c + k - 1 = b + k
      BY <1>1, <2>1, <2>2
    <2>5. QED BY <1>2, <2>1, <2>2, <2>3, <2>4
  <1>6. ASSUME NEW m \in 1..Len(s), b < m, m <= b + query.size PROVE s[m] \in ToSet(p)
    <2>1. m - b \in 1..(last - b) /\ m - b \in 1..Len(p) /\ b + (m - b) = m
      BY <1>1, <1>3, <1>4, <1>5, <1>6
    <2>2. p[m - b] = s[m] /\ m - b \in DOMAIN p
      BY <1>5, <2>1
    <2>3. QED BY <2>2 DEF ToSet
  <1>7. b + query.size < Len(s) => Len(p) = query.size
    BY <1>1, <1>4, <1>5
  <1>8. ASSUME NEW m \in 1..Len(s), m > b + query.size PROVE Len(p) = query.size
    BY <1>1, <1>7, <1>8
  <1>9. ASSUME b <= Len(s)
        PROVE  /\ SubSeq(s, 1, b) \o p = SubSeq(s, 1, b + Len(p))
               /\ b + Len(p) <= Len(s) /\ (Len(p) < query.size => b + Len(p) = Len(s))
    <2>1. b <= last /\ b + Len(p) = last
      BY <1>1, <1>3, <1>4, <1>5, <1>9
    <2>2. 1 \in 1..(Len(s) + 1) /\ b \in (1 - 1)..Len(s) /\ last \in b..Len(s)
      BY <1>1, <1>3, <1>9, <2>1
    <2>3. SubSeq(s, 1, b) \o SubSeq(s, b + 1, last) = SubSeq(s, 1, last)
      BY <1>1, <2>2, ConcatAdjacentSubSeq
    <2>4. Len(p) < query.size => last = Len(s)
      BY <1>1, <1>4, <2>1, <1>5
    <2>5. QED BY <1>2, <1>3, <2>1, <2>3, <2>4
  <1>10. Len(p) <= query.size
    BY <1>1, <1>3, <1>5
  <1>11. QED BY <1>1, <1>6, <1>7, <1>8, <1>9, <1>10 DEF b, p

-----------------------------------------------------------------------------
\* Places are numbers, and of a table that only grows they only grow.
LEMMA PlaceIsNat == ASSUME NEW i PROVE Place(i) \in Nat
  <1>1. IsFiniteSet(Selected(scope)) /\ RowsAhead(i) \in SUBSET Selected(scope)
    BY SelectedFinite DEF RowsAhead
  <1>2. IsFiniteSet(RowsAhead(i))
    BY <1>1, FS_Subset
  <1>3. QED BY <1>2, FS_CardinalityType DEF Place

LEMMA LaterPlaces ==
  ASSUME NEW i
  PROVE  /\ Place(i)' \in Nat
         /\ RowsAhead(i) \subseteq RowsAhead(i)' => Place(i) <= Place(i)'
  <1> DEFINE later == RowsAhead(i)'
  <1>1. IsFiniteSet(1..MaxId)
    BY FS_Interval, ConstantsAssumption
  <1>2. later \in SUBSET (1..MaxId) /\ Place(i)' = Cardinality(later)
    BY DEF RowsAhead, Selected, Ids, Place
  <1>3. RowsAhead(i) \subseteq RowsAhead(i)' => RowsAhead(i) \in SUBSET later
    OBVIOUS
  <1> HIDE DEF later
  <1>4. IsFiniteSet(later)
    BY <1>1, <1>2, FS_Subset
  <1>5. Cardinality(later) \in Nat
    BY <1>4, FS_CardinalityType
  <1>6. RowsAhead(i) \in SUBSET later => Cardinality(RowsAhead(i)) <= Cardinality(later)
    BY <1>4, FS_Subset
  <1>7. QED BY <1>2, <1>3, <1>5, <1>6 DEF Place

\* The history of a walk does not change when nothing it mentions does.
LEMMA SameWalk ==
  ASSUME UNCHANGED <<query, table, page, scope, walk, start, changed>>
  PROVE  /\ \A i : Place(i)' = Place(i)
         /\ Listings(scope)' = Listings(scope) /\ Before(page)' = Before(page)
         /\ \A q \in Listings(scope) : PageOf(q, page)' = PageOf(q, page)
         /\ Received' = Received /\ Grows' = Grows /\ Ordered' = Ordered
  <1>1. (\A i : Place(i)' = Place(i)) /\ Received' = Received /\ Before(page)' = Before(page)
    BY DEF Place, RowsAhead, Selected, Precedes, Received, Before
  <1>2. Grows' = Grows /\ Ordered' = Ordered
    BY DEF Grows, Ordered, KeysDiffer, Selected
  <1>3. Listings(scope)' = Listings(scope)
    BY DEF Listings, Selected, Precedes
  <1>4. \A q \in Listings(scope) : PageOf(q, page)' = PageOf(q, page)
    BY DEF PageOf, Before
  <1>5. QED BY <1>1, <1>2, <1>3, <1>4

\* The first request of a walk begins it anew; the others go on in the same scope as
\* long as nobody changes it.
LEMMA ReadScopeWalks == ASSUME IInv, WInv, ReadScope PROVE WInv'
  <1>1. /\ pc = "scope" /\ pc' = "page" /\ scope' = ScopeOfRequest
        /\ UNCHANGED <<query, table, team, role, page, items, total, walk, changes>>
        /\ page \in Nat \ {0} /\ query.size \in Nat
    BY Numbers DEF ReadScope, IInv, TypeOK
  <1>2. ScopeOfRequest' = ScopeOfRequest
    BY <1>1 DEF ScopeOfRequest, ReadsTeam, TeamLogs, TeamUsers
  <1>3. ScopeIsKept'
    BY <1>1, <1>2 DEF ScopeIsKept
  <1>4. CASE page = 1
    <2>1. start' = Selected(Owners) /\ Before(page)' = 0
      BY <1>1, <1>4 DEF ReadScope, Before
    <2>2. ASSUME NEW i \in start' PROVE table'[i] # None /\ Reached(i)'
      BY <1>1, <2>1, LaterPlaces DEF Selected, Reached
    <2>3. RowsAreReached'
      BY <2>2 DEF RowsAreReached
    <2>4. WalkIsPrefix'
      BY <1>1, <1>4 DEF WalkIsPrefix
    <2>5. QED BY <1>3, <2>3, <2>4 DEF WInv
  <1>5. CASE page # 1
    <2>1. start' = start /\ changed' = changed /\ Underway
      BY <1>1, <1>5 DEF ReadScope, Underway
    <2>2. ("scope" \notin changed \/ changed = {}) => scope' = scope
      BY <1>1, <2>1 DEF WInv, ScopeIsKept
    <2>3. CASE scope' = scope
      <3>1. \A i : Reached(i) => Reached(i)'
        BY <1>1, <2>1, <2>3, SameWalk DEF Reached
      <3>2. RowsAreReached'
        BY <1>1, <2>1, <2>3, <3>1, SameWalk DEF WInv, RowsAreReached
      <3>3. \A q \in Listings(scope) : Follows(q) => Follows(q)'
        BY <1>1, <2>1, <2>3, SameWalk DEF Follows
      <3>4. WalkIsPrefix'
        BY <1>1, <2>1, <2>3, <3>3, SameWalk DEF WInv, WalkIsPrefix
      <3>5. QED BY <1>3, <3>2, <3>4 DEF WInv
    <2>4. CASE scope' # scope
      BY <1>3, <2>1, <2>2, <2>4 DEF WInv, RowsAreReached, WalkIsPrefix
    <2>5. QED BY <2>3, <2>4
  <1>6. QED BY <1>4, <1>5

\* A page shows the rows from its offset on, of the one listing there is.
LEMMA ReadPageWalks == ASSUME IInv, WInv, ReadPage PROVE WInv'
  <1>1. PICK s \in Listings(scope) : items' = PageOf(s, page)
    BY DEF ReadPage
  <1>2. /\ pc = "page" /\ pc' = "count" /\ TypeOK /\ Underway /\ WInv
        /\ UNCHANGED <<query, table, team, role, page, scope, total, walk, start, everTeam,
                       changed, changes>>
    BY DEF ReadPage, IInv, Underway
  <1>3. ScopeIsKept'
    BY <1>2 DEF WInv, ScopeIsKept, Underway, ScopeOfRequest, ReadsTeam, TeamLogs, TeamUsers
  <1>4. RowsAreReached'
    <2> SUFFICES ASSUME "scope" \notin changed, Grows, Ordered, NEW i \in start
                 PROVE  table[i] # None /\ (table[i].owner \in scope => Reached(i)')
      BY <1>2, SameWalk DEF RowsAreReached
    <2>1. table[i] # None /\ (table[i].owner \in scope => Reached(i)) /\ i \in Ids
      BY <1>2 DEF WInv, RowsAreReached, TypeOK
    <2>2. CASE table[i].owner \in scope /\ i \notin Received
      <3>1. i \in Selected(scope) /\ Place(i) >= Before(page)
        BY <1>2, <2>1, <2>2 DEF Selected, Reached
      <3>2. PICK m \in 1..Len(s) : s[m] = i
        BY <3>1, ListingFacts
      <3>3. Place(i) = m - 1 /\ Len(s) \in Nat
        BY <1>2, <3>2, PlaceInListing, ListingFacts
      <3>4. CASE m <= Before(page) + query.size
        <4>1. i \in ToSet(items')
          BY <1>1, <1>2, <3>1, <3>2, <3>3, <3>4, PageShows
        <4>2. QED BY <1>2, <2>1, <3>1, <4>1, SameWalk DEF Reached
      <3>5. CASE m > Before(page) + query.size
        <4>1. Len(items') = query.size
          BY <1>1, <1>2, <3>2, <3>5, PageShows
        <4>2. Place(i) >= Before(page) + query.size
          BY <1>2, <3>3, <3>5, PageShows
        <4>3. QED BY <1>2, <2>1, <3>1, <4>1, <4>2, SameWalk DEF Reached
      <3>6. QED BY <1>2, <3>3, <3>4, <3>5, PageShows
    <2>3. QED BY <1>2, <2>1, <2>2, SameWalk DEF Reached
  <1>5. WalkIsPrefix'
    <2> SUFFICES ASSUME changed = {}, Ordered PROVE Follows(s)'
      BY <1>2, SameWalk DEF WalkIsPrefix
    <2>1. Before(page) <= Len(s) /\ walk = SubSeq(s, 1, Before(page))
      <3>1. CASE page = 1
        <4>1. walk = <<>> /\ query.size \in Nat
          BY <1>2, <3>1, Numbers DEF IInv
        <4>2. Before(page) = 0 /\ SubSeq(s, 1, 0) = <<>>
          BY <3>1, <4>1, SubSeqEmpty DEF Before
        <4>3. QED BY <4>1, <4>2, ListingFacts
      <3>2. CASE page # 1
        <4>1. PICK t \in Listings(scope) : Follows(t)
          BY <1>2, <3>2 DEF WInv, WalkIsPrefix
        <4>2. t = s
          BY <1>2, OneListing
        <4>3. QED BY <1>2, <4>1, <4>2 DEF Follows
      <3>3. QED BY <3>1, <3>2
    <2>2. QED BY <1>1, <1>2, <2>1, SameWalk DEF Follows
  <1>6. QED BY <1>3, <1>4, <1>5 DEF WInv

\* The total is counted; the walk stays where it is.
LEMMA CountWalks == ASSUME IInv, WInv, Count PROVE WInv'
  <1>1. /\ pc = "count" /\ pc' = "answer" /\ Underway
        /\ UNCHANGED <<query, table, team, role, page, scope, items, walk, start, everTeam,
                       changed, changes>>
    BY DEF Count, Underway
  <1>2. ScopeIsKept'
    BY <1>1 DEF WInv, ScopeIsKept, Underway, ScopeOfRequest, ReadsTeam, TeamLogs, TeamUsers
  <1>3. \A i : Reached(i) => Reached(i)'
    BY <1>1, SameWalk DEF Reached
  <1>4. RowsAreReached'
    BY <1>1, <1>3, SameWalk DEF WInv, RowsAreReached
  <1>5. \A q \in Listings(scope) : Follows(q) => Follows(q)'
    BY <1>1, SameWalk DEF Follows
  <1>6. WalkIsPrefix'
    BY <1>1, <1>5, SameWalk DEF WInv, WalkIsPrefix
  <1>7. QED BY <1>2, <1>4, <1>6 DEF WInv

\* A page that is not full ends the walk, and nothing is left; a full one leads to
\* the next offset.
LEMMA AnswerWalks == ASSUME IInv, WInv, Answer PROVE WInv'
  <1>1. /\ pc = "answer" /\ walk' = walk \o items /\ items' = <<>> /\ TypeOK /\ Underway
        /\ UNCHANGED <<query, table, team, role, scope, start, everTeam, changed, changes>>
        /\ \/ Len(items) < query.size /\ pc' = "done" /\ page' = page
           \/ ~(Len(items) < query.size) /\ pc' = "scope" /\ page' = page + 1
    BY DEF Answer, IInv, Underway
  <1>2. /\ query.size \in Nat \ {0} /\ page \in Nat \ {0} /\ items \in Seq(Ids) /\ walk \in Seq(Ids)
        /\ Len(items) \in Nat /\ Len(items) <= query.size
    BY <1>1, Numbers, LenProperties DEF TypeOK
  <1>3. Received' = Received \cup ToSet(items)
    <2>1. /\ DOMAIN walk = 1..Len(walk) /\ DOMAIN items = 1..Len(items) /\ Len(walk) \in Nat
          /\ DOMAIN (walk \o items) = 1..(Len(walk) + Len(items))
          /\ \A k \in 1..(Len(walk) + Len(items)) :
               (walk \o items)[k] = IF k <= Len(walk) THEN walk[k] ELSE items[k - Len(walk)]
      BY <1>2, ConcatProperties, LenProperties
    <2>2. \A i \in Received' : i \in Received \cup ToSet(items)
      BY <1>1, <1>2, <2>1 DEF Received, ToSet
    <2>3. \A i \in Received : i \in Received'
      BY <1>1, <1>2, <2>1 DEF Received, ToSet
    <2>4. ASSUME NEW k \in 1..Len(items) PROVE items[k] \in Received'
      <3>1. /\ Len(walk) + k \in 1..(Len(walk) + Len(items)) /\ ~(Len(walk) + k <= Len(walk))
            /\ Len(walk) + k - Len(walk) = k
        BY <1>2, <2>1
      <3>2. (walk \o items)[Len(walk) + k] = items[k]
        BY <2>1, <3>1
      <3>3. QED BY <1>1, <2>1, <3>1, <3>2 DEF Received, ToSet
    <2>5. QED BY <2>1, <2>2, <2>3, <2>4 DEF ToSet
  <1>4. ScopeIsKept'
    BY <1>1 DEF WInv, ScopeIsKept, ScopeOfRequest, ReadsTeam, TeamLogs, TeamUsers
  <1>5. /\ \A i : Place(i)' = Place(i) /\ Place(i) \in Nat
        /\ Listings(scope)' = Listings(scope) /\ Grows' = Grows /\ Ordered' = Ordered
    BY <1>1, PlaceIsNat DEF Place, RowsAhead, Selected, Precedes, Listings, Grows, Ordered, KeysDiffer
  <1>6. ~(Len(items) < query.size) =>
          Len(items) = query.size /\ Before(page)' = Before(page) + query.size
    <2>1. (page + 1 - 1) * query.size = (page - 1) * query.size + query.size
      BY <1>2
    <2>2. QED BY <1>1, <1>2, <2>1 DEF Before
  <1>7. Before(page) \in Nat
    BY <1>2 DEF Before
  <1>8. RowsAreReached'
    <2> SUFFICES ASSUME "scope" \notin changed, Grows, Ordered, NEW i \in start
                 PROVE  table[i] # None /\ (table[i].owner \in scope => Reached(i)')
      BY <1>1, <1>5 DEF RowsAreReached
    <2>1. table[i] # None /\ (table[i].owner \in scope => Reached(i))
      BY <1>1 DEF WInv, RowsAreReached
    <2>2. CASE Len(items) < query.size
      BY <1>1, <1>2, <1>3, <2>1, <2>2 DEF Reached
    <2>3. CASE ~(Len(items) < query.size)
      BY <1>1, <1>3, <1>5, <1>6, <2>1, <2>3 DEF Reached
    <2>4. QED BY <2>2, <2>3
  <1>9. WalkIsPrefix'
    <2> SUFFICES ASSUME changed = {}, Ordered PROVE \E q \in Listings(scope) : Follows(q)'
      BY <1>1, <1>5 DEF WalkIsPrefix
    <2>1. PICK s \in Listings(scope) : Follows(s)
      BY <1>1 DEF WInv, WalkIsPrefix
    <2>2. /\ Before(page) <= Len(s) /\ walk = SubSeq(s, 1, Before(page)) /\ items = PageOf(s, page)
      BY <1>1, <2>1 DEF Follows
    <2>3. /\ walk' = SubSeq(s, 1, Before(page) + Len(items))
          /\ Before(page) + Len(items) <= Len(s)
          /\ Len(items) < query.size => Before(page) + Len(items) = Len(s)
      BY <1>1, <2>2, PageShows
    <2>4. CASE Len(items) < query.size
      <3>1. walk' = s
        BY <2>3, <2>4, ListingFacts, SubSeqFull
      <3>2. QED BY <1>1, <2>4, <3>1 DEF Follows
    <2>5. CASE ~(Len(items) < query.size)
      BY <1>1, <1>6, <2>3, <2>5 DEF Follows
    <2>6. QED BY <2>4, <2>5
  <1>10. QED BY <1>4, <1>8, <1>9 DEF WInv

\* The page of a failed request is asked for again: what it showed is not counted on.
LEMMA RequestFailsWalks == ASSUME IInv, WInv, RequestFails PROVE WInv'
  <1>1. /\ pc \in Running /\ pc' = "scope" /\ items' = <<>> /\ Underway
        /\ UNCHANGED <<query, table, team, role, page, scope, walk, start, everTeam,
                       changed, changes>>
    BY DEF RequestFails, Running, Underway
  <1>2. ScopeIsKept'
    BY <1>1 DEF WInv, ScopeIsKept, ScopeOfRequest, ReadsTeam, TeamLogs, TeamUsers
  <1>3. \A i : Reached(i) => Reached(i)'
    BY <1>1, SameWalk DEF Reached, Running
  <1>4. RowsAreReached'
    BY <1>1, <1>3, SameWalk DEF WInv, RowsAreReached
  <1>5. \A q \in Listings(scope) : Follows(q) => Follows(q)'
    BY <1>1, SameWalk DEF Follows, Running
  <1>6. WalkIsPrefix'
    <2> SUFFICES ASSUME page # 1, changed = {}, Ordered
                 PROVE  \E q \in Listings(scope) : Follows(q)'
      BY <1>1, SameWalk DEF WalkIsPrefix
    <2>1. PICK s \in Listings(scope) : Follows(s)
      BY <1>1 DEF WInv, WalkIsPrefix
    <2>2. QED BY <1>5, <2>1
  <1>7. QED BY <1>2, <1>4, <1>6 DEF WInv

\* A new row moves the others back, never forward.
LEMMA InsertWalks ==
  ASSUME IInv, WInv, NEW k \in Ids, NEW row \in Row, Insert(k, row) PROVE WInv'
  <1>1. /\ table[k] = None /\ table' = [table EXCEPT ![k] = row] /\ Underway /\ pc # "done"
        /\ UNCHANGED <<query, team, role, pc, page, scope, items, total, walk, start, everTeam>>
        /\ changed' = changed \cup {"insert"}
    BY DEF Insert, Change, Underway
  <1>2. table \in [Ids -> Row \cup {None}] /\ start \subseteq Ids /\ query.size \in Nat \ {0}
        /\ page \in Nat \ {0}
    BY Numbers DEF IInv, TypeOK
  <1>3. \A j \in Ids : table[j] # None => table'[j] = table[j]
    BY <1>1, <1>2
  <1>4. ScopeIsKept'
    BY <1>1 DEF WInv, ScopeIsKept, Underway, ScopeOfRequest, ReadsTeam, TeamLogs, TeamUsers
  <1>5. RowsAreReached'
    <2> SUFFICES ASSUME "scope" \notin changed, Grows, Ordered', NEW i \in start
                 PROVE  table'[i] # None /\ (table'[i].owner \in scope => Reached(i)')
      BY <1>1 DEF RowsAreReached, Grows
    <2>1. Ordered
      <3>1. \A j \in Selected(Owners) : j \in Selected(Owners)' /\ table'[j] = table[j]
        BY <1>3 DEF Selected
      <3>2. QED BY <1>1, <3>1 DEF Ordered, KeysDiffer
    <2>2. table[i] # None /\ (table[i].owner \in scope => Reached(i))
      BY <1>1, <2>1 DEF WInv, RowsAreReached
    <2>3. table'[i] = table[i]
      BY <1>2, <1>3, <2>2
    <2>4. RowsAhead(i) \subseteq RowsAhead(i)'
      BY <1>1, <1>3, <2>3 DEF RowsAhead, Selected, Precedes
    <2>5. Place(i) \in Nat /\ Place(i)' \in Nat /\ Place(i) <= Place(i)'
      BY <2>4, PlaceIsNat, LaterPlaces
    <2>6. Before(page) \in Nat /\ Before(page)' = Before(page)
      BY <1>1, <1>2 DEF Before
    <2>7. Reached(i) => Reached(i)'
      BY <1>1, <1>2, <2>5, <2>6 DEF Reached, Received
    <2>8. QED BY <2>2, <2>3, <2>7
  <1>6. WalkIsPrefix'
    BY <1>1 DEF WalkIsPrefix
  <1>7. QED BY <1>4, <1>5, <1>6 DEF WInv

\* Of a list that is updated, of a scope that changes, nothing is claimed.
LEMMA OtherChangesWalk ==
  ASSUME IInv, WInv,
         \/ \E i \in Ids, row \in Row : Update(i, row)
         \/ \E u \in Owners \ {Self} : ChangeTeam(u)
         \/ \E new \in {"admin", "gestor", "operador"} : ChangeRole(new)
  PROVE  WInv'
  <1>1. CASE \E i \in Ids, row \in Row : Update(i, row)
    <2>1. /\ ~Grows' /\ changed' # {} /\ Underway
          /\ UNCHANGED <<query, team, role, pc, page, scope>> /\ changed' = changed \cup {"update"}
      BY <1>1 DEF Update, Change, Grows, Underway
    <2>2. ScopeIsKept'
      BY <2>1 DEF WInv, ScopeIsKept, Underway, ScopeOfRequest, ReadsTeam, TeamLogs, TeamUsers
    <2>3. QED BY <2>1, <2>2 DEF WInv, RowsAreReached, WalkIsPrefix
  <1>2. CASE \/ \E u \in Owners \ {Self} : ChangeTeam(u)
             \/ \E new \in {"admin", "gestor", "operador"} : ChangeRole(new)
    <2>1. "scope" \in changed'
      BY <1>2 DEF ChangeTeam, ChangeRole, Change
    <2>2. QED BY <2>1 DEF WInv, ScopeIsKept, RowsAreReached, WalkIsPrefix
  <1>3. QED BY <1>1, <1>2

\* Every step keeps the invariant of the walk.
LEMMA StepWalks == IInv /\ WInv /\ [Next]_vars => WInv'
  <1> SUFFICES ASSUME IInv, WInv, [Next]_vars PROVE WInv'
    OBVIOUS
  <1>1. CASE ReadScope \/ ReadPage \/ Count \/ Answer \/ RequestFails
    BY <1>1, ReadScopeWalks, ReadPageWalks, CountWalks, AnswerWalks, RequestFailsWalks
  <1>2. CASE \E i \in Ids, row \in Row : Insert(i, row) \/ Update(i, row)
    BY <1>2, InsertWalks, OtherChangesWalk
  <1>3. CASE \/ \E u \in Owners \ {Self} : ChangeTeam(u)
             \/ \E new \in {"admin", "gestor", "operador"} : ChangeRole(new)
    BY <1>3, OtherChangesWalk
  <1>4. CASE UNCHANGED vars
    <2>1. UNCHANGED <<query, table, team, role, pc, page, scope, items, walk, start, changed>>
      BY <1>4 DEF vars
    <2>2. ScopeIsKept'
      BY <2>1 DEF WInv, ScopeIsKept, Underway, ScopeOfRequest, ReadsTeam, TeamLogs, TeamUsers
    <2>3. \A i : Reached(i) => Reached(i)'
      BY <2>1, SameWalk DEF Reached
    <2>4. \A q \in Listings(scope) : Follows(q) => Follows(q)'
      BY <2>1, SameWalk DEF Follows
    <2>5. RowsAreReached' /\ WalkIsPrefix'
      BY <2>1, <2>3, <2>4, SameWalk DEF WInv, RowsAreReached, WalkIsPrefix, Underway
    <2>6. QED BY <2>2, <2>5 DEF WInv
  <1>5. QED BY <1>1, <1>2, <1>3, <1>4 DEF Next

\* The invariant of the walk holds in every state.
THEOREM Walks == Spec => [](IInv /\ WInv)
  <1>1. Init => WInv
    BY DEF Init, WInv, ScopeIsKept, RowsAreReached, WalkIsPrefix, Underway
  <1>2. QED BY <1>1, StepWalks, Invariance, PTL DEF Spec

\* A list that nothing changes is read exactly, every row once and in order
\* (visao_cliente_repository.py:119-125, 250-253).
THEOREM QuietWalks == Spec => []QuietWalksAreExact
  <1>1. WInv => QuietWalksAreExact
    BY DEF WInv, WalkIsPrefix, QuietWalksAreExact, Underway, Ordered, Follows
  <1>2. QED BY <1>1, Walks, PTL

\* In a list that only grows no row that was there at the start is missed, for any
\* number of rows, inserts and failed requests.
THEOREM GrowingLists == Spec => []GrowingListsAreReadInFull
  <1>1. WInv => GrowingListsAreReadInFull
    BY DEF WInv, RowsAreReached, GrowingListsAreReadInFull, Underway, Ordered, Grows, Reached
  <1>2. QED BY <1>1, Walks, PTL

\* A team within the limit is read whole.
LEMMA SmallTeam ==
  ASSUME TypeOK, Cardinality(team) <= TeamLimit
  PROVE  TeamUsers = team
  <1>1. IsFiniteSet(team) /\ team \subseteq Nat
    <2>1. IsFiniteSet(Owners) /\ Owners \subseteq Nat
      BY ConstantsAssumption
    <2>2. team \in SUBSET Owners
      BY DEF TypeOK
    <2>3. QED BY <2>1, <2>2, FS_Subset
  <1>2. ASSUME NEW u \in team PROVE Cardinality({v \in team : v > u}) < TeamLimit
    <2> DEFINE newer == {v \in team : v > u}
    <2>1. newer \in SUBSET team /\ u \notin newer
      BY <1>1
    <2> HIDE DEF newer
    <2>2. IsFiniteSet(newer) /\ Cardinality(newer) <= Cardinality(team)
          /\ Cardinality(newer) # Cardinality(team)
      BY <1>1, <2>1, FS_Subset
    <2>3. Cardinality(newer) \in Nat /\ Cardinality(team) \in Nat /\ TeamLimit \in Nat
      BY <1>1, <2>2, FS_CardinalityType, ConstantsAssumption
    <2>4. Cardinality(newer) < TeamLimit
      BY <2>2, <2>3
    <2>5. QED BY <2>4 DEF newer
  <1>3. QED BY <1>2 DEF TeamUsers

\* A gestor whose team is within the limit of list_users receives all the logs there
\* were when the walk began (audit_service.py:98-107).
THEOREM SmallTeams == Spec => []SmallTeamsAreReadInFull
  <1>1. IInv /\ WInv => SmallTeamsAreReadInFull
    <2> SUFFICES ASSUME IInv, WInv, ReadsTeam, pc = "done", "scope" \notin changed, KeysDiffer,
                        Cardinality(team) <= TeamLimit,
                        NEW i \in start, table[i].owner \in team \cup {Self},
                        query.asked \in {None, table[i].owner}
                 PROVE  i \in Received
      BY DEF SmallTeamsAreReadInFull
    <2>1. scope = TeamLogs(query.asked) /\ query.list = "audit"
      BY DEF WInv, ScopeIsKept, Underway, ScopeOfRequest, ReadsTeam
    <2>2. TeamUsers = team
      BY SmallTeam DEF IInv
    <2>3. table[i].owner \in scope
      BY <2>1, <2>2 DEF TeamLogs
    <2>4. QED
      BY <2>1, <2>3 DEF WInv, RowsAreReached, Underway, Ordered, Grows, Reached
  <1>2. QED BY <1>1, Walks, PTL
=============================================================================
