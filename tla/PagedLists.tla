------------------------------- MODULE PagedLists -------------------------------
(***************************************************************************)
(* A consumer reads a list page by page while the table changes.  The four *)
(* paginated lists of the API share their shape: a statement for the page  *)
(* (ORDER BY, OFFSET, LIMIT), a second one for the total and, where a      *)
(* gestor asks, one before them for what the gestor may see.  Each sees    *)
(* its own snapshot (READ COMMITTED).                                      *)
(*                                                                         *)
(*   "clientes"   VisaoClienteRepository.search, by nome_cliente           *)
(*   "historico"  get_change_history, by changed_at and id                 *)
(*   "audit"      AuditService.list_logs, newest first                     *)
(*   "users"      UserService.list_users, newest first                     *)
(*                                                                         *)
(* The ETL writes the tables of the first two (external).  The audit       *)
(* record that the endpoints of these two write goes to another table and  *)
(* shows here as one more way for the request to fail.                     *)
(***************************************************************************)
EXTENDS Naturals, SequencesExt

CONSTANTS Lists,     \* subset of AllLists
          MaxId,     \* rows of the table (bound)
          MaxKey,    \* values of the column a list is ordered by (bound)
          Owners,    \* users, documents, or answers to the filter: see Row.
                     \* Users are numbered in the order of their creation.
          Self,      \* the owner whose rows a restricted list shows
          TeamLimit, \* operators of a team that list_logs reads, 500 in the code
          PageSizes, \* page_size or limit a consumer may choose (bound)
          MaxChanges,\* changes of the tables during the walk (bound)
          None

AllLists == {"clientes", "historico", "audit", "users"}

ASSUME ConstantsAssumption ==
  /\ Lists \subseteq AllLists
  /\ Owners \subseteq Nat /\ IsFiniteSet(Owners) /\ Self \in Owners /\ TeamLimit \in Nat \ {0}
  /\ PageSizes \subseteq Nat \ {0} /\ MaxId \in Nat /\ MaxKey \in Nat /\ MaxChanges \in Nat

VARIABLES query,   \* list, role in the access token, user_id asked for, page_size
          table,   \* committed rows by id
          team,    \* operators whose gestor_id is Self ("audit")
          role,    \* role in the users row of the one who asks ("users")
          pc,      \* next statement of the request
          page,    \* page the consumer asks for
          scope,   \* owners whose rows the statements of the request select
          items,   \* ids the page statement returned
          total,   \* what the count statement returned
          walk,    \* ids received so far, in order
          start,   \* rows of the table when the walk began (history)
          everTeam,\* operators that were in the team during the walk (history)
          changed, \* kinds of the changes during the walk (history)
          changes  \* number of them (bound)

vars == <<query, table, team, role, pc, page, scope, items, total, walk, start,
          everTeam, changed, changes>>

Ids == 1..MaxId
Keys == 1..MaxKey

\* key: rank in ascending order; where the column is nullable MaxKey is NULL,
\* which PostgreSQL and nulls_last() put last.  owner: user_id of a log, gestor_id
\* of a user, documento of a change, and Self for a client the filters select.
Row == [key : Keys, owner : Owners]

Query == [list : Lists, token : {"admin", "gestor"}, asked : Owners \cup {None},
          size : PageSizes]

Kinds == {"insert", "update", "scope"}

TypeOK ==
  /\ query \in Query
  /\ table \in [Ids -> Row \cup {None}]
  /\ team \subseteq Owners \ {Self}
  /\ role \in {"admin", "gestor", "operador"}
  /\ pc \in {"scope", "page", "count", "answer", "done"}
  /\ page \in 1..(MaxId + 1)
  /\ scope \subseteq Owners
  /\ items \in Seq(Ids) /\ Len(items) <= query.size
  /\ total \in 0..MaxId
  /\ walk \in Seq(Ids)
  /\ start \subseteq Ids
  /\ everTeam \subseteq Owners
  /\ changed \subseteq Kinds
  /\ changes \in 0..MaxChanges

\* list_logs for a gestor.
ReadsTeam == query.list = "audit" /\ query.token = "gestor"

\* Only list_logs takes a user_id, and only list_logs and list_users tell a gestor
\* from an admin.
Init ==
  /\ query \in {q \in Query : /\ q.list # "audit" => q.asked = None
                            /\ q.list \in {"clientes", "historico"} => q.token = "admin"}
  /\ table \in [Ids -> Row \cup {None}]
  /\ team \in IF ReadsTeam THEN SUBSET (Owners \ {Self}) ELSE {{}}
  /\ role = query.token
  /\ pc = "scope" /\ page = 1
  /\ scope = {} /\ items = <<>> /\ total = 0 /\ walk = <<>>
  /\ start = {} /\ everTeam = {} /\ changed = {} /\ changes = 0

-----------------------------------------------------------------------------
\* Rows a statement with this scope selects.
Selected(owners) == {i \in Ids : table[i] # None /\ table[i].owner \in owners}

\* Mutant: the history is ordered by changed_at alone.
PrecedesByKey(i, j) ==
  IF query.list \in {"clientes", "historico"}
  THEN table[i].key < table[j].key ELSE table[i].key > table[j].key

\* ORDER BY of each list.  The rows it does not tell apart come in any order.
Precedes(i, j) ==
  CASE query.list = "clientes"  -> table[i].key < table[j].key
    [] query.list = "historico" -> \/ table[i].key < table[j].key
                                   \/ table[i].key = table[j].key /\ i < j
    [] OTHER                    -> table[i].key > table[j].key

Listings(owners) ==
  {s \in SetToSeqs(Selected(owners)) :
     \A m, n \in DOMAIN s : m < n => ~Precedes(s[n], s[m])}

\* Mutant: offset is page * page_size.
BeforeFromZero(p) == p * query.size

Before(p) == (p - 1) * query.size

\* Mutant: one row more is fetched, to see whether there is a next page.
PageOfOneMore(s, p) ==
  SubSeq(s, Before(p) + 1, IF Before(p) + query.size < Len(s) THEN Before(p) + query.size + 1 ELSE Len(s))

\* OFFSET and LIMIT.
PageOf(s, p) ==
  SubSeq(s, Before(p) + 1, IF Before(p) + query.size < Len(s) THEN Before(p) + query.size ELSE Len(s))

-----------------------------------------------------------------------------
\* The first page of list_users, newest first: the team up to its limit.
TeamUsers == {u \in team : Cardinality({v \in team : v > u}) < TeamLimit}

\* Mutant: the user_id asked for is not looked up in the team.
TeamLogsAnyAsked(asked) == IF asked = None THEN TeamUsers \cup {Self} ELSE {asked}

\* Mutant: the gestor's own id is not appended to the team.
TeamLogsWithoutSelf(asked) == IF asked = None THEN TeamUsers ELSE TeamUsers \cap {asked}

\* A gestor reads the logs of its operators, as far as they were read, and its own.
TeamLogs(asked) ==
  IF asked = None THEN TeamUsers \cup {Self} ELSE (TeamUsers \cup {Self}) \cap {asked}

\* list_logs goes by the role in the access token, list_users by the row's.
ScopeOfRequest ==
  CASE query.list \in {"clientes", "historico"} -> {Self}
    [] query.list = "users" -> IF role = "gestor" THEN {Self} ELSE Owners
    [] ReadsTeam -> TeamLogs(query.asked)
    [] OTHER -> IF query.asked = None THEN Owners ELSE {query.asked}

\* The actor's row or the team.  A walk begins with the request for page 1.
ReadScope ==
  /\ pc = "scope" /\ pc' = "page"
  /\ scope' = ScopeOfRequest
  /\ IF page = 1
     THEN start' = Selected(Owners) /\ everTeam' = team /\ changed' = {}
     ELSE UNCHANGED <<start, everTeam, changed>>
  /\ UNCHANGED <<query, table, team, role, page, items, total, walk, changes>>

ReadPage ==
  /\ pc = "page" /\ pc' = "count"
  /\ \E s \in Listings(scope) : items' = PageOf(s, page)
  /\ UNCHANGED <<query, table, team, role, page, scope, total, walk, start, everTeam,
                 changed, changes>>

\* Mutant: the total is the number of rows of the page.
CountPage ==
  /\ pc = "count" /\ pc' = "answer"
  /\ total' = Len(items)
  /\ UNCHANGED <<query, table, team, role, page, scope, items, walk, start, everTeam,
                 changed, changes>>

Count ==
  /\ pc = "count" /\ pc' = "answer"
  /\ total' = Cardinality(Selected(scope))
  /\ UNCHANGED <<query, table, team, role, page, scope, items, walk, start, everTeam,
                 changed, changes>>

\* The request commits.  The consumer asks for pages until one is not full, as
\* the export task does.
Answer ==
  /\ pc = "answer"
  /\ walk' = walk \o items
  /\ items' = <<>> /\ total' = 0
  /\ IF Len(items) < query.size
     THEN pc' = "done" /\ UNCHANGED page
     ELSE pc' = "scope" /\ page' = page + 1
  /\ UNCHANGED <<query, table, team, role, scope, start, everTeam, changed, changes>>

\* Any statement, the audit record's or the COMMIT fails; the consumer asks for
\* the page again.
RequestFails ==
  /\ pc \in {"page", "count", "answer"} /\ pc' = "scope"
  /\ items' = <<>> /\ total' = 0
  /\ UNCHANGED <<query, table, team, role, page, scope, walk, start, everTeam,
                 changed, changes>>

-----------------------------------------------------------------------------
\* Changes before the first statement are part of Init.
Change(kind) ==
  /\ changes < MaxChanges /\ changes' = changes + 1
  /\ (page > 1 \/ pc # "scope") /\ pc # "done"
  /\ changed' = changed \cup {kind}
  /\ UNCHANGED <<query, pc, page, scope, items, total, walk, start>>

\* A row becomes visible.  Its place in the order is any: created_at and
\* changed_at are taken before the commit, and transactions overtake each other.
Insert(i, row) ==
  /\ Change("insert")
  /\ table[i] = None
  /\ table' = [table EXCEPT ![i] = row]
  /\ UNCHANGED <<team, role, everTeam>>

\* The ETL rewrites a client; update_user changes a user's gestor_id.  Logs and
\* changes are never updated.
Update(i, row) ==
  /\ Change("update")
  /\ table[i] # None /\ table[i] # row
  /\ \/ query.list = "clientes"
     \/ (query.list = "users" /\ row.key = table[i].key)
  /\ table' = [table EXCEPT ![i] = row]
  /\ UNCHANGED <<team, role, everTeam>>

\* update_user moves an operator into the team or out of it.
ChangeTeam(u) ==
  /\ ReadsTeam /\ Change("scope")
  /\ team' = IF u \in team THEN team \ {u} ELSE team \cup {u}
  /\ everTeam' = everTeam \cup team'
  /\ UNCHANGED <<table, role>>

\* update_user changes the role of the one who reads the list; the access token
\* stays valid.
ChangeRole(new) ==
  /\ query.list = "users" /\ Change("scope")
  /\ new # role /\ role' = new
  /\ UNCHANGED <<table, team, everTeam>>

Next ==
  \/ ReadScope \/ ReadPage \/ Count \/ Answer \/ RequestFails
  \/ \E i \in Ids, row \in Row : Insert(i, row) \/ Update(i, row)
  \/ \E u \in Owners \ {Self} : ChangeTeam(u)
  \/ \E new \in {"admin", "gestor", "operador"} : ChangeRole(new)

Spec == Init /\ [][Next]_vars

-----------------------------------------------------------------------------
Received == ToSet(walk)

KeysDiffer == \A i, j \in Selected(Owners) : i # j => table[i].key # table[j].key

\* A list that nothing changes is read exactly: every row once and in order.
\* The history needs no more; the others need that no two rows agree in the
\* column they are ordered by (visao_cliente_repository.py:119-125, 250-253).
QuietWalksAreExact ==
  pc = "done" /\ changed = {} /\ (query.list = "historico" \/ KeysDiffer) =>
    walk \in Listings(scope)

\* In a list that only grows no row that was there at the start is missed,
\* wherever the new rows appear and although requests fail and are repeated
\* (visao_cliente_repository.py:97-139, audit_repository.py:73-82).
GrowingListsAreReadInFull ==
  /\ pc = "done" /\ "scope" \notin changed
  /\ query.list = "historico" \/ (query.list = "audit" /\ KeysDiffer)
  => {i \in start : table[i].owner \in scope} \subseteq Received

\* The total of a growing list counts at least the rows up to the page it comes
\* with, although it is counted later and in another snapshot
\* (visao_cliente_repository.py:133-139, audit_repository.py:76-82).
TotalsCoverPages ==
  pc = "answer" /\ items # <<>> /\ query.list \in {"historico", "audit"} =>
    Before(page) + Len(items) <= total

\* Whatever moves between the statements and the pages of a walk, a gestor
\* receives its own logs and those of operators that were in the team during
\* the walk, and only those of the user it asked for (audit_service.py:95-107).
GestorsReadTheirTeamsLogs ==
  ReadsTeam =>
    \A i \in Received : /\ table[i].owner \in everTeam \cup {Self}
                       /\ query.asked \in {None, table[i].owner}

\* A gestor whose team is within the limit receives all its logs there were when
\* the walk began, or all of the user it asked for, although logs are added
\* meanwhile; of a larger team the logs of the oldest users are left out without
\* a sign (audit_service.py:98-107).
SmallTeamsAreReadInFull ==
  /\ ReadsTeam /\ pc = "done"
  /\ "scope" \notin changed /\ KeysDiffer /\ Cardinality(team) <= TeamLimit
  => {i \in start : /\ table[i].owner \in team \cup {Self}
                        /\ query.asked \in {None, table[i].owner}} \subseteq Received
=============================================================================
