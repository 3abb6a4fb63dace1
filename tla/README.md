# Formal model of the Integration API

TLA+ modules that model the Integration API of this repository, TLC configurations that check them on
small instances, and TLAPS proofs about each of the seven models. Every definition is translated from
the code; `PROJECT.json` ("map") names the lines each definition stands for.

## The system

A FastAPI application (`src/app`) over PostgreSQL, a Celery worker behind Redis, an SMTP server,
and two neighbours: an ETL that fills `final_visao_cliente`, and a CRM.

| Part | State | Operations | Interacts with |
|---|---|---|---|
| AuthService (`services/auth_service.py`) | `users`, `refresh_tokens`, `password_reset_tokens` | login, refresh, logout, forgot_password, reset_password, accept_invite, change_password, validate_token, get_me | UserRepository, e-mail client, AuditService |
| UserService (`services/user_service.py`) | `users`, `refresh_tokens` | create_user, update_user, deactivate_user, revoke_sessions, resend_invite, list_users, get_user | UserRepository, AuditService |
| CRM inbound (`services/crm_service.py`, `repositories/crm_repository.py`) | `crm_inbound_events` | process_inbound_event, process_inbound_batch | AuditService in the same session |
| CRM outbound (`crm_service.py`, `workers/tasks.py`, `workers/celery_app.py`) | `crm_outbound_jobs`, the Redis queue, what the CRM has received | create_outbound_export, get_outbound_status, the task export_to_crm | Celery, client search |
| AuditService (`services/audit_service.py`) | `audit_logs` | log (in the caller's transaction or its own), list_logs | every endpoint |
| Session and pool (`db/session.py`) | connections, transactions | get_db: commit after the handler, rollback on an exception | every request, the health check |
| Client and company search (`repositories/visao_cliente_repository.py`, `endpoints/clientes.py`, `empresas.py`) | none (the ETL owns the table) | search, lote, detail, history, four indicators | ETL, export task |
| Health check (`endpoints/health.py`) | none | SELECT 1, ping of Redis | the pool |
| E-mail client, tokens, masks, middleware, migrations | none | formatting, signing, sending | |

What makes it hard:

- Every request is one PostgreSQL transaction at READ COMMITTED. Handlers read, decide and then
  write; nothing they read is locked, and only UPDATE and INSERT make a request wait.
- `get_db` commits after the handler returns, so an effect outside the database (a published
  task, a delivered e-mail) comes before the commit.
- A batch, and the audit record, share the session of the request: one failed flush aborts it.
- Messages come back (lost workers, visibility timeout), and tasks are retried.
- A login waits for the row of its account with a connection in its hand, and the pool has few.
- What a consumer puts together from several statements (a page and its total, four indicators, a
  list and the batch behind it) was read at several moments, from columns that are all text.

What would make each part correct: a credential change ends the sessions of the account and a
deactivated account stays closed; an e-mailed token works once; an answer to the CRM says what was
stored; an export job is never forgotten and is `sent` only if it was sent; roles and teams fit
together and a gestor touches and reads only its team; no connection is lost; lists miss no row and
the numbers about clients fit together. `PROJECT.json` ("hazards") lists, line by line, what
threatens these and which property watches it.

## Modules

| Module | Models | Checked by |
|---|---|---|
| `AuthSessions` | AuthService, `deactivate_user`, `revoke_sessions`, their statements | through `AuthSessionsRefinement` |
| `SessionAuthority` | what the former promises, as atomic operations | refined |
| `AuthSessionsRefinement` | the mapping from the tables to the authority | `AuthSessions.cfg`, `AuthSessionsSingleUse.cfg` |
| `CrmOutbound` | export jobs, queue, workers | through `CrmOutboundRefinement` |
| `ExportJob` | what an export promises, without workers and messages | refined |
| `CrmOutboundRefinement` | the mapping from tables and queue to the export | `CrmOutbound.cfg`, `CrmOutboundExhausted.cfg` |
| `CrmInbound` | inbound events and batches | through `CrmInboundRefinement` |
| `EventStore` | requests stored whole or not at all, in one step | refined |
| `CrmInboundRefinement` | the mapping from transactions to the store | `CrmInbound.cfg`, `CrmInboundAudit.cfg` |
| `UserAdmin`, `UserAdminMC` | roles, teams, scope of a gestor, e-mail uniqueness | `UserAdmin.cfg`, `UserAdminScope.cfg` |
| `LoginPool` | the connection pool under logins and health checks, the audit record of a login | `LoginPool.cfg`, `LoginPoolAudit.cfg` |
| `PagedLists` | the paginated lists, read page by page while tables, teams and roles change | `PagedLists.cfg` |
| `ClientData`, `ClientDataMC` | indicators, lists and lookups over the ETL's table | `ClientData.cfg` |
| `AuthSessionsProofs`, `CrmOutboundProofs`, `CrmInboundProofs`, `UserAdminProofs`, `LoginPoolProofs`, `PagedListsProofs`, `ClientDataProofs` | theorems and lemmas | TLAPS |
| `CrmOutboundCounters` | the theorem about the counters of a job, over `CrmOutboundProofs` | TLAPS |

The `MC` modules hold the values that a configuration cannot write down (rows, symmetry sets).
Definitions whose comment begins with "Mutant:" are variants with a plausible bug. No action uses
them; they show that a property can fail (`PROJECT.json`, "mutants").

### AuthSessions

State: the three tables, the accounts that have an unexpired access token (`access`), the reset
tokens whose e-mail was accepted (`mailed`), and one record per request in flight. An action is one
SQL statement. What a transaction has written is kept in its record until `Commit`, which applies
it to the tables through `UserAfter`, `RefreshTokenAfter` and `EmailTokenAfter`. That is READ
COMMITTED: other requests see nothing before. An UPDATE waits for the row's lock (`HoldsUser`,
`HoldsEmailToken`, `HoldsRefreshToken`), which is held to the end of the transaction.
`revoke_all_user_tokens` is two actions, because PostgreSQL chooses the rows by the statement's
snapshot and looks at their newest version after it has waited for them. `Rollback` may end any
request at any point: an exception, a lost connection, the death of the process. `get_db` commits
before FastAPI (0.115) sends the response, so an access token exists only after the commit. `refresh`
reads the token, reads the account and commits in three steps: an account can be closed after the
second and still be answered with an access token. `ClosedAccountsStayClosed` therefore calls an
account closed once no login or refresh that has read it active is in flight.

Invites exist only in `Init`: `create_user` gives new accounts a temporary password instead of an
invite, and `resend_invite` raises `NameError` before it writes, so outstanding invites are those of
an earlier deployment.

### CrmOutbound

State: the committed job rows, the request that creates each job, the queue as a set of messages,
the task each worker executes, the pages the CRM has received, and `lost`, a history of the ways in
which a job may lose its task. Each action of a worker ends at a commit of the task, so a worker can
be lost between any two commits; a page sent whose progress is not stored is a state of its own. Any
step inside the try block may raise; an exception of the database may leave the session aborted,
and then the handler's UPDATE is refused. The queue is not ordered, because retries carry a
countdown. The CRM call is the stub the code has: it reports no failed record and, as the comment
beside it shows, may raise once it is a real HTTP call.

`ExportJob` is what remains for the one who asked for the export: a status, whether somebody works on
the job, the pages the CRM has, and whether the job has an excuse. The refinement says that work on
an accepted job ends only with an outcome or an excuse; an excuse is one of the reasons in `lost`
(the message was not published, the worker found no row, the outcome could not be stored).

### CrmInbound

State: the stored rows and the transaction of each request. The check of the service, the second
read of the repository and the INSERT are separate actions. The INSERT waits for a transaction that
holds the same `crm_record_id`; a cycle of waits is broken by `DeadlockVictim`. A failed flush
rolls the transaction back and aborts the session: the loop of a batch goes on, and every later
statement and the COMMIT are refused. `fits` says whether the values fit their columns, which the
schemas do not check.

A COMMIT may take effect and its acknowledgement be lost (`CommitUnanswered`): `get_db` then raises,
the answer is a 500, and the events are stored. `Die` is the connection or process lost before.

`EventStore` answers each request in one step that also stores its events. Crash, rollback and lock
waits are invisible there. An error says nothing about the events: it stores all or nothing. A request
refused with 409 must find its event stored at that moment.

### UserAdmin

State: role, gestor, activity and address of each account, the accounts whose access token may
manage users, and the request records. The role in the token decides whether a request is let in
(`deps.py`), the role in the row decides what it may do, and any row that is not a gestor's takes
the administrator's branch. An update is decided on what was read and applied, column by column, to
the row the UPDATE finds. An address is one spelling of a mailbox: `get_by_email` compares without
letter case, the unique index with it, and an INSERT waits for another one of the same spelling.

An account that was ever a manager may go on with an old access token (`tokens` only grows); whether
it has one is left open, and a request that is not sent is not in the model.

### LoginPool

State: what each request does next, the account a login names, the free connections, what each
transaction has written and committed, and the answers. A login has one connection from its first
statement to the end of its transaction, also while it waits for the row of its account
(`WaitsForUserRow`). The health check takes a connection of the same pool for its `SELECT 1`, inside a
`try` that turns any failure into the answer `unavailable`; the ping of Redis touches nothing here.

`AuditService.log` asks for a transaction of its own when a login is refused. The application's
sessions are bound to an `AsyncEngine`, whose attribute `engine` is the synchronous `Engine`, and the
constructor of `AsyncSession` (SQLAlchemy 2.0) refuses that with `ArgumentError`. `log` swallows it. So
`AuditRefusal` asks the pool for nothing and stores nothing; `LoginPoolAudit.cfg` shows the login
without its record. The tests bind their session to a connection, where the record is stored.

### PagedLists

State: one table (each row with the rank of the column the list is ordered by and the owner that the
filter looks at), the team of a gestor, the role in the gestor's row, the request in flight and what
the consumer has received. `query.list` says which of the four lists is read; they differ in their
order (`Precedes`), in what they select (`ScopeOfRequest`) and in how their tables change (`Insert`,
`Update`). The statement for the page, the one for the total and the one for the team are actions of
their own. Rows that ORDER BY does not tell apart come in any order, at every statement anew.
`TeamUsers` is the first page of `list_users`, the 500 newest operators, which is all that `list_logs`
reads of a team; the limit is the constant `TeamLimit`.

### ClientData

State: one row of the ETL's table per document, the request in flight with the results of its
statements so far, and the last answer of each kind. `EtlWrites` is the ETL (external). `view` keeps
two consumers apart, who read different things: one looks at the indicators and the lists behind
them, the other looks documents up by search, by batch and one by one.

All columns are text, and the conditions are modelled by what PostgreSQL makes of the texts: a date is
the rank of its text, in which `2026-03-31 00:00:00` comes after `2026-03-31`; a missing value is
NULL, the empty string or `nan`; an unknown condition leaves the row out; `CAST('nan' AS NUMERIC)`
is a number above all others and `CAST('' AS NUMERIC)` raises (`IndicatorsFail`). PostgreSQL chooses
the order of the conditions, so a row that another condition leaves out may raise or not.

A text that a consumer looks up is known by the document it is, if any, and by the documents that
contain it (`Written`). Batch and single read compare for equality; the search looks for the text,
without the spaces around it, inside the documents (`ilike('%...%')`). So part of a document, or one
with a space behind it, is found by the search alone, and one with punctuation by none.

## Runs

Deadlock is checked for AuthSessions and ClientData, where something can always happen. The other
systems may stop: jobs, requests and walks are used up.

| Configuration | Instance | Shows |
|---|---|---|
| `AuthSessions` | 1 account, 1 session, a reset token and an invite, 2 passwords, 2 requests at once, fairness | sessions end with a credential change; closed accounts stay closed; spent tokens stay spent; stored tokens were mailed; refinement of `SessionAuthority`; every request ends |
| `CrmOutbound` | 1 job, 2 workers, up to 3 rows in pages of 2, 2 faults, 1 crash, 1 redelivery, fairness | the job is not forgotten, settles, and is `sent` only if every page was delivered; its counters; refinement of `ExportJob` |
| `CrmInbound` | 2 requests, 2 ids, batches of up to 2, 1 failure (crash, failed audit record or lost acknowledgement), fairness | an answer says what was stored; an error stores all or nothing; every request is answered; refinement of `EventStore` |
| `UserAdmin` | an admin, a gestor, an operator and two accounts they create, two spellings of one mailbox, 4 requests, 2 at once, roles changing under live access tokens | only a race of roles leaves a team to somebody who is no operator; a gestor appoints nobody and fills no other team; no spelling of an address is in two accounts |
| `LoginPool` | 3 logins of 2 accounts and a health check, 2 connections, fairness | no connection is lost; a login is stored with its record or not at all; a full pool always has somebody who waits for nothing; nobody is stuck |
| `PagedLists` | each of the 4 lists, up to 3 rows, ties, 3 owners, pages of 1 or 2, failing requests, one change of a row, a team or a role at any point of the walk, a limit of 1 for teams | lists at rest are read exactly; growing lists miss no row; a total covers its page; a gestor receives its team's logs only, and all of them if the team is within the limit |
| `ClientData` | 2 documents, each with any of 10 rows (indicators) or 2 rows (lookups) or none, batches of two, 1 change by the ETL at any point | the numbers of a dashboard fit together up to the changes in between; indicators count what their docstrings say; found and not found add up to the batch; batch, search and single read agree |

The other five configurations each check one statement of a comment, a docstring, a guide or a test
that the code does not keep. TLC's counterexample is the behaviour that `PROJECT.json` ("findings")
describes.

| Configuration | Statement | What the code does |
|---|---|---|
| `AuthSessionsSingleUse` | an e-mailed token is used once | two requests that read it unused both set a password |
| `CrmOutboundExhausted` | retries used up means `failed` | the search of the first attempt aborts the transaction, the handler's UPDATE is refused and the row stays `running`; the four attempts left fail before the `try`, where no handler sees it, and Celery gives up |
| `CrmInboundAudit` | audit does not interrupt | a failed audit INSERT aborts the session of the event |
| `UserAdminScope` | a gestor edits only its team | with two requests at once the UPDATE is applied to a row that an administrator has promoted since |
| `LoginPoolAudit` | a refused login leaves an audit record | the session for it cannot be constructed over the application's engine; the error is swallowed |

Divergences seen while reading that have no run, because one look at the code or one unit test shows
them, or because no text of the repository promises the contrary:

- `CrmSyncStatus` lacks the value `running` that the task stores, so the status endpoint raises while
  a job runs (`crm_service.py:96`).
- A task is published before its job is committed (`crm_service.py:76`). A worker that is faster finds
  no row and acknowledges the message; the job stays `pending` (reason `notFound` of `lost`).
- `failed` is stored after every failed attempt, not after the last one (`tasks.py:150`); five
  executions are made, the docstring says four attempts, and no dead-letter queue is declared.
- `engine.dispose()` is not reachable (`tasks.py:157`): every execution of the task leaves an engine.
- `accept_invite` does not revoke the sessions of the account.
- A login that waits for the row of a change of password opens a session after it, with the password
  that was replaced.
- A duplicate committed between the check of the service and the second read of the repository is
  answered as accepted (`crm_repository.py:25-28`); after a failed event, the rest of the batch is
  counted as rejected.
- An attempt that fails at its first statements (`tasks.py:81-93`) is seen by no handler: with all five
  attempts failing there, the job ends `pending`.
- A refresh that has read the account active answers with an access token after the deactivation.
- A client found by `nunca_qualificou=true` is shown with `nunca_qualificou` false
  (`schemas/clientes.py:67`): the field looks at `ja_recebeu_comissao`, a column the model no longer
  has. The guide describes the computation from two columns (section 13.5); the test
  `tests/integration/test_clientes_endpoints.py:203` expects the two to agree.
- `contas_qualificadas` counts "no mes corrente" by its docstring; the query has no month, so that is
  up to the ETL.
- `resend_invite` raises `NameError` (`hashlib` is not imported).
- `list_logs` reads the first 500 users of a team; the logs of the others are left out without a sign.
- Batch and single read do not take the digits of a document, as the history does: a document written
  with punctuation is not found. (That the filters of a batch put a document among `not_found` is
  intended, `docs/superpowers/specs/2026-03-31-clientes-lote.md:88`.)
- Four filters of the search (`safra_maquina`, `comissao_prox_mes`, `cancelamento_maq`,
  `m2_dias_faltantes`) are `pass`, and `safra` is ignored.
- An indicator date with a time behind it falls out on the last day of its window, and a row whose TPV
  is `nan` counts as one above 5000.

### Bounds

- Requests in flight: two reach every race between two handlers. Request slots are reused, so the
  number of requests in a behaviour is not bounded by the slots in AuthSessions. The
  theorems cover any number of slots, accounts, tokens and passwords, except `RequestsEnd`.
- Sessions and e-mailed tokens are minted at most once, so their number bounds the logins of a
  behaviour. With one session token a login still races every operation that closes sessions; that
  one session of an account is open while another is minted is left to the theorems.
- Passwords: two, an old and a new one.
- Pages of an export: two rows a page and up to three rows give an empty result, a short page, an
  exact multiple and two pages. 500 rows a page behave the same.
- Faults, crashes, redeliveries: enough to use up the retries of the instance and to crash in
  between. `MaxRetries` is 4 in the code and 1 in the instance; no property depends on the number.
- `SentCountersAgree` is claimed for jobs without a redelivery and without a lost worker: a worker
  lost between publishing the retry and acknowledging leaves two copies of the message, which
  overwrite each other's counters as a redelivery does.
- Batches: two events reach the cycle of waits, the event after a failed one, and an id twice in one
  batch.
- `UserAdmin`: two requests at once reach every race between a decision and a write, and four
  altogether give a change of the row before the decision, one between decision and UPDATE, and one
  after it. The theorems are about any number of both. Its symmetry exchanges accounts that Init does
  not tell apart, request slots and spellings; its temporal properties are about single steps.
- `PagedLists`: three rows and pages of one give a walk of up to four pages, pages of two a short last
  one. One change suffices for the properties about changes: each insertion moves the rows not yet
  received to the same or a later place, whatever was inserted before. Two operators and a limit of 1
  give teams within the limit and above it.
- `LoginPool`: more logins than connections, so that two logins of one account can hold all of them
  while one waits for the other, with a login and a health check behind them.
- `ClientData`: the conditions look at one row at a time, so rows at the edges of every condition, in
  any combination of two, reach all answers. One change by the ETL suffices: each change shifts each
  count by at most one, and `AtMost` allows one per change.

### Fairness

Weak fairness for the steps of a request that has begun, for the steps of a running task, for an idle
worker and a non-empty queue, and for a request's steps in the pool: asyncio and the worker run them,
and database, broker and SMTP calls return or raise. Strong fairness for the statements of
AuthSessions that wait for a row lock, and for the checkout of a connection and the wait for a users
row in LoginPool: a lock or a connection may be taken and released many times in between, and
PostgreSQL and the pool queue the waiters. The timeout of the pool is not relied upon. No fairness for
arrivals, failures, crashes, rollbacks or the clock. `PagedLists`, `ClientData` and `UserAdmin` state
no liveness: a consumer may stop at any time.

## Proofs

Each proof module proves an inductive invariant, `Spec => []IInv`, and the properties from it. One
lemma per action or group of actions shows that it keeps `IInv`; the last one combines them. The
assumptions are the `ConstantsAssumption` of the module, except where stated.

`AuthSessionsProofs`, for any sets of accounts, tokens, passwords and request slots: type correctness,
`StoredResetTokensWereMailed`, `CredentialChangeEndsSessions`, `ClosedAccountsStayClosed`,
`SpentTokensStaySpent`, and that AuthSessions implements SessionAuthority.
`CredentialChangeEndsSessions` is not inductive. When a revocation commits, it has marked the rows it
found some steps earlier; what must be known is that no login has added one since. `IInv` says why:
`RevocationComplete` (from the snapshot of `revoke_all_user_tokens` to the commit, every unrevoked
token of the account is in it), `UserRowExclusive` (at most one transaction has updated a users row:
a login updates `last_login_at` before it inserts its token, so it cannot commit while the revocation
holds the row), `MintsDiffer` and `RequestOK` (what a request's record says about the rows it read).
`RevokeSessions` is not among the operations of `CredentialChangeEndsSessions`: `revoke_sessions`
locks no users row, so a login may slip in between. The code promises nothing else.

`CrmOutboundProofs`, for any number of jobs, workers, rows, retries, faults, lost workers and
redeliveries: type correctness, `UnfinishedJobsHaveTasks`, `SentMeansDelivered`, and that CrmOutbound
implements ExportJob. `WorkerOK` is the loop invariant of `export_to_crm` (the pages before the
current one have been delivered and counted), kept by every worker on its own although several may
execute the same job; `JobOK` relates a row to the messages and workers that have its task.

`CrmInboundProofs`, for any requests, ids and lengths of a batch: type correctness,
`RecordsAreUnique`, `AcceptedEventsAreStored`, `RejectedEventsAreDuplicates`,
`RefusedRequestsStoreAllOrNothing`, and that CrmInbound implements EventStore. `IInv` follows a batch
from event to event (`Progress`, `PassedEventsAreStored`) and says that no two open transactions have
flushed the same id, nor one that is committed (`FlushedRowsAreNew`), which is what the unique index
and the wait at it achieve.

`UserAdminProofs`, for any accounts, addresses and any number of requests at once: type correctness,
`OnlyRoleRacesMixTeams`, `GestorsMakeNoManagers` and `AddressesDiffer`. `IInv` keeps of a decision only
what no other request can invalidate: which values a gestor writes, that an update which makes or
leaves somebody other than an operator, going by the role it has read, takes the account out of its
team (`FitsRoleRead`, in `WriteOK`), and that rows about to be inserted differ from each other and from
every committed row (`InsertsDiffer`), as the unique index and the wait at it achieve. The
column by column UPDATE then fits role and team together, if the role is still the one that was read,
and gives the row of a gestor's request its own role or `operador`.

`LoginPoolProofs`, for any number of requests and accounts and any pool: type correctness,
`ConnectionsAreConserved`, `LoginsAreRecorded` and `FullPoolsAdvance`. The first is about the
cardinality of the holders when one request moves; the second needs that what a login has written goes
by the place it is at (`Recorded`); the third that whoever holds a users row has a connection and waits
for nothing.

`PagedListsProofs`, for tables, pages, teams and numbers of changes of any size: type correctness,
`TotalsCoverPages` and `GestorsReadTheirTeamsLogs`. `PageInSelection` says that a page is still part of
what a growing list selects when the count runs; `ScopeIsMine` and `TeamIsRemembered` say that the
scope which a request has read stays within the teams of the walk while the team changes.

`Walks` proves a second invariant, `WInv`, about what the consumer has received. `WalkIsPrefix`: of a
list that nothing changes it holds the first places of a listing, in order and without repetition
(three of the lists are ordered by a column that is not unique; there no two selected rows may agree in
it);
`RowsAreReached`: of a list that only grows it holds every old row whose place, in any listing the
database may choose now, is before the next page; `ScopeIsKept`: nothing but a team or a role moves
what the request selects. From it follow `QuietWalksAreExact`, `GrowingListsAreReadInFull` and
`SmallTeamsAreReadInFull`. The lemmas relate the place of a row in a listing to the number of rows
before it (`PlaceInListing`) and show that an insertion never moves a row to an earlier place. That
the owners are finitely many is an assumption; `users` is a table.

`CrmOutboundCounters`, for any number of jobs, workers, rows, retries and faults: `SentCountersAgree`.
The property is not inductive, and the invariant of `CrmOutboundProofs` does not help, because it
holds also when a job has two tasks, which overwrite each other's counters. `CInv` adds that, as long
as no worker was lost and nothing was redelivered, a job has one task, in the queue or executed
(`OneTask`), that the row holds what the pages before the current one have counted (`RowOfTask`), and
that nobody works on a job that is sent (`RowOfSentJob`).

`ClientDataProofs`, for any number of documents and of changes by the ETL, any rows and any reference
date from June of the first year on: type correctness, `DashboardAddsUp`,
`IndicatorsCountWhatTheySay`, `BatchTotalsAddUp` and `LookupsAgree`. The answers that a consumer
compares ran at different times, so the properties say nothing of the steps in between. `IInv` is
about every result that is known of a statement (`Known`): what was shown, what the request in flight
has got, and what the statement would return now. Any two of them that belong together differ by no
more than the changes between them (`ResultsFit`, `ResultsSplit`), and any two of one time agree on a
lookup (`LookupsFit`). A statement or an answer only moves a known result from one kind to another
(`RequestKept`); a change of the ETL moves only what would be returned now, and that by one row
(`EtlMovesOne`). The meaning of the indicators is arithmetic about days and months (`DaysAndMonths`,
`FirstQuarter`). The assumptions about texts are that the three kinds of missing value differ from
each other, from every number, and from `1` and `1.0`. A batch has two documents, as in the model.

Model-checked only: the liveness properties `RequestsEnd`, `JobsSettle` and `RequestsAreAnswered`
(fairness and ENABLED are outside what TLAPS proves here).

## Not modelled

- The text filters of the searches (ILIKE on names, uf, ramo_atuacao, consultor, boletos), and the
  filters by date, action and resource of `list_logs`: they are not told apart from other conditions
  on a row. `search_by_name` has the shape of `search`. In `CrmOutbound` the rows are constant during
  a job and its filters are left out.
- `get_user`, `get_me`, `validate_token`: no state changes.
- `resend_invite`: raises before it writes.
- JWT signatures, bcrypt, masks, templates, logging, middleware, migrations: formatting or libraries.
- A COMMIT that succeeds and whose answer is lost inside the Celery task; the backoff delays.

## Plan

1. Done: AuthSessions with SessionAuthority; CrmOutbound with ExportJob; CrmInbound with EventStore;
   UserAdmin with concurrent requests; LoginPool with the health check; PagedLists with the limit of
   teams; ClientData; proofs of every safety property that a run checks.
2. Next proofs: that a closed session of SessionAuthority never opens again, stated of the tables;
   what of the counters of a job is left when its message comes back.
3. Next model: the absence of deadlocks in `UserAdmin`; batches of any length in `ClientData`; the
   filter `nunca_qualificou` beside its field.
