---------------------------- MODULE LoginPoolProofs ----------------------------
(***************************************************************************)
(* Theorems about LoginPool for any number of requests, any accounts and   *)
(* any size of the pool.                                                    *)
(***************************************************************************)
EXTENDS LoginPool, FiniteSetTheorems, TLAPS

Holding == {r \in Requests : pc[r] \in Connected}

\* What a login has in its session where it is.
Written(p) ==
  CASE p = "save"   -> {"last_login"}
    [] p = "audit"  -> {"last_login", "refresh_token"}
    [] p = "commit" -> Writes
    [] OTHER        -> {}

\* What a request at p has in its session, has stored and may answer.
Recorded(p, unsaved, saved, code) ==
  /\ unsaved = Written(p)
  /\ saved \in {{}, Writes}
  /\ p # "done" => saved = {} /\ code = "none"
  /\ code = "200" => saved = Writes

\* The inductive invariant.
IInv ==
  /\ TypeOK
  /\ ConnectionsAreConserved
  /\ \A r \in Requests : Recorded(pc[r], session[r], stored[r], answer[r])

-----------------------------------------------------------------------------
\* A request that moves on takes a connection or gives one back, or neither.
LEMMA HoldingMoves ==
  ASSUME TypeOK, NEW r \in Requests, NEW from, NEW to \in Pcs, Move(r, from, to)
  PROVE  /\ pc' \in [Requests -> Pcs] /\ from \in Pcs
         /\ Cardinality(Holding) \in Nat
         /\ from \in Connected => Cardinality(Holding) >= 1
         /\ Cardinality(Holding') =
              Cardinality(Holding) + (IF to \in Connected THEN 1 ELSE 0)
                                   - (IF from \in Connected THEN 1 ELSE 0)
  <1>1. /\ pc' \in [Requests -> Pcs] /\ pc[r] = from /\ pc'[r] = to /\ from \in Pcs
        /\ \A q \in Requests \ {r} : pc'[q] = pc[q]
    BY DEF TypeOK, Move
  <1>2. IsFiniteSet(Holding) /\ Cardinality(Holding) \in Nat
    <2>1. Holding \in SUBSET Requests /\ IsFiniteSet(Requests)
      BY ConstantsAssumption DEF Holding
    <2>2. QED BY <2>1, FS_Subset, FS_CardinalityType
  <1>3. from \in Connected => Cardinality(Holding) >= 1
    <2>1. from \in Connected => Holding # {}
      BY <1>1 DEF Holding
    <2>2. Holding # {} => Cardinality(Holding) # 0
      BY <1>2, FS_EmptySet
    <2>3. QED BY <1>2, <2>1, <2>2
  <1>4. CASE from \in Connected <=> to \in Connected
    <2>1. Holding' = Holding
      BY <1>1, <1>4 DEF Holding
    <2>2. QED BY <1>1, <1>2, <1>3, <1>4, <2>1
  <1>5. CASE from \in Connected /\ to \notin Connected
    <2>1. Holding' = Holding \ {r} /\ r \in Holding
      BY <1>1, <1>5 DEF Holding
    <2>2. Cardinality(Holding') = Cardinality(Holding) - 1
      BY <1>2, <2>1, FS_RemoveElement
    <2>3. QED BY <1>1, <1>2, <1>3, <1>5, <2>2
  <1>6. CASE from \notin Connected /\ to \in Connected
    <2>1. Holding' = Holding \cup {r} /\ r \notin Holding
      BY <1>1, <1>6 DEF Holding
    <2>2. Cardinality(Holding') = Cardinality(Holding) + 1
      BY <1>2, <2>1, FS_AddElement
    <2>3. QED BY <1>1, <1>2, <1>6, <2>2
  <1>7. QED BY <1>4, <1>5, <1>6

Connections(p) == IF p \in Connected THEN 1 ELSE 0

\* A step of a request that accounts for its connection and for its writes keeps
\* the invariant.
LEMMA MoveKeeps ==
  ASSUME IInv, NEW r \in Requests, NEW from, NEW to \in Pcs, Move(r, from, to),
         account' = account,
         free' \in Nat, free' + Connections(to) = free + Connections(from),
         NEW unsaved \in SUBSET Writes, session' = [session EXCEPT ![r] = unsaved],
         NEW saved \in SUBSET Writes, stored' = [stored EXCEPT ![r] = saved],
         NEW code \in Answers, answer' = [answer EXCEPT ![r] = code],
         Recorded(to, unsaved, saved, code)
  PROVE  IInv'
  <1> DEFINE held == Cardinality(Holding)
  <1>1. /\ TypeOK /\ free \in Nat /\ PoolSize \in Nat /\ free + held = PoolSize
        /\ \A q \in Requests : Recorded(pc[q], session[q], stored[q], answer[q])
    BY ConstantsAssumption DEF IInv, TypeOK, ConnectionsAreConserved, Holding
  <1>2. /\ pc' \in [Requests -> Pcs] /\ held \in Nat
        /\ held' = held + Connections(to) - Connections(from)
        /\ from \in Connected => held >= 1
    BY <1>1, HoldingMoves DEF Connections
  <1>3. Connections(to) \in {0, 1} /\ Connections(from) \in {0, 1}
        /\ (Connections(from) = 1 => from \in Connected)
    BY DEF Connections
  <1> HIDE DEF held
  <1>4. held' \in Nat /\ free' + held' = PoolSize
    BY <1>1, <1>2, <1>3
  <1>5. free' \in 0..PoolSize
    <2>1. free' <= PoolSize
      BY <1>4
    <2>2. QED BY <1>1, <2>1
  <1>6. TypeOK'
    BY <1>1, <1>2, <1>5 DEF TypeOK
  <1>7. ConnectionsAreConserved'
    BY <1>4 DEF ConnectionsAreConserved, Holding, held
  <1>8. \A q \in Requests : Recorded(pc'[q], session'[q], stored'[q], answer'[q])
    <2>1. /\ pc'[r] = to /\ session'[r] = unsaved /\ stored'[r] = saved /\ answer'[r] = code
          /\ \A q \in Requests \ {r} : /\ pc'[q] = pc[q] /\ session'[q] = session[q]
                                       /\ stored'[q] = stored[q] /\ answer'[q] = answer[q]
      BY <1>1 DEF TypeOK, Move
    <2>2. QED BY <1>1, <2>1
  <1>9. \A q \in Requests : Recorded(pc[q], session[q], stored[q], answer[q])'
    BY <1>8 DEF Recorded, Written, Writes
  <1>10. QED BY <1>6, <1>7, <1>9 DEF IInv

-----------------------------------------------------------------------------
\* What is known of a request, spelled out.
LEMMA Known ==
  ASSUME IInv, NEW r \in Requests
  PROVE  /\ pc[r] \in Pcs /\ free \in Nat
         /\ session[r] \in SUBSET Writes /\ stored[r] \in SUBSET Writes
         /\ answer[r] \in Answers
         /\ session = [session EXCEPT ![r] = session[r]]
         /\ stored = [stored EXCEPT ![r] = stored[r]]
         /\ answer = [answer EXCEPT ![r] = answer[r]]
         /\ Recorded(pc[r], session[r], stored[r], answer[r])
  BY ConstantsAssumption DEF IInv, TypeOK

\* The end of a request that had a connection, with or without its writes.
LEMMA EndKeeps ==
  ASSUME IInv, NEW r \in Requests, NEW from \in Connected, NEW code \in Answers \ {"200"},
         End(r, from, code),
         \/ stored' = stored
         \/ from = "commit" /\ stored' = [stored EXCEPT ![r] = session[r]]
  PROVE  IInv'
  <1> USE Known
  <1>1. /\ Move(r, from, "done") /\ pc[r] = from /\ from \in Pcs /\ from # "done"
        /\ free' = free + 1 /\ account' = account
        /\ session' = [session EXCEPT ![r] = {}] /\ answer' = [answer EXCEPT ![r] = code]
    BY DEF End, Move, Connected
  <1>2. /\ stored[r] = {} /\ (from = "commit" => session[r] = Writes)
    BY <1>1 DEF Recorded, Written
  <1>3. free' \in Nat /\ free' + Connections("done") = free + Connections(from)
    BY <1>1 DEF Connections, Connected
  <1>4. \A saved \in {{}, Writes} : Recorded("done", {}, saved, code)
    BY DEF Recorded, Written, Writes
  <1>5. "done" \in Pcs /\ Writes \in SUBSET Writes /\ {} \in SUBSET Writes
    BY DEF Pcs
  <1>6. CASE stored' = stored
    BY <1>1, <1>2, <1>3, <1>4, <1>5, <1>6, MoveKeeps
  <1>7. CASE from = "commit" /\ stored' = [stored EXCEPT ![r] = session[r]]
    BY <1>1, <1>2, <1>3, <1>4, <1>5, <1>7, MoveKeeps
  <1>8. QED BY <1>6, <1>7

\* A step that leaves tables, sessions and answers alone.
LEMMA PassKeeps ==
  ASSUME IInv, NEW r \in Requests, NEW from, NEW to \in Pcs \ {"done"}, Move(r, from, to),
         UNCHANGED <<account, session, stored, answer>>, Written(to) = Written(from),
         from # "done", free' \in Nat, free' + Connections(to) = free + Connections(from)
  PROVE  IInv'
  <1> USE Known
  <1>1. Recorded(to, session[r], stored[r], answer[r])
    BY DEF Move, Recorded
  <1>2. QED BY <1>1, MoveKeeps

\* A statement of a login that adds its row to the session.
LEMMA WriteKeeps ==
  ASSUME IInv, NEW r \in Requests, NEW row \in Writes,
         NEW from \in Connected, NEW to \in Connected, Move(r, from, to), Write(r, row),
         UNCHANGED <<account, free, stored, answer>>, Written(to) = Written(from) \cup {row}
  PROVE  IInv'
  <1> USE Known
  <1>1. /\ pc[r] = from /\ to \in Pcs \ {"done"} /\ from # "done"
    BY DEF Move, Connected
  <1>2. Recorded(to, session[r] \cup {row}, stored[r], answer[r])
    BY <1>1 DEF Recorded
  <1>3. session' = [session EXCEPT ![r] = session[r] \cup {row}]
    BY DEF Write
  <1>4. free' + Connections(to) = free + Connections(from)
    BY DEF Connections
  <1>5. QED BY <1>1, <1>2, <1>3, <1>4, MoveKeeps

\* A step that waits for a connection or for a row.
LEMMA WaitingKeeps ==
  ASSUME IInv, NEW r \in Requests, Connect(r) \/ UpdateLastLogin(r) \/ ConnectTimeout(r)
  PROVE  IInv'
  <1> USE Known
  <1>1. CASE Connect(r)
    <2>1. PICK to \in {"select", "authenticate"} : Move(r, "connect", to)
      BY <1>1 DEF Connect
    <2>2. /\ UNCHANGED <<account, session, stored, answer>> /\ free > 0 /\ free' = free - 1
          /\ to \in Pcs \ {"done"} /\ Written(to) = Written("connect")
          /\ Connections(to) = 1 /\ Connections("connect") = 0
      BY <1>1 DEF Connect, Pcs, Written, Connections, Connected
    <2>3. free' \in Nat /\ free' + Connections(to) = free + Connections("connect")
      BY <2>2
    <2>4. QED BY <2>1, <2>2, <2>3, PassKeeps
  <1>2. CASE UpdateLastLogin(r)
    BY <1>2, WriteKeeps DEF UpdateLastLogin, Connected, Pcs, Writes, Written
  <1>3. CASE ConnectTimeout(r)
    <2>1. PICK code \in Answers \ {"200"} : answer' = [answer EXCEPT ![r] = code]
      BY <1>3 DEF ConnectTimeout, Answers
    <2>2. /\ Move(r, "connect", "done") /\ pc[r] = "connect" /\ "done" \in Pcs
          /\ UNCHANGED <<account, free, session, stored>>
      BY <1>3 DEF ConnectTimeout, Move, Pcs
    <2>3. Recorded("done", session[r], stored[r], code)
      BY <2>1, <2>2 DEF Recorded, Written
    <2>4. Connections("done") = Connections("connect")
      BY DEF Connections, Connected
    <2>5. QED BY <2>1, <2>2, <2>3, <2>4, MoveKeeps
  <1>4. QED BY <1>1, <1>2, <1>3

\* A step that has what it needs.
LEMMA RunningKeeps ==
  ASSUME IInv, NEW r \in Requests, Running(r)
  PROVE  IInv'
  <1> USE Known
  <1>1. CASE CheckDatabase(r)
    BY <1>1, EndKeeps DEF CheckDatabase, Connected, Pcs, Answers
  <1>2. CASE Authenticate(r) \/ AuditRefusal(r)
    <2>1. PICK from \in {"authenticate", "auditRefusal"},
               to \in {"lock", "auditRefusal", "refuse"} : Move(r, from, to)
      BY <1>2 DEF Authenticate, AuditRefusal
    <2>2. UNCHANGED <<account, free, session, stored, answer>>
      BY <1>2 DEF Authenticate, AuditRefusal
    <2>3. /\ to \in Pcs \ {"done"} /\ from # "done" /\ Written(to) = Written(from)
          /\ Connections(to) = Connections(from)
      BY DEF Pcs, Written, Connections, Connected
    <2>4. QED BY <2>1, <2>2, <2>3, PassKeeps
  <1>3. CASE SaveRefreshToken(r)
    BY <1>3, WriteKeeps DEF SaveRefreshToken, Connected, Pcs, Writes, Written
  <1>4. CASE AuditLogin(r)
    BY <1>4, WriteKeeps DEF AuditLogin, Connected, Pcs, Writes, Written
  <1>5. CASE Commit(r)
    <2>1. /\ Move(r, "commit", "done") /\ pc[r] = "commit" /\ "done" \in Pcs
          /\ free' = free + 1 /\ account' = account
          /\ session' = [session EXCEPT ![r] = {}] /\ answer' = [answer EXCEPT ![r] = "200"]
          /\ stored' = [stored EXCEPT ![r] = session[r]]
      BY <1>5 DEF Commit, End, Move, Pcs
    <2>2. session[r] = Writes
      BY <2>1 DEF Recorded, Written
    <2>3. Recorded("done", {}, Writes, "200") /\ "200" \in Answers
      BY DEF Recorded, Written, Writes, Answers
    <2>4. free' \in Nat /\ free' + Connections("done") = free + Connections("commit")
      BY <2>1 DEF Connections, Connected, Pcs
    <2>5. QED BY <2>1, <2>2, <2>3, <2>4, MoveKeeps
  <1>6. CASE CommitRefused(r)
    BY <1>6, EndKeeps DEF CommitRefused, Connected, Pcs, Answers
  <1>7. CASE Refuse(r)
    BY <1>7, EndKeeps DEF Refuse, Connected, Pcs, Answers
  <1>8. QED
    BY <1>1, <1>2, <1>3, <1>4, <1>5, <1>6, <1>7, Running(r) DEF Running

\* A failure.
LEMMA FailureKeeps ==
  ASSUME IInv, NEW r \in Requests, AuditLoginFails(r) \/ CommitUnanswered(r) \/ Fail(r)
  PROVE  IInv'
  <1> USE Known
  <1>1. CASE AuditLoginFails(r)
    <2>1. /\ Move(r, "audit", "aborted") /\ pc[r] = "audit" /\ "aborted" \in Pcs
          /\ session' = [session EXCEPT ![r] = {}]
          /\ UNCHANGED <<account, free, stored, answer>>
      BY <1>1 DEF AuditLoginFails, Move, Pcs
    <2>2. Recorded("aborted", {}, stored[r], answer[r])
      BY <2>1 DEF Recorded, Written
    <2>3. Connections("aborted") = Connections("audit")
      BY DEF Connections, Connected, Pcs
    <2>4. QED BY <2>1, <2>2, <2>3, MoveKeeps
  <1>2. CASE CommitUnanswered(r)
    BY <1>2, EndKeeps DEF CommitUnanswered, Connected, Pcs, Answers
  <1>3. CASE Fail(r)
    <2>1. PICK at \in {"authenticate", "lock", "save", "commit", "refuse"} :
            End(r, at, "500") /\ UNCHANGED stored
      BY <1>3 DEF Fail
    <2>2. at \in Connected /\ "500" \in Answers \ {"200"}
      BY DEF Connected, Pcs, Answers
    <2>3. QED BY <2>1, <2>2, EndKeeps
  <1>4. QED BY <1>1, <1>2, <1>3

LEMMA StepKeeps == IInv /\ [Next]_vars => IInv'
  <1> SUFFICES ASSUME IInv, [Next]_vars PROVE IInv'
    OBVIOUS
  <1>1. CASE UNCHANGED vars
    BY <1>1 DEF vars, IInv, TypeOK, ConnectionsAreConserved, Recorded, Written
  <1>2. ASSUME NEW r \in Requests, Arrive(r) PROVE IInv'
    <2>1. /\ Move(r, "new", "connect") /\ UNCHANGED <<account, free, session, stored, answer>>
          /\ "connect" \in Pcs \ {"done"} /\ Written("connect") = Written("new")
          /\ Connections("connect") = Connections("new")
      BY <1>2 DEF Arrive, Pcs, Written, Connections, Connected
    <2>2. QED BY <2>1, Known, PassKeeps
  <1>3. QED
    BY <1>1, <1>2, WaitingKeeps, RunningKeeps, FailureKeeps DEF Next, Waiting

LEMMA InitOK == Init => IInv
  <1> SUFFICES ASSUME Init PROVE IInv
    OBVIOUS
  <1>1. TypeOK
    BY ConstantsAssumption DEF Init, TypeOK, Pcs, Answers
  <1>2. Holding = {}
    BY DEF Init, Holding, Connected
  <1>3. Cardinality(Holding) = 0
    BY <1>2, FS_EmptySet
  <1>4. ConnectionsAreConserved
    BY <1>3, ConstantsAssumption DEF Init, ConnectionsAreConserved, Holding
  <1>5. \A r \in Requests : Recorded(pc[r], session[r], stored[r], answer[r])
    BY DEF Init, Recorded, Written
  <1>6. QED BY <1>1, <1>4, <1>5 DEF IInv

-----------------------------------------------------------------------------
THEOREM Invariance == Spec => []IInv
  BY InitOK, StepKeeps, PTL DEF Spec

\* Every reachable state is well typed, for any number of requests and any size of
\* the pool.
THEOREM TypeCorrectness == Spec => []TypeOK
  <1>1. IInv => TypeOK
    BY DEF IInv
  <1>2. QED BY <1>1, Invariance, PTL

\* Every request gives back the connection it took, whichever statement fails
\* (get_db, _check_database).
THEOREM Conservation == Spec => []ConnectionsAreConserved
  <1>1. IInv => ConnectionsAreConserved
    BY DEF IInv
  <1>2. QED BY <1>1, Invariance, PTL

\* A login is stored with its audit record or not at all, and a 200 says that it
\* is (AuthService.login, AuditService.log, get_db).
THEOREM RecordedLogins == Spec => []LoginsAreRecorded
  <1>1. IInv => LoginsAreRecorded
    BY DEF IInv, Recorded, LoginsAreRecorded
  <1>2. QED BY <1>1, Invariance, PTL

\* A full pool has a request that waits for nothing: whoever holds a users row has
\* a connection already, so logins do not starve each other of both.
THEOREM FullPools == Spec => []FullPoolsAdvance
  <1>1. ASSUME IInv PROVE FullPoolsAdvance
    <2>1. SUFFICES ASSUME free = 0
                   PROVE  \E r \in Requests : pc[r] \in Connected /\ ~WaitsForUserRow(r)
      BY DEF FullPoolsAdvance
    <2>2. Cardinality(Holding) # 0
      BY <1>1, <2>1, ConstantsAssumption
         DEF IInv, TypeOK, ConnectionsAreConserved, Holding
    <2>3. PICK r \in Requests : pc[r] \in Connected
      BY <2>2, FS_EmptySet DEF Holding
    <2>4. CASE WaitsForUserRow(r)
      <3>1. PICK q \in Requests : HoldsUserRow(q, account[r])
        BY <2>4 DEF WaitsForUserRow
      <3>2. pc[q] \in Connected /\ pc[q] # "lock"
        BY <3>1 DEF HoldsUserRow, Connected, Pcs
      <3>3. QED BY <3>1, <3>2 DEF WaitsForUserRow
    <2>5. QED BY <2>3, <2>4
  <1>2. QED BY <1>1, Invariance, PTL
=============================================================================
