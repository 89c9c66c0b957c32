--------------------------- MODULE PgStoreProofs ----------------------------
(* Proofs about PgStore, for any number of clients, tenants and instances    *)
(* and any quota: the calls and the statements are those of PgStore.         *)
(*                                                                           *)
(* A quota is counted in one statement and relied on in a later one, and an  *)
(* instance is looked up in one and written for in a later one.  The         *)
(* inductive invariant says what makes both safe: a create that is past its  *)
(* advisory lock is the only one of its tenant, and an id that a statement   *)
(* still relies on is never given to another tenant's instance.              *)
EXTENDS PgStore, FiniteSetTheorems, TLAPS

Create == "CreateConnectorInstance"

\* Calls are functions of the clients, and a create visits only its own
\* statements.
Placed ==
    /\ DOMAIN at = Client /\ DOMAIN held = Client /\ DOMAIN seen = Client
    /\ \A c \in Client :
          /\ Op(c) = Create => at[c] \in {"new", "lock", "ensure", "insert", "commit", "done"}
          /\ at[c] \in {"lock", "ensure"} => Op(c) = Create

\* A create that is past its lock.
Gated(c) == Op(c) = Create /\ at[c] \in {"ensure", "insert", "commit"}

\* It holds the lock of its tenant, and one that has counted has room.
Locked ==
    maxInstances > 0 =>
        /\ \A c \in Client : Gated(c) => <<"advisory", Mine(c)>> \in held[c]
        /\ \A c, d \in Client : (Gated(c) /\ Gated(d) /\ c # d) => Mine(c) # Mine(d)

Room ==
    maxInstances > 0 =>
        \A c \in Client : (Op(c) = Create /\ at[c] = "commit") =>
            Cardinality(Rows(connector_instances, Mine(c))) < maxInstances

\* An instance row has one tenant per id, and ids are given out in order.
IsRow(r) == r = [id |-> r.id, t |-> r.t, status |-> r.status]

Numbered ==
    /\ stamp \in Int /\ IsFiniteSet(connector_instances)
    /\ \A r \in connector_instances : IsRow(r) /\ r.id \in Int /\ r.id <= stamp
    /\ \A r, s \in connector_instances : r.id = s.id => r.t = s.t

\* The id of an instance that is yet to be committed is nobody else's.
Pending(c) == Op(c) = Create /\ at[c] \in {"lock", "ensure", "insert", "commit"}

FreshIds ==
    /\ \A c \in Client : Pending(c) =>
          /\ seen[c][1] \in Int /\ seen[c][1] <= stamp
          /\ \A r \in connector_instances : r.id # seen[c][1]
    /\ \A c, d \in Client : (Pending(c) /\ Pending(d) /\ c # d) => seen[c][1] # seen[d][1]

\* A statement that has found the caller's instance still relies on its id.
Relies(c) == at[c] \in {"wait", "cascade"}

OwnIds ==
    \A c \in Client : Relies(c) =>
        /\ Instance(c) \in Int /\ Instance(c) <= stamp
        /\ \A r \in connector_instances : r.id = Instance(c) => r.t = Mine(c)
        /\ \A d \in Client : Pending(d) => seen[d][1] # Instance(c)

IInv == Placed /\ Locked /\ Room /\ QuotaHeld /\ Numbered /\ FreshIds /\ OwnIds /\ NoOrphans

-----------------------------------------------------------------------------
(* What a statement does to the calls.                                       *)

\* Only the call that makes a statement goes on.
Alone(c) ==
    /\ \A d \in Client \ {c} : at'[d] = at[d] /\ held'[d] = held[d] /\ seen'[d] = seen[d]
    /\ DOMAIN at' = Client /\ DOMAIN held' = Client /\ DOMAIN seen' = Client

LEMMA GotoAlone ==
  ASSUME Placed, NEW c \in Client, NEW label, NEW rows, NEW value, Goto(c, label, rows, value)
  PROVE  /\ Alone(c) /\ at'[c] = label /\ seen'[c] = value
         /\ held'[c] = held[c] \cup rows
BY DEF Placed, Goto, Alone

LEMMA ReturnAlone ==
  ASSUME Placed, NEW c \in Client, NEW a, Return(c, a)
  PROVE  Alone(c) /\ at'[c] = "done"
BY DEF Placed, Return, Alone

LEMMA StepAlone ==
  ASSUME Placed, NEW c \in Client, Step(c) \/ Cancelled(c)
  PROVE  Alone(c)
<1> USE GotoAlone, ReturnAlone
<1>1. CASE Rollback(c)
  BY <1>1 DEF Rollback
<1>2. CASE Refuse(c) \/ EnsureTenant(c) \/ Read(c) \/ DeleteToken(c) \/ SetTenantConnectorStatus(c)
  BY <1>2 DEF Refuse, EnsureTenant, Read, DeleteToken, SetTenantConnectorStatus
<1>3. CASE ReadInstance(c) \/ ListTenants(c) \/ DeleteConnectorInstance(c)
  BY <1>3, Zenon DEF ReadInstance, ListTenants, DeleteConnectorInstance
<1>4. CASE SetSyncState(c) \/ PutToken(c) \/ Cascade(c)
  BY <1>4 DEF SetSyncState, PutToken, Cascade, ParentGone
<1>5. CASE BeginCreate(c) \/ Lock(c) \/ Ensure(c) \/ InsertInstance(c) \/ CreateConnectorInstance(c)
  BY <1>5, SMTT(30) DEF BeginCreate, Lock, Ensure, InsertInstance, CreateConnectorInstance
<1>6. CASE UpsertPreferences(c) \/ PutPreferences(c) \/ AppendFeedback(c) \/ InsertFeedback(c)
  BY <1>6, Zenon DEF UpsertPreferences, PutPreferences, AppendFeedback, InsertFeedback
<1>7. CASE EnsureWeights(c) \/ ReadWeights(c) \/ UpdateLearnedWeights(c) \/ ResetLearning(c)
  BY <1>7 DEF EnsureWeights, ReadWeights, UpdateLearnedWeights, ResetLearning
<1>8. CASE ResetFeedback(c) \/ GetPreferences(c) \/ GetPersonalization(c) \/ PurgeTokens(c)
  BY <1>8, Zenon DEF ResetFeedback, GetPreferences, GetPersonalization, PurgeTokens
<1>9. CASE PurgeSyncStates(c) \/ PurgePersonalization(c) \/ PurgeInstances(c) \/ PurgeTenant(c)
  BY <1>9, Zenon DEF PurgeSyncStates, PurgePersonalization, PurgeInstances, PurgeTenant
<1> QED
  BY <1>1, <1>2, <1>3, <1>4, <1>5, <1>6, <1>7, <1>8, <1>9, SMTT(30)
     DEF Step, Cancelled, DeadlockVictim, Statement

\* The statements of a create.
LEMMA CreateSteps ==
  ASSUME Placed, NEW c \in Client, Statement(c), Op(c) = Create
  PROVE  \/ Refuse(c) \/ BeginCreate(c) \/ Lock(c) \/ Ensure(c)
         \/ InsertInstance(c) \/ CreateConnectorInstance(c)
<1>1. at[c] \in {"new", "lock", "ensure", "insert", "commit", "done"}
  BY DEF Placed
<1>2. \A op : First(c, op) => op = Create
  BY DEF First
<1>3. ~EnsureTenant(c) /\ ~Read(c) /\ ~DeleteToken(c) /\ ~SetTenantConnectorStatus(c)
  BY <1>2, Zenon DEF EnsureTenant, Read, Reads, DeleteToken, SetTenantConnectorStatus, Create
<1>4. ~ReadInstance(c) /\ ~SetSyncState(c) /\ ~PutToken(c) /\ ~ListTenants(c)
  BY <1>1, <1>2, Zenon DEF ReadInstance, SetSyncState, PutToken, ListTenants, Create
<1>5. ~DeleteConnectorInstance(c) /\ ~Cascade(c) /\ ~UpsertPreferences(c) /\ ~PutPreferences(c)
  BY <1>1, <1>2, Zenon DEF DeleteConnectorInstance, Cascade, UpsertPreferences, PutPreferences, Create
<1>6. ~AppendFeedback(c) /\ ~InsertFeedback(c) /\ ~EnsureWeights(c) /\ ~ReadWeights(c)
  BY <1>1, <1>2, Zenon DEF AppendFeedback, InsertFeedback, EnsureWeights, ReadWeights, Create
<1>7. ~UpdateLearnedWeights(c) /\ ~ResetLearning(c) /\ ~ResetFeedback(c) /\ ~GetPreferences(c)
  BY <1>1, <1>2, Zenon DEF UpdateLearnedWeights, ResetLearning, ResetFeedback, GetPreferences, Create
<1>8. ~GetPersonalization(c) /\ ~PurgeTokens(c) /\ ~PurgeSyncStates(c)
  BY <1>1, <1>2, Zenon DEF GetPersonalization, PurgeTokens, PurgeSyncStates, Create
<1>9. ~PurgePersonalization(c) /\ ~PurgeInstances(c) /\ ~PurgeTenant(c)
  BY <1>1 DEF PurgePersonalization, PurgeInstances, PurgeTenant
<1> QED
  BY <1>3, <1>4, <1>5, <1>6, <1>7, <1>8, <1>9, Zenon DEF Statement

-----------------------------------------------------------------------------
(* What a statement does to the instances.                                   *)

\* No tenant gains an instance, and none gains another's id.
Fewer ==
    /\ stamp' = stamp /\ IsFiniteSet(connector_instances')
    /\ \A r \in connector_instances' :
          IsRow(r) /\ \E s \in connector_instances : r.id = s.id /\ r.t = s.t
    /\ \A t : /\ Cardinality(Rows(connector_instances, t)) \in Int
              /\ Cardinality(Rows(connector_instances', t)) \in Int
              /\ Cardinality(Rows(connector_instances', t)) <= Cardinality(Rows(connector_instances, t))

LEMMA SubsetFewer ==
  ASSUME Numbered, stamp' = stamp, connector_instances' \subseteq connector_instances
  PROVE  Fewer
<1>1. IsFiniteSet(connector_instances')
  BY FS_Subset DEF Numbered
<1>2. ASSUME NEW t
      PROVE  /\ Cardinality(Rows(connector_instances, t)) \in Int
             /\ Cardinality(Rows(connector_instances', t)) \in Int
             /\ Cardinality(Rows(connector_instances', t)) <= Cardinality(Rows(connector_instances, t))
  <2>1. IsFiniteSet(Rows(connector_instances, t))
    BY FS_Subset DEF Numbered, Rows
  <2>2. Rows(connector_instances', t) \in SUBSET Rows(connector_instances, t)
    BY DEF Rows
  <2> HIDE DEF Rows
  <2>3. IsFiniteSet(Rows(connector_instances', t))
    BY <2>1, <2>2, FS_Subset, Zenon
  <2> QED
    BY <2>1, <2>2, <2>3, FS_Subset, FS_CardinalityType, SMTT(30)
<1>3. \A r \in connector_instances' :
         IsRow(r) /\ \E s \in connector_instances : r.id = s.id /\ r.t = s.t
  BY DEF Numbered
<1> QED
  BY <1>1, <1>2, <1>3, Zenon DEF Fewer

\* The row with the status that the request asks for.
Marked(r, s) == [id |-> r.id, t |-> r.t, status |-> s]

LEMMA StatusRows ==
  ASSUME Numbered, NEW c \in Client, SetTenantConnectorStatus(c)
  PROVE  connector_instances' =
            {IF r.t = Mine(c) THEN Marked(r, asked[c].arg) ELSE r : r \in connector_instances}
<1> DEFINE s == asked[c].arg
           moved == {r \in Rows(connector_instances, Mine(c)) : r.status # s}
<1>1. connector_instances' = (connector_instances \ moved) \cup {[r EXCEPT !.status = s] : r \in moved}
  BY DEF SetTenantConnectorStatus
<1>2. \A r \in connector_instances : [r EXCEPT !.status = s] = Marked(r, s)
  <2> SUFFICES ASSUME NEW r \in connector_instances PROVE [r EXCEPT !.status = s] = Marked(r, s)
    OBVIOUS
  <2>1. r = [id |-> r.id, t |-> r.t, status |-> r.status]
    BY DEF Numbered, IsRow
  <2> QED
    BY <2>1 DEF Marked
<1>3. \A r \in connector_instances : r.status = s => r = Marked(r, s)
  BY DEF Numbered, IsRow, Marked
<1>4. \A r : r \in moved <=> r \in connector_instances /\ r.t = Mine(c) /\ r.status # s
  BY DEF Rows
<1> HIDE DEF moved, s
<1>5. connector_instances' = (connector_instances \ moved) \cup {Marked(r, s) : r \in moved}
  BY <1>1, <1>2, <1>4, Zenon
<1> QED
  BY <1>5, <1>3, <1>4, SMTT(30) DEF s

LEMMA StatusFewer ==
  ASSUME Numbered, NEW c \in Client, SetTenantConnectorStatus(c)
  PROVE  Fewer
<1> DEFINE f == [r \in connector_instances |->
                    IF r.t = Mine(c) THEN Marked(r, asked[c].arg) ELSE r]
<1>1. connector_instances' = {f[r] : r \in connector_instances}
  BY StatusRows
<1>2. \A r \in connector_instances : IsRow(f[r]) /\ f[r].id = r.id /\ f[r].t = r.t
  BY DEF Numbered, Marked, IsRow
<1>3. stamp' = stamp
  BY DEF SetTenantConnectorStatus
<1> HIDE DEF f
<1>4. ASSUME NEW S \in SUBSET connector_instances, NEW T, T = {f[r] : r \in S}
      PROVE  IsFiniteSet(S) /\ IsFiniteSet(T) /\ Cardinality(T) <= Cardinality(S)
  <2>1. IsFiniteSet(S)
    BY FS_Subset, Zenon DEF Numbered
  <2>2. [r \in S |-> f[r]] \in Surjection(S, T)
    BY <1>4 DEF Surjection
  <2> QED
    BY <2>1, <2>2, FS_Surjection, Zenon
<1>5. IsFiniteSet(connector_instances')
  BY <1>1, <1>4, Zenon
<1>6. ASSUME NEW t
      PROVE  /\ Cardinality(Rows(connector_instances, t)) \in Int
             /\ Cardinality(Rows(connector_instances', t)) \in Int
             /\ Cardinality(Rows(connector_instances', t)) <= Cardinality(Rows(connector_instances, t))
  <2>1. Rows(connector_instances, t) \in SUBSET connector_instances
    BY DEF Rows
  <2>2. Rows(connector_instances', t) = {f[r] : r \in Rows(connector_instances, t)}
    BY <1>1, <1>2, SMTT(30) DEF Rows
  <2> QED
    BY <2>1, <2>2, <1>4, FS_CardinalityType, SMTT(30)
<1> QED
  BY <1>1, <1>2, <1>3, <1>5, <1>6, ZenonT(30) DEF Fewer

\* Only a create adds an instance.
LEMMA OthersFewer ==
  ASSUME Numbered, NEW c \in Client,
         \/ Statement(c) /\ Op(c) # Create
         \/ Rollback(c)
  PROVE  Fewer
<1> USE SubsetFewer DEF tables
<1>1. CASE Rollback(c)
  BY <1>1 DEF Rollback
<1>2. CASE SetTenantConnectorStatus(c)
  BY <1>2, StatusFewer, Zenon
<1>3. CASE Refuse(c) \/ EnsureTenant(c) \/ Read(c) \/ DeleteToken(c) \/ ReadInstance(c) \/ ListTenants(c)
  BY <1>3, Zenon DEF Refuse, EnsureTenant, Read, DeleteToken, ReadInstance, ListTenants
<1>4. CASE SetSyncState(c) \/ PutToken(c) \/ Cascade(c) \/ DeleteConnectorInstance(c)
  BY <1>4, Zenon DEF SetSyncState, PutToken, Cascade, DeleteConnectorInstance
<1>5. CASE Op(c) # Create /\ (BeginCreate(c) \/ Lock(c) \/ Ensure(c) \/ InsertInstance(c) \/ CreateConnectorInstance(c))
  BY <1>5, Zenon DEF BeginCreate, Lock, Ensure, InsertInstance, CreateConnectorInstance, First, Create
<1>6. CASE UpsertPreferences(c) \/ PutPreferences(c) \/ AppendFeedback(c) \/ InsertFeedback(c)
  BY <1>6, Zenon DEF UpsertPreferences, PutPreferences, AppendFeedback, InsertFeedback
<1>7. CASE EnsureWeights(c) \/ ReadWeights(c) \/ UpdateLearnedWeights(c) \/ ResetLearning(c)
  BY <1>7, Zenon DEF EnsureWeights, ReadWeights, UpdateLearnedWeights, ResetLearning
<1>8. CASE ResetFeedback(c) \/ GetPreferences(c) \/ GetPersonalization(c) \/ PurgeTokens(c)
  BY <1>8, Zenon DEF ResetFeedback, GetPreferences, GetPersonalization, PurgeTokens
<1>9. CASE PurgeSyncStates(c) \/ PurgePersonalization(c) \/ PurgeInstances(c) \/ PurgeTenant(c)
  BY <1>9 DEF PurgeSyncStates, PurgePersonalization, PurgeInstances, PurgeTenant
<1> QED
  BY <1>1, <1>2, <1>3, <1>4, <1>5, <1>6, <1>7, <1>8, <1>9, Zenon DEF Statement

-----------------------------------------------------------------------------
(* How a call goes on.                                                       *)

Counted(c) == maxInstances > 0 => ~(Cardinality(Rows(connector_instances, Mine(c))) >= maxInstances)

\* The moves of a create, but for its commit.
Moves(c) ==
    /\ connector_instances' = connector_instances
    /\ \/ at'[c] = "done" /\ stamp' = stamp
       \/ /\ at[c] = "new" /\ stamp' = stamp + 1 /\ seen'[c] = <<stamp + 1>>
          /\ at'[c] = IF maxInstances > 0 THEN "lock" ELSE "ensure"
       \/ /\ stamp' = stamp /\ seen'[c] = seen[c] /\ held[c] \subseteq held'[c]
          /\ \/ at[c] = "lock" /\ at'[c] = "ensure" /\ <<"advisory", Mine(c)>> \in held'[c]
             \/ at[c] = "ensure" /\ at'[c] = "insert"
             \/ at[c] = "insert" /\ at'[c] = "commit" /\ Counted(c)

LEMMA CreateMoves ==
  ASSUME Placed, NEW c \in Client, Statement(c), Op(c) = Create
  PROVE  \/ Moves(c)
         \/ CreateConnectorInstance(c) /\ at'[c] = "done"
<1> USE GotoAlone, ReturnAlone DEF tables, Moves
<1>1. CASE Refuse(c)
  BY <1>1, Zenon DEF Refuse
<1>2. CASE BeginCreate(c)
  BY <1>2, Zenon DEF BeginCreate, First
<1>3. CASE Lock(c)
  BY <1>3, SMTT(30) DEF Lock
<1>4. CASE Ensure(c)
  <2>1. at[c] = "ensure" /\ UNCHANGED <<connector_instances, stamp>>
    BY <1>4 DEF Ensure, First, Create
  <2>2. \E rows : Goto(c, "insert", rows, seen[c])
    BY <1>4, Zenon DEF Ensure, Create
  <2> QED
    BY <2>1, <2>2, SMTT(30)
<1>5. CASE InsertInstance(c)
  BY <1>5, SMTT(30) DEF InsertInstance, Counted
<1>6. CASE CreateConnectorInstance(c)
  BY <1>6 DEF CreateConnectorInstance
<1> QED
  BY <1>1, <1>2, <1>3, <1>4, <1>5, <1>6, CreateSteps, ZenonT(30)

\* A call of another kind comes to rely on an id only when it finds the
\* caller's instance, and never takes the way of a create.
LEMMA OtherMoves ==
  ASSUME Placed, NEW c \in Client, Statement(c), Op(c) # Create
  PROVE  /\ at'[c] \notin {"lock", "ensure"}
         /\ at'[c] \in {"wait", "cascade"} =>
               owned(c) # {} /\ UNCHANGED <<connector_instances, stamp>>
<1> USE GotoAlone, ReturnAlone DEF tables
<1>0. at[c] \notin {"lock", "ensure"}
  BY DEF Placed
<1>1. CASE Refuse(c) \/ EnsureTenant(c) \/ Read(c) \/ DeleteToken(c) \/ SetTenantConnectorStatus(c)
  BY <1>1, Zenon DEF Refuse, EnsureTenant, Read, DeleteToken, SetTenantConnectorStatus
<1>2. CASE ReadInstance(c) \/ ListTenants(c) \/ DeleteConnectorInstance(c)
  BY <1>2, SMTT(30) DEF ReadInstance, ListTenants, DeleteConnectorInstance
<1>3. CASE SetSyncState(c) \/ PutToken(c) \/ Cascade(c)
  BY <1>3, Zenon DEF SetSyncState, PutToken, Cascade, ParentGone
<1>4. CASE BeginCreate(c) \/ Lock(c) \/ InsertInstance(c) \/ CreateConnectorInstance(c)
  BY <1>4, <1>0, SMTT(30) DEF BeginCreate, Lock, InsertInstance, CreateConnectorInstance, First, Create
<1>5. CASE Ensure(c)
  <2>1. \E rows : Goto(c, "upsert", rows, seen[c]) \/ Goto(c, "row", rows, seen[c])
    BY <1>5, <1>0, Zenon DEF Ensure, First, Create
  <2> QED
    BY <2>1
<1>6. CASE UpsertPreferences(c) \/ PutPreferences(c) \/ AppendFeedback(c) \/ InsertFeedback(c)
  BY <1>6, SMTT(30) DEF UpsertPreferences, PutPreferences, AppendFeedback, InsertFeedback
<1>7. CASE EnsureWeights(c) \/ ReadWeights(c) \/ UpdateLearnedWeights(c) \/ ResetLearning(c)
  BY <1>7, SMTT(30) DEF EnsureWeights, ReadWeights, UpdateLearnedWeights, ResetLearning
<1>8. CASE ResetFeedback(c) \/ GetPreferences(c) \/ GetPersonalization(c) \/ PurgeTokens(c)
  BY <1>8, SMTT(30) DEF ResetFeedback, GetPreferences, GetPersonalization, PurgeTokens
<1>9. CASE PurgeSyncStates(c) \/ PurgePersonalization(c) \/ PurgeInstances(c) \/ PurgeTenant(c)
  BY <1>9, SMTT(30) DEF PurgeSyncStates, PurgePersonalization, PurgeInstances, PurgeTenant
<1> QED
  BY <1>1, <1>2, <1>3, <1>4, <1>5, <1>6, <1>7, <1>8, <1>9, ZenonT(30) DEF Statement

\* Every step is one of three kinds.
Other(c) == /\ Fewer /\ (Op(c) # Create \/ at'[c] = "done")
            /\ at'[c] \notin {"lock", "ensure"}
            /\ at'[c] \in {"wait", "cascade"} =>
                  owned(c) # {} /\ UNCHANGED <<connector_instances, stamp>>

Commits(c) == /\ Op(c) = Create /\ at[c] = "commit" /\ at'[c] = "done" /\ stamp' = stamp
              /\ connector_instances' =
                    connector_instances \cup {[id |-> seen[c][1], t |-> Mine(c), status |-> "ACTIVE"]}

LEMMA Kinds ==
  ASSUME IInv, NEW c \in Client, Step(c) \/ Cancelled(c)
  PROVE  Alone(c) /\ (Other(c) \/ (Op(c) = Create /\ Moves(c)) \/ Commits(c))
<1>1. Alone(c)
  BY StepAlone DEF IInv
<1>2. CASE Rollback(c)
  <2>1. at'[c] = "done"
    BY <1>2, ReturnAlone, Zenon DEF Rollback, IInv
  <2> QED
    BY <1>1, <1>2, <2>1, OthersFewer, Zenon DEF Other, IInv
<1>3. CASE Statement(c) /\ Op(c) # Create
  BY <1>1, <1>3, OthersFewer, OtherMoves, Zenon DEF Other, IInv
<1>4. CASE Statement(c) /\ Op(c) = Create
  BY <1>1, <1>4, CreateMoves, Zenon DEF CreateConnectorInstance, Commits, IInv
<1> QED
  BY <1>2, <1>3, <1>4, Zenon DEF Step, Cancelled, DeadlockVictim

LEMMA PlacedStep ==
  ASSUME IInv, NEW c \in Client, Step(c) \/ Cancelled(c), UNCHANGED asked
  PROVE  Placed'
<1>1. Alone(c) /\ (Other(c) \/ (Op(c) = Create /\ Moves(c)) \/ Commits(c))
  BY Kinds, Zenon
<1>2. /\ Op(c) = Create => at'[c] \in {"new", "lock", "ensure", "insert", "commit", "done"}
      /\ at'[c] \in {"lock", "ensure"} => Op(c) = Create
  BY <1>1 DEF Other, Moves, Commits
<1>3. Placed
  BY Zenon DEF IInv
<1> QED
  BY <1>1, <1>2, <1>3, Zenon DEF Placed, Alone, Op

LEMMA LockedStep ==
  ASSUME IInv, NEW c \in Client, Step(c) \/ Cancelled(c), UNCHANGED asked, Free(c) \/ Rollback(c)
  PROVE  Locked'
<1> SUFFICES ASSUME maxInstances > 0
             PROVE  /\ \A d \in Client : Gated(d)' => <<"advisory", Mine(d)>> \in held'[d]
                    /\ \A d, e \in Client : (Gated(d)' /\ Gated(e)' /\ d # e) => Mine(d) # Mine(e)
  BY DEF Locked, Mine
<1>1. Alone(c) /\ (Other(c) \/ (Op(c) = Create /\ Moves(c)) \/ Commits(c))
  BY Kinds
<1>2. Locked /\ Placed
  BY DEF IInv
<1>3. \A d \in Client \ {c} : (Gated(d)' <=> Gated(d)) /\ held'[d] = held[d]
  BY <1>1, Zenon DEF Alone, Gated, Op
<1>4. CASE Gated(c)' => Gated(c) /\ held[c] \subseteq held'[c]
  BY <1>2, <1>3, <1>4, Zenon DEF Locked
<1>5. CASE at[c] = "lock" /\ at'[c] = "ensure" /\ <<"advisory", Mine(c)>> \in held'[c] /\ Free(c)
  <2>1. Needs(c) = {<<"advisory", Mine(c)>>}
    BY <1>5, Zenon DEF Needs
  <2>2. \A d \in Client \ {c} : <<"advisory", Mine(c)>> \notin held[d]
    BY <1>5, <2>1, Zenon DEF Free, WaitsFor
  <2>3. \A d \in Client \ {c} : Gated(d) => Mine(d) # Mine(c)
    BY <1>2, <2>2, Zenon DEF Locked
  <2> QED
    BY <1>2, <1>3, <1>5, <2>3, Zenon DEF Locked
<1>6. Rollback(c) => at'[c] = "done"
  BY <1>2, ReturnAlone, Zenon DEF Rollback
<1> QED
  BY <1>1, <1>4, <1>5, <1>6, Zenon DEF Gated, Op, Other, Moves, Commits

\* The row that a create commits is its tenant's alone.
LEMMA CommitCounts ==
  ASSUME Numbered, NEW c \in Client, Commits(c), NEW t
  PROVE  /\ Cardinality(Rows(connector_instances, t)) \in Int
         /\ Cardinality(Rows(connector_instances', t)) \in Int
         /\ t # Mine(c) => Rows(connector_instances', t) = Rows(connector_instances, t)
         /\ Cardinality(Rows(connector_instances', t)) <= Cardinality(Rows(connector_instances, t)) + 1
<1> DEFINE row == [id |-> seen[c][1], t |-> Mine(c), status |-> "ACTIVE"]
<1>1. connector_instances' = connector_instances \cup {row} /\ row.t = Mine(c)
  BY DEF Commits
<1> HIDE DEF row
<1>2. IsFiniteSet(Rows(connector_instances, t))
  BY FS_Subset DEF Numbered, Rows
<1>3. Rows(connector_instances', t) =
         IF t = Mine(c) THEN Rows(connector_instances, t) \cup {row} ELSE Rows(connector_instances, t)
  BY <1>1 DEF Rows
<1> DEFINE before == Rows(connector_instances, t)
           after == Rows(connector_instances', t)
<1> HIDE DEF before, after
<1>4. IsFiniteSet(before) /\ after = IF t = Mine(c) THEN before \cup {row} ELSE before
  BY <1>2, <1>3, Zenon DEF before, after
<1>5. /\ IsFiniteSet(before \cup {row})
      /\ Cardinality(before \cup {row}) =
            IF row \in before THEN Cardinality(before) ELSE Cardinality(before) + 1
  BY <1>4, FS_AddElement, Zenon
<1>6. Cardinality(before) \in Nat /\ Cardinality(before \cup {row}) \in Nat
  BY <1>4, <1>5, FS_CardinalityType, Zenon
<1> QED
  BY <1>4, <1>5, <1>6, SMTT(30) DEF before, after

LEMMA QuotaStep ==
  ASSUME IInv, NEW c \in Client, Step(c) \/ Cancelled(c), UNCHANGED asked
  PROVE  Room' /\ QuotaHeld'
<1> SUFFICES ASSUME maxInstances > 0
             PROVE  /\ \A d \in Client : (Op(d) = Create /\ at'[d] = "commit") =>
                          Cardinality(Rows(connector_instances', Mine(d))) < maxInstances
                    /\ \A t \in Tenant : Cardinality(Rows(connector_instances', t)) <= maxInstances
  BY DEF Room, QuotaHeld, Op, Mine, Rows
<1>1. Alone(c) /\ (Other(c) \/ (Op(c) = Create /\ Moves(c)) \/ Commits(c))
  BY Kinds
<1>2. Room /\ QuotaHeld /\ Locked /\ Numbered
  BY DEF IInv
<1>3. maxInstances \in Int
  BY SeedAssumption, Zenon
<1>4. CASE Other(c)
  <2>1. \A d \in Client : (Op(d) = Create /\ at'[d] = "commit") => at[d] = "commit"
    BY <1>1, <1>4, Zenon DEF Alone, Other
  <2> QED
    BY <1>2, <1>3, <1>4, <2>1, SMTT(30) DEF Other, Fewer, Room, QuotaHeld
<1>5. CASE Op(c) = Create /\ Moves(c)
  <2>1. \A d \in Client : (Op(d) = Create /\ at'[d] = "commit") =>
           at[d] = "commit" \/ (d = c /\ Counted(c))
    BY <1>1, <1>5, Zenon DEF Alone, Moves
  <2>2. IsFiniteSet(Rows(connector_instances, Mine(c)))
    BY <1>2, FS_Subset, Zenon DEF Numbered, Rows
  <2>3. Cardinality(Rows(connector_instances, Mine(c))) \in Int
    BY <2>2, FS_CardinalityType, SMTT(30)
  <2> QED
    BY <1>2, <1>3, <1>5, <2>1, <2>3, SMTT(30) DEF Moves, Counted, Room, QuotaHeld
<1>6. CASE Commits(c)
  <2>1. Gated(c) /\ Cardinality(Rows(connector_instances, Mine(c))) < maxInstances
    BY <1>2, <1>6, Zenon DEF Commits, Room, Gated
  <2>2. \A d \in Client : (Op(d) = Create /\ at'[d] = "commit") => (d # c /\ at[d] = "commit" /\ Gated(d))
    BY <1>1, <1>6, Zenon DEF Alone, Commits, Gated
  <2>3. \A d \in Client : (Op(d) = Create /\ at'[d] = "commit") => Mine(d) # Mine(c)
    BY <1>2, <2>1, <2>2, Zenon DEF Locked
  <2>4. \A d \in Client : (Op(d) = Create /\ at'[d] = "commit") =>
           Cardinality(Rows(connector_instances', Mine(d))) < maxInstances
    BY <1>2, <1>6, <2>2, <2>3, CommitCounts, Zenon DEF Room
  <2>5. \A t \in Tenant : Cardinality(Rows(connector_instances', t)) <= maxInstances
    BY <1>2, <1>3, <1>6, <2>1, CommitCounts, SMTT(30) DEF QuotaHeld
  <2> QED
    BY <2>4, <2>5, Zenon
<1> QED
  BY <1>1, <1>4, <1>5, <1>6, Zenon

LEMMA NumberedStep ==
  ASSUME IInv, NEW c \in Client, Step(c) \/ Cancelled(c)
  PROVE  Numbered'
<1>1. Other(c) \/ (Op(c) = Create /\ Moves(c)) \/ Commits(c)
  BY Kinds
<1>2. Numbered /\ FreshIds
  BY Zenon DEF IInv
<1>3. CASE Other(c)
  <2>1. \A r \in connector_instances' : IsRow(r) /\ r.id \in Int /\ r.id <= stamp
    BY <1>2, <1>3, Zenon DEF Other, Fewer, Numbered
  <2>2. \A r, s \in connector_instances' : r.id = s.id => r.t = s.t
    BY <1>2, <1>3, SMTT(30) DEF Other, Fewer, Numbered
  <2> QED
    BY <1>2, <1>3, <2>1, <2>2, Zenon DEF Other, Fewer, Numbered, IsRow
<1>4. CASE Moves(c)
  BY <1>2, <1>4, SMTT(30) DEF Moves, Numbered, IsRow
<1>5. CASE Commits(c)
  <2> DEFINE row == [id |-> seen[c][1], t |-> Mine(c), status |-> "ACTIVE"]
  <2>1. connector_instances' = connector_instances \cup {row} /\ stamp' = stamp
    BY <1>5, Zenon DEF Commits
  <2>2. /\ row.id \in Int /\ row.id <= stamp /\ IsRow(row)
        /\ \A r \in connector_instances : r.id # row.id
    BY <1>2, <1>5, Zenon DEF Commits, FreshIds, Pending, IsRow
  <2> HIDE DEF row
  <2>3. IsFiniteSet(connector_instances')
    BY <1>2, <2>1, FS_AddElement, Zenon DEF Numbered
  <2> QED
    BY <1>2, <2>1, <2>2, <2>3, Zenon DEF Numbered, IsRow
<1> QED
  BY <1>1, <1>3, <1>4, <1>5, Zenon

LEMMA FreshIdsStep ==
  ASSUME IInv, NEW c \in Client, Step(c) \/ Cancelled(c), UNCHANGED asked
  PROVE  FreshIds'
<1>1. Alone(c) /\ (Other(c) \/ (Op(c) = Create /\ Moves(c)) \/ Commits(c))
  BY Kinds
<1>2. FreshIds /\ Numbered /\ Placed
  BY Zenon DEF IInv
<1>3. \A d \in Client \ {c} : (Pending(d)' <=> Pending(d)) /\ seen'[d] = seen[d]
  BY <1>1, Zenon DEF Alone, Pending, Op
<1>4. CASE Other(c)
  <2>1. ~Pending(c)'
    BY <1>4, Zenon DEF Other, Pending, Op
  <2>2. \A d \in Client : Pending(d)' => d # c /\ Pending(d) /\ seen'[d] = seen[d]
    BY <1>3, <2>1, Zenon
  <2>3. stamp' = stamp /\ \A r \in connector_instances' : \E s \in connector_instances : r.id = s.id
    BY <1>4, Zenon DEF Other, Fewer
  <2> QED
    BY <1>2, <2>2, <2>3, SMTT(30) DEF FreshIds
<1>5. CASE Op(c) = Create /\ Moves(c)
  <2>1. CASE Pending(c)' => (Pending(c) /\ seen'[c] = seen[c] /\ stamp' = stamp)
    <3>1. stamp' \in Int /\ stamp <= stamp' /\ connector_instances' = connector_instances
      BY <1>2, <1>5, SMTT(30) DEF Moves, Numbered
    <3> QED
      BY <1>2, <1>3, <2>1, <3>1, SMTT(30) DEF FreshIds, Numbered
  <2>2. CASE stamp' = stamp + 1 /\ seen'[c] = <<stamp + 1>>
    <3>1. connector_instances' = connector_instances /\ stamp \in Int /\ seen'[c][1] = stamp + 1
      BY <1>2, <1>5, <2>2, SMTT(30) DEF Moves, Numbered
    <3>2. \A r \in connector_instances : r.id # stamp + 1
      BY <1>2, SMTT(30) DEF Numbered
    <3>3. \A d \in Client \ {c} : Pending(d) => seen[d][1] \in Int /\ seen[d][1] <= stamp
      BY <1>2, Zenon DEF FreshIds
    <3> QED
      BY <1>2, <1>3, <2>2, <3>1, <3>2, <3>3, SMTT(30) DEF FreshIds
  <2> QED
    BY <1>5, <2>1, <2>2, Zenon DEF Moves, Pending, Op
<1>6. CASE Commits(c)
  <2>1. ~Pending(c)' /\ Pending(c)
    BY <1>6, Zenon DEF Commits, Pending, Op
  <2>2. \A d \in Client : Pending(d)' => d # c /\ Pending(d) /\ seen'[d] = seen[d]
    BY <1>3, <2>1, Zenon
  <2>3. stamp' = stamp /\ \A r \in connector_instances' : r \in connector_instances \/ r.id = seen[c][1]
    BY <1>6, SMTT(30) DEF Commits
  <2> QED
    BY <1>2, <2>1, <2>2, <2>3, SMTT(30) DEF FreshIds
<1> QED
  BY <1>1, <1>4, <1>5, <1>6, Zenon

LEMMA OwnIdsStep ==
  ASSUME IInv, NEW c \in Client, Step(c) \/ Cancelled(c), UNCHANGED asked
  PROVE  OwnIds'
<1>1. Alone(c) /\ (Other(c) \/ (Op(c) = Create /\ Moves(c)) \/ Commits(c))
  BY Kinds
<1>2. FreshIds /\ Numbered /\ OwnIds /\ Placed
  BY Zenon DEF IInv
<1>3. \A d \in Client \ {c} : /\ (Pending(d)' <=> Pending(d)) /\ seen'[d] = seen[d]
                              /\ (Relies(d)' <=> Relies(d))
  BY <1>1, Zenon DEF Alone, Pending, Relies, Op
<1> SUFFICES ASSUME NEW e \in Client, Relies(e)'
             PROVE  /\ Instance(e) \in Int /\ Instance(e) <= stamp'
                    /\ \A r \in connector_instances' : r.id = Instance(e) => r.t = Mine(e)
                    /\ \A d \in Client : Pending(d)' => seen'[d][1] # Instance(e)
  BY Zenon DEF OwnIds, Instance, Mine
<1>4. CASE Other(c) /\ Relies(e)
  <2>1. ~Pending(c)'
    BY <1>4, Zenon DEF Other, Pending, Op
  <2> QED
    BY <1>2, <1>3, <1>4, <2>1, SMTT(30) DEF Other, Fewer, OwnIds
<1>5. CASE Other(c) /\ ~Relies(e)
  <2>1. e = c /\ owned(c) # {} /\ UNCHANGED <<connector_instances, stamp>> /\ ~Pending(c)'
    BY <1>3, <1>5, Zenon DEF Other, Relies, Pending, Op
  <2>2. PICK r \in connector_instances : r.id = Instance(c) /\ r.t = Mine(c)
    BY <2>1, Zenon DEF owned, Rows, WithId
  <2> QED
    BY <1>2, <1>3, <2>1, <2>2, SMTT(30) DEF Numbered, FreshIds
<1>6. CASE Op(c) = Create /\ Moves(c)
  <2>1. e # c /\ Relies(e)
    BY <1>3, <1>6, Zenon DEF Moves, Relies
  <2>2. connector_instances' = connector_instances /\ stamp \in Int /\ stamp' \in Int /\ stamp <= stamp'
    BY <1>2, <1>6, SMTT(30) DEF Moves, Numbered
  <2>3. Pending(c)' => \/ Pending(c) /\ seen'[c] = seen[c]
                       \/ seen'[c][1] = stamp + 1
    BY <1>6, SMTT(30) DEF Moves, Pending, Op
  <2> QED
    BY <1>2, <1>3, <2>1, <2>2, <2>3, SMTT(30) DEF OwnIds
<1>7. CASE Commits(c)
  <2>1. e # c /\ Relies(e) /\ Pending(c) /\ ~Pending(c)'
    BY <1>3, <1>7, Zenon DEF Commits, Relies, Pending, Op
  <2>2. stamp' = stamp /\ \A r \in connector_instances' : r \in connector_instances \/ r.id = seen[c][1]
    BY <1>7, SMTT(30) DEF Commits
  <2> QED
    BY <1>2, <1>3, <2>1, <2>2, Zenon DEF OwnIds
<1> QED
  BY <1>1, <1>4, <1>5, <1>6, <1>7, SMTT(30)

-----------------------------------------------------------------------------
(* What a statement does to the other tables.                                *)

Foreign(T, t) == {r \in T : r.t # t}

\* The two conjuncts of NoOrphans, and what the caller's statement spares.
HasParent == \A r \in sync_states \cup tokens :
                \E i \in connector_instances : i.id = r.id /\ i.t = r.t
HasTenant == /\ \A r \in connector_instances : r.t \in tenants
             /\ \A r \in user_preferences : r.t \in tenants
             /\ \A r \in learned_weights : r.t \in tenants
             /\ \A r \in feedback_events : r.t \in tenants
Spared(t) == /\ tenants' \ {t} = tenants \ {t}
             /\ Foreign(connector_instances', t) = Foreign(connector_instances, t)
             /\ Foreign(sync_states', t) = Foreign(sync_states, t)
             /\ Foreign(tokens', t) = Foreign(tokens, t)
             /\ Foreign(user_preferences', t) = Foreign(user_preferences, t)
             /\ Foreign(learned_weights', t) = Foreign(learned_weights, t)
             /\ Foreign(feedback_events', t) = Foreign(feedback_events, t)

LEMMA NoOrphansIs == NoOrphans <=> HasParent /\ HasTenant
BY Zenon DEF NoOrphans, HasParent, HasTenant

\* All rows that carry an id which c relies on are its tenant's.
LEMMA RowsOfId ==
  ASSUME IInv, NEW c \in Client, Relies(c)
  PROVE  \A r \in connector_instances \cup sync_states \cup tokens : r.id = Instance(c) => r.t = Mine(c)
BY NoOrphansIs, Zenon DEF IInv, OwnIds, HasParent

LEMMA TablesSame ==
  ASSUME HasParent, HasTenant, UNCHANGED tables, NEW t
  PROVE  HasParent' /\ HasTenant' /\ Spared(t)
BY DEF HasParent, HasTenant, Spared, Foreign, tables

LEMMA InstanceStatements ==
  ASSUME IInv, NEW c \in Client,
         \/ SetTenantConnectorStatus(c) \/ SetSyncState(c) \/ PutToken(c) \/ Cascade(c)
         \/ DeleteToken(c) \/ CreateConnectorInstance(c)
  PROVE  HasParent' /\ HasTenant' /\ Spared(Mine(c))
<1>1. HasParent /\ HasTenant /\ Numbered
  BY NoOrphansIs, Zenon DEF IInv
<1>2. CASE SetTenantConnectorStatus(c)
  <2> DEFINE f == [r \in connector_instances |->
                      IF r.t = Mine(c) THEN Marked(r, asked[c].arg) ELSE r]
  <2>1. connector_instances' = {f[r] : r \in connector_instances}
    BY <1>1, <1>2, StatusRows, Zenon
  <2>2. \A r \in connector_instances : /\ f[r].id = r.id /\ f[r].t = r.t
                                       /\ r.t # Mine(c) => f[r] = r
    BY DEF Marked
  <2>3. UNCHANGED <<tenants, sync_states, tokens, user_preferences, learned_weights, feedback_events>>
    BY <1>2, Zenon DEF SetTenantConnectorStatus
  <2> HIDE DEF f
  <2>4. HasParent' /\ HasTenant'
    BY <1>1, <2>1, <2>2, <2>3, SMTT(30) DEF HasParent, HasTenant
  <2>5. Foreign(connector_instances', Mine(c)) = Foreign(connector_instances, Mine(c))
    BY <2>1, <2>2, SMTT(30) DEF Foreign
  <2> QED
    BY <2>3, <2>4, <2>5, Zenon DEF Spared
<1>3. CASE SetSyncState(c)
  <2>1. Relies(c)
    BY <1>3, Zenon DEF SetSyncState, Relies
  <2>2. \A r \in connector_instances \cup sync_states : r.id = Instance(c) => r.t = Mine(c)
    BY <2>1, RowsOfId, Zenon
  <2>3. UNCHANGED <<tenants, connector_instances, tokens, user_preferences, learned_weights, feedback_events>>
    BY <1>3, ZenonT(30) DEF SetSyncState, ParentGone
  <2>4. \/ sync_states' = sync_states
        \/ /\ \E i \in connector_instances : i.id = Instance(c)
           /\ \E row : /\ row.id = Instance(c) /\ row.t = Mine(c)
                       /\ sync_states' = (sync_states \ WithId(sync_states, Instance(c))) \cup {row}
    BY <1>3, Zenon DEF SetSyncState, ParentGone, WithId
  <2> QED
    BY <1>1, <2>2, <2>3, <2>4, ZenonT(30) DEF HasParent, HasTenant, Spared, Foreign, WithId
<1>4. CASE PutToken(c)
  <2>1. Relies(c)
    BY <1>4, Zenon DEF PutToken, Relies
  <2>2. \A r \in connector_instances \cup tokens : r.id = Instance(c) => r.t = Mine(c)
    BY <2>1, RowsOfId, Zenon
  <2>3. UNCHANGED <<tenants, connector_instances, sync_states, user_preferences, learned_weights, feedback_events>>
    BY <1>4 DEF PutToken, ParentGone
  <2>4. \/ tokens' = tokens
        \/ /\ \E i \in connector_instances : i.id = Instance(c)
           /\ \E row : /\ row.id = Instance(c) /\ row.t = Mine(c)
                       /\ tokens' = (tokens \ WithId(tokens, Instance(c))) \cup {row}
    BY <1>4, ZenonT(30) DEF PutToken, ParentGone, WithId
  <2> QED
    BY <1>1, <2>2, <2>3, <2>4, ZenonT(30) DEF HasParent, HasTenant, Spared, Foreign, WithId
<1>5. CASE Cascade(c)
  <2>1. Relies(c)
    BY <1>5, Zenon DEF Cascade, Relies
  <2> QED
    BY <1>1, <1>5, <2>1, RowsOfId, ZenonT(30) DEF Cascade, HasParent, HasTenant, Spared, Foreign, WithId
<1>6. CASE DeleteToken(c)
  BY <1>1, <1>6, Zenon DEF DeleteToken, HasParent, HasTenant, Spared, Foreign, WithId, Rows
<1>7. CASE CreateConnectorInstance(c)
  <2>1. PICK row \in connector_instances' :
            row.t = Mine(c) /\ connector_instances' = connector_instances \cup {row}
    BY <1>7, ZenonT(30) DEF CreateConnectorInstance
  <2>2. tenants' = tenants \cup {Mine(c)}
    BY <1>7, Zenon DEF CreateConnectorInstance, Register
  <2>3. UNCHANGED <<sync_states, tokens, user_preferences, learned_weights, feedback_events>>
    BY <1>7, Zenon DEF CreateConnectorInstance
  <2>4. HasParent' /\ HasTenant'
    BY <1>1, <2>1, <2>2, <2>3, Zenon DEF HasParent, HasTenant
  <2> QED
    BY <2>1, <2>2, <2>3, <2>4, Zenon DEF Spared, Foreign
<1> QED
  BY <1>2, <1>3, <1>4, <1>5, <1>6, <1>7, SMTT(30)

LEMMA TenantStatements ==
  ASSUME IInv, NEW c \in Client,
         \/ EnsureTenant(c) \/ AppendFeedback(c) \/ InsertFeedback(c) \/ PutPreferences(c)
         \/ UpdateLearnedWeights(c) \/ ResetFeedback(c) \/ PurgeTenant(c)
  PROVE  HasParent' /\ HasTenant' /\ Spared(Mine(c))
<1>1. HasParent /\ HasTenant
  BY NoOrphansIs, Zenon DEF IInv
<1> USE <1>1 DEF HasParent, HasTenant, Spared, Foreign, Rows, Register
<1>2. CASE EnsureTenant(c) \/ AppendFeedback(c)
  BY <1>2, ZenonT(30) DEF EnsureTenant, AppendFeedback
<1>3. CASE InsertFeedback(c)
  <2>1. /\ UNCHANGED <<tenants, connector_instances, sync_states, tokens, user_preferences, learned_weights>>
        /\ \/ feedback_events' = feedback_events
           \/ /\ Mine(c) \in tenants
              /\ feedback_events' = feedback_events \cup {[t |-> Mine(c), event |-> c]}
    BY <1>3, ZenonT(30) DEF InsertFeedback
  <2>2. HasParent'
    BY <2>1, Zenon
  <2>3. HasTenant'
    BY <2>1, SMTT(30)
  <2>4. Spared(Mine(c))
    BY <2>1, SMTT(30)
  <2> QED
    BY <2>2, <2>3, <2>4, ZenonT(30)
<1>4. CASE PutPreferences(c)
  <2>1. /\ UNCHANGED <<connector_instances, sync_states, tokens, learned_weights, feedback_events>>
        /\ tenants' = tenants \cup {Mine(c)}
        /\ user_preferences' = (user_preferences \ Rows(user_preferences, Mine(c)))
                               \cup {[t |-> Mine(c), version |-> seen[c][1]]}
    BY <1>4, ZenonT(30) DEF PutPreferences
  <2>2. HasParent'
    BY <2>1, Zenon
  <2>3. HasTenant'
    BY <2>1, SMTT(30)
  <2>4. Spared(Mine(c))
    BY <2>1, SMTT(30)
  <2> QED
    BY <2>2, <2>3, <2>4, Zenon
<1>5. CASE UpdateLearnedWeights(c)
  <2>1. /\ UNCHANGED <<connector_instances, sync_states, tokens, user_preferences, feedback_events>>
        /\ tenants' = tenants \cup {Mine(c)}
        /\ learned_weights' = (learned_weights \ Rows(learned_weights, Mine(c)))
                              \cup {[t |-> Mine(c), samples |-> seen[c][1] + 1]}
    BY <1>5, ZenonT(30) DEF UpdateLearnedWeights
  <2>2. HasParent'
    BY <2>1, Zenon
  <2>3. HasTenant'
    BY <2>1, SMTT(30)
  <2>4. Spared(Mine(c))
    BY <2>1
  <2> QED
    BY <2>2, <2>3, <2>4, Zenon
<1>6. CASE ResetFeedback(c)
  BY <1>6, Zenon DEF ResetFeedback
<1>7. CASE PurgeTenant(c)
  BY <1>7, ZenonT(30) DEF PurgeTenant
<1> QED
  BY <1>2, <1>3, <1>4, <1>5, <1>6, <1>7, Zenon

LEMMA Touches ==
  ASSUME IInv, NEW c \in Client, Step(c) \/ Cancelled(c)
  PROVE  NoOrphans' /\ Spared(Mine(c))
<1>1. ASSUME UNCHANGED tables PROVE HasParent' /\ HasTenant' /\ Spared(Mine(c))
  BY <1>1, TablesSame, NoOrphansIs, Zenon DEF IInv
<1>2. (HasParent' /\ HasTenant') => NoOrphans'
  BY DEF NoOrphans, HasParent, HasTenant
<1>3. CASE Rollback(c)
  BY <1>1, <1>2, <1>3, Zenon DEF Rollback
<1>4. CASE Refuse(c) \/ Read(c) \/ ReadInstance(c) \/ ListTenants(c) \/ DeleteConnectorInstance(c)
  BY <1>1, <1>2, <1>4, Zenon DEF Refuse, Read, ReadInstance, ListTenants, DeleteConnectorInstance
<1>5. CASE BeginCreate(c) \/ Lock(c) \/ Ensure(c) \/ InsertInstance(c) \/ UpsertPreferences(c)
  BY <1>1, <1>2, <1>5, Zenon DEF BeginCreate, Lock, Ensure, InsertInstance, UpsertPreferences
<1>6. CASE EnsureWeights(c) \/ ReadWeights(c) \/ ResetLearning(c) \/ GetPreferences(c)
           \/ GetPersonalization(c)
  BY <1>1, <1>2, <1>6, ZenonT(30)
     DEF EnsureWeights, ReadWeights, ResetLearning, GetPreferences, GetPersonalization
<1>7. CASE PurgeTokens(c) \/ PurgeSyncStates(c) \/ PurgePersonalization(c) \/ PurgeInstances(c)
  BY <1>1, <1>2, <1>7, Zenon DEF PurgeTokens, PurgeSyncStates, PurgePersonalization, PurgeInstances
<1> QED
  BY <1>2, <1>3, <1>4, <1>5, <1>6, <1>7, InstanceStatements, TenantStatements, Zenon
     DEF Step, Cancelled, DeadlockVictim, Statement

-----------------------------------------------------------------------------
(* The initial rows.                                                         *)

\* Every row of a seed is tenant 1's, and hangs on instance 1.
LEMMA SeedRows ==
  ASSUME NEW d \in Contract!Seeds
  PROVE  /\ \A i \in Id : d.inst[i] # {} => i \in {1, 2}
         /\ \A i \in Id : d.inst[i] # {} =>
               \E s \in {"ACTIVE", "PAUSED"} : d.inst[i] = {[t |-> 1, status |-> s]}
         /\ d.inst[2] # {} => d.inst[1] # {} /\ maxInstances # 1
         /\ \A i \in Id : (d.sync[i] # {} \/ d.token[i] # {}) => i = 1 /\ d.inst[1] # {}
         /\ \A i \in Id : \A r \in d.sync[i] \cup d.token[i] : r.t = 1
         /\ \A t \in Tenant : (d.prefs[t] # {} \/ d.weights[t] # {} \/ d.feedback[t] # {}) =>
                                 t = 1 /\ d.inst[1] # {}
         /\ d.inst[1] # {} => 1 \in d.tenants
<1>1. 1 \in Id /\ 2 \in Id /\ 1 \in Tenant
  BY SeedAssumption, Zenon
<1>2. CASE d = Contract!NoRows
  BY <1>1, <1>2, Zenon DEF Contract!NoRows, Contract!Empty
<1>3. ASSUME d = Contract!Busy \/ d = Contract!Full
      PROVE  /\ \A i \in Id : d.sync[i] # {} => i = 1
             /\ \A i \in Id : d.token[i] # {} => i = 1
             /\ \A i \in Id : \A r \in d.sync[i] \cup d.token[i] : r.t = 1
             /\ 1 \in d.tenants
  BY <1>1, <1>3, SMTT(30) DEF Contract!Busy, Contract!Full, Contract!Only, Contract!Synced
<1>4. CASE d = Contract!Busy
  <2>1. /\ \A i \in Id : d.inst[i] = IF i = 1 THEN {[t |-> 1, status |-> "ACTIVE"]} ELSE {}
        /\ \A t \in Tenant : (d.prefs[t] # {} \/ d.weights[t] # {} \/ d.feedback[t] # {}) => t = 1
    BY <1>4, Zenon DEF Contract!Busy, Contract!Row, Contract!Only
  <2> DEFINE row == [t |-> 1, status |-> "ACTIVE"]
  <2>2. d.inst[1] = {row} /\ \A i \in Id : i # 1 => d.inst[i] = {}
    BY <1>1, <2>1, Zenon
  <2> HIDE DEF row
  <2>3. \A i \in Id : d.inst[i] # {} => i = 1 /\ d.inst[i] = {row}
    BY <2>2, Zenon
  <2>4. d.inst[2] = {} /\ d.inst[1] # {}
    BY <1>1, <2>2, SMTT(30)
  <2>5. /\ \A i \in Id : d.inst[i] # {} => i = 1 /\ d.inst[i] = {[t |-> 1, status |-> "ACTIVE"]}
        /\ d.inst[2] = {} /\ d.inst[1] # {}
    BY <2>3, <2>4, Zenon DEF row
  <2>6. /\ \A i \in Id : d.sync[i] # {} => i = 1
        /\ \A i \in Id : d.token[i] # {} => i = 1
        /\ \A i \in Id : \A r \in d.sync[i] \cup d.token[i] : r.t = 1
        /\ 1 \in d.tenants
    BY <1>3, <1>4, Zenon
  <2> QED
    BY <2>1, <2>5, <2>6, Zenon
<1>5. CASE d = Contract!Full /\ maxInstances # 1
  <2>1. /\ \A i \in Id : d.inst[i] = IF i = 1 THEN {[t |-> 1, status |-> "PAUSED"]}
                                     ELSE IF i = 2 THEN {[t |-> 1, status |-> "ACTIVE"]} ELSE {}
        /\ \A t \in Tenant : d.prefs[t] = {} /\ d.weights[t] = {} /\ d.feedback[t] = {}
    BY <1>5, Zenon DEF Contract!Full, Contract!Row, Contract!Empty
  <2> QED
    BY <1>1, <1>3, <1>5, <2>1, ZenonT(30)
<1>6. d = Contract!NoRows \/ d = Contract!Busy \/ (d = Contract!Full /\ maxInstances # 1)
  BY DEF Contract!Seeds
<1> QED
  BY <1>2, <1>4, <1>5, <1>6, Zenon

LEMMA InitIInv == Init => IInv
<1> SUFFICES ASSUME Init PROVE IInv
  OBVIOUS
<1>1. PICK d \in Contract!Seeds :
         /\ tenants = d.tenants
         /\ connector_instances = UNION {{[id |-> i, t |-> r.t, status |-> r.status] :
                                             r \in d.inst[i]} : i \in Id}
         /\ sync_states = UNION {{[id |-> i, t |-> r.t, phase |-> r.phase, docs |-> r.docs] :
                                     r \in d.sync[i]} : i \in Id}
         /\ tokens = UNION {{[id |-> i, t |-> r.t] : r \in d.token[i]} : i \in Id}
         /\ user_preferences = UNION {{[t |-> t, version |-> v] : v \in d.prefs[t]} : t \in Tenant}
         /\ learned_weights = UNION {{[t |-> t, samples |-> n] : n \in d.weights[t]} : t \in Tenant}
         /\ feedback_events = UNION {{[t |-> t, event |-> e] : e \in d.feedback[t]} : t \in Tenant}
         /\ stamp = Cardinality({i \in Id : d.inst[i] # {}})
  BY ZenonT(30) DEF Init
<1> DEFINE used == {i \in Id : d.inst[i] # {}}
           row(i, s) == [id |-> i, t |-> 1, status |-> s]
<1>2. /\ at = [c \in Client |-> "new"] /\ held = [c \in Client |-> {}]
      /\ seen = [c \in Client |-> <<>>]
  BY ZenonT(30) DEF Init
<1>3. Placed /\ Locked /\ Room /\ FreshIds /\ OwnIds
  BY <1>2, Zenon DEF Placed, Locked, Room, FreshIds, OwnIds, Gated, Pending, Relies
<1>4. 1 \in Id /\ 2 \in Id /\ used \subseteq {1, 2} /\ (2 \in used => 1 \in used /\ maxInstances # 1)
  <2>1. 1 \in Id /\ 2 \in Id
    BY SeedAssumption, Zenon
  <2>2. /\ \A i \in Id : d.inst[i] # {} => i \in {1, 2}
        /\ d.inst[2] # {} => d.inst[1] # {} /\ maxInstances # 1
    BY SeedRows, Zenon
  <2> QED
    BY <2>1, <2>2, Zenon
<1>5. \A i \in used : \E s \in {"ACTIVE", "PAUSED"} : d.inst[i] = {[t |-> 1, status |-> s]}
  <2> SUFFICES ASSUME NEW i \in Id, d.inst[i] # {}
               PROVE  \E s \in {"ACTIVE", "PAUSED"} : d.inst[i] = {[t |-> 1, status |-> s]}
    BY Zenon
  <2> QED
    BY SeedRows, SMTT(30)
<1>6. \A i \in Id : \A s : d.inst[i] = {[t |-> 1, status |-> s]} =>
         {[id |-> i, t |-> r.t, status |-> r.status] : r \in d.inst[i]} = {row(i, s)}
  BY SMTT(30)
<1>7. PICK s1, s2 : connector_instances \subseteq {row(1, s1), row(2, s2)}
                    /\ \A i \in used : row(i, IF i = 1 THEN s1 ELSE s2) \in connector_instances
  <2>1. PICK s1 \in {"ACTIVE", "PAUSED"} : 1 \in used => d.inst[1] = {[t |-> 1, status |-> s1]}
    BY <1>5, Zenon
  <2>2. PICK s2 \in {"ACTIVE", "PAUSED"} : 2 \in used => d.inst[2] = {[t |-> 1, status |-> s2]}
    BY <1>5, Zenon
  <2>3. \A i \in Id \ used : {[id |-> i, t |-> r.t, status |-> r.status] : r \in d.inst[i]} = {}
    BY Zenon
  <2>4. \A i \in used : {[id |-> i, t |-> r.t, status |-> r.status] : r \in d.inst[i]}
                         = {row(i, IF i = 1 THEN s1 ELSE s2)}
    <3> SUFFICES ASSUME NEW i \in used
                 PROVE  {[id |-> i, t |-> r.t, status |-> r.status] : r \in d.inst[i]}
                          = {row(i, IF i = 1 THEN s1 ELSE s2)}
      BY Zenon
    <3>1. CASE i = 1
      BY <1>6, <2>1, <3>1, Zenon
    <3>2. CASE i = 2
      BY <1>6, <2>2, <3>2, SMTT(30)
    <3> QED
      BY <1>4, <3>1, <3>2, Zenon
  <2> HIDE DEF row
  <2>5. connector_instances \subseteq {row(1, s1), row(2, s2)}
    BY <1>1, <1>4, <2>3, <2>4, SMTT(30)
  <2>6. \A i \in used : row(i, IF i = 1 THEN s1 ELSE s2) \in connector_instances
    <3> SUFFICES ASSUME NEW i \in used
                 PROVE  row(i, IF i = 1 THEN s1 ELSE s2) \in connector_instances
      BY Zenon
    <3>1. row(i, IF i = 1 THEN s1 ELSE s2) \in
             {[id |-> i, t |-> r.t, status |-> r.status] : r \in d.inst[i]}
      BY <2>4, Zenon
    <3> QED
      BY <1>1, <3>1, ZenonT(30)
  <2> QED
    BY <2>5, <2>6, Zenon
<1>8. \A r \in connector_instances : r.id \in used
  BY <1>1, SMTT(30)
<1>9. stamp \in Int /\ \A i \in used : i <= stamp
  <2>1. stamp = Cardinality(used)
    BY <1>1, Zenon
  <2> HIDE DEF used
  <2>2. CASE used = {}
    <3>1. Cardinality({}) = 0
      BY FS_EmptySet, Zenon
    <3> QED
      BY <2>1, <2>2, <3>1, SMTT(30)
  <2>3. CASE used = {1}
    <3>1. Cardinality({1}) = 1
      BY FS_Singleton, Zenon
    <3> QED
      BY <2>1, <2>3, <3>1, SMTT(30)
  <2>4. CASE used = {1, 2}
    <3>1. used = {1} \cup {2} /\ 2 \notin {1}
      BY <2>4, SMTT(30)
    <3>2. IsFiniteSet({1}) /\ Cardinality({1}) = 1
      BY FS_Singleton, Zenon
    <3> QED
      BY <2>1, <3>1, <3>2, FS_AddElement, SMTT(30)
  <2> QED
    BY <1>4, <2>2, <2>3, <2>4, Zenon
<1>10. /\ IsFiniteSet({row(1, s1), row(2, s2)})
       /\ Cardinality({row(1, s1), row(2, s2)}) <= 2
  <2> HIDE DEF row
  <2>1. {row(1, s1), row(2, s2)} = {row(1, s1)} \cup {row(2, s2)}
    OBVIOUS
  <2>2. IsFiniteSet({row(1, s1)}) /\ Cardinality({row(1, s1)}) = 1
    BY FS_Singleton, ZenonT(30)
  <2> QED
    BY <2>1, <2>2, FS_AddElement, SMTT(30)
<1>11. Numbered
  <2>1. IsFiniteSet(connector_instances)
    BY <1>7, <1>10, FS_Subset, Zenon
  <2>2. \A r \in connector_instances : IsRow(r) /\ r.id \in Int /\ r.t = 1
    BY <1>7, SMTT(30) DEF IsRow
  <2> QED
    BY <1>8, <1>9, <2>1, <2>2, Zenon DEF Numbered
<1>12. QuotaHeld
  <2> SUFFICES ASSUME maxInstances > 0, NEW t \in Tenant
               PROVE  Cardinality(Rows(connector_instances, t)) <= maxInstances
    BY Zenon DEF QuotaHeld
  <2> DEFINE room == IF maxInstances = 1 THEN {row(1, s1)} ELSE {row(1, s1), row(2, s2)}
             mine == Rows(connector_instances, t)
  <2>1. mine \in SUBSET room
    <3>1. maxInstances = 1 => \A r \in connector_instances : r.id # 2
      BY <1>4, <1>8, Zenon
    <3> QED
      BY <1>7, <3>1, SMTT(30) DEF Rows
  <2> HIDE DEF row
  <2>2. IsFiniteSet(room) /\ Cardinality(room) <= maxInstances
    <3>1. IsFiniteSet({row(1, s1)}) /\ Cardinality({row(1, s1)}) = 1
      BY FS_Singleton, Zenon
    <3>2. maxInstances \in Int /\ Cardinality({row(1, s1), row(2, s2)}) \in Nat
      BY <1>10, FS_CardinalityType, SeedAssumption, Zenon
    <3> QED
      BY <1>10, <3>1, <3>2, SMTT(30)
  <2> HIDE DEF room, mine
  <2>3. Cardinality(mine) <= Cardinality(room) /\ IsFiniteSet(mine)
    BY <2>1, <2>2, FS_Subset, Zenon
  <2>4. Cardinality(mine) \in Nat /\ Cardinality(room) \in Nat
    BY <2>2, <2>3, FS_CardinalityType, Zenon
  <2> QED
    BY <2>2, <2>3, <2>4, SeedAssumption, SMTT(30) DEF mine
<1>13. HasParent
  <2>1. \A r \in sync_states \cup tokens : r.id = 1 /\ r.t = 1 /\ 1 \in used
    <3>1. /\ \A i \in Id : (d.sync[i] # {} \/ d.token[i] # {}) => i = 1 /\ d.inst[1] # {}
          /\ \A i \in Id : \A r \in d.sync[i] \cup d.token[i] : r.t = 1
      BY SeedRows, Zenon
    <3>2. \A r \in sync_states : \E i \in Id : \E u \in d.sync[i] : r.id = i /\ r.t = u.t
      BY <1>1, SMTT(30)
    <3>3. \A r \in tokens : \E i \in Id : \E u \in d.token[i] : r.id = i /\ r.t = u.t
      BY <1>1, SMTT(30)
    <3> QED
      BY <1>4, <3>1, <3>2, <3>3, SMTT(30)
  <2>2. 1 \in used => row(1, s1) \in connector_instances
    BY <1>7, Zenon
  <2> QED
    BY <2>1, <2>2, Zenon DEF HasParent
<1>14. HasTenant
  <2>1. 1 \in used => 1 \in tenants
    BY <1>1, SeedRows, ZenonT(30)
  <2>2. \A r \in user_preferences \cup learned_weights \cup feedback_events : r.t = 1 /\ 1 \in used
    <3>1. \A t \in Tenant : (d.prefs[t] # {} \/ d.weights[t] # {} \/ d.feedback[t] # {}) => t = 1 /\ d.inst[1] # {}
      BY SeedRows, Zenon
    <3>2. \A r \in user_preferences : \E t \in Tenant : d.prefs[t] # {} /\ r.t = t
      BY <1>1, SMTT(30)
    <3>3. \A r \in learned_weights : \E t \in Tenant : d.weights[t] # {} /\ r.t = t
      BY <1>1, SMTT(30)
    <3>4. \A r \in feedback_events : \E t \in Tenant : d.feedback[t] # {} /\ r.t = t
      BY <1>1, SMTT(30)
    <3> QED
      BY <1>4, <3>1, <3>2, <3>3, <3>4, SMTT(30)
  <2>3. \A r \in connector_instances : r.t = 1 /\ 1 \in used
    BY <1>4, <1>7, <1>8, SMTT(30)
  <2> QED
    BY <2>1, <2>2, <2>3, Zenon DEF HasTenant
<1> QED
  BY <1>3, <1>11, <1>12, <1>13, <1>14, NoOrphansIs, SMTT(30) DEF IInv

-----------------------------------------------------------------------------
(* The theorems.                                                             *)

LEMMA StepIInv == ASSUME IInv, [Next]_vars PROVE IInv'
<1>1. CASE UNCHANGED vars
  <2>1. UNCHANGED <<tenants, connector_instances, sync_states, tokens, user_preferences>>
    BY <1>1, Zenon DEF vars, tables
  <2>2. UNCHANGED <<learned_weights, feedback_events, asked, at, held, seen, stamp>>
    BY <1>1, Zenon DEF vars, tables, session
  <2>3. (Placed /\ Locked /\ Room /\ QuotaHeld)'
    BY <2>1, <2>2, Zenon DEF IInv, Placed, Locked, Room, QuotaHeld, Gated, Op, Mine, Rows
  <2>4. (Numbered /\ FreshIds /\ OwnIds)'
    BY <2>1, <2>2, Zenon DEF IInv, Numbered, FreshIds, OwnIds, Pending, Relies, Op, Mine, Instance, IsRow
  <2>5. NoOrphans'
    BY <2>1, <2>2, Zenon DEF IInv, NoOrphans
  <2> QED
    BY <2>3, <2>4, <2>5, Zenon DEF IInv
<1>2. CASE Next
  <2>1. PICK c \in Client : Step(c) \/ Cancelled(c)
    BY <1>2, Zenon DEF Next
  <2>2. UNCHANGED asked
    BY <1>2, Zenon DEF Next
  <2>3. Free(c) \/ Rollback(c)
    BY <2>1, Zenon DEF Step, Statement, DeadlockVictim, Cancelled
  <2> QED
    BY <2>1, <2>2, <2>3, PlacedStep, LockedStep, QuotaStep, NumberedStep, FreshIdsStep,
       OwnIdsStep, Touches, SMTT(30) DEF IInv
<1> QED
  BY <1>1, <1>2, Zenon

\* Whatever calls run side by side, and wherever they are cancelled, the
\* inductive invariant holds.
THEOREM Invariance == Spec => []IInv
BY InitIInv, StepIInv, PTL DEF Spec

\* "concurrent creates cannot race past it": no tenant ever has more connector
\* instances than the quota, for any number of clients and tenants and any
\* quota (CreateConnectorInstance counts under the tenant's advisory lock).
THEOREM QuotaAlwaysHeld == Spec => []QuotaHeld
<1>1. IInv => QuotaHeld
  BY Zenon DEF IInv
<1> QED
  BY <1>1, Invariance, PTL

\* No statement of any call leaves a sync state or a token without an instance
\* of the same tenant, or anything of a tenant that is not registered, however
\* deletes and purges cut in between a lookup and the write that relies on it.
THEOREM NeverOrphaned == Spec => []NoOrphans
<1>1. IInv => NoOrphans
  BY DEF IInv
<1> QED
  BY <1>1, Invariance, PTL

\* No statement of a call adds, changes or deletes a row of another tenant, in
\* any of the seven tables (the tenant filter of every query of store_pg.go).
THEOREM TenantsStayApart == Spec => TenantsApart
<1> DEFINE A == \A c \in Client : at'[c] # at[c] => UNCHANGED Others(Mine(c))
<1>1. ASSUME IInv, [Next]_vars PROVE A \/ UNCHANGED vars
  <2>1. SUFFICES ASSUME Next, NEW c \in Client, at'[c] # at[c]
                 PROVE  UNCHANGED Others(Mine(c))
    BY <1>1, Zenon
  <2>2. PICK d \in Client : Step(d) \/ Cancelled(d)
    BY <2>1, Zenon DEF Next
  <2>3. d = c
    BY <1>1, <2>1, <2>2, StepAlone, Zenon DEF IInv, Alone
  <2>4. Spared(Mine(c))
    BY <1>1, <2>2, <2>3, Touches, Zenon
  <2>5. Mine(c)' = Mine(c)
    BY <2>1, Zenon DEF Next, Mine
  <2> QED
    BY <2>4, <2>5, Zenon DEF Others, Spared, Foreign
<1> QED
  BY <1>1, Invariance, PTL DEF Spec, TenantsApart
=============================================================================
