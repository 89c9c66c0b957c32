---------------------------- MODULE PgStoreTypes ----------------------------
(* Type correctness of PgStore, for any number of clients, tenants and        *)
(* instances: the tables hold well-formed rows of known tenants, and a row is *)
(* locked by one call at a time, but for the shared lock of a tenant's row.   *)
(* The invariant of PgStoreProofs says which ids are in use and where a       *)
(* create is; what is added here is that a call under way has passed the      *)
(* checks of its handler, and that the ids given out suffice.                 *)
EXTENDS PgStoreProofs

\* A call that is under way has passed the checks of its handler.
Accepted ==
    \A c \in Client : at[c] \notin {"new", "done"} => Mine(c) \in Tenant /\ Contract!Valid(asked[c])

\* Ids are given out from 1 on, one to a create, so that they suffice.
Waiting == {c \in Client : Op(c) = Create /\ at[c] = "new"}

Supplied ==
    /\ stamp \in Nat /\ stamp + Cardinality(Waiting) <= 2 + Cardinality(Client)
    /\ \A c \in Client : Pending(c) => seen[c][1] >= 1

Tables ==
    /\ tenants \subseteq Tenant
    /\ connector_instances \subseteq [id : Id, t : Tenant, status : {"ACTIVE", "PAUSED"}]
    /\ sync_states \subseteq [id : Id, t : Tenant, phase : {"PENDING", "INCREMENTAL"}, docs : 0..1]
    /\ tokens \subseteq [id : Id, t : Tenant]

\* A row is locked by one call, but for the share of a tenant's row.
Shares == {"share"} \X Tenant
Exclusive == \A c, d \in Client : c # d => held[c] \cap held[d] \subseteq Shares

Requests == asked \in [Client -> Contract!Request]

TInv == Tables /\ Requests /\ Exclusive /\ Accepted /\ Supplied

LEMMA TypeOKIs == TypeOK <=> Tables /\ Requests /\ Exclusive
BY Zenon DEF TypeOK, Tables, Requests, Exclusive, Shares

\* Every method is a tenant's but for the two listings of the administrator.
LEMMA RequestFields ==
  ASSUME NEW q \in Contract!Request
  PROVE  /\ q.op \notin {"ListAll", "ListTenants"} => q.t \in Tenant
         /\ q.op = "SetTenantConnectorStatus" => q.arg \in {"PAUSED", "ACTIVE"}
<1>1. ASSUME NEW ops, NEW ids, NEW args, q \in Contract!Ask(ops, ids, args)
      PROVE  q.op \in ops /\ q.t \in Tenant /\ q.arg \in args
  BY <1>1, Zenon DEF Contract!Ask
<1>2. ASSUME NEW args, q \in [op : {"ListAll", "ListTenants"}, t : {0}, id : {0}, arg : args]
      PROVE  q.op \in {"ListAll", "ListTenants"}
  BY <1>2
<1>3. \/ \E ids, args : q \in Contract!Ask(Contract!ByTenant, ids, args)
      \/ \E ids, args : q \in Contract!Ask(Contract!ByInstance, ids, args)
      \/ \E ids, args : q \in Contract!Ask({"SetSyncState"}, ids, args)
      \/ \E ids : q \in Contract!Ask({"SetTenantConnectorStatus"}, ids, {"PAUSED", "ACTIVE"})
      \/ \E args : q \in [op : {"ListAll", "ListTenants"}, t : {0}, id : {0}, arg : args]
  BY Zenon DEF Contract!Request
<1>4. CASE \E ids, args : q \in Contract!Ask(Contract!ByTenant, ids, args)
  BY <1>1, <1>4, SMTT(30) DEF Contract!ByTenant
<1>5. CASE \E ids, args : q \in Contract!Ask(Contract!ByInstance, ids, args)
  BY <1>1, <1>5, SMTT(30) DEF Contract!ByInstance
<1>6. CASE \E ids, args : q \in Contract!Ask({"SetSyncState"}, ids, args)
  BY <1>1, <1>6, Zenon
<1>7. CASE \E ids : q \in Contract!Ask({"SetTenantConnectorStatus"}, ids, {"PAUSED", "ACTIVE"})
  BY <1>1, <1>7, Zenon
<1>8. CASE \E args : q \in [op : {"ListAll", "ListTenants"}, t : {0}, id : {0}, arg : args]
  BY <1>2, <1>8, Zenon
<1> QED
  BY <1>3, <1>4, <1>5, <1>6, <1>7, <1>8, ZenonT(30)

LEMMA FirstAccepted ==
  ASSUME Requests, NEW c \in Client, NEW op, First(c, op), op \notin {"ListAll", "ListTenants"}
  PROVE  Mine(c) \in Tenant /\ Contract!Valid(asked[c])
BY RequestFields, Zenon DEF Requests, First, Mine, Op

\* The calls that a statement leaves under way.
LEMMA Accepts ==
  ASSUME Placed, Requests, Accepted, NEW c \in Client, Step(c) \/ Cancelled(c),
         at'[c] \notin {"new", "done"}
  PROVE  Mine(c) \in Tenant /\ Contract!Valid(asked[c])
<1> SUFFICES ASSUME at[c] \in {"new", "done"} PROVE Mine(c) \in Tenant /\ Contract!Valid(asked[c])
  BY Zenon DEF Accepted
<1> USE GotoAlone, ReturnAlone, FirstAccepted
<1>1. CASE Rollback(c) \/ Refuse(c) \/ EnsureTenant(c) \/ Read(c) \/ DeleteToken(c)
  BY <1>1, Zenon DEF Rollback, Refuse, EnsureTenant, Read, DeleteToken
<1>2. CASE SetTenantConnectorStatus(c) \/ ReadInstance(c) \/ DeleteConnectorInstance(c)
  BY <1>2, Zenon DEF SetTenantConnectorStatus, ReadInstance, DeleteConnectorInstance
<1>3. CASE ListTenants(c)
  BY <1>3, ZenonT(30) DEF ListTenants
<1>4. CASE SetSyncState(c) \/ PutToken(c) \/ Cascade(c) \/ Lock(c) \/ InsertInstance(c)
  BY <1>4, Zenon DEF SetSyncState, PutToken, Cascade, Lock, InsertInstance
<1>5. CASE BeginCreate(c) \/ Ensure(c) \/ CreateConnectorInstance(c)
  BY <1>5, Zenon DEF BeginCreate, Ensure, CreateConnectorInstance
<1>6. CASE UpsertPreferences(c) \/ PutPreferences(c) \/ AppendFeedback(c) \/ InsertFeedback(c)
  BY <1>6, ZenonT(30) DEF UpsertPreferences, PutPreferences, AppendFeedback, InsertFeedback
<1>7. CASE EnsureWeights(c) \/ ReadWeights(c) \/ UpdateLearnedWeights(c) \/ ResetLearning(c)
  BY <1>7, ZenonT(30) DEF EnsureWeights, ReadWeights, UpdateLearnedWeights, ResetLearning
<1>8. CASE ResetFeedback(c) \/ GetPreferences(c) \/ GetPersonalization(c) \/ PurgeTokens(c)
  BY <1>8, ZenonT(30) DEF ResetFeedback, GetPreferences, GetPersonalization, PurgeTokens
<1>9. CASE PurgeSyncStates(c) \/ PurgePersonalization(c) \/ PurgeInstances(c) \/ PurgeTenant(c)
  BY <1>9, ZenonT(30) DEF PurgeSyncStates, PurgePersonalization, PurgeInstances, PurgeTenant
<1> QED
  BY <1>1, <1>2, <1>3, <1>4, <1>5, <1>6, <1>7, <1>8, <1>9, ZenonT(30)
     DEF Step, Cancelled, DeadlockVictim, Statement

\* A statement locks only rows that it has waited for, and shares.
LEMMA ReturnFrees ==
  ASSUME Placed, NEW c \in Client, NEW a, Return(c, a)
  PROVE  held'[c] = {}
BY DEF Placed, Return

LEMMA RowsNeeded ==
  ASSUME Placed, Requests, Accepted, NEW c \in Client, Statement(c)
  PROVE  held'[c] \subseteq held[c] \cup Needs(c) \cup Shares
<1> USE GotoAlone, ReturnFrees
<1>0. at[c] \notin {"new", "done"} => Mine(c) \in Tenant
  BY Zenon DEF Accepted
<1>1. CASE Refuse(c) \/ EnsureTenant(c) \/ Read(c) \/ DeleteToken(c) \/ SetTenantConnectorStatus(c)
  BY <1>1, SMTT(30) DEF Refuse, EnsureTenant, Read, DeleteToken, SetTenantConnectorStatus
<1>2. CASE ReadInstance(c) \/ ListTenants(c) \/ BeginCreate(c) \/ AppendFeedback(c) \/ GetPreferences(c)
  <2>1. (\E a : Return(c, a)) \/ \E label, value : Goto(c, label, {}, value)
    BY <1>2, Zenon DEF ReadInstance, ListTenants, BeginCreate, AppendFeedback, GetPreferences
  <2> QED
    BY <2>1, SMTT(30)
<1>3. CASE SetSyncState(c) \/ PutToken(c) \/ Cascade(c) \/ CreateConnectorInstance(c) \/ PutPreferences(c)
  BY <1>3, Zenon DEF SetSyncState, PutToken, ParentGone, Cascade, CreateConnectorInstance, PutPreferences
<1>4. CASE InsertFeedback(c) \/ UpdateLearnedWeights(c) \/ ResetFeedback(c) \/ GetPersonalization(c)
           \/ PurgeTenant(c)
  BY <1>4, ZenonT(30)
     DEF InsertFeedback, UpdateLearnedWeights, ResetFeedback, GetPersonalization, PurgeTenant
<1>5. CASE DeleteConnectorInstance(c)
  <2>1. at[c] = "new" /\ Op(c) = "DeleteConnectorInstance"
    BY <1>5, Zenon DEF DeleteConnectorInstance, First
  <2>2. Needs(c) = {<<"connector_instances", Instance(c)>>}
    BY <2>1, Zenon DEF Needs
  <2>3. \/ \E a : Return(c, a)
        \/ \E label, value : Goto(c, label, {<<"connector_instances", Instance(c)>>}, value)
    BY <1>5, Zenon DEF DeleteConnectorInstance
  <2> QED
    BY <2>2, <2>3, SMTT(30)
<1>6. CASE Lock(c)
  <2>1. at[c] = "lock" /\ Goto(c, "ensure", {<<"advisory", Mine(c)>>}, seen[c])
    BY <1>6, Zenon DEF Lock
  <2>2. Needs(c) = {<<"advisory", Mine(c)>>}
    BY <2>1, Zenon DEF Needs
  <2> QED
    BY <2>1, <2>2, SMTT(30)
<1>7. CASE Ensure(c)
  <2>1. \E label : \E rows \in SUBSET {<<"tenants", Mine(c)>>} : Goto(c, label, rows, seen[c])
    BY <1>7, SMTT(30) DEF Ensure
  <2>2. at[c] = "ensure" \/ (at[c] = "new" /\ Op(c) \in {"PutPreferences", "UpdateLearnedWeights"})
    BY <1>7, Zenon DEF Ensure, First
  <2>3. Needs(c) = {<<"tenants", Mine(c)>>}
    BY <2>2, Zenon DEF Needs
  <2> QED
    BY <2>1, <2>3, SMTT(30)
<1>8. CASE InsertInstance(c)
  <2>1. <<"share", Mine(c)>> \in Shares
    BY <1>0, <1>8, Zenon DEF InsertInstance, Shares
  <2> QED
    BY <1>8, <2>1, SMTT(30) DEF InsertInstance
<1>9. CASE UpsertPreferences(c)
  <2>1. at[c] = "upsert" /\ <<"share", Mine(c)>> \in Shares
    BY <1>0, <1>9, Zenon DEF UpsertPreferences, Shares
  <2>2. Needs(c) = {<<"user_preferences", Mine(c)>>}
    BY <2>1, Zenon DEF Needs
  <2>3. \/ \E a : Return(c, a)
        \/ \E value : \E rows \in SUBSET {<<"user_preferences", Mine(c)>>, <<"share", Mine(c)>>} :
              Goto(c, "commit", rows, value)
    BY <1>9, Zenon DEF UpsertPreferences
  <2> QED
    BY <2>1, <2>2, <2>3, SMTT(30)
<1>10. CASE EnsureWeights(c) \/ ReadWeights(c)
  <2>1. at[c] \in {"row", "read"} /\ <<"share", Mine(c)>> \in Shares
    BY <1>0, <1>10, ZenonT(30) DEF EnsureWeights, ReadWeights, Shares
  <2>2. Needs(c) = {<<"learned_weights", Mine(c)>>}
    BY <2>1, Zenon DEF Needs
  <2>3. \/ \E a : Return(c, a)
        \/ \E label, value : \E rows \in SUBSET {<<"learned_weights", Mine(c)>>, <<"share", Mine(c)>>} :
              Goto(c, label, rows, value)
    <3>1. {"learned_weights", "share"} \X {Mine(c)}
             = {<<"learned_weights", Mine(c)>>, <<"share", Mine(c)>>}
      BY SMTT(30)
    <3> QED
      BY <1>10, <3>1, ZenonT(30) DEF EnsureWeights, ReadWeights
  <2> QED
    BY <2>1, <2>2, <2>3, SMTT(30)
<1>11. CASE ResetLearning(c)
  <2>1. at[c] = "new" /\ Op(c) = "ResetLearning"
    BY <1>11, Zenon DEF ResetLearning, First
  <2>2. Needs(c) = {<<"learned_weights", Mine(c)>>}
    BY <2>1, Zenon DEF Needs
  <2> QED
    BY <1>11, <2>2, SMTT(30) DEF ResetLearning
<1>12. CASE PurgeTokens(c)
  <2>1. at[c] = "new" /\ Op(c) = "PurgeTenant"
    BY <1>12, Zenon DEF PurgeTokens, First
  <2>2. Needs(c) = Locks("tokens", Rows(tokens, Mine(c)))
    BY <2>1, Zenon DEF Needs
  <2> QED
    BY <1>12, <2>2, SMTT(30) DEF PurgeTokens
<1>13. CASE PurgeSyncStates(c)
  <2>1. Needs(c) = Locks("sync_states", Rows(sync_states, Mine(c)))
    BY <1>13 DEF PurgeSyncStates, Needs
  <2> QED
    BY <1>13, <2>1, SMTT(30) DEF PurgeSyncStates
<1>14. CASE PurgePersonalization(c)
  <2>1. Needs(c) = {<<Head(todo[c]), Mine(c)>>}
    BY <1>14 DEF PurgePersonalization, Needs
  <2>2. \E label : \E rows \in SUBSET {<<Head(todo[c]), Mine(c)>>} : Goto(c, label, rows, seen[c])
    BY <1>14, Zenon DEF PurgePersonalization
  <2> QED
    BY <2>1, <2>2
<1>15. CASE PurgeInstances(c)
  <2> DEFINE rows == Rows(connector_instances, Mine(c))
             whole == Locks("connector_instances", rows) \cup Locks("sync_states", rows)
                      \cup Locks("tokens", rows)
  <2>1. Needs(c) = whole
    BY <1>15, Zenon DEF PurgeInstances, Needs
  <2>2. \E value : Goto(c, "root", whole, value)
    BY <1>15, Zenon DEF PurgeInstances
  <2> HIDE DEF whole
  <2> QED
    BY <2>1, <2>2, SMTT(30)
<1> QED
  BY <1>1, <1>2, <1>3, <1>4, <1>5, <1>6, <1>7, <1>8, <1>9, <1>10, <1>11, <1>12, <1>13,
     <1>14, <1>15, ZenonT(30)
     DEF Statement

LEMMA ExclusiveStep ==
  ASSUME Placed, Requests, Accepted, Exclusive, NEW c \in Client, Step(c) \/ Cancelled(c)
  PROVE  Exclusive'
<1>1. Alone(c)
  BY StepAlone, Zenon
<1>2. held'[c] = {} \/ (Free(c) /\ held'[c] \subseteq held[c] \cup Needs(c) \cup Shares)
  BY RowsNeeded, ReturnFrees, ZenonT(30) DEF Step, Cancelled, DeadlockVictim, Rollback, Statement
<1>3. \A d \in Client \ {c} : held'[c] \cap held'[d] \subseteq Shares
  BY <1>1, <1>2, ZenonT(30) DEF Alone, Free, WaitsFor, Exclusive
<1> QED
  BY <1>1, <1>3, Zenon DEF Alone, Exclusive, Shares

LEMMA AcceptedStep ==
  ASSUME Placed, Requests, Accepted, NEW c \in Client, Step(c) \/ Cancelled(c), UNCHANGED asked
  PROVE  Accepted'
<1>1. \A d \in Client \ {c} : at'[d] = at[d]
  BY StepAlone, Zenon DEF Alone
<1>2. \A d \in Client : at'[d] \notin {"new", "done"} => Mine(d) \in Tenant /\ Contract!Valid(asked[d])
  BY <1>1, Accepts, Zenon DEF Accepted
<1> QED
  BY <1>2, Zenon DEF Accepted, Mine, Contract!Valid, Contract!parseInstanceID

LEMMA SuppliedStep ==
  ASSUME IInv, Supplied, NEW c \in Client, Step(c) \/ Cancelled(c), UNCHANGED asked
  PROVE  Supplied'
<1>1. Alone(c) /\ (Other(c) \/ (Op(c) = Create /\ Moves(c)) \/ Commits(c))
  BY Kinds, Zenon
<1>2. Waiting' = {d \in Client : Op(d) = Create /\ at'[d] = "new"}
  BY DEF Waiting, Op
<1>3. \A d \in Client \ {c} : d \in Waiting' <=> d \in Waiting
  BY <1>1, <1>2, Zenon DEF Waiting, Alone
<1>4. IsFiniteSet(Waiting) /\ Cardinality(Client) \in Nat
  BY IdAssumption, FS_Subset, FS_CardinalityType, Zenon DEF Waiting
<1>5. c \notin Waiting'
  BY <1>1, <1>2, ZenonT(30) DEF Other, Moves, Commits
<1>6. Waiting' = Waiting \ {c}
  BY <1>2, <1>3, <1>5, Zenon DEF Waiting
<1> DEFINE before == Waiting
           after == Waiting'
<1> HIDE DEF before, after
<1>7. /\ IsFiniteSet(before) /\ IsFiniteSet(after)
      /\ Cardinality(after) = IF c \in before THEN Cardinality(before) - 1 ELSE Cardinality(before)
      /\ Cardinality(before) \in Nat /\ Cardinality(after) \in Nat
  <2>1. IsFiniteSet(before) /\ after = before \ {c}
    BY <1>4, <1>6, Zenon DEF before, after
  <2> QED
    BY <2>1, FS_RemoveElement, FS_CardinalityType, Zenon
<1>8. stamp \in Nat /\ stamp + Cardinality(before) <= 2 + Cardinality(Client)
  BY DEF Supplied, before
<1>9. stamp' \in Nat /\ stamp' + Cardinality(after) <= 2 + Cardinality(Client)
  <2>1. CASE stamp' = stamp
    BY <1>4, <1>7, <1>8, <2>1, SMTT(30)
  <2>2. CASE stamp' = stamp + 1 /\ c \in before
    BY <1>4, <1>7, <1>8, <2>2, SMTT(30)
  <2> QED
    BY <1>1, <2>1, <2>2, ZenonT(30) DEF Other, Fewer, Moves, Commits, before, Waiting
<1>10. \A d \in Client : Pending(d)' => seen'[d][1] >= 1
  <2>1. \A d \in Client \ {c} : (Pending(d)' <=> Pending(d)) /\ seen'[d] = seen[d]
    BY <1>1, Zenon DEF Alone, Pending, Op
  <2>2. Pending(c)' => \/ Pending(c) /\ seen'[c] = seen[c]
                       \/ seen'[c] = <<stamp + 1>>
    BY <1>1, ZenonT(30) DEF Other, Moves, Commits, Pending, Op
  <2> QED
    BY <1>8, <2>1, <2>2, SMTT(30) DEF Supplied
<1> QED
  BY <1>9, <1>10, Zenon DEF Supplied, after

LEMMA TablesStep ==
  ASSUME IInv, TInv, NEW c \in Client, Step(c) \/ Cancelled(c)
  PROVE  Tables'
<1>1. Tables /\ Requests /\ Accepted /\ Supplied /\ Numbered /\ FreshIds
  BY Zenon DEF TInv, IInv
<1>2. at[c] \notin {"new", "done"} => Mine(c) \in Tenant /\ Contract!Valid(asked[c])
  BY <1>1, Zenon DEF Accepted
<1>3. CASE UNCHANGED <<tenants, connector_instances, sync_states, tokens>>
  BY <1>1, <1>3, Zenon DEF Tables
<1>4. CASE EnsureTenant(c) \/ AppendFeedback(c) \/ PutPreferences(c) \/ UpdateLearnedWeights(c)
  <2>1. Mine(c) \in Tenant
    BY <1>1, <1>2, <1>4, FirstAccepted, ZenonT(30)
       DEF EnsureTenant, AppendFeedback, PutPreferences, UpdateLearnedWeights
  <2>2. UNCHANGED <<connector_instances, sync_states, tokens>> /\ tenants' = tenants \cup {Mine(c)}
    BY <1>4, ZenonT(30) DEF EnsureTenant, AppendFeedback, PutPreferences, UpdateLearnedWeights, Register
  <2> QED
    BY <1>1, <2>1, <2>2, Zenon DEF Tables
<1>5. CASE CreateConnectorInstance(c)
  <2>1. Mine(c) \in Tenant /\ Pending(c)
    BY <1>2, <1>5, ZenonT(30) DEF CreateConnectorInstance, Pending, Create
  <2>2. seen[c][1] \in 1..stamp
    BY <1>1, <2>1, SMTT(30) DEF FreshIds, Supplied
  <2>3. stamp \in 0..(2 + Cardinality(Client))
    <3>1. IsFiniteSet(Waiting)
      BY IdAssumption, FS_Subset, Zenon DEF Waiting
    <3>2. Cardinality(Waiting) \in Nat /\ Cardinality(Client) \in Nat
      BY <3>1, IdAssumption, FS_CardinalityType, Zenon
    <3> QED
      BY <1>1, <3>2, SMTT(30) DEF Supplied
  <2>4. Cardinality(Client) \in Nat
    BY IdAssumption, FS_CardinalityType, Zenon
  <2>5. seen[c][1] \in Id
    BY <2>2, <2>3, <2>4, IdAssumption, SMTT(30)
  <2> DEFINE row == [id |-> seen[c][1], t |-> Mine(c), status |-> "ACTIVE"]
  <2>6. row \in [id : Id, t : Tenant, status : {"ACTIVE", "PAUSED"}]
    BY <2>1, <2>5, Zenon
  <2>7. /\ tenants' = tenants \cup {Mine(c)} /\ connector_instances' = connector_instances \cup {row}
        /\ UNCHANGED <<sync_states, tokens>>
    BY <1>5, ZenonT(30) DEF CreateConnectorInstance, Register
  <2> HIDE DEF row
  <2> QED
    BY <1>1, <2>1, <2>6, <2>7, Zenon DEF Tables
<1>6. CASE SetTenantConnectorStatus(c)
  <2>1. asked[c].arg \in {"PAUSED", "ACTIVE"}
    BY <1>1, <1>6, RequestFields, Zenon DEF SetTenantConnectorStatus, First, Op, Requests
  <2>2. connector_instances' =
            {IF r.t = Mine(c) THEN Marked(r, asked[c].arg) ELSE r : r \in connector_instances}
    BY <1>1, <1>6, StatusRows, Zenon
  <2>3. UNCHANGED <<tenants, sync_states, tokens>>
    BY <1>6, Zenon DEF SetTenantConnectorStatus
  <2>4. connector_instances' \subseteq [id : Id, t : Tenant, status : {"ACTIVE", "PAUSED"}]
    BY <1>1, <2>1, <2>2, SMTT(30) DEF Tables, Marked
  <2> QED
    BY <1>1, <2>3, <2>4, Zenon DEF Tables
<1>7. CASE SetSyncState(c)
  <2> DEFINE phase == CHOOSE p \in Contract!normalizePhase(asked[c].arg) : TRUE
  <2>1. at[c] = "wait" /\ Op(c) = "SetSyncState"
    BY <1>7, Zenon DEF SetSyncState
  <2>2. Mine(c) \in Tenant /\ Contract!normalizePhase(asked[c].arg) # {}
    BY <1>2, <2>1, Zenon DEF Contract!Valid, Op
  <2>3. Contract!normalizePhase(asked[c].arg) \subseteq {"PENDING", "INCREMENTAL"}
    BY Zenon DEF Contract!normalizePhase
  <2>4. phase \in {"PENDING", "INCREMENTAL"}
    BY <2>2, <2>3, Zenon
  <2>5. UNCHANGED <<tenants, connector_instances, tokens>>
    BY <1>7, Zenon DEF SetSyncState, ParentGone
  <2>6. \/ sync_states' = sync_states
        \/ /\ \E r \in connector_instances : r.id = Instance(c)
           /\ sync_states' = (sync_states \ WithId(sync_states, Instance(c)))
                             \cup {[id |-> Instance(c), t |-> Mine(c), docs |-> 1, phase |-> phase]}
    BY <1>7, ZenonT(30) DEF SetSyncState, ParentGone, WithId
  <2> HIDE DEF phase
  <2> DEFINE row == [id |-> Instance(c), t |-> Mine(c), docs |-> 1, phase |-> phase]
  <2>7. (\E r \in connector_instances : r.id = Instance(c)) => Instance(c) \in Id
    BY <1>1, Zenon DEF Tables
  <2>8. Instance(c) \in Id =>
           row \in [id : Id, t : Tenant, phase : {"PENDING", "INCREMENTAL"}, docs : 0..1]
    BY <2>2, <2>4, SMTT(30)
  <2> HIDE DEF row
  <2>9. sync_states' \subseteq [id : Id, t : Tenant, phase : {"PENDING", "INCREMENTAL"}, docs : 0..1]
    BY <1>1, <2>6, <2>7, <2>8, ZenonT(30) DEF Tables, row
  <2> QED
    BY <1>1, <2>5, <2>9, Zenon DEF Tables
<1>8. CASE PutToken(c)
  <2>1. Mine(c) \in Tenant
    BY <1>2, <1>8, ZenonT(30) DEF PutToken
  <2>2. UNCHANGED <<tenants, connector_instances, sync_states>>
    BY <1>8, ZenonT(30) DEF PutToken, ParentGone
  <2>3. \/ tokens' = tokens
        \/ /\ \E r \in connector_instances : r.id = Instance(c)
           /\ tokens' = (tokens \ WithId(tokens, Instance(c))) \cup {[id |-> Instance(c), t |-> Mine(c)]}
    BY <1>8, Zenon DEF PutToken, ParentGone, WithId
  <2>4. (\E r \in connector_instances : r.id = Instance(c)) =>
           [id |-> Instance(c), t |-> Mine(c)] \in [id : Id, t : Tenant]
    BY <1>1, <2>1, Zenon DEF Tables
  <2>5. tokens' \subseteq [id : Id, t : Tenant]
    BY <1>1, <2>3, <2>4, Zenon DEF Tables
  <2> QED
    BY <1>1, <2>2, <2>5, Zenon DEF Tables
<1>9. CASE DeleteToken(c) \/ Cascade(c) \/ PurgeTenant(c)
  <2>1. /\ tenants' \subseteq tenants /\ connector_instances' \subseteq connector_instances
        /\ sync_states' \subseteq sync_states /\ tokens' \subseteq tokens
    BY <1>9, ZenonT(30) DEF DeleteToken, Cascade, PurgeTenant
  <2> QED
    BY <1>1, <2>1, Zenon DEF Tables
<1>10. CASE Rollback(c) \/ Refuse(c) \/ Read(c) \/ ReadInstance(c) \/ ListTenants(c) \/ DeleteConnectorInstance(c)
  BY <1>3, <1>10, Zenon
     DEF Rollback, Refuse, Read, ReadInstance, ListTenants, DeleteConnectorInstance, tables
<1>11. CASE BeginCreate(c) \/ Lock(c) \/ Ensure(c) \/ InsertInstance(c) \/ UpsertPreferences(c)
            \/ InsertFeedback(c) \/ ResetFeedback(c)
  BY <1>3, <1>11, Zenon DEF BeginCreate, Lock, Ensure, InsertInstance, UpsertPreferences,
                     InsertFeedback, ResetFeedback, tables
<1>12. CASE EnsureWeights(c) \/ ReadWeights(c) \/ ResetLearning(c) \/ GetPreferences(c)
            \/ GetPersonalization(c)
  BY <1>3, <1>12, ZenonT(30)
     DEF EnsureWeights, ReadWeights, ResetLearning, GetPreferences, GetPersonalization, tables
<1>13. CASE PurgeTokens(c) \/ PurgeSyncStates(c) \/ PurgePersonalization(c) \/ PurgeInstances(c)
  BY <1>3, <1>13, Zenon DEF PurgeTokens, PurgeSyncStates, PurgePersonalization, PurgeInstances, tables
<1> QED
  BY <1>4, <1>5, <1>6, <1>7, <1>8, <1>9, <1>10, <1>11, <1>12, <1>13, Zenon
     DEF Step, Cancelled, DeadlockVictim, Statement

LEMMA StepTInv == ASSUME IInv, TInv, [Next]_vars PROVE TInv'
<1>1. CASE UNCHANGED vars
  <2>1. UNCHANGED <<tenants, connector_instances, sync_states, tokens, asked, at, held, seen, stamp>>
    BY <1>1, Zenon DEF vars, tables, session
  <2>2. (Tables /\ Requests /\ Exclusive)'
    BY <2>1, Zenon DEF TInv, Tables, Requests, Exclusive, Shares
  <2>3. Waiting' = Waiting
    BY <2>1, Zenon DEF Waiting, Op
  <2>4. (Accepted /\ Supplied)'
    BY <2>1, <2>3, Zenon DEF TInv, Accepted, Supplied, Mine, Pending, Op, Contract!Valid, Contract!parseInstanceID
  <2> QED
    BY <2>2, <2>4, Zenon DEF TInv
<1>2. CASE Next
  <2>1. PICK c \in Client : Step(c) \/ Cancelled(c)
    BY <1>2, Zenon DEF Next
  <2>2. UNCHANGED asked
    BY <1>2, Zenon DEF Next
  <2>3. Placed /\ Requests /\ Accepted /\ Exclusive /\ Supplied
    BY DEF IInv, TInv
  <2>4. Requests'
    BY <2>2, <2>3, Zenon DEF Requests
  <2> QED
    BY <2>1, <2>2, <2>3, <2>4, TablesStep, ExclusiveStep, AcceptedStep, SuppliedStep, SMTT(30) DEF TInv
<1> QED
  BY <1>1, <1>2, Zenon

LEMMA InitTInv == Init => TInv
<1> SUFFICES ASSUME Init PROVE TInv
  OBVIOUS
<1>1. PICK d \in Contract!Seeds :
         /\ tenants = d.tenants
         /\ connector_instances = UNION {{[id |-> i, t |-> r.t, status |-> r.status] :
                                             r \in d.inst[i]} : i \in Id}
         /\ sync_states = UNION {{[id |-> i, t |-> r.t, phase |-> r.phase, docs |-> r.docs] :
                                     r \in d.sync[i]} : i \in Id}
         /\ tokens = UNION {{[id |-> i, t |-> r.t] : r \in d.token[i]} : i \in Id}
         /\ stamp = Cardinality({i \in Id : d.inst[i] # {}})
  BY ZenonT(30) DEF Init
<1>2. /\ at = [c \in Client |-> "new"] /\ held = [c \in Client |-> {}]
      /\ asked \in [Client -> Contract!Request]
  BY Zenon DEF Init
<1>3. Requests /\ Exclusive /\ Accepted /\ \A c \in Client : ~Pending(c)
  BY <1>2, Zenon DEF Requests, Exclusive, Accepted, Pending
<1>4. 1 \in Tenant /\ 2 \in Tenant
  BY SeedAssumption, Zenon
<1>5. /\ d.tenants \subseteq {1, 2}
      /\ \A i \in Id : \A r \in d.sync[i] : r.phase = "INCREMENTAL" /\ r.docs = 1
  <2>1. CASE d = Contract!NoRows
    BY <2>1, Zenon DEF Contract!NoRows, Contract!Empty
  <2>2. CASE d = Contract!Busy \/ d = Contract!Full
    <3>1. d.tenants \subseteq {1, 2} /\ d.sync = Contract!Synced
      BY <2>2, SMTT(30) DEF Contract!Busy, Contract!Full
    <3>2. \A i \in Id : \A r \in Contract!Synced[i] : r.phase = "INCREMENTAL" /\ r.docs = 1
      BY SMTT(30) DEF Contract!Synced, Contract!Only
    <3> QED
      BY <3>1, <3>2, Zenon
  <2> QED
    BY <2>1, <2>2, ZenonT(30) DEF Contract!Seeds
<1>6. /\ \A i \in Id : d.inst[i] # {} =>
            i \in {1, 2} /\ \E s \in {"ACTIVE", "PAUSED"} : d.inst[i] = {[t |-> 1, status |-> s]}
      /\ \A i \in Id : \A r \in d.sync[i] \cup d.token[i] : r.t = 1
  BY SeedRows, SMTT(30)
<1>7. tenants \subseteq Tenant
  BY <1>1, <1>4, <1>5, Zenon
<1>8. connector_instances \subseteq [id : Id, t : Tenant, status : {"ACTIVE", "PAUSED"}]
  <2>1. \A i \in Id : \A r \in d.inst[i] : r.t = 1 /\ r.status \in {"ACTIVE", "PAUSED"}
    BY <1>6
  <2>2. \A r \in connector_instances : \E i \in Id : \E u \in d.inst[i] :
           r = [id |-> i, t |-> u.t, status |-> u.status]
    BY <1>1, Zenon
  <2> QED
    BY <1>4, <2>1, <2>2, SMTT(30)
<1>9. sync_states \subseteq [id : Id, t : Tenant, phase : {"PENDING", "INCREMENTAL"}, docs : 0..1]
  <2>1. \A r \in sync_states : \E i \in Id : \E u \in d.sync[i] :
           r = [id |-> i, t |-> u.t, phase |-> u.phase, docs |-> u.docs]
    BY <1>1, Zenon
  <2> QED
    BY <1>4, <1>5, <1>6, <2>1, SMTT(30)
<1>10. tokens \subseteq [id : Id, t : Tenant]
  <2>1. \A r \in tokens : \E i \in Id : \E u \in d.token[i] : r = [id |-> i, t |-> u.t]
    BY <1>1, Zenon
  <2> QED
    BY <1>4, <1>6, <2>1, SMTT(30)
<1> DEFINE used == {i \in Id : d.inst[i] # {}}
<1>11. stamp \in Nat /\ stamp <= 2
  <2>1. stamp = Cardinality(used) /\ used \in SUBSET {1, 2}
    BY <1>1, <1>6, ZenonT(30)
  <2> HIDE DEF used
  <2>2. IsFiniteSet({1, 2}) /\ Cardinality({1, 2}) = 2
    <3>1. {1, 2} = {1} \cup {2} /\ 2 \notin {1}
      BY SMTT(30)
    <3>2. IsFiniteSet({1}) /\ Cardinality({1}) = 1
      BY FS_Singleton, Zenon
    <3> QED
      BY <3>1, <3>2, FS_AddElement, SMTT(30)
  <2>3. IsFiniteSet(used) /\ Cardinality(used) <= 2
    BY <2>1, <2>2, FS_Subset, ZenonT(30)
  <2> QED
    BY <2>1, <2>3, FS_CardinalityType, Zenon
<1>12. Supplied
  <2>1. Waiting \in SUBSET Client
    BY Zenon DEF Waiting
  <2>2. IsFiniteSet(Waiting) /\ Cardinality(Waiting) <= Cardinality(Client)
    BY <2>1, IdAssumption, FS_Subset, Zenon
  <2>3. Cardinality(Waiting) \in Nat /\ Cardinality(Client) \in Nat
    BY <2>2, IdAssumption, FS_CardinalityType, Zenon
  <2> QED
    BY <1>3, <1>11, <2>2, <2>3, SMTT(30) DEF Supplied
<1> QED
  BY <1>3, <1>7, <1>8, <1>9, <1>10, <1>12, SMTT(30) DEF TInv, Tables

\* Every table holds rows of its columns, whatever calls have written them, and
\* no two transactions have the same row locked or written: what a transaction
\* of store_pg.go has read FOR UPDATE or inserted is its own until it ends.
THEOREM TypeCorrect == Spec => []TypeOK
<1>1. TInv => TypeOK
  BY TypeOKIs, Zenon DEF TInv
<1>2. Init => IInv /\ TInv
  BY InitIInv, InitTInv, Zenon
<1>3. (IInv /\ TInv) /\ [Next]_vars => (IInv /\ TInv)'
  BY StepIInv, StepTInv
<1> QED
  BY <1>1, <1>2, <1>3, PTL DEF Spec
=============================================================================
