------------------------------ MODULE PgStore ------------------------------
(* The Store over Postgres (services/control-plane/store_pg.go): tables,     *)
(* statements that each see what is committed when they run (READ            *)
(* COMMITTED), and transactions of several statements that hold their locks  *)
(* until they commit or roll back.                                           *)
(*                                                                           *)
(* Postgres is external: a statement waits for the rows it needs, foreign    *)
(* keys reject a row without its parent and cascade a delete, and a cycle of *)
(* waiting transactions is broken by aborting one.  A client makes one call  *)
(* (its request is asked[c]); at[c] is the statement it comes to.            *)
EXTENDS Integers, FiniteSets, Sequences

CONSTANTS Client, Tenant, Id, maxInstances,
          limit     \* tenants in a page of AdminService.ListTenants

\* The rows that a run starts with (Store's Seeds) are of these instances and
\* tenants.
ASSUME SeedAssumption ==
    /\ {1, 2} \subseteq Id /\ {1, 2} \subseteq Tenant
    /\ maxInstances \in Int

\* There is an id for every call that may create an instance.
ASSUME IdAssumption == IsFiniteSet(Client) /\ 1..(2 + Cardinality(Client)) \subseteq Id

VARIABLES tenants, connector_instances, sync_states, tokens,
          user_preferences, learned_weights, feedback_events,
          asked, answer,
          at,       \* client -> the next statement of its call
          held,     \* client -> rows it has locked, or written and not committed
          seen,     \* client -> what it has read or counted
          todo,     \* client -> tables a PurgeTenant has yet to empty
          stamp,    \* the last id given to an instance
          lasting   \* history: client -> tenants registered since it began

tables == <<tenants, connector_instances, sync_states, tokens,
            user_preferences, learned_weights, feedback_events>>
session == <<at, held, seen, todo, stamp>>
vars == <<tables, asked, answer, session, lasting>>

Rows(T, t) == {r \in T : r.t = t}
WithId(T, i) == {r \in T : r.id = i}

\* The database and the half-done calls, as the contract sees them.
Database ==
    [tenants |-> tenants,
     inst |-> [i \in Id |-> {[t |-> r.t, status |-> r.status] : r \in WithId(connector_instances, i)}],
     sync |-> [i \in Id |-> {[t |-> r.t, phase |-> r.phase, docs |-> r.docs] : r \in WithId(sync_states, i)}],
     token |-> [i \in Id |-> {[t |-> r.t] : r \in WithId(tokens, i)}],
     prefs |-> [t \in Tenant |-> {r.version : r \in Rows(user_preferences, t)}],
     weights |-> [t \in Tenant |-> {r.samples : r \in Rows(learned_weights, t)}],
     feedback |-> [t \in Tenant |-> {r.event : r \in Rows(feedback_events, t)}]]
HalfDone == [c \in Client |-> IF at[c] = "weights" THEN {seen[c][1]} ELSE {}]

Contract == INSTANCE Store WITH db <- Database, half <- HalfDone

Op(c) == asked[c].op
Mine(c) == asked[c].t
Instance(c) == asked[c].id

TypeOK ==
    /\ tenants \subseteq Tenant
    /\ connector_instances \subseteq [id : Id, t : Tenant, status : {"ACTIVE", "PAUSED"}]
    /\ sync_states \subseteq [id : Id, t : Tenant, phase : {"PENDING", "INCREMENTAL"}, docs : 0..1]
    /\ tokens \subseteq [id : Id, t : Tenant]
    /\ asked \in [Client -> Contract!Request]
    /\ \A c, d \in Client : c # d => held[c] \cap held[d] \subseteq {"share"} \X Tenant

Init ==
    /\ \E d \in Contract!Seeds :
          /\ tenants = d.tenants
          /\ connector_instances = UNION {{[id |-> i, t |-> r.t, status |-> r.status] :
                                             r \in d.inst[i]} : i \in Id}
          /\ sync_states = UNION {{[id |-> i, t |-> r.t, phase |-> r.phase, docs |-> r.docs] :
                                     r \in d.sync[i]} : i \in Id}
          /\ tokens = UNION {{[id |-> i, t |-> r.t] : r \in d.token[i]} : i \in Id}
          /\ user_preferences = UNION {{[t |-> t, version |-> v] : v \in d.prefs[t]} : t \in Tenant}
          /\ learned_weights = UNION {{[t |-> t, samples |-> n] : n \in d.weights[t]} : t \in Tenant}
          /\ feedback_events = UNION {{[t |-> t, event |-> e] : e \in d.feedback[t]} : t \in Tenant}
          /\ stamp = Cardinality({i \in Id : d.inst[i] # {}})
    /\ asked \in [Client -> Contract!Request] /\ answer = [c \in Client |-> {}]
    /\ at = [c \in Client |-> "new"] /\ held = [c \in Client |-> {}]
    /\ seen = [c \in Client |-> <<>>] /\ todo = [c \in Client |-> <<>>]
    /\ lasting = [c \in Client |-> tenants]

-----------------------------------------------------------------------------
(* Locks.  A row is a table and a key; "advisory" is the lock of             *)
(* pg_advisory_xact_lock, "share" the one a new row takes on its tenant.     *)

Locks(table, T) == {<<table, r.id>> : r \in T}

\* What the next statement of c must have to itself.
Needs(c) ==
    LET t == Mine(c)
        i == Instance(c)
        instances == Rows(connector_instances, t)
    IN  CASE at[c] = "lock" -> {<<"advisory", t>>}
          [] at[c] = "ensure" -> {<<"tenants", t>>}
          [] at[c] = "upsert" -> {<<"user_preferences", t>>}
          [] at[c] \in {"row", "read"} -> {<<"learned_weights", t>>}
          [] at[c] = "cascade" -> {<<"sync_states", i>>, <<"tokens", i>>}
          [] at[c] = "feedback" -> {<<"feedback_events", t>>}
          [] at[c] = "sync" -> Locks("sync_states", Rows(sync_states, t))
          [] at[c] = "personal" -> {<<Head(todo[c]), t>>}
          [] at[c] = "instances" -> Locks("connector_instances", instances)
                                    \cup Locks("sync_states", instances) \cup Locks("tokens", instances)
          [] at[c] = "root" -> Locks("connector_instances", instances)
                               \cup {"tenants", "share", "user_preferences", "learned_weights",
                                     "feedback_events"} \X {t}
          [] at[c] = "new" /\ Op(c) \in {"EnsureTenant", "AppendFeedback", "PutPreferences",
                                             "UpdateLearnedWeights"} -> {<<"tenants", t>>}
          [] at[c] = "new" /\ Op(c) = "DeleteConnectorInstance" -> {<<"connector_instances", i>>}
          [] at[c] = "wait" /\ Op(c) = "PutToken" -> {<<"connector_instances", i>>, <<"tokens", i>>}
          [] at[c] = "wait" /\ Op(c) = "SetSyncState" ->
                 {<<"connector_instances", i>>, <<"sync_states", i>>}
          [] at[c] = "new" /\ Op(c) = "DeleteToken" -> {<<"tokens", i>>}
          [] at[c] = "new" /\ Op(c) = "SetTenantConnectorStatus" -> Locks("connector_instances", instances)
          [] at[c] = "new" /\ Op(c) = "ResetLearning" -> {<<"learned_weights", t>>}
          [] at[c] = "new" /\ Op(c) = "PurgeTenant" -> Locks("tokens", Rows(tokens, t))
          [] OTHER -> {}

WaitsFor(c, d) == c # d /\ held[d] \cap Needs(c) # {}
Free(c) == \A d \in Client : ~WaitsFor(c, d)

Goto(c, label, rows, value) ==
    /\ at' = [at EXCEPT ![c] = label]
    /\ held' = [held EXCEPT ![c] = @ \cup rows]
    /\ seen' = [seen EXCEPT ![c] = value]
    /\ UNCHANGED answer

\* Commit or roll back, and return.
Return(c, a) ==
    /\ answer' = [answer EXCEPT ![c] = {a}]
    /\ at' = [at EXCEPT ![c] = "done"] /\ held' = [held EXCEPT ![c] = {}]
    /\ seen' = [seen EXCEPT ![c] = <<>>]

First(c, op) == at[c] = "new" /\ Op(c) = op /\ Contract!Valid(asked[c])
Found(v) == Contract!Found(v)
Ok == Contract!Ok
NotFound == Contract!NotFound
Internal == Contract!Internal

\* The tenant's row is there for a foreign key: committed, or c's own.
Registered(c) == Mine(c) \in tenants \/ <<"tenants", Mine(c)>> \in held[c]
Register(c) == tenants' = tenants \cup {Mine(c)}

Refuse(c) == /\ at[c] = "new" /\ ~Contract!Valid(asked[c]) /\ Return(c, Contract!Invalid)
             /\ UNCHANGED <<tables, todo, stamp>>

-----------------------------------------------------------------------------
(* Calls of one statement.                                                   *)

EnsureTenant(c) ==
    /\ First(c, "EnsureTenant") /\ Register(c) /\ Return(c, Ok)
    /\ UNCHANGED <<connector_instances, sync_states, tokens, user_preferences,
                   learned_weights, feedback_events, todo, stamp>>

owned(c) == Rows(WithId(connector_instances, Instance(c)), Mine(c))
Ids(T) == Contract!InOrder({r.id : r \in T})

\* count(*), the documents emitted, and "every instance is PAUSED".
usage(t) ==
    LET ci == Rows(connector_instances, t)
    IN  <<Cardinality(ci), Cardinality({r \in ci : WithId(sync_states, r.id) # {}}),
          IF ci # {} /\ \A r \in ci : r.status = "PAUSED" THEN 1 ELSE 0>>

residue(t) == t \in tenants \/ \E T \in {connector_instances, sync_states, tokens, user_preferences,
                                         learned_weights, feedback_events} : Rows(T, t) # {}

\* What a call that only reads returns.
Query(c) ==
    LET t == Mine(c)
        i == Instance(c)
    IN  CASE Op(c) = "ListConnectorInstances" -> Found(Ids(Rows(connector_instances, t)))
          [] Op(c) = "CountConnectorInstances" -> Found(<<Cardinality(Rows(connector_instances, t))>>)
          [] Op(c) = "ListAll" -> 
                 LET rows == Contract!Sorted(connector_instances,
                                             LAMBDA r, s : r.t < s.t \/ (r.t = s.t /\ r.id < s.id))
                 IN  Found([k \in DOMAIN rows |-> rows[k].id])
          [] Op(c) = "GetConnectorInstance" ->
                 IF owned(c) = {} THEN NotFound
                 ELSE Found(<<IF \E r \in owned(c) : r.status = "PAUSED" THEN 1 ELSE 0>>)
          [] Op(c) = "GetSyncState" ->
                 IF owned(c) = {} THEN NotFound
                 ELSE IF WithId(sync_states, i) = {} THEN Found(<<0, 0>>)
                 ELSE LET s == CHOOSE s \in WithId(sync_states, i) : TRUE
                      IN  Found(<<IF s.phase = "PENDING" THEN 0 ELSE 1, s.docs>>)
          [] Op(c) = "GetToken" -> IF Rows(WithId(tokens, i), t) = {} THEN NotFound ELSE Ok
          [] Op(c) = "TenantResidue" -> Found(<<IF residue(t) THEN 0 ELSE 1>>)
          [] Op(c) = "GetTenantUsage" -> IF t \in tenants THEN Found(usage(t)) ELSE NotFound

Reads == {"ListConnectorInstances", "CountConnectorInstances", "ListAll", "GetConnectorInstance",
          "GetSyncState", "GetToken", "TenantResidue", "GetTenantUsage"}

Read(c) == /\ \E op \in Reads : First(c, op)
           /\ Return(c, Query(c))
           /\ UNCHANGED <<tables, todo, stamp>>

DeleteToken(c) ==
    LET rows == Rows(WithId(tokens, Instance(c)), Mine(c))
    IN  /\ First(c, "DeleteToken")
        /\ tokens' = tokens \ rows
        /\ Return(c, IF rows = {} THEN NotFound ELSE Ok)
        /\ UNCHANGED <<tenants, connector_instances, sync_states, user_preferences,
                       learned_weights, feedback_events, todo, stamp>>

SetTenantConnectorStatus(c) ==
    LET moved == {r \in Rows(connector_instances, Mine(c)) : r.status # asked[c].arg}
    IN  /\ First(c, "SetTenantConnectorStatus")
        /\ connector_instances' = (connector_instances \ moved)
                                  \cup {[r EXCEPT !.status = asked[c].arg] : r \in moved}
        /\ Return(c, Found(<<Cardinality(moved)>>))
        /\ UNCHANGED <<tenants, sync_states, tokens, user_preferences, learned_weights,
                       feedback_events, todo, stamp>>

\* Mutant: INSERT ... VALUES with the tenant of the caller.
ReadInstanceUnscoped(c) ==
    /\ First(c, "SetSyncState") \/ First(c, "PutToken")
    /\ IF WithId(connector_instances, Instance(c)) = {} THEN Return(c, NotFound)
       ELSE Goto(c, "wait", {}, <<>>)
    /\ UNCHANGED <<tables, todo, stamp>>

\* SetSyncState and PutToken are an INSERT ... SELECT from the caller's own
\* instance.  One that has read the instance may still have to wait for its
\* row: when the instance is gone after that, the foreign key fails the call.
ReadInstance(c) ==
    /\ First(c, "SetSyncState") \/ First(c, "PutToken")
    /\ IF owned(c) = {} THEN Return(c, NotFound) ELSE Goto(c, "wait", {}, <<>>)
    /\ UNCHANGED <<tables, todo, stamp>>

ParentGone(c) == /\ WithId(connector_instances, Instance(c)) = {} /\ Return(c, Internal)
                 /\ UNCHANGED <<sync_states, tokens>>

SetSyncState(c) ==
    LET row == [id |-> Instance(c), t |-> Mine(c), docs |-> 1,
                phase |-> CHOOSE p \in Contract!normalizePhase(asked[c].arg) : TRUE]
    IN  /\ at[c] = "wait" /\ Op(c) = "SetSyncState"
        /\ \/ ParentGone(c)
           \/ /\ WithId(connector_instances, Instance(c)) # {}
              /\ sync_states' = (sync_states \ WithId(sync_states, Instance(c))) \cup {row}
              /\ Return(c, Found(<<IF row.phase = "PENDING" THEN 0 ELSE 1, row.docs>>))
              /\ UNCHANGED tokens
        /\ UNCHANGED <<tenants, connector_instances, user_preferences, learned_weights,
                       feedback_events, todo, stamp>>

PutToken(c) ==
    /\ at[c] = "wait" /\ Op(c) = "PutToken"
    /\ \/ ParentGone(c)
       \/ /\ WithId(connector_instances, Instance(c)) # {}
          /\ tokens' = (tokens \ WithId(tokens, Instance(c))) \cup {[id |-> Instance(c), t |-> Mine(c)]}
          /\ Return(c, Ok) /\ UNCHANGED sync_states
    /\ UNCHANGED <<tenants, connector_instances, user_preferences, learned_weights,
                   feedback_events, todo, stamp>>

\* Mutant: any tenant's instance of that id.
DeleteConnectorInstanceUnscoped(c) ==
    /\ First(c, "DeleteConnectorInstance")
    /\ IF WithId(connector_instances, Instance(c)) = {} THEN Return(c, NotFound)
       ELSE Goto(c, "cascade", {<<"connector_instances", Instance(c)>>}, <<>>)
    /\ UNCHANGED <<tables, todo, stamp>>

\* The row is deleted, then the rows that refer to it.
DeleteConnectorInstance(c) ==
    /\ First(c, "DeleteConnectorInstance")
    /\ IF owned(c) = {} THEN Return(c, NotFound)
       ELSE Goto(c, "cascade", {<<"connector_instances", Instance(c)>>}, <<>>)
    /\ UNCHANGED <<tables, todo, stamp>>

Cascade(c) ==
    /\ at[c] = "cascade"
    /\ connector_instances' = connector_instances \ WithId(connector_instances, Instance(c))
    /\ sync_states' = sync_states \ WithId(sync_states, Instance(c))
    /\ tokens' = tokens \ WithId(tokens, Instance(c))
    /\ Return(c, Ok)
    /\ UNCHANGED <<tenants, user_preferences, learned_weights, feedback_events, todo, stamp>>

\* Mutant: the next page starts after as many tenants as have been listed.
ListTenantsByOffset(c) ==
    LET all == Contract!InOrder(tenants)
        page == SubSeq(all, Len(seen[c]) + 1, Len(seen[c]) + limit)
    IN  /\ First(c, "ListTenants")
        /\ IF Len(seen[c]) + limit <= Len(all) THEN Goto(c, "new", {}, seen[c] \o page)
           ELSE Return(c, Found(seen[c] \o SubSeq(all, Len(seen[c]) + 1, Len(all))))
        /\ UNCHANGED <<tables, todo, stamp>>

\* An administrator pages through the tenants: a page starts after the last
\* tenant of the one before, and a short page is the last.
ListTenants(c) ==
    LET after == Contract!InOrder({t \in tenants : \A k \in DOMAIN seen[c] : t > seen[c][k]})
    IN  /\ First(c, "ListTenants")
        /\ IF Len(after) >= limit THEN Goto(c, "new", {}, seen[c] \o SubSeq(after, 1, limit))
           ELSE Return(c, Found(seen[c] \o after))
        /\ UNCHANGED <<tables, todo, stamp>>

-----------------------------------------------------------------------------
(* Transactions.                                                             *)

\* created_at is the time at which the transaction begins.
BeginCreate(c) ==
    /\ First(c, "CreateConnectorInstance")
    /\ stamp' = stamp + 1
    /\ Goto(c, IF maxInstances > 0 THEN "lock" ELSE "ensure", {}, <<stamp + 1>>)
    /\ UNCHANGED <<tables, todo>>

\* Mutant: the transaction goes on without the lock.
LockNothing(c) ==
    /\ at[c] = "lock" /\ Goto(c, "ensure", {}, seen[c])
    /\ UNCHANGED <<tables, todo, stamp>>

Lock(c) ==
    /\ at[c] = "lock" /\ Goto(c, "ensure", {<<"advisory", Mine(c)>>}, seen[c])
    /\ UNCHANGED <<tables, todo, stamp>>

\* INSERT INTO tenants ... ON CONFLICT DO NOTHING.
Ensure(c) ==
    /\ \/ at[c] = "ensure"
       \/ First(c, "PutPreferences") \/ First(c, "UpdateLearnedWeights")
    /\ Goto(c, CASE Op(c) = "CreateConnectorInstance" -> "insert"
                 [] Op(c) = "PutPreferences" -> "upsert"
                 [] Op(c) = "UpdateLearnedWeights" -> "row",
            IF Mine(c) \in tenants THEN {} ELSE {<<"tenants", Mine(c)>>}, seen[c])
    /\ UNCHANGED <<tables, todo, stamp>>

\* Mutant: over the quota the call returns and its transaction stays open.
InsertInstanceKeepsLock(c) ==
    /\ at[c] = "insert" /\ UNCHANGED <<tables, todo, stamp>>
    /\ IF maxInstances > 0 /\ Cardinality(Rows(connector_instances, Mine(c))) >= maxInstances
       THEN /\ answer' = [answer EXCEPT ![c] = {Contract!Exhausted}]
            /\ at' = [at EXCEPT ![c] = "done"] /\ UNCHANGED <<held, seen>>
       ELSE IF ~Registered(c) THEN Return(c, Internal)
       ELSE Goto(c, "commit", {<<"share", Mine(c)>>}, seen[c])

\* The gated INSERT counts the rows that are committed.
InsertInstance(c) ==
    /\ at[c] = "insert" /\ UNCHANGED <<tables, todo, stamp>>
    /\ IF maxInstances > 0 /\ Cardinality(Rows(connector_instances, Mine(c))) >= maxInstances
       THEN Return(c, Contract!Exhausted)
       ELSE IF ~Registered(c) THEN Return(c, Internal)
       ELSE Goto(c, "commit", {<<"share", Mine(c)>>}, seen[c])

CreateConnectorInstance(c) ==
    /\ at[c] = "commit" /\ Op(c) = "CreateConnectorInstance" /\ Register(c)
    /\ connector_instances' =
           connector_instances \cup {[id |-> seen[c][1], t |-> Mine(c), status |-> "ACTIVE"]}
    /\ Return(c, Found(seen[c]))
    /\ UNCHANGED <<sync_states, tokens, user_preferences, learned_weights, feedback_events,
                   todo, stamp>>

\* The upsert counts on from the version it finds.
UpsertPreferences(c) ==
    LET old == Rows(user_preferences, Mine(c))
        version == IF old = {} THEN 1 ELSE (CHOOSE r \in old : TRUE).version + 1
    IN  /\ at[c] = "upsert" /\ UNCHANGED <<tables, todo, stamp>>
        /\ IF ~Registered(c) THEN Return(c, Internal)
           ELSE Goto(c, "commit", {<<"user_preferences", Mine(c)>>}
                                  \cup (IF old = {} THEN {<<"share", Mine(c)>>} ELSE {}),
                     <<version>>)

PutPreferences(c) ==
    /\ at[c] = "commit" /\ Op(c) = "PutPreferences" /\ Register(c)
    /\ user_preferences' = (user_preferences \ Rows(user_preferences, Mine(c)))
                           \cup {[t |-> Mine(c), version |-> seen[c][1]]}
    /\ Return(c, Found(seen[c]))
    /\ UNCHANGED <<connector_instances, sync_states, tokens, learned_weights, feedback_events,
                   todo, stamp>>

\* Two statements, not a transaction.
AppendFeedback(c) ==
    /\ First(c, "AppendFeedback") /\ Register(c) /\ Goto(c, "event", {}, <<>>)
    /\ UNCHANGED <<connector_instances, sync_states, tokens, user_preferences,
                   learned_weights, feedback_events, todo, stamp>>

InsertFeedback(c) ==
    /\ at[c] = "event"
    /\ IF Mine(c) \in tenants
       THEN feedback_events' = feedback_events \cup {[t |-> Mine(c), event |-> c]} /\ Return(c, Ok)
       ELSE Return(c, Internal) /\ UNCHANGED feedback_events
    /\ UNCHANGED <<tenants, connector_instances, sync_states, tokens, user_preferences,
                   learned_weights, todo, stamp>>

\* The row is inserted for the lock of the next statement to have something to
\* hold ...
EnsureWeights(c) ==
    /\ at[c] = "row" /\ UNCHANGED <<tables, todo, stamp>>
    /\ IF Rows(learned_weights, Mine(c)) # {} THEN Goto(c, "read", {}, seen[c])
       ELSE IF ~Registered(c) THEN Return(c, Internal)
       ELSE Goto(c, "read", {"learned_weights", "share"} \X {Mine(c)}, seen[c])

Samples(c) == LET rows == Rows(learned_weights, Mine(c))
              IN  IF rows = {} THEN 0 ELSE (CHOOSE r \in rows : TRUE).samples

\* Mutant: SELECT without FOR UPDATE.
ReadWeightsUnlocked(c) ==
    /\ at[c] = "read" /\ UNCHANGED <<tables, todo, stamp>>
    /\ IF Rows(learned_weights, Mine(c)) = {} /\ held[c] = {} THEN Return(c, Internal)
       ELSE Goto(c, "write", {}, <<Samples(c)>>)

\* ... which fails when a reset has deleted it in between.
ReadWeights(c) ==
    /\ at[c] = "read" /\ UNCHANGED <<tables, todo, stamp>>
    /\ IF Rows(learned_weights, Mine(c)) = {} /\ <<"learned_weights", Mine(c)>> \notin held[c]
       THEN Return(c, Internal)
       ELSE Goto(c, "write", {<<"learned_weights", Mine(c)>>}, <<Samples(c)>>)

UpdateLearnedWeights(c) ==
    /\ at[c] = "write" /\ Register(c)
    /\ learned_weights' = (learned_weights \ Rows(learned_weights, Mine(c)))
                          \cup {[t |-> Mine(c), samples |-> seen[c][1] + 1]}
    /\ Return(c, Ok)
    /\ UNCHANGED <<connector_instances, sync_states, tokens, user_preferences, feedback_events,
                   todo, stamp>>

ResetLearning(c) ==
    /\ First(c, "ResetLearning")
    /\ Goto(c, "feedback", IF Rows(learned_weights, Mine(c)) = {} THEN {}
                           ELSE {<<"learned_weights", Mine(c)>>}, <<>>)
    /\ UNCHANGED <<tables, todo, stamp>>

\* The model goes if the first statement found one.
ResetFeedback(c) ==
    LET log == Rows(feedback_events, Mine(c))
    IN  /\ at[c] = "feedback"
        /\ learned_weights' = IF held[c] = {} THEN learned_weights
                              ELSE learned_weights \ Rows(learned_weights, Mine(c))
        /\ feedback_events' = feedback_events \ log
        /\ Return(c, Found(<<Cardinality(log)>>))
        /\ UNCHANGED <<tenants, connector_instances, sync_states, tokens, user_preferences,
                       todo, stamp>>

\* PurgeTenant deletes the tokens, the sync states, the personalization tables
\* in the order of a Go map, and the instances ...
PurgeTokens(c) ==
    LET rows == Rows(tokens, Mine(c))
    IN  /\ First(c, "PurgeTenant") /\ Goto(c, "sync", Locks("tokens", rows), <<0, Cardinality(rows)>>)
        /\ UNCHANGED <<tables, todo, stamp>>

PurgeSyncStates(c) ==
    /\ at[c] = "sync"
    /\ Goto(c, "personal", Locks("sync_states", Rows(sync_states, Mine(c))), seen[c])
    /\ \E order \in [1..3 -> {"feedback_events", "learned_weights", "user_preferences"}] :
          /\ \A j, k \in 1..3 : order[j] = order[k] => j = k
          /\ todo' = [todo EXCEPT ![c] = order]
    /\ UNCHANGED <<tables, stamp>>

Has(table, t) == CASE table = "feedback_events" -> Rows(feedback_events, t) # {}
                   [] table = "learned_weights" -> Rows(learned_weights, t) # {}
                   [] table = "user_preferences" -> Rows(user_preferences, t) # {}

PurgePersonalization(c) ==
    LET table == Head(todo[c])
    IN  /\ at[c] = "personal" /\ todo' = [todo EXCEPT ![c] = Tail(@)]
        /\ Goto(c, IF Len(todo[c]) = 1 THEN "instances" ELSE "personal",
                IF Has(table, Mine(c)) THEN {<<table, Mine(c)>>} ELSE {}, seen[c])
        /\ UNCHANGED <<tables, stamp>>

PurgeInstances(c) ==
    LET rows == Rows(connector_instances, Mine(c))
    IN  /\ at[c] = "instances" /\ UNCHANGED <<tables, todo, stamp>>
        /\ Goto(c, "root", Locks("connector_instances", rows) \cup Locks("sync_states", rows)
                           \cup Locks("tokens", rows), <<Cardinality(rows), seen[c][2]>>)

\* ... and the tenant, with whatever has been written for it since; commit.
PurgeTenant(c) ==
    LET t == Mine(c)
    IN  /\ at[c] = "root" /\ tenants' = tenants \ {t}
        /\ connector_instances' = connector_instances \ Rows(connector_instances, t)
        /\ sync_states' = sync_states \ Rows(sync_states, t)
        /\ tokens' = tokens \ Rows(tokens, t)
        /\ user_preferences' = user_preferences \ Rows(user_preferences, t)
        /\ learned_weights' = learned_weights \ Rows(learned_weights, t)
        /\ feedback_events' = feedback_events \ Rows(feedback_events, t)
        /\ Return(c, Found(seen[c])) /\ UNCHANGED <<todo, stamp>>

GetPreferences(c) ==
    LET rows == Rows(user_preferences, Mine(c))
    IN  /\ First(c, "GetPersonalization") /\ UNCHANGED <<tables, todo, stamp>>
        /\ Goto(c, "weights", {}, <<IF rows = {} THEN 0 ELSE (CHOOSE r \in rows : TRUE).version>>)

GetPersonalization(c) ==
    /\ at[c] = "weights" /\ Return(c, Found(seen[c] \o <<Samples(c)>>))
    /\ UNCHANGED <<tables, todo, stamp>>

-----------------------------------------------------------------------------
\* The context of a call ends, or its connection breaks: its transaction is
\* rolled back.  So is one of a cycle of calls that wait for each other.
Rollback(c) == /\ at[c] # "done" /\ Return(c, Internal)
               /\ todo' = [todo EXCEPT ![c] = <<>>] /\ UNCHANGED <<tables, stamp>>
Cancelled(c) == Contract!Valid(asked[c]) /\ Rollback(c)
DeadlockVictim(c) == (\E d \in Client : WaitsFor(c, d) /\ WaitsFor(d, c)) /\ Rollback(c)

Statement(c) ==
    /\ Free(c)
    /\ \/ Refuse(c) \/ EnsureTenant(c) \/ Read(c) \/ DeleteToken(c) \/ SetTenantConnectorStatus(c)
       \/ ReadInstance(c) \/ SetSyncState(c) \/ PutToken(c) \/ ListTenants(c)
       \/ DeleteConnectorInstance(c) \/ Cascade(c)
       \/ BeginCreate(c) \/ Lock(c) \/ Ensure(c) \/ InsertInstance(c) \/ CreateConnectorInstance(c)
       \/ UpsertPreferences(c) \/ PutPreferences(c) \/ AppendFeedback(c) \/ InsertFeedback(c)
       \/ EnsureWeights(c) \/ ReadWeights(c) \/ UpdateLearnedWeights(c)
       \/ ResetLearning(c) \/ ResetFeedback(c) \/ GetPreferences(c) \/ GetPersonalization(c)
       \/ PurgeTokens(c) \/ PurgeSyncStates(c) \/ PurgePersonalization(c) \/ PurgeInstances(c)
       \/ PurgeTenant(c)

Step(c) == Statement(c) \/ DeadlockVictim(c)

Next == /\ \E c \in Client : Step(c) \/ Cancelled(c)
        /\ lasting' = [c \in Client |-> lasting[c] \cap tenants'] /\ UNCHANGED asked

\* A statement that is not waiting runs, and Postgres looks for deadlocks.
Fairness == \A c \in Client : WF_vars(Step(c) /\ Next)
Spec == Init /\ [][Next]_vars /\ Fairness

-----------------------------------------------------------------------------
(* Properties.                                                               *)

\* "concurrent creates cannot race past it": no tenant has more instances than
\* the quota, whatever creates, deletes and purges run side by side
\* (CreateConnectorInstance's advisory lock around the gated INSERT).
QuotaHeld ==
    maxInstances > 0 =>
        \A t \in Tenant : Cardinality(Rows(connector_instances, t)) <= maxInstances

\* A token and a sync state belong to the tenant that owns their instance, and
\* whatever a tenant has hangs on its row, so that a purge of that row leaves
\* nothing of the tenant, in any table (SetSyncState and PutToken insert for
\* the instance "keyed off the tenant-filtered instance row").
NoOrphans ==
    /\ \A r \in sync_states \cup tokens :
          \E i \in connector_instances : i.id = r.id /\ i.t = r.t
    /\ \A T \in {connector_instances, user_preferences, learned_weights, feedback_events} :
          {r.t : r \in T} \subseteq tenants

\* A listing that was paged while tenants came and went names every tenant
\* that was registered all the while, and none twice (AdminService.ListTenants
\* and its keyset cursor).
ListingComplete ==
    \A c \in Client : \A a \in answer[c] :
        (Op(c) = "ListTenants" /\ a.code = "OK") =>
            /\ \A t \in lasting[c] : \E k \in DOMAIN a.val : a.val[k] = t
            /\ \A j, k \in DOMAIN a.val : a.val[j] = a.val[k] => j = k

Others(t) == <<tenants \ {t}, {r \in connector_instances : r.t # t}, {r \in sync_states : r.t # t},
               {r \in tokens : r.t # t}, {r \in user_preferences : r.t # t},
               {r \in learned_weights : r.t # t}, {r \in feedback_events : r.t # t}>>

\* "every method ... MUST scope every read, write, and delete to" its tenant:
\* a statement of a call changes no row of any other tenant.
TenantsApart == [][\A c \in Client : at'[c] # at[c] => UNCHANGED Others(Mine(c))]_vars

\* memStore "mirrors pgStore behavior exactly": every call over Postgres takes
\* effect at once, with the answer that the in-memory store gives in that
\* state, or fails and leaves nothing; but for the differences that the Store
\* module names (the two reads of GetPersonalization, a failed AppendFeedback,
\* the counts of a purge, a reset that found no model).
Atomic == Contract!Spec

\* Every call returns: no lock outlives its transaction, and no two calls wait
\* for each other for good.
CallsEnd == \A c \in Client : <>(at[c] = "done")
=============================================================================
