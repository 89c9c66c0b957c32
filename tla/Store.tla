------------------------------- MODULE Store -------------------------------
(* The control plane's persistence boundary (services/control-plane store.go) *)
(* and its RPC handlers, as the in-memory store implements them: every call  *)
(* holds one mutex from its first read to its last write.  PgStore, the      *)
(* store of production, is checked to implement this.                        *)
(*                                                                           *)
(* The state is a record of maps; an optional entry is a set of at most one  *)
(* row.  A call is a request [op, t, id, arg]: the method, the tenant of the *)
(* caller, and the instance and argument of the methods that have one.       *)
EXTENDS Integers, FiniteSets, Sequences

CONSTANTS Client,        \* calls; each is made once
          Tenant,        \* numbers, in the order of the tenant ids
          Id,            \* numbers, in the order the instances are created
          maxInstances   \* the connector quota; 0 and less disable it

VARIABLES db,     \* [tenants, inst, sync, token, prefs, weights, feedback]
          asked,  \* client -> the request it makes
          half,   \* client -> the preferences that a GetPersonalization in
                  \* progress has read
          answer  \* client -> what its call returned, {} before

Empty(S) == [k \in S |-> {}]
NoRows == [tenants |-> {}, inst |-> Empty(Id), sync |-> Empty(Id), token |-> Empty(Id),
           prefs |-> Empty(Tenant), weights |-> Empty(Tenant), feedback |-> Empty(Tenant)]

Found(v)  == [code |-> "OK", val |-> v]
NotFound  == [code |-> "NotFound", val |-> <<>>]
Invalid   == [code |-> "InvalidArgument", val |-> <<>>]
Exhausted == [code |-> "ResourceExhausted", val |-> <<>>]
Internal  == [code |-> "Internal", val |-> <<>>]
Ok == Found(<<>>)

\* What earlier calls have left: nothing, a tenant with everything, and two
\* tenants, one of them with two instances if the quota lets it have them.
Row(t, status) == {[t |-> t, status |-> status]}
Only(S, k, v) == [x \in S |-> IF x = k THEN v ELSE {}]
Synced == Only(Id, 1, {[t |-> 1, phase |-> "INCREMENTAL", docs |-> 1]})
Busy == [tenants |-> {1}, inst |-> Only(Id, 1, Row(1, "ACTIVE")),
         sync |-> Synced, token |-> Only(Id, 1, {[t |-> 1]}),
         prefs |-> Only(Tenant, 1, {1}), weights |-> Only(Tenant, 1, {1}),
         feedback |-> Only(Tenant, 1, {"earlier"})]
Full == [tenants |-> {1, 2}, inst |-> [i \in Id |-> IF i = 1 THEN Row(1, "PAUSED")
                                              ELSE IF i = 2 THEN Row(1, "ACTIVE") ELSE {}],
         sync |-> Synced, token |-> Only(Id, 1, {[t |-> 1]}),
         prefs |-> Empty(Tenant), weights |-> Empty(Tenant), feedback |-> Empty(Tenant)]
Seeds == {NoRows, Busy} \cup IF maxInstances = 1 THEN {} ELSE {Full}

Reply(d, a) == [db |-> d, a |-> a]
Register(d, t) == [d EXCEPT !.tenants = @ \cup {t}]

InstancesOf(d, t) == {i \in Id : \E r \in d.inst[i] : r.t = t}
ownedInstance(d, t, id) == id \in InstancesOf(d, t)

\* ORDER BY, over a strict order that is total on S.
Sorted(S, before(_, _)) ==
    CHOOSE q \in [1..Cardinality(S) -> S] : \A j, k \in DOMAIN q : j < k => before(q[j], q[k])
InOrder(S) == Sorted(S, <)

-----------------------------------------------------------------------------
(* The requests, and the checks the handlers make before they call the       *)
(* store.  An id of 0 is one that is no UUID; the arguments of SetSyncState  *)
(* are phases, or a count of documents below zero.                           *)

ByTenant == {"EnsureTenant", "CreateConnectorInstance", "ListConnectorInstances",
             "CountConnectorInstances", "PurgeTenant", "TenantResidue", "GetTenantUsage",
             "GetPersonalization", "PutPreferences", "AppendFeedback",
             "UpdateLearnedWeights", "ResetLearning"}
ByInstance == {"GetConnectorInstance", "DeleteConnectorInstance", "GetSyncState",
               "PutToken", "GetToken", "DeleteToken"}

Ask(ops, ids, args) == [op : ops, t : Tenant, id : ids, arg : args]
Request == Ask(ByTenant, {0}, {""})
           \cup Ask(ByInstance, {0, 1}, {""})
           \cup Ask({"SetSyncState"}, {1}, {"UNSPECIFIED", "INCREMENTAL", "unknown", "negative"})
           \cup Ask({"SetTenantConnectorStatus"}, {0}, {"PAUSED", "ACTIVE"})
           \cup [op : {"ListAll", "ListTenants"}, t : {0}, id : {0}, arg : {""}]

parseInstanceID(q) == q.op \in ByInstance => q.id # 0

normalizePhase(arg) == IF arg = "UNSPECIFIED" THEN {"PENDING"}
                       ELSE {"INCREMENTAL"} \cap {arg}

Valid(q) == /\ parseInstanceID(q)
            /\ q.op = "SetSyncState" => normalizePhase(q.arg) # {}

-----------------------------------------------------------------------------
(* Instances, sync states and tokens.                                        *)

EnsureTenant(q, d) == Reply(Register(d, q.t), Ok)

\* The count and the insert are one critical section; over the cap nothing is
\* written.
CreateConnectorInstance(q, d, id) ==
    IF maxInstances > 0 /\ Cardinality(InstancesOf(d, q.t)) >= maxInstances
    THEN Reply(d, Exhausted)
    ELSE Reply([Register(d, q.t) EXCEPT !.inst[id] = {[t |-> q.t, status |-> "ACTIVE"]}],
               Found(<<id>>))

ListConnectorInstances(q, d) == Reply(d, Found(InOrder(InstancesOf(d, q.t))))
CountConnectorInstances(q, d) == Reply(d, Found(<<Cardinality(InstancesOf(d, q.t))>>))

\* Ordered by tenant and then by creation.
ListAll(q, d) ==
    LET owner(i) == (CHOOSE r \in d.inst[i] : TRUE).t
    IN  Reply(d, Found(Sorted({i \in Id : d.inst[i] # {}},
                              LAMBDA i, j : owner(i) < owner(j) \/ (owner(i) = owner(j) /\ i < j))))

Status(s) == IF s = "PAUSED" THEN 1 ELSE 0
GetConnectorInstance(q, d) ==
    Reply(d, IF ownedInstance(d, q.t, q.id)
             THEN Found([k \in 1..1 |-> Status((CHOOSE r \in d.inst[q.id] : TRUE).status)])
             ELSE NotFound)

\* The sync state and the token go with the instance.
DeleteConnectorInstance(q, d) ==
    IF ownedInstance(d, q.t, q.id)
    THEN Reply([d EXCEPT !.inst[q.id] = {}, !.sync[q.id] = {}, !.token[q.id] = {}], Ok)
    ELSE Reply(d, NotFound)

Phase(p) == IF p = "PENDING" THEN 0 ELSE 1

\* An instance that never synced reads as PENDING, with nothing emitted.
GetSyncState(q, d) ==
    Reply(d, IF ~ownedInstance(d, q.t, q.id) THEN NotFound
             ELSE IF d.sync[q.id] = {} THEN Found(<<0, 0>>)
             ELSE LET s == CHOOSE s \in d.sync[q.id] : TRUE IN Found(<<Phase(s.phase), s.docs>>))

SetSyncState(q, d) ==
    IF ownedInstance(d, q.t, q.id)
    THEN LET row == [t |-> q.t, phase |-> CHOOSE p \in normalizePhase(q.arg) : TRUE, docs |-> 1]
         IN  Reply([d EXCEPT !.sync[q.id] = {row}], Found(<<Phase(row.phase), row.docs>>))
    ELSE Reply(d, NotFound)

PutToken(q, d) ==
    IF ownedInstance(d, q.t, q.id) THEN Reply([d EXCEPT !.token[q.id] = {[t |-> q.t]}], Ok)
    ELSE Reply(d, NotFound)

HasToken(d, t, id) == \E k \in d.token[id] : k.t = t
GetToken(q, d) == Reply(d, IF HasToken(d, q.t, q.id) THEN Ok ELSE NotFound)
DeleteToken(q, d) ==
    IF HasToken(d, q.t, q.id) THEN Reply([d EXCEPT !.token[q.id] = {}], Ok)
    ELSE Reply(d, NotFound)

-----------------------------------------------------------------------------
(* The administrator's methods.                                              *)

\* The instances of the tenant with what hangs on them, the tenant itself, and
\* its personalization.  The counts are of instances and tokens.
PurgeTenant(q, d) ==
    LET mine == InstancesOf(d, q.t)
        Drop(f) == [i \in Id |-> IF i \in mine THEN {} ELSE f[i]]
        gone == [d EXCEPT !.tenants = @ \ {q.t},
                          !.inst = Drop(@), !.sync = Drop(@), !.token = Drop(@),
                          !.prefs[q.t] = {}, !.weights[q.t] = {}, !.feedback[q.t] = {}]
    IN  Reply(gone, Found(<<Cardinality(mine), Cardinality({i \in mine : HasToken(d, q.t, i)})>>))

\* 1 for "empty".  The sync states are not looked at.
TenantResidue(q, d) ==
    LET some == \/ q.t \in d.tenants
                \/ InstancesOf(d, q.t) # {}
                \/ \E i \in Id : HasToken(d, q.t, i)
                \/ d.prefs[q.t] # {} \/ d.weights[q.t] # {} \/ d.feedback[q.t] # {}
    IN  Reply(d, Found(<<IF some THEN 0 ELSE 1>>))

\* Instances, documents emitted, and whether all the instances are paused.
usageLocked(d, t) ==
    LET mine == InstancesOf(d, t)
        paused == {i \in mine : \E r \in d.inst[i] : r.status = "PAUSED"}
    IN  <<Cardinality(mine), Cardinality({i \in mine : d.sync[i] # {}}),
          IF mine # {} /\ paused = mine THEN 1 ELSE 0>>

GetTenantUsage(q, d) ==
    Reply(d, IF q.t \in d.tenants THEN Found(usageLocked(d, q.t)) ELSE NotFound)

SetTenantConnectorStatus(q, d) ==
    LET moved == {i \in InstancesOf(d, q.t) : \E r \in d.inst[i] : r.status # q.arg}
    IN  Reply([d EXCEPT !.inst = [i \in Id |-> IF i \in moved THEN {[t |-> q.t, status |-> q.arg]}
                                                ELSE d.inst[i]]],
              Found(<<Cardinality(moved)>>))

-----------------------------------------------------------------------------
(* Personalization: the version of the profile, the number of events folded  *)
(* into the model, and the clients whose feedback is on record.              *)

One(S) == IF S = {} THEN 0 ELSE CHOOSE n \in S : TRUE

PutPreferences(q, d) ==
    LET v == One(d.prefs[q.t]) + 1 IN Reply([Register(d, q.t) EXCEPT !.prefs[q.t] = {v}], Found(<<v>>))

AppendFeedback(q, d, c) == Reply([Register(d, q.t) EXCEPT !.feedback[q.t] = @ \cup {c}], Ok)

UpdateLearnedWeights(q, d) ==
    Reply([Register(d, q.t) EXCEPT !.weights[q.t] = {One(@) + 1}], Ok)

ResetLearning(q, d) ==
    Reply([d EXCEPT !.weights[q.t] = {}, !.feedback[q.t] = {}],
          Found(<<Cardinality(d.feedback[q.t])>>))

-----------------------------------------------------------------------------
Serve(c, q, d, id) ==
    CASE q.op = "EnsureTenant" -> EnsureTenant(q, d)
      [] q.op = "CreateConnectorInstance" -> CreateConnectorInstance(q, d, id)
      [] q.op = "ListConnectorInstances" -> ListConnectorInstances(q, d)
      [] q.op = "CountConnectorInstances" -> CountConnectorInstances(q, d)
      [] q.op = "ListAll" -> ListAll(q, d)
      [] q.op = "GetConnectorInstance" -> GetConnectorInstance(q, d)
      [] q.op = "DeleteConnectorInstance" -> DeleteConnectorInstance(q, d)
      [] q.op = "GetSyncState" -> GetSyncState(q, d)
      [] q.op = "SetSyncState" -> SetSyncState(q, d)
      [] q.op = "PutToken" -> PutToken(q, d)
      [] q.op = "GetToken" -> GetToken(q, d)
      [] q.op = "DeleteToken" -> DeleteToken(q, d)
      [] q.op = "PurgeTenant" -> PurgeTenant(q, d)
      [] q.op = "TenantResidue" -> TenantResidue(q, d)
      [] q.op = "GetTenantUsage" -> GetTenantUsage(q, d)
      [] q.op = "SetTenantConnectorStatus" -> SetTenantConnectorStatus(q, d)
      [] q.op = "PutPreferences" -> PutPreferences(q, d)
      [] q.op = "AppendFeedback" -> AppendFeedback(q, d, c)
      [] q.op = "UpdateLearnedWeights" -> UpdateLearnedWeights(q, d)
      [] q.op = "ResetLearning" -> ResetLearning(q, d)

Answers(c, a) == answer[c] = {} /\ answer' = [answer EXCEPT ![c] = {a}]

\* A call takes effect at once, with the answer of that moment.
Call(c) ==
    LET q == asked[c] IN
    /\ Valid(q) /\ q.op \notin {"GetPersonalization", "ListTenants"} /\ UNCHANGED half
    /\ \E id \in Id : /\ q.op = "CreateConnectorInstance" => db.inst[id] = {}
                      /\ LET r == Serve(c, q, db, id) IN db' = r.db /\ Answers(c, r.a)

\* The profile and the model are two reads.
GetPreferences(c) ==
    /\ asked[c].op = "GetPersonalization" /\ answer[c] = {} /\ half[c] = {}
    /\ half' = [half EXCEPT ![c] = {One(db.prefs[asked[c].t])}]
    /\ UNCHANGED <<db, answer>>

GetPersonalization(c) ==
    \E version \in half[c] :
        /\ Answers(c, Found(<<version, One(db.weights[asked[c].t])>>))
        /\ half' = [half EXCEPT ![c] = {}] /\ UNCHANGED db

Refuse(c) == ~Valid(asked[c]) /\ Answers(c, Invalid) /\ UNCHANGED <<db, half>>

\* A call that fails has written nothing; only a feedback event is written in
\* two statements, the first of which registers the tenant.
Fails(c) == Answers(c, Internal) /\ half' = [half EXCEPT ![c] = {}] /\ UNCHANGED db
RegisterOnly(c) == /\ asked[c].op = "AppendFeedback" /\ answer[c] = {}
                   /\ db' = Register(db, asked[c].t) /\ UNCHANGED <<half, answer>>

\* Rows that are written while the tenant is being purged go with it, and are
\* not in the counts of the answer.
PurgeUncounted(c) ==
    LET r == PurgeTenant(asked[c], db)
    IN  /\ asked[c].op = "PurgeTenant" /\ db' = r.db /\ UNCHANGED half
        /\ \E n \in 0..r.a.val[1], m \in 0..r.a.val[2] : Answers(c, Found(<<n, m>>))

\* A listing that was promised no snapshot ends: it names tenants in order.
ListTenants(c) ==
    /\ asked[c].op = "ListTenants" /\ UNCHANGED <<db, half>>
    /\ \E S \in SUBSET Tenant : Answers(c, Found(InOrder(S)))

\* The events are deleted, and a model that appeared meanwhile is kept.
ResetLogOnly(c) ==
    /\ asked[c].op = "ResetLearning" /\ UNCHANGED half
    /\ db' = [db EXCEPT !.feedback[asked[c].t] = {}]
    /\ Answers(c, Found(<<Cardinality(db.feedback[asked[c].t])>>))

Init == /\ db \in Seeds /\ asked \in [Client -> Request]
        /\ half = Empty(Client) /\ answer = Empty(Client)

Next == /\ \E c \in Client : \/ Call(c) \/ Refuse(c) \/ Fails(c)
                            \/ PurgeUncounted(c) \/ ResetLogOnly(c) \/ ListTenants(c)
                            \/ GetPreferences(c) \/ GetPersonalization(c) \/ RegisterOnly(c)
        /\ UNCHANGED asked

vars == <<db, asked, half, answer>>
Spec == Init /\ [][Next]_vars
=============================================================================
