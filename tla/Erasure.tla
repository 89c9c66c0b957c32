------------------------------ MODULE Erasure ------------------------------
(* The erasure of one tenant: the control plane's cascadeDelete, step by     *)
(* step, against everything that writes the tenant's data meanwhile: the     *)
(* user's requests, the hub's sync worker, the ingestion pipeline and the    *)
(* retries of the cascade itself.                                            *)
(*                                                                           *)
(* What a store holds is reduced to whether it holds anything of the tenant: *)
(* "token" (tokens), "dek" (tenant_deks), "blob" (the MinIO prefix), "index" *)
(* (the Vespa group), "cache" (the Redis q:, rl:, pref, weights and recent   *)
(* keys), "seen" (ingest's Redis dedupe keys) and "hubDek" (the hub's own    *)
(* DEK file, under which it encrypts blobs).  All purgers are configured.    *)
EXTENDS Integers, FiniteSets

CONSTANTS MaxInFlight,  \* bound: records of the tenant per topic
          MaxRequests,  \* bound: requests of the user besides the erasure
          MaxFaults     \* bound: failing store operations

VARIABLES instance,   \* "none", or the status of the connector instance (its
                      \* row stands for the tenant's rows it depends on)
          held,       \* the stores that hold data of the tenant
          topic,      \* topic -> records of the tenant waiting in it
          worker,     \* the hub runs a sync worker for the instance
          putting,    \* a PutToken is between Encrypt and the insert
          uploading,  \* an upload is between the blob and the document
          step,       \* the cascade's next step, "idle" when none runs
          report,     \* the last cascade's answer
          redisFailed,
          alone,      \* history: this cascade began in a drained system and
                      \* nothing else has written data since
          requests, faults

vars == <<instance, held, topic, worker, putting, uploading, step, report,
          redisFailed, alone, requests, faults>>
cascade == <<step, report, redisFailed>>

Store == {"token", "dek", "blob", "index", "cache", "seen", "hubDek"}
Topic == {"raw", "chunked", "enriched"}
Step == {"suspend", "shred", "purge", "vespa", "blobs", "redis", "verify"}

\* The stores cascadeDelete purges.
Purged == {"token", "dek", "blob", "index", "cache"}

TypeOK == /\ instance \in {"none", "ACTIVE", "PAUSED"}
          /\ held \subseteq Store
          /\ topic \in [Topic -> 0..MaxInFlight]
          /\ worker \in BOOLEAN /\ putting \in BOOLEAN /\ uploading \in BOOLEAN
          /\ step \in Step \cup {"idle"}
          /\ report \in {"none", "failed", "partial", "verified"}
          /\ redisFailed \in BOOLEAN /\ alone \in BOOLEAN
          /\ requests \in 0..MaxRequests /\ faults \in 0..MaxFaults

Init == /\ instance = "none" /\ held = {}
        /\ topic = [t \in Topic |-> 0]
        /\ worker = FALSE /\ putting = FALSE /\ uploading = FALSE
        /\ step = "idle" /\ report = "none" /\ redisFailed = FALSE
        /\ alone = FALSE
        /\ requests = 0 /\ faults = 0

Drained == /\ ~worker /\ ~putting /\ ~uploading
           /\ \A t \in Topic : topic[t] = 0

Produced(t) == [topic EXCEPT ![t] = @ + 1]
Moved(t, u) == [topic EXCEPT ![t] = @ - 1, ![u] = @ + 1]

-----------------------------------------------------------------------------
(* The user's requests.                                                      *)

Request == requests < MaxRequests /\ requests' = requests + 1

\* Creating a connector instance also creates the tenant's row.
CreateConnectorInstance ==
    /\ Request /\ instance = "none"
    /\ instance' = "ACTIVE"
    /\ UNCHANGED <<held, topic, worker, putting, uploading, faults>>

\* PutToken, from the user or from the hub's refresh: Encrypt provisions the
\* DEK before anything is asked about the instance; the insert selects the
\* instance's row and writes nothing without it.
EncryptToken ==
    /\ Request /\ ~putting
    /\ putting' = TRUE
    /\ held' = held \cup {"dek"}
    /\ UNCHANGED <<instance, topic, worker, uploading, faults>>

PutToken ==
    /\ putting
    /\ putting' = FALSE
    /\ held' = IF instance # "none" THEN held \cup {"token"} ELSE held
    /\ UNCHANGED <<instance, topic, worker, uploading, requests, faults>>

\* HandleUpload stores the blob under the hub's DEK, then the hub emits.
HandleUpload ==
    /\ Request /\ ~uploading
    /\ uploading' = TRUE
    /\ held' = held \cup {"blob", "hubDek"}
    /\ UNCHANGED <<instance, topic, worker, putting, faults>>

EmitUpload ==
    /\ uploading /\ topic["raw"] < MaxInFlight
    /\ uploading' = FALSE
    /\ topic' = Produced("raw")
    /\ UNCHANGED <<instance, held, worker, putting, requests, faults>>

\* A search leaves result-cache, rate-limit and read-cache keys in Redis.
Search ==
    /\ Request
    /\ held' = held \cup {"cache"}
    /\ UNCHANGED <<instance, topic, worker, putting, uploading, faults>>

-----------------------------------------------------------------------------
(* The hub and the pipeline.                                                 *)

\* The scheduler's tick aligns the worker with the instance's status.
Reconcile ==
    /\ worker # (instance = "ACTIVE")
    /\ worker' = (instance = "ACTIVE")
    /\ UNCHANGED <<instance, held, topic, putting, uploading, requests, faults>>

\* A sync pass emits a document.
Emit ==
    /\ worker /\ topic["raw"] < MaxInFlight
    /\ topic' = Produced("raw")
    /\ UNCHANGED <<instance, held, worker, putting, uploading, requests, faults>>

\* Ingest drops a document whose key is marked, else passes it on and marks it.
Ingest ==
    /\ topic["raw"] > 0
    /\ \/ "seen" \in held /\ topic' = [topic EXCEPT !["raw"] = @ - 1] /\ UNCHANGED held
       \/ /\ "seen" \notin held /\ topic["chunked"] < MaxInFlight
          /\ topic' = Moved("raw", "chunked")
          /\ held' = held \cup {"seen"}
    /\ UNCHANGED <<instance, worker, putting, uploading, requests, faults>>

\* Enrichment of a media document stores derivatives through the hub.
Enrich ==
    /\ topic["chunked"] > 0 /\ topic["enriched"] < MaxInFlight
    /\ topic' = Moved("chunked", "enriched")
    /\ held' \in {held, held \cup {"blob", "hubDek"}}
    /\ UNCHANGED <<instance, worker, putting, uploading, requests, faults>>

IndexWrite ==
    /\ topic["enriched"] > 0
    /\ topic' = [topic EXCEPT !["enriched"] = @ - 1]
    /\ held' = held \cup {"index"}
    /\ UNCHANGED <<instance, worker, putting, uploading, requests, faults>>

\* The dedupe keys live for seenTTL, and can be gone at any time after it.
SeenExpires ==
    /\ "seen" \in held
    /\ held' = held \ {"seen"}
    /\ UNCHANGED <<instance, topic, worker, putting, uploading, requests, faults>>

Writers == \/ CreateConnectorInstance \/ EncryptToken \/ PutToken
           \/ HandleUpload \/ EmitUpload \/ Search
           \/ Emit \/ Ingest \/ Enrich \/ IndexWrite

Others == \/ Writers /\ alone' = FALSE /\ UNCHANGED cascade
          \/ (Reconcile \/ SeenExpires) /\ UNCHANGED <<cascade, alone>>

-----------------------------------------------------------------------------
(* The cascade.                                                              *)

\* DeleteTenant or AdminDeleteTenant: a first erasure, a retry or a re-run.
DeleteTenant ==
    /\ step = "idle"
    /\ step' = "suspend" /\ report' = "none" /\ redisFailed' = FALSE
    /\ alone' = Drained
    /\ UNCHANGED <<instance, held, topic, worker, putting, uploading, requests, faults>>

At(here, next) == step = here /\ step' = next
Rest == UNCHANGED <<topic, worker, putting, uploading, alone, requests, faults>>

\* 0. The re-ingest fence.
SuspendConnectors ==
    /\ At("suspend", "shred")
    /\ instance' = IF instance = "ACTIVE" THEN "PAUSED" ELSE instance
    /\ UNCHANGED <<held, report, redisFailed>> /\ Rest

\* 1. DEKStore.Delete and Forget (TenantCipher has the cache).
ShredDEK ==
    /\ At("shred", "purge")
    /\ held' = held \ {"dek"}
    /\ UNCHANGED <<instance, report, redisFailed>> /\ Rest

\* Mutant: the tenant's row stays, and its connector instances with it.
PurgeTokensOnly ==
    /\ At("purge", "vespa")
    /\ held' = held \ {"token"}
    /\ UNCHANGED <<instance, report, redisFailed>> /\ Rest

\* 2. The Postgres transaction: tokens, sync states, instances, tenant row.
PurgeTenant ==
    /\ At("purge", "vespa")
    /\ instance' = "none" /\ held' = held \ {"token"}
    /\ UNCHANGED <<report, redisFailed>> /\ Rest

\* 3a. The Vespa group, continuations followed to the end.
PurgeGroup ==
    /\ At("vespa", "blobs")
    /\ held' = held \ {"index"}
    /\ UNCHANGED <<instance, report, redisFailed>> /\ Rest

\* 3b. The blob prefix.
DeletePrefix ==
    /\ At("blobs", "redis")
    /\ held' = held \ {"blob"}
    /\ UNCHANGED <<instance, report, redisFailed>> /\ Rest

\* 3c. The Redis keys by pattern; ingest's dedupe keys carry no tenant and
\* match none of the patterns.
PurgeRedis ==
    /\ At("redis", "verify")
    /\ held' = held \ {"cache"}
    /\ UNCHANGED <<instance, report, redisFailed>> /\ Rest

\* 3c fails: logged, and the cascade goes on.
PurgeRedisFails ==
    /\ At("redis", "verify")
    /\ faults < MaxFaults /\ faults' = faults + 1
    /\ redisFailed' = TRUE
    /\ UNCHANGED <<instance, held, report, topic, worker, putting, uploading, alone, requests>>

\* Mutant: a failed Redis purge is reported as complete.
VerifyIgnoresRedis ==
    /\ At("verify", "idle")
    /\ report' = IF instance # "none" \/ "token" \in held THEN "failed" ELSE "verified"
    /\ UNCHANGED <<instance, held, redisFailed>> /\ Rest

\* 4. TenantResidue reads the tenant's Postgres rows; residue fails the call,
\* and VerifiedEmpty also needs the Redis purge.
Verify ==
    /\ At("verify", "idle")
    /\ report' = CASE instance # "none" \/ "token" \in held -> "failed"
                   [] redisFailed -> "partial"
                   [] OTHER -> "verified"
    /\ UNCHANGED <<instance, held, redisFailed>> /\ Rest

\* Any other step fails, or the process dies: the call returns an error, what
\* was done stays done.
CascadeFails ==
    /\ step \in Step \ {"redis"}
    /\ faults < MaxFaults /\ faults' = faults + 1
    /\ step' = "idle" /\ report' = "failed"
    /\ UNCHANGED <<instance, held, redisFailed, topic, worker, putting, uploading, alone, requests>>

CascadeStep == \/ SuspendConnectors \/ ShredDEK \/ PurgeTenant \/ PurgeGroup
               \/ DeletePrefix \/ PurgeRedis \/ Verify

Next == Others \/ DeleteTenant \/ CascadeStep \/ PurgeRedisFails \/ CascadeFails

Spec == Init /\ [][Next]_vars

\* The hub ticks, consumers consume, started requests end, a started cascade
\* goes on, and the caller runs the erasure again and again.
FairSpec == /\ Spec
            /\ WF_vars(Reconcile /\ UNCHANGED <<cascade, alone>>)
            /\ WF_vars((PutToken \/ EmitUpload) /\ alone' = FALSE /\ UNCHANGED cascade)
            /\ WF_vars(Ingest /\ alone' = FALSE /\ UNCHANGED cascade)
            /\ WF_vars(Enrich /\ alone' = FALSE /\ UNCHANGED cascade)
            /\ WF_vars(IndexWrite /\ alone' = FALSE /\ UNCHANGED cascade)
            /\ WF_vars(DeleteTenant)
            /\ WF_vars(CascadeStep \/ PurgeRedisFails \/ CascadeFails)

-----------------------------------------------------------------------------
(* Properties.                                                               *)

Erased == instance = "none" /\ held \cap Purged = {}

\* However many earlier attempts failed half-way or raced the pipeline, a
\* cascade that begins in a drained system, is not overlapped by a writer and
\* answers verified_empty has emptied every store it purges, and they stay
\* empty until someone writes ("re-runs the cascade after the pipeline drains").
RerunErases == (report = "verified" /\ alone) => Erased

\* The cascade is idempotent and converges: re-run often enough, the tenant's
\* data is gone for good once the tenant stops sending requests.
EventuallyErased == <>[]Erased

\* "re-read Postgres and the DEK store; a residue fails the RPC": no cascade
\* answers verified_empty over a DEK that is still (or again) there.
VerifiedMeansShredded ==
    [][(step = "verify" /\ report' = "verified") => "dek" \notin held]_vars
=============================================================================
