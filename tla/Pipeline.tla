------------------------------ MODULE Pipeline ------------------------------
(***************************************************************************)
(* The document pipeline: docs.raw -> ingest -> docs.chunked -> enrich ->  *)
(* docs.enriched -> index-writer -> Vespa.  Every topic is keyed by        *)
(* tenant, so a tenant has one partition of each; a stage's consumer takes *)
(* the records of a partition in order under the contract of Consumer, of  *)
(* which this module keeps redelivery (a crash goes back to the committed  *)
(* offset, a commit may fail) and quarantine.                              *)
(*                                                                         *)
(* Ingest deduplicates through a Redis key of (doc_id, version_etag) that  *)
(* is read before the produce and written after it; doc_id is a hash of    *)
(* connector and native id, without the tenant (sdk.DocID).  Tombstones    *)
(* skip the deduplication.                                                 *)
(***************************************************************************)
EXTENDS Integers, Sequences, FiniteSets

CONSTANTS
    Tenant, Doc,
    Etag,         \* version etags a connector may give a document
    FaultKinds,   \* the kinds of failure that may happen, of "crash",
                  \* "commit", "redis", "ttl", "answer" and "handler"
    MaxRaw,       \* bound: documents emitted per tenant
    MaxFaults     \* bound: failures that happen

Stage    == {"ingest", "enrich", "index"}
InTopic  == [ingest |-> "raw", enrich |-> "chunked", index |-> "enriched"]
OutTopic == [ingest |-> "chunked", enrich |-> "enriched"]
Topic    == {"raw", "chunked", "enriched"}
Rec      == [doc : Doc, op : {"upsert", "tombstone"}, etag : Etag]
Absent   == "absent"

VARIABLES
    log,         \* log[topic][t]: tenant t's partition of the topic
    committed,   \* committed[s][t]: offset stage s has committed
    at,          \* at[s][t]: records s is done with since it (re)started
    pc,          \* pc[s][t]: where the handler of s is in record at + 1
    seen,        \* the dedupe keys in Redis
    dead,        \* dead[s][t]: offsets s has quarantined
    index,       \* index[t][d]: the etag Vespa holds, or Absent
    faults,
    lost         \* history: a commit has failed

consumer == <<committed, at, pc>>
vars == <<log, consumer, seen, dead, index, faults, lost>>

TypeOK ==
    /\ log \in [Topic -> [Tenant -> Seq(Rec)]]
    /\ committed \in [Stage -> [Tenant -> Nat]]
    /\ at \in [Stage -> [Tenant -> Nat]]
    /\ \A s \in Stage, t \in Tenant :
         /\ committed[s][t] <= at[s][t]
         /\ at[s][t] <= Len(log[InTopic[s]][t])
         /\ dead[s][t] \subseteq 1..Len(log[InTopic[s]][t])
    /\ pc \in [Stage -> [Tenant -> {"idle", "seen", "produce", "mark", "commit"}]]
    /\ seen \subseteq (Doc \X Etag)
    /\ index \in [Tenant -> [Doc -> Etag \cup {Absent}]]
    /\ faults \in 0..MaxFaults /\ lost \in BOOLEAN

Init ==
    /\ log = [k \in Topic |-> [t \in Tenant |-> <<>>]]
    /\ committed = [s \in Stage |-> [t \in Tenant |-> 0]]
    /\ at = committed
    /\ pc = [s \in Stage |-> [t \in Tenant |-> "idle"]]
    /\ seen = {}
    /\ dead = [s \in Stage |-> [t \in Tenant |-> {}]]
    /\ index = [t \in Tenant |-> [d \in Doc |-> Absent]]
    /\ faults = 0 /\ lost = FALSE

-----------------------------------------------------------------------------
Fault(k) == k \in FaultKinds /\ faults < MaxFaults /\ faults' = faults + 1

Hand(s, t) == log[InTopic[s]][t][at[s][t] + 1]   \* the record in hand
Key(r)     == <<r.doc, r.etag>>
Goto(s, t, l) == pc' = [pc EXCEPT ![s][t] = l]
Out(s, t) ==
    log' = [log EXCEPT ![OutTopic[s]][t] = Append(@, Hand(s, t))]

\* The hub emits a document of a tenant to docs.raw.
Emit(t) ==
    /\ Len(log["raw"][t]) < MaxRaw
    /\ \E r \in Rec : log' = [log EXCEPT !["raw"][t] = Append(@, r)]
    /\ UNCHANGED <<consumer, seen, dead, index, faults, lost>>

\* The consumer calls the handler.  Ingest passes a tombstone through.
Handle(s, t) ==
    /\ pc[s][t] = "idle" /\ at[s][t] < Len(log[InTopic[s]][t])
    /\ Goto(s, t, IF s = "ingest" /\ Hand(s, t).op = "upsert" THEN "seen" ELSE "produce")
    /\ UNCHANGED <<log, committed, at, seen, dead, index, faults, lost>>

\* Ingest reads the dedupe key; a read error counts as "not seen".
Seen(t) ==
    /\ pc["ingest"][t] = "seen"
    /\ \/ /\ Goto("ingest", t, IF Key(Hand("ingest", t)) \in seen THEN "commit" ELSE "produce")
          /\ UNCHANGED faults
       \/ Fault("redis") /\ Goto("ingest", t, "produce")
    /\ UNCHANGED <<log, committed, at, seen, dead, index, lost>>

\* Mutant: the dedupe key is recorded before the produce.
MarkThenProduce(t) ==
    /\ pc["ingest"][t] = "produce"
    /\ IF Hand("ingest", t).op = "upsert" /\ Key(Hand("ingest", t)) \notin seen
         THEN /\ seen' = seen \cup {Key(Hand("ingest", t))}
              /\ UNCHANGED <<log, pc>>
         ELSE Out("ingest", t) /\ Goto("ingest", t, "commit") /\ UNCHANGED seen
    /\ UNCHANGED <<committed, at, dead, index, faults, lost>>

IngestProduce(t) ==
    /\ pc["ingest"][t] = "produce"
    /\ Out("ingest", t)
    /\ Goto("ingest", t, IF Hand("ingest", t).op = "upsert" THEN "mark" ELSE "commit")
    /\ UNCHANGED <<committed, at, seen, dead, index, faults, lost>>

\* Ingest records the key, now that the document is on docs.chunked.
MarkSeen(t) ==
    /\ pc["ingest"][t] = "mark"
    /\ \/ seen' = seen \cup {Key(Hand("ingest", t))} /\ UNCHANGED faults
       \/ Fault("redis") /\ UNCHANGED seen
    /\ Goto("ingest", t, "commit")
    /\ UNCHANGED <<log, committed, at, dead, index, lost>>

\* The enrich worker embeds the chunks, or passes the record through.
EnrichProduce(t) ==
    /\ pc["enrich"][t] = "produce"
    /\ Out("enrich", t)
    /\ Goto("enrich", t, "commit")
    /\ UNCHANGED <<committed, at, seen, dead, index, faults, lost>>

\* What a record leaves in the index: a full-document POST, or a DELETE.
Effect(r) == IF r.op = "tombstone" THEN Absent ELSE r.etag
Feed(t) ==
    LET r == Hand("index", t) IN index' = [index EXCEPT ![t][r.doc] = Effect(r)]

IndexWrite(t) ==
    /\ pc["index"][t] = "produce"
    /\ Feed(t)
    /\ Goto("index", t, "commit")
    /\ UNCHANGED <<log, committed, at, seen, dead, faults, lost>>

\* The answer of a produce or a feed is lost: done, but the handler is retried.
AnswerLost(s, t) ==
    /\ pc[s][t] = "produce" /\ Fault("answer")
    /\ IF s = "index" THEN Feed(t) /\ UNCHANGED log
                      ELSE Out(s, t) /\ UNCHANGED index
    /\ Goto(s, t, "idle")
    /\ UNCHANGED <<committed, at, seen, dead, lost>>

\* Every attempt of the handler failed: the record goes to docs.deadletter.
Quarantine(s, t) ==
    /\ pc[s][t] = "produce" /\ Fault("handler")
    /\ dead' = [dead EXCEPT ![s][t] = @ \cup {at[s][t] + 1}]
    /\ Goto(s, t, "commit")
    /\ UNCHANGED <<log, committed, at, seen, index, lost>>

\* The offset is committed, or the commit fails and is only logged.
Commit(s, t) ==
    /\ pc[s][t] = "commit"
    /\ \/ /\ committed' = [committed EXCEPT ![s][t] = at[s][t] + 1]
          /\ UNCHANGED <<faults, lost>>
       \/ Fault("commit") /\ lost' = TRUE /\ UNCHANGED committed
    /\ at' = [at EXCEPT ![s][t] = @ + 1]
    /\ Goto(s, t, "idle")
    /\ UNCHANGED <<log, seen, dead, index>>

\* A crash or a failover: the partition is read again from the commit.
Crash(s, t) ==
    /\ Fault("crash")
    /\ at' = [at EXCEPT ![s][t] = committed[s][t]]
    /\ Goto(s, t, "idle")
    /\ UNCHANGED <<log, committed, seen, dead, index, lost>>

\* A dedupe key reaches its time to live.
KeyExpires ==
    /\ Fault("ttl")
    /\ \E k \in seen : seen' = seen \ {k}
    /\ UNCHANGED <<log, consumer, dead, index, lost>>

Work(s, t) ==
    \/ Handle(s, t) \/ Commit(s, t)
    \/ s = "ingest" /\ (Seen(t) \/ IngestProduce(t) \/ MarkSeen(t))
    \/ s = "enrich" /\ EnrichProduce(t)
    \/ s = "index" /\ IndexWrite(t)

Next ==
    \/ \E t \in Tenant : Emit(t)
    \/ \E s \in Stage, t \in Tenant :
         Work(s, t) \/ AnswerLost(s, t) \/ Quarantine(s, t) \/ Crash(s, t)
    \/ KeyExpires

Spec == Init /\ [][Next]_vars

\* A consumer that has a record in its partition goes on with it.
FairSpec == Spec /\ \A s \in Stage, t \in Tenant : WF_vars(Work(s, t))

-----------------------------------------------------------------------------
(* Properties *)

Upserts(k, t) ==
    {Key(log[k][t][o]) : o \in {p \in 1..Len(log[k][t]) : log[k][t][p].op = "upsert"}}

\* The order seenStore's comment asks for: a dedupe key is in Redis only when
\* the document it stands for is on docs.chunked, whatever crashes in between;
\* otherwise "the redelivered record would be dropped as a false duplicate".
SeenMeansProduced == seen \subseteq UNION {Upserts("chunked", t) : t \in Tenant}

\* "never skipped silently" (Consumer.Run), of ingest: an upsert whose offset is
\* committed is on its own tenant's docs.chunked, or in the dead letter.
NeverSkippedSilently ==
    \A t \in Tenant : \A o \in 1..committed["ingest"][t] :
        LET r == log["raw"][t][o] IN
        r.op = "upsert" => o \in dead["ingest"][t] \/ Key(r) \in Upserts("chunked", t)

\* Nothing is in flight and no stage has a record left to read.
Drained ==
    \A s \in Stage, t \in Tenant :
        pc[s][t] = "idle" /\ at[s][t] = Len(log[InTopic[s]][t])

\* What the index should hold of a document: the effect of its last record.
Latest(t, d) ==
    LET os == {o \in 1..Len(log["raw"][t]) : log["raw"][t][o].doc = d} IN
    IF os = {} THEN Absent
    ELSE Effect(log["raw"][t][CHOOSE o \in os : \A p \in os : p <= o])

\* No tenant gives two of a document's records the same etag.
Fresh ==
    \A t \in Tenant : LET raw == log["raw"][t] IN
        \A o, p \in 1..Len(raw) : Key(raw[o]) = Key(raw[p]) => o = p

\* With nothing quarantined, a drained pipeline has brought the index to the
\* source's state: every document shows its newest version, and a deleted one
\* is gone ("Zero data loss = the dead-letter counter", ADR-017).  Two things
\* are needed for it: etags are fresh, as a restored etag is a false duplicate,
\* and no commit was lost, as a crash then replays an older version.
ZeroDataLoss ==
    Drained /\ Fresh /\ ~lost /\ (\A s \in Stage, t \in Tenant : dead[s][t] = {})
        => \A t \in Tenant, d \in Doc : index[t][d] = Latest(t, d)
=============================================================================
