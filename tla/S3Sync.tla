------------------------------- MODULE S3Sync -------------------------------
(***************************************************************************)
(* The S3 connector (connectors/s3/sync.go, cursor.go) run by the hub's    *)
(* sync pass.  S3 has no change feed: a pass lists the bucket in key order *)
(* and compares it with the cursor, which holds the keys of the last pass  *)
(* and the greatest LastModified it saw.                                   *)
(*                                                                         *)
(* The bucket is external.  An object is a LastModified time and a version *)
(* that tells its bytes, and so its ETag, apart; version 0 is "no object". *)
(* The listing comes in pages, one fetched ahead of the objects in hand: a *)
(* listed entry is the object as it was when its page was fetched, and its *)
(* body, for small text, is read later, as the object is then.             *)
(* `indexed' is the document of each key: the ETag of the entry, and the   *)
(* version its body was read from, 0 when it was not read.                 *)
(***************************************************************************)
EXTENDS SyncPass, Sequences, SequencesExt, FiniteSetsExt

CONSTANTS Key,               \* object keys, in listing order
          Text,              \* the keys of small text objects (shouldFetchBody)
          listPageSize,
          checkpointEvery,   \* objects between two checkpoints
          MaxPuts            \* bound: writes and deletions in the bucket

VARIABLES bucket,    \* bucket[k]: the object at k
          clock, puts,
          at,        \* "start", "backfill", "reconcile", "tombstones", "done"
          token,     \* the next page starts after this key; End when none is left
          work,      \* the listed entries that the pass has not handled
          keys,      \* the keys handled
          maxMod,    \* the greatest LastModified handled
          since,     \* objects since the last checkpoint
          gone,      \* keys of the last pass still to be tombstoned
          indexed,
          seen,      \* the dedupe keys of ingest
          hidden,    \* history: written where the mark or the dedupe may hide it
          stray      \* history: handled by a pass that then stored no keyset

source == <<bucket, clock, puts>>
conn   == <<at, token, work, keys, maxMod, since, gone>>
index  == <<indexed, seen>>
past   == <<hidden, stray>>
vars   == <<hub, source, conn, index, past>>

NoObject == [mod |-> 0, ver |-> 0]
Present  == {k \in Key : bucket[k].ver # 0}
End      == -1

\* The document of version v of k, the one without a body, and none.
Document(k, v) == [etag |-> v, body |-> IF k \in Text THEN v ELSE 0]
Bare(v)        == [etag |-> v, body |-> 0]
NoDocument     == Bare(0)

\* cursorState; a completed pass has no last key.
Cursor(k, m, ks) == [last |-> k, max |-> m, keys |-> ks]
Steady(c) == c # NoCursor /\ c.last = 0

TypeOK ==
    /\ stored \in [cursor : {NoCursor} \cup [last : {0} \cup Key, max : 0..MaxPuts + 1, keys : SUBSET Key],
                   phase : Phase]
    /\ pass \in {"idle", "full", "incremental"} /\ faults \in 0..MaxFaults
    /\ bucket \in [Key -> [mod : 0..MaxPuts + 1, ver : 0..MaxPuts + 1]]
    /\ at \in {"start", "backfill", "reconcile", "tombstones", "done"}
    /\ token \in {0, End} \cup Key /\ Len(work) <= listPageSize + 1
    /\ \A i \in DOMAIN work : work[i].key \in Key /\ work[i].ver # 0
    /\ keys \subseteq Key /\ maxMod \in 0..MaxPuts + 1
    /\ since \in 0..checkpointEvery - 1 /\ gone \subseteq Key
    /\ indexed \in [Key -> [etag : 0..MaxPuts + 1, body : 0..MaxPuts + 1]]
    /\ seen \subseteq Key \X (1..MaxPuts + 1) /\ hidden \subseteq Key /\ stray \subseteq Key
    /\ pass = "idle" => at = "start"

Init ==
    /\ HubInit
    /\ bucket \in [Key -> {NoObject, [mod |-> 1, ver |-> 1]}]
    /\ clock = 1 /\ puts = 1
    /\ at = "start" /\ token = 0 /\ work = <<>>
    /\ keys = {} /\ maxMod = 0 /\ since = 0 /\ gone = {}
    /\ indexed = [k \in Key |-> NoDocument] /\ seen = {} /\ hidden = {} /\ stray = {}

Reset ==
    /\ at' = "start" /\ token' = 0 /\ work' = <<>> /\ keys' = {} /\ maxMod' = 0
    /\ since' = 0 /\ gone' = {}

-----------------------------------------------------------------------------
(* The bucket *)

\* How far the listing has come that an object written later may be listed by:
\* the mark may pass a write behind it.  A backfill may be resumed, and list on.
Position ==
    CASE at = "start" -> IF stored.cursor = NoCursor THEN 0 ELSE stored.cursor.last
      [] at = "backfill" -> IF token = End THEN Max(Key) ELSE token
      [] at = "reconcile" -> IF token = End THEN 0 ELSE token
      [] OTHER -> 0

\* A write of new bytes, or of bytes that ingest has seen at this key.  It may
\* share its LastModified with the write before it.
Put(k) ==
    /\ puts <= MaxPuts /\ puts' = puts + 1
    /\ clock' \in {clock, clock + 1}
    /\ \E v \in {puts'} \cup {w \in 1..puts : <<k, w>> \in seen} :
         /\ bucket' = [bucket EXCEPT ![k] = [mod |-> clock', ver |-> v]]
         /\ hidden' = IF clock' = clock \/ k <= Position \/ v # puts'
                      THEN hidden \cup {k} ELSE hidden \ {k}
    /\ UNCHANGED <<hub, conn, index, stray>>

Delete(k) ==
    /\ k \in Present /\ puts <= MaxPuts /\ puts' = puts + 1
    /\ bucket' = [bucket EXCEPT ![k] = NoObject]
    /\ UNCHANGED <<hub, clock, conn, index, past>>

-----------------------------------------------------------------------------
(* The pass *)

StartPass == (Begin \/ BeginFails) /\ UNCHANGED <<source, conn, index, past>>

\* What was handled and is not in the stored keyset when the pass fails.
Strands(ks) ==
    stray' = stray \cup (IF stored'.cursor = NoCursor THEN ks ELSE ks \ stored'.cursor.keys)

Interrupted == Abort /\ Reset /\ Strands(keys) /\ UNCHANGED <<source, index, hidden>>

FullSync ==
    /\ pass = "full" /\ at = "start"
    /\ at' = "backfill"
    /\ UNCHANGED <<hub, source, token, work, keys, maxMod, since, gone, index, past>>

\* A checkpoint resumes its backfill, with the progress it recorded.
IncrementalSync ==
    /\ pass = "incremental" /\ at = "start"
    /\ maxMod' = runCursor.max
    /\ IF Steady(runCursor)
       THEN at' = "reconcile" /\ UNCHANGED <<token, keys>>
       ELSE at' = "backfill" /\ token' = runCursor.last /\ keys' = runCursor.keys
    /\ UNCHANGED <<hub, source, work, since, gone, index, past>>

\* The client fetches the next page while the last entry of this one is handled.
FetchPage ==
    /\ at \in {"backfill", "reconcile"} /\ token # End /\ Len(work) <= 1
    /\ LET rest == {k \in Present : k > token}
           page == {k \in rest : Cardinality({j \in rest : j < k}) < listPageSize}
           q    == SetToSortSeq(page, <)
       IN  /\ work' = work \o [i \in DOMAIN q |-> [key |-> q[i]] @@ bucket[q[i]]]
           /\ token' = IF page = rest THEN End ELSE Max(page)
    /\ UNCHANGED <<hub, source, at, keys, maxMod, since, gone, index, past>>

Listed == token = End /\ work = <<>>

\* A document goes through ingest, which drops an upsert it has seen.
Upsert(e, doc) ==
    IF <<e.key, e.ver>> \in seen THEN UNCHANGED <<index, hidden>>
    ELSE /\ indexed' = [indexed EXCEPT ![e.key] = doc]
         /\ seen' = seen \cup {<<e.key, e.ver>>}
         /\ hidden' = IF doc = Document(e.key, bucket[e.key].ver) THEN hidden \ {e.key} ELSE hidden

\* documentForObject: the body is the object's as it is by now; when the object
\* is gone or the read fails, the document goes out without one.
Emit(e) ==
    \/ Upsert(e, Bare(e.ver))
    \/ e.key \in Text /\ Upsert(e, [etag |-> e.ver, body |-> bucket[e.key].ver])

\* The progress of the pass with the entry e.
Progress(e) == Cursor(e.key, Max({maxMod, e.mod}), keys \cup {e.key})

Handle(e) ==
    work' = Tail(work) /\ keys' = Progress(e).keys /\ maxMod' = Progress(e).max

\* backfill: each object is emitted, and every so often progress is stored.
BackfillObject ==
    /\ at = "backfill" /\ work # <<>>
    /\ LET e == Head(work) IN
         /\ Emit(e)
         /\ \/ /\ since + 1 < checkpointEvery
               /\ Handle(e) /\ since' = since + 1
               /\ UNCHANGED <<hub, at, token, gone, stray>>
            \/ /\ since + 1 = checkpointEvery
               /\ Handle(e) /\ since' = 0
               /\ Checkpoint(Progress(e)) /\ stray' = stray \ Progress(e).keys
               /\ UNCHANGED <<at, token, gone>>
            \/ /\ since + 1 = checkpointEvery
               /\ CheckpointFails(Progress(e)) /\ Reset /\ Strands(Progress(e).keys)
    /\ UNCHANGED source

BackfillDone ==
    /\ at = "backfill" /\ Listed
    /\ \/ /\ Checkpoint(Cursor(0, maxMod, keys)) /\ at' = "done" /\ stray' = stray \ keys
          /\ UNCHANGED <<token, work, keys, maxMod, since, gone>>
       \/ CheckpointFails(Cursor(0, maxMod, keys)) /\ Reset /\ Strands(keys)
    /\ UNCHANGED <<source, index, hidden>>

\* reconcile: only an object newer than the last pass saw is emitted.
ReconcileObject ==
    /\ at = "reconcile" /\ work # <<>>
    /\ LET e == Head(work) IN
         /\ Handle(e)
         /\ IF e.mod > runCursor.max THEN Emit(e) ELSE UNCHANGED <<index, hidden>>
    /\ UNCHANGED <<hub, source, at, token, since, gone, stray>>

\* The keys of the last pass that were not listed now are tombstoned one by one.
ReconcileListed ==
    /\ at = "reconcile" /\ Listed
    /\ at' = "tombstones" /\ gone' = runCursor.keys \ keys
    /\ UNCHANGED <<hub, source, token, work, keys, maxMod, since, index, past>>

EmitTombstone(k) ==
    /\ at = "tombstones" /\ k \in gone
    /\ indexed' = [indexed EXCEPT ![k] = NoDocument]
    /\ hidden' = IF k \in Present THEN hidden ELSE hidden \ {k}
    /\ gone' = gone \ {k}
    /\ UNCHANGED <<hub, source, at, token, work, keys, maxMod, since, seen, stray>>

Finish ==
    /\ at \in {"done", "tombstones"} /\ gone = {}
    /\ Complete(Cursor(0, maxMod, keys)) /\ Reset
    /\ stray' = stray \ keys
    /\ UNCHANGED <<source, index, hidden>>

Sync ==
    \/ FullSync \/ IncrementalSync \/ FetchPage
    \/ BackfillObject \/ BackfillDone \/ ReconcileObject \/ ReconcileListed
    \/ Finish \/ \E k \in Key : EmitTombstone(k)

Change == \E k \in Key : Put(k) \/ Delete(k)

\* The scheduler starts pass after pass, and the source answers.
Turn == (Begin /\ StartPass) \/ Sync

Next == StartPass \/ Interrupted \/ Sync \/ Change
Spec == Init /\ [][Next]_vars

-----------------------------------------------------------------------------
(* Properties *)

\* Indexed as the bucket has it.  "A body-fetch error degrades to a
\* metadata-only document": such a document of the current version counts, and
\* no later pass completes it before the next write, since the object is not
\* newer than the mark and ingest has seen its ETag.
AsItIs(k) == indexed[k] \in {Document(k, bucket[k].ver), Bare(bucket[k].ver)}

\* "IncrementalSync emits every document created, changed, ... since cur"
\* (sdk.Connector): between two passes an object is indexed as it is, or is
\* newer than what the stored cursor has seen, so that the next pass emits it.
\* Excepted is an object written behind the listing position, or in the same
\* instant as the write before it (the high-water mark hides it), and one whose
\* bytes are those of an earlier write (ingest drops its ETag).
ChangesFound ==
    pass = "idle" /\ Steady(stored.cursor) =>
        \A k \in Present \ hidden : AsItIs(k) \/ bucket[k].mod > stored.cursor.max

\* "... or deleted (as a tombstone)", and "the completed cursor holds the FULL
\* keyset" also of a resumed backfill: an indexed key whose object is gone is
\* in the stored cursor, so that the next pass finds it missing.  A key that
\* only passes without a stored keyset have handled is excepted.
DeletionsFound ==
    pass = "idle" /\ Steady(stored.cursor) =>
        \A k \in Key \ (Present \cup stray) :
            indexed[k] = NoDocument \/ k \in stored.cursor.keys

\* What is indexed when the bucket has been quiet for long enough
\* (Connectors!Converges).
Settled == \A k \in Key : AsItIs(k) \/ k \in hidden \cup stray
=============================================================================
