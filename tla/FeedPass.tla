------------------------------ MODULE FeedPass ------------------------------
(***************************************************************************)
(* What the connectors of sources with a change feed have in common: the   *)
(* source, the walk of a pass over it, and the effect of an emission.      *)
(*                                                                         *)
(* The source is external.  An item is the number of its last change and   *)
(* whether it exists; a listing returns what exists in the order of the    *)
(* item ids, a feed returns every item changed after a position once, with *)
(* its last change, as long as the source remembers that far back.         *)
(*                                                                         *)
(* An emission goes through ingest: an upsert whose (doc_id, version_etag) *)
(* was seen before is dropped, a tombstone never is (ingest/handler.go).   *)
(***************************************************************************)
EXTENDS SyncPass, Sequences, SequencesExt, FiniteSetsExt

CONSTANTS Item,        \* item ids, numbers
          PageSize,
          MaxChanges   \* bound: changes at the source

VARIABLES remote,    \* remote[i]: item i at the source
          clock,     \* number of the last change
          floor,     \* positions below this one are forgotten
          events,    \* webhook calls that carry a change, on their way
          at,        \* where the pass is
          base,      \* position of the feed that the pass holds
          token,     \* next page of a listing or of the feed; 0 when none is left
          work,      \* entries of the page in hand, still to be emitted
          indexed,   \* the version of each item in the index, 0 when it has none
          seen,      \* the dedupe keys of ingest
          owed,      \* history: position at which the backfill began
          orphans,   \* history: indexed when a backfill began, not emitted since
          excused    \* history: changes that the connector does not come back to

source == <<remote, clock, floor, events>>
conn   == <<at, base, token, work>>
index  == <<indexed, seen, owed, orphans, excused>>
vars   == <<hub, source, conn, index>>

Live(i) == remote[i].live
Version(i) == IF Live(i) THEN remote[i].at ELSE 0

FeedInit ==
    /\ HubInit
    /\ remote = [i \in Item |-> [at |-> 0, live |-> FALSE]] /\ clock = 0 /\ floor = 0 /\ events = {}
    /\ at = "start" /\ base = NoCursor /\ token = NoCursor /\ work = <<>>
    /\ indexed = [i \in Item |-> 0] /\ seen = {}
    /\ owed = 0 /\ orphans = {} /\ excused = {}

FeedTypeOK ==
    /\ stored.phase \in Phase /\ pass \in {"idle", "full", "incremental"}
    /\ faults \in 0..MaxFaults
    /\ \A i \in Item : remote[i].at \in 0..MaxChanges /\ remote[i].live \in BOOLEAN
    /\ clock \in 0..MaxChanges /\ floor \in 0..clock /\ owed \in 0..clock
    /\ indexed \in [Item -> -MaxChanges..MaxChanges]
    /\ orphans \cup excused \subseteq Item
    /\ pass = "idle" => at = "start" /\ work = <<>>

-----------------------------------------------------------------------------
(* The source *)

Changed(i, live) ==
    /\ clock < MaxChanges /\ clock' = clock + 1
    /\ remote' = [remote EXCEPT ![i] = [at |-> clock', live |-> live]]
    /\ UNCHANGED <<hub, floor, events, conn, index>>

Put(i) == Changed(i, TRUE)
Delete(i) == Live(i) /\ Changed(i, FALSE)

\* The source forgets the past of its feed.
Prune ==
    /\ floor < clock /\ floor' = clock
    /\ UNCHANGED <<hub, remote, clock, events, conn, index>>

Source == Prune \/ \E i \in Item : Put(i) \/ Delete(i)

-----------------------------------------------------------------------------
(* The walk of a pass *)

\* Between passes nothing is held.
Reset == at' = "start" /\ base' = NoCursor /\ token' = NoCursor /\ work' = <<>>

StartPass == (Begin \/ BeginFails) /\ UNCHANGED <<source, conn, index>>

\* A call fails, or the hub stops: what the pass held is gone.
Interrupted == Abort /\ Reset /\ UNCHANGED <<source, index>>

Entry(i) == [item |-> i, ver |-> Version(i)]
Entries(S, Before(_, _)) == LET q == SetToSortSeq(S, Before) IN [k \in DOMAIN q |-> Entry(q[k])]

FirstOf(S, Before(_, _)) == {i \in S : Cardinality({j \in S : Before(j, i)}) < PageSize}

\* A page of the listing of S after item t.
Listed(S, t) ==
    LET Ids(i, j) == i < j
        rest == {i \in S : Live(i) /\ i > t}
        page == FirstOf(rest, Ids)
    IN  [work |-> Entries(page, Ids), token |-> IF page = rest THEN 0 ELSE Max(page)]

\* A page of the feed of S after position p; the last page ends at the present.
Fed(S, p) ==
    LET Age(i, j) == remote[i].at < remote[j].at
        rest == {i \in S : remote[i].at > p}
        page == FirstOf(rest, Age)
        last == page = rest
    IN  [work |-> Entries(page, Age), token |-> IF last THEN 0 ELSE 1,
         base |-> IF last THEN clock ELSE Max({remote[i].at : i \in page})]

ListPage(S, t) == LET p == Listed(S, t) IN work' = p.work /\ token' = p.token
FeedPage(S, p) == LET f == Fed(S, p) IN work' = f.work /\ token' = f.token /\ base' = f.base

\* The pass ends with an error that the hub does not tell from another.
Fail == Failed /\ Reset /\ UNCHANGED faults

\* Checkpoint c and go on to the label `next'.
Save(c, next) ==
    /\ \/ Checkpoint(c) /\ at' = next /\ UNCHANGED <<base, token, work>>
       \/ CheckpointFails(c) /\ Reset
    /\ UNCHANGED <<source, index>>

Return(c) == Complete(c) /\ Reset /\ UNCHANGED <<source, index>>

-----------------------------------------------------------------------------
(* Emission.  `v' is the version in the document, `key' its etag. *)

Upsert(i, key, v) ==
    /\ IF <<i, key>> \in seen
       THEN UNCHANGED <<indexed, seen, excused>>
       ELSE /\ indexed' = [indexed EXCEPT ![i] = v] /\ seen' = seen \cup {<<i, key>>}
            /\ excused' = IF v = Version(i) THEN excused \ {i} ELSE excused
    /\ orphans' = orphans \ {i}
    /\ UNCHANGED owed

Tombstone(i) ==
    /\ indexed' = [indexed EXCEPT ![i] = 0]
    /\ orphans' = orphans \ {i}
    /\ excused' = IF Live(i) THEN excused ELSE excused \ {i}
    /\ UNCHANGED <<seen, owed>>

Emit(e) == IF e.ver = 0 THEN Tombstone(e.item) ELSE Upsert(e.item, e.ver, e.ver)

\* The next entry of the page goes to the pipeline.
EmitNext ==
    /\ work # <<>> /\ Emit(Head(work)) /\ work' = Tail(work)
    /\ UNCHANGED <<hub, source, at, base, token>>

\* A backfill begins: nothing but its listing and what is owed since will tell
\* of the items that are indexed.
BackfillBegins ==
    /\ owed' = clock /\ orphans' = {i \in Item : indexed[i] # 0}
    /\ UNCHANGED <<indexed, seen, excused>>

\* The feed is entered at the present: what changed in S since the backfill
\* began, and is not indexed as it is, no later pass comes back to.
FeedEntered(S) ==
    excused' = excused \cup {i \in S : remote[i].at > owed /\ indexed[i] # Version(i)}

-----------------------------------------------------------------------------
\* Indexed as it is at the source, or a feed from position p will tell.
Tracked(i, p) == remote[i].at > p \/ indexed[i] = Version(i)
Orphan(i) == ~Live(i) /\ i \in orphans
=============================================================================
