----------------------------- MODULE GmailSync ------------------------------
(***************************************************************************)
(* The Gmail connector (connectors/gmail/sync.go) run by the hub's sync    *)
(* pass: a backfill that pages through the mailbox behind a history id     *)
(* taken first, and incremental passes that replay the history.            *)
(*                                                                         *)
(* The mailbox is external: messages.list returns messages newest first,   *)
(* history.list the records after a history id, until they are pruned.  A  *)
(* message's version is the history id of its last arrival; 0 is "gone".   *)
(* `indexed' is the last version of each message handed to the pipeline.   *)
(***************************************************************************)
EXTENDS SyncPass, Sequences, SequencesExt, FiniteSetsExt

CONSTANTS Message,      \* message ids, in the order of arrival
          PageSize,     \* listPageSize
          MaxHistory,   \* bound: history records
          MaxPrunes     \* bound: times the source forgets its history

VARIABLES mailbox,   \* mailbox[m]: the version of m at the source
          history,   \* history records, the i-th with history id i + 1
          pruned,    \* history ids below this one are forgotten
          prunes,
          at,        \* "start", "list", "page", "history", "replay", "done"
          base,      \* historyID of the backfill, currentID of a replay
          token,     \* pageToken: list below this message; 0 when none is left
          work,      \* messages of the page, or changes, still to be emitted
          indexed,
          orphans    \* history: indexed when a backfill began, not emitted since

source == <<mailbox, history, pruned, prunes>>
conn   == <<at, base, token, work>>
vars   == <<hub, source, conn, indexed, orphans>>

HistoryId == Len(history) + 1
Top == Max(Message) + 1                 \* the first page
Cursor(id, t) == [id |-> id, page |-> t]
Steady(c) == c # NoCursor /\ c.page = 0

TypeOK ==
    /\ stored \in [cursor : {NoCursor} \cup [id : 1..MaxHistory + 1, page : 0..Top - 1], phase : Phase]
    /\ pass \in {"idle", "full", "incremental"} /\ faults \in 0..MaxFaults
    /\ mailbox \in [Message -> 0..MaxHistory + 1] /\ Len(history) <= MaxHistory
    /\ at \in {"start", "list", "page", "history", "replay", "done"}
    /\ base \in 0..MaxHistory + 1 /\ token \in 0..Top
    /\ indexed \in [Message -> 0..MaxHistory + 1] /\ orphans \subseteq Message
    /\ pass = "idle" => at = "start"

Init ==
    /\ HubInit
    /\ mailbox \in [Message -> {0, 1}] /\ history = <<>> /\ pruned = 0 /\ prunes = 0
    /\ at = "start" /\ base = 0 /\ token = 0 /\ work = <<>>
    /\ indexed = [m \in Message |-> 0] /\ orphans = {}

Reset == at' = "start" /\ base' = 0 /\ token' = 0 /\ work' = <<>>

-----------------------------------------------------------------------------
(* The source *)

\* A message arrives; an edit is a deletion and an arrival of the same id.
Arrive(m) ==
    /\ mailbox[m] = 0 /\ Len(history) < MaxHistory
    /\ history' = Append(history, [msg |-> m, kind |-> "added"])
    /\ mailbox' = [mailbox EXCEPT ![m] = HistoryId + 1]
    /\ UNCHANGED <<hub, pruned, prunes, conn, indexed, orphans>>

Delete(m) ==
    /\ mailbox[m] # 0 /\ Len(history) < MaxHistory
    /\ history' = Append(history, [msg |-> m, kind |-> "deleted"])
    /\ mailbox' = [mailbox EXCEPT ![m] = 0]
    /\ UNCHANGED <<hub, pruned, prunes, conn, indexed, orphans>>

Prune ==
    /\ prunes < MaxPrunes /\ prunes' = prunes + 1
    /\ pruned' = HistoryId
    /\ UNCHANGED <<hub, mailbox, history, conn, indexed, orphans>>

-----------------------------------------------------------------------------
(* The pass *)

StartPass == (Begin \/ BeginFails) /\ UNCHANGED <<source, conn, indexed, orphans>>

Interrupted == Abort /\ Reset /\ UNCHANGED <<source, indexed, orphans>>

\* FullSync takes the history id first, so that it replays what races it.
FullSync ==
    /\ pass = "full" /\ at = "start"
    /\ base' = HistoryId /\ token' = Top /\ work' = <<>> /\ at' = "list"
    /\ orphans' = {m \in Message : indexed[m] # 0}
    /\ UNCHANGED <<hub, source, indexed>>

\* IncrementalSync: resume a backfill, or replay the history from the cursor.
IncrementalSync ==
    /\ pass = "incremental" /\ at = "start" /\ runCursor # NoCursor
    /\ base' = runCursor.id /\ token' = runCursor.page /\ work' = <<>>
    /\ at' = IF Steady(runCursor) THEN "history" ELSE "list"
    /\ UNCHANGED <<hub, source, indexed, orphans>>

\* messages.list: a page below the token.
ListPage ==
    LET below == {m \in Message : mailbox[m] # 0 /\ m < token}
        page  == {m \in below : Cardinality({n \in below : n > m}) < PageSize}
    IN  /\ at = "list"
        /\ work' = SetToSortSeq(page, LAMBDA m, n : m > n)
        /\ token' = IF page = below THEN 0 ELSE Min(page)
        /\ at' = "page"
        /\ UNCHANGED <<hub, source, base, indexed, orphans>>

\* messages.get and emit; a message that vanished is skipped.
EmitMessage ==
    /\ at = "page" /\ work # <<>>
    /\ LET m == Head(work) IN
         IF mailbox[m] = 0 THEN UNCHANGED <<indexed, orphans>>
         ELSE indexed' = [indexed EXCEPT ![m] = mailbox[m]] /\ orphans' = orphans \ {m}
    /\ work' = Tail(work)
    /\ UNCHANGED <<hub, source, at, base, token>>

\* The page is done: the next one, or the steady cursor, is checkpointed.
PageDone ==
    /\ at = "page" /\ work = <<>>
    /\ \/ /\ Checkpoint(Cursor(base, token))
          /\ at' = IF token = 0 THEN "done" ELSE "list"
          /\ UNCHANGED <<base, token, work>>
       \/ CheckpointFails(Cursor(base, token)) /\ Reset
    /\ UNCHANGED <<source, indexed, orphans>>

-----------------------------------------------------------------------------
(* replayHistory *)

\* Mutant: the first record of each message wins.
foldHistoryFirst(records) ==
    SelectSeq(records, LAMBDA r :
        \A i \in DOMAIN records : records[i].msg = r.msg => records[i].id >= r.id)

\* The last record of each message, in the order of these records.
foldHistory(records) ==
    SelectSeq(records, LAMBDA r :
        \A i \in DOMAIN records : records[i].msg = r.msg => records[i].id <= r.id)

\* The records after the history id `from', as history.list returns them.
Records(from) ==
    [i \in 1..(HistoryId - from) |->
        [id |-> from + i, msg |-> history[from + i - 1].msg, kind |-> history[from + i - 1].kind]]

\* history.list; a forgotten history id is a 404.  Its pages are read as one:
\* the last one holds everything up to the history id that is returned.
ListHistory ==
    /\ at = "history"
    /\ IF base < pruned
       THEN Expired /\ Reset
       ELSE /\ work' = foldHistory(Records(base))
            /\ base' = HistoryId /\ at' = "replay"
            /\ UNCHANGED <<hub, token>>
    /\ UNCHANGED <<source, indexed, orphans>>

\* A deletion is a tombstone; an arrival is fetched, and a tombstone when gone.
EmitChange ==
    /\ at = "replay" /\ work # <<>>
    /\ LET r == Head(work) IN
         /\ indexed' = [indexed EXCEPT ![r.msg] = IF r.kind = "deleted" THEN 0 ELSE mailbox[r.msg]]
         /\ orphans' = orphans \ {r.msg}
    /\ work' = Tail(work)
    /\ UNCHANGED <<hub, source, at, base, token>>

\* The connector returns its cursor and the hub stores it.
Finish ==
    /\ at \in {"done", "replay"} /\ work = <<>>
    /\ Complete(Cursor(base, 0)) /\ Reset
    /\ UNCHANGED <<source, indexed, orphans>>

Sync == \/ FullSync \/ IncrementalSync \/ ListPage \/ EmitMessage \/ PageDone
        \/ ListHistory \/ EmitChange \/ Finish

\* The scheduler starts pass after pass, and the source answers.
Turn == (Begin /\ StartPass) \/ Sync

Next ==
    \/ StartPass \/ Interrupted \/ Sync \/ Prune
    \/ \E m \in Message : Arrive(m) \/ Delete(m)

Spec == Init /\ [][Next]_vars

-----------------------------------------------------------------------------
(* Properties *)

\* The history after cursor c mentions m: a later pass will look at it.
Behind(m, c) == \E i \in 1..Len(history) : i + 1 > c.id /\ history[i].msg = m

\* "every change racing the backfill is replayed by the first incremental
\* pass" (FullSync), and a 404 is recovered by a full re-sync (replayHistory):
\* what the stored cursor has left behind is indexed as it is at the source,
\* but for the tombstones of messages that were indexed when a backfill was
\* started over and are gone from the source by then.
NothingMissedButOrphans ==
    Steady(stored.cursor) =>
        \A m \in Message : \/ Behind(m, stored.cursor)
                           \/ indexed[m] = mailbox[m]
                           \/ mailbox[m] = 0 /\ m \in orphans

\* What is indexed when the mailbox has been quiet for long enough
\* (Connectors!Converges).
Settled == \A m \in Message : indexed[m] = mailbox[m] \/ m \in orphans
=============================================================================
