------------------------------ MODULE ICalSync ------------------------------
(***************************************************************************)
(* The iCal connector (connectors/ical): the feed is fetched whole, and an *)
(* incremental pass emits its difference from the feed that the cursor     *)
(* describes, event by event, by UID and version etag.                     *)
(*                                                                         *)
(* The feed is external.  An event is in it or not, is confirmed (`live')  *)
(* or cancelled, has the number of its last change and an etag: SEQUENCE   *)
(* if it has one, which a change need not move.                            *)
(***************************************************************************)
EXTENDS FeedPass

Absent == [listed |-> FALSE, live |-> FALSE, etag |-> 0, ver |-> 0]

\* A VEVENT of the feed, as parseEvents and versionEtag see it.
Event(i) ==
    IF remote[i].at = 0 \/ ~remote[i].listed THEN Absent
    ELSE [listed |-> TRUE, live |-> Live(i), etag |-> remote[i].etag, ver |-> remote[i].at]
Feed == [i \in Item |-> Event(i)]

\* buildCursorState: the hash of the body, and an etag for every UID.
cursorState(feed) == [hash |-> feed, uids |-> {i \in Item : feed[i].listed}]

TypeOK ==
    /\ FeedTypeOK
    /\ stored.cursor = NoCursor \/ stored.cursor.uids \subseteq Item
    /\ at \in {"start", "emit", "done"}

-----------------------------------------------------------------------------
(* The feed.  An etag that was used before, for another content or after the *)
(* event was gone, does not tell of the change.                              *)

Publish(i, listed, live, etag) ==
    /\ clock < MaxChanges /\ clock' = clock + 1
    /\ remote' = [remote EXCEPT ![i] = [at |-> clock', live |-> live, listed |-> listed, etag |-> etag]]
    /\ UNCHANGED <<hub, floor, events, conn, indexed, seen, owed, orphans>>

LastEtag(i) == IF remote[i].at = 0 THEN 0 ELSE remote[i].etag

\* A new event or a change, with a new SEQUENCE or the old one.
Change(i) ==
    \/ Publish(i, TRUE, TRUE, clock + 1) /\ UNCHANGED excused
    \/ LastEtag(i) # 0 /\ Publish(i, TRUE, TRUE, LastEtag(i)) /\ excused' = excused \cup {i}
Cancel(i) == Live(i) /\ Publish(i, TRUE, FALSE, LastEtag(i)) /\ UNCHANGED excused
Withdraw(i) == LastEtag(i) # 0 /\ remote[i].listed /\ Publish(i, FALSE, FALSE, LastEtag(i)) /\ UNCHANGED excused

Publisher == \E i \in Item : Change(i) \/ Cancel(i) \/ Withdraw(i)

-----------------------------------------------------------------------------
prev == IF runCursor = NoCursor THEN [i \in Item |-> Absent] ELSE runCursor.hash

\* What an incremental pass emits of an event that was `old' and is `new':
\* cancelled events always, new and changed ones, and those that disappeared.
Differs(old, new) ==
    \/ new.listed /\ ~new.live
    \/ new.live /\ (~old.listed \/ old.etag # new.etag)
    \/ old.listed /\ ~new.listed

Queue(S) == SetToSortSeq(S, LAMBDA i, j : i < j)

\* The one fetch of a pass; everything else works on its body.
Fetch(S) == base' = Feed /\ work' = Queue(S) /\ token' = 0 /\ at' = "emit"

FullSync ==
    /\ pass = "full" /\ at = "start"
    /\ Fetch({i \in Item : Event(i).listed})
    /\ UNCHANGED <<hub, source, index>>

\* A body with the hash of the cursor ends the pass.
IncrementalSync ==
    /\ pass = "incremental" /\ at = "start"
    /\ IF Feed = prev
       THEN Complete(runCursor) /\ UNCHANGED conn
       ELSE Fetch({i \in Item : Differs(prev[i], Event(i))}) /\ UNCHANGED hub
    /\ UNCHANGED <<source, index>>

\* Until a cursor holds its UID, an event that was emitted can vanish unseen.
Untracked(i) == ~prev[i].listed

\* eventDocument, tombstoneDocument, disappearedTombstone.
EmitEvent ==
    /\ at = "emit" /\ work # <<>>
    /\ LET i == Head(work)
           e == base[i]
       IN  IF e.live
           THEN /\ IF <<i, e.etag>> \in seen
                   THEN UNCHANGED <<indexed, seen, excused>>
                   ELSE /\ indexed' = [indexed EXCEPT ![i] = e.ver]
                        /\ seen' = seen \cup {<<i, e.etag>>}
                        /\ excused' = IF e.ver = Version(i) THEN excused \ {i} ELSE excused
                /\ orphans' = IF Untracked(i) THEN orphans \cup {i} ELSE orphans
           ELSE /\ indexed' = [indexed EXCEPT ![i] = 0]
                /\ orphans' = orphans \ {i}
                /\ UNCHANGED <<seen, excused>>
    /\ work' = Tail(work)
    /\ UNCHANGED <<hub, source, owed, at, base, token>>

\* The cursor of the body that was fetched; a full sync checkpoints it too.
Finish ==
    /\ at = "emit" /\ work = <<>>
    /\ LET c == cursorState(base)
       IN  /\ IF pass = "full"
              THEN \/ Checkpoint(c) /\ at' = "done" /\ UNCHANGED <<base, token, work>>
                   \/ CheckpointFails(c) /\ Reset
              ELSE Complete(c) /\ Reset
           /\ orphans' = IF stored'.cursor = c THEN orphans \ c.uids ELSE orphans
    /\ UNCHANGED <<source, indexed, seen, owed, excused>>

Done == at = "done" /\ Return(cursorState(base))

Sync == FullSync \/ IncrementalSync \/ EmitEvent \/ Finish \/ Done

Turn == (Begin /\ StartPass) \/ Sync
Next == StartPass \/ Interrupted \/ Sync \/ Publisher
Spec == FeedInit /\ [][Next]_vars

-----------------------------------------------------------------------------
(* Properties *)

Missed(i) == \/ i \in excused
             \/ ~Live(i) /\ i \in orphans

\* With a cursor stored, an event is indexed as it is in the feed or the next
\* pass emits it.  Excepted are events changed or back under an etag that they
\* had before, and events that vanished after a pass that failed had emitted
\* them.
MissesNothing ==
    stored.cursor # NoCursor =>
        \A i \in Item : \/ indexed[i] = Version(i) \/ Missed(i)
                        \/ Differs(stored.cursor.hash[i], Event(i))

Settled == \A i \in Item : indexed[i] = Version(i) \/ Missed(i)
=============================================================================
