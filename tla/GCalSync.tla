------------------------------ MODULE GCalSync ------------------------------
(***************************************************************************)
(* The Google Calendar connector (connectors/gcal): a backfill that pages  *)
(* events.list, and incremental passes that replay a sync token.  The      *)
(* token of a listing, on its last page, stands for the moment the listing *)
(* began; the page tokens carry that moment (external).                    *)
(***************************************************************************)
EXTENDS FeedPass

\* pageCursor, syncCursor: "page:<token>", "sync:<token>".
pageCursor(began, page) == [kind |-> "page", base |-> began, token |-> page]
syncCursor(p) == [kind |-> "sync", base |-> p, token |-> 0]
Steady(c) == c # NoCursor /\ c.kind = "sync"

TypeOK ==
    /\ FeedTypeOK
    /\ stored.cursor \in {NoCursor} \cup
         [kind : {"page", "sync"}, base : 0..clock, token : {0} \cup Item]
    /\ at \in {"start", "list", "page", "changes", "replay", "done"}

-----------------------------------------------------------------------------
FullSync ==
    /\ pass = "full" /\ at = "start"
    /\ base' = clock /\ token' = 0 /\ work' = <<>> /\ at' = "list"
    /\ BackfillBegins
    /\ UNCHANGED <<hub, source>>

IncrementalSync ==
    /\ pass = "incremental" /\ at = "start" /\ runCursor # NoCursor
    /\ base' = runCursor.base /\ token' = runCursor.token /\ work' = <<>>
    /\ at' = IF Steady(runCursor) THEN "changes" ELSE "list"
    /\ UNCHANGED <<hub, source, index>>

\* Any events.list may answer 410, which is an expired cursor in whatever pass
\* it happens: an incremental pass turns into a full one, a full one fails.
listEvents(Page, next) ==
    /\ IF base < floor /\ (at = "changes" \/ token # 0)
       THEN (Expired /\ Reset) \/ (pass = "full" /\ Fail)
       ELSE Page /\ at' = next /\ UNCHANGED hub
    /\ UNCHANGED <<source, index>>

ListEvents == at = "list" /\ listEvents(ListPage(Item, token) /\ UNCHANGED base, "page")
ReplayEvents == at = "changes" /\ listEvents(FeedPage(Item, base), "replay")

\* A page of either; a cancelled event is a tombstone (eventDocument).
EmitEvent == at \in {"page", "replay"} /\ EmitNext

\* The page is done: its checkpoint, or the sync token of the last one.
backfill ==
    /\ at = "page" /\ work = <<>>
    /\ IF token = 0 THEN Save(syncCursor(base), "done") ELSE Save(pageCursor(base, token), "list")

replaySync ==
    /\ at = "replay" /\ work = <<>>
    /\ IF token # 0
       THEN at' = "changes" /\ UNCHANGED <<hub, source, index, base, token, work>>
       ELSE Return(syncCursor(base))

Finish == at = "done" /\ Return(syncCursor(base))

Sync == \/ FullSync \/ IncrementalSync \/ ListEvents \/ ReplayEvents
        \/ EmitEvent \/ backfill \/ replaySync \/ Finish

Turn == (Begin /\ StartPass) \/ Sync
Next == StartPass \/ Interrupted \/ Sync \/ Source
Spec == FeedInit /\ [][Next]_vars

-----------------------------------------------------------------------------
(* Properties *)

\* Once a sync token is stored, an event is indexed as it is in the calendar
\* or changed after the token.  Excepted are events deleted before a backfill
\* that an expired token started over.
MissesNothing ==
    Steady(stored.cursor) => \A i \in Item : Tracked(i, stored.cursor.base) \/ Orphan(i)

Settled == \A i \in Item : indexed[i] = Version(i) \/ Orphan(i)
=============================================================================
