----------------------------- MODULE OutlookSync -----------------------------
(***************************************************************************)
(* The Outlook connectors over Microsoft Graph, which is external.  Mail   *)
(* (connectors/outlook-mail) pages /me/messages and then asks for a delta  *)
(* token of the present; the calendar (connectors/outlook-cal) takes the   *)
(* delta token first and then pages /me/events.  Incremental passes of     *)
(* both walk a delta feed.                                                 *)
(***************************************************************************)
EXTENDS FeedPass

\* "page:<nextLink>" and "delta:<deltaLink>"; the link of no page is the empty
\* cursor.  A page cursor does not hold the delta token of the backfill.
pageCursor(page) == IF page = 0 THEN NoCursor ELSE [kind |-> "page", token |-> page]
deltaCursor(p) == [kind |-> "delta", base |-> p]
isBackfillCursor(c) == c # NoCursor /\ c.kind = "page"
Steady(c) == c # NoCursor /\ c.kind = "delta"

TypeOK ==
    /\ FeedTypeOK
    /\ stored.cursor \in {NoCursor} \cup [kind : {"page"}, token : Item]
                         \cup [kind : {"delta"}, base : 0..clock]
    /\ at \in {"start", "list", "page", "prime", "done", "saved", "changes", "replay"}

-----------------------------------------------------------------------------
(* Requests to Graph.                                                        *)

\* A page link that lapsed is an error like any other.
NextLink ==
    /\ at = "list"
    /\ IF token # 0 /\ owed < floor
       THEN Fail
       ELSE ListPage(Item, token) /\ at' = "page" /\ UNCHANGED <<hub, base>>
    /\ UNCHANGED <<source, index>>

\* 410, for the calendar also a resync code, is an expired cursor.
DeltaLink ==
    /\ at = "changes"
    /\ IF base < floor
       THEN Expired /\ Reset
       ELSE FeedPage(Item, base) /\ at' = "replay" /\ UNCHANGED hub
    /\ UNCHANGED <<source, index>>

\* A page of either is emitted.
EmitPage == at \in {"page", "replay"} /\ EmitNext

\* nextLink: on with the round; deltaLink: the cursor of the next one.
Round ==
    /\ at = "replay" /\ work = <<>>
    /\ IF token # 0
       THEN at' = "changes" /\ UNCHANGED <<hub, source, index, base, token, work>>
       ELSE Return(deltaCursor(base))

-----------------------------------------------------------------------------
(* Mail.                                                                     *)

FullSync ==
    /\ pass = "full" /\ at = "start"
    /\ base' = 0 /\ token' = 0 /\ work' = <<>> /\ at' = "list"
    /\ BackfillBegins
    /\ UNCHANGED <<hub, source>>

\* resumeBackfill from the page of a checkpoint, or the delta from its token.
IncrementalSync ==
    /\ pass = "incremental" /\ at = "start" /\ runCursor # NoCursor
    /\ IF isBackfillCursor(runCursor)
       THEN at' = "list" /\ token' = runCursor.token /\ base' = 0
       ELSE at' = "changes" /\ token' = 0 /\ base' = runCursor.base
    /\ work' = <<>> /\ UNCHANGED <<hub, source, index>>

ListMessages == NextLink

\* Every page is checkpointed, the last one with the empty cursor: a pass that
\* fails from there on starts the backfill over.
PageDone ==
    /\ at = "page" /\ work = <<>>
    /\ Save(pageCursor(token), IF token = 0 THEN "prime" ELSE "list")

\* The delta token stands for the present, not for the start of the backfill.
initialDeltaCursor ==
    /\ at = "prime" /\ at' = "done" /\ base' = clock
    /\ FeedEntered(Item)
    /\ UNCHANGED <<hub, source, token, work, indexed, seen, owed, orphans>>

SaveDelta == at = "done" /\ Save(deltaCursor(base), "saved")
Finish == at = "saved" /\ Return(deltaCursor(base))
DeltaMessages == DeltaLink
DeltaRound == Round

MailSync == \/ FullSync \/ IncrementalSync \/ ListMessages \/ EmitPage \/ PageDone
            \/ initialDeltaCursor \/ SaveDelta \/ Finish \/ DeltaMessages \/ DeltaRound

MailTurn == (Begin /\ StartPass) \/ MailSync
MailNext == StartPass \/ Interrupted \/ MailSync \/ Source

-----------------------------------------------------------------------------
(* Calendar.                                                                 *)

\* primeDelta, then the listing.
FullSyncPrimed ==
    /\ pass = "full" /\ at = "start"
    /\ base' = clock /\ token' = 0 /\ work' = <<>> /\ at' = "list"
    /\ BackfillBegins
    /\ UNCHANGED <<hub, source>>

\* The token of an interrupted backfill is lost: it resumes behind a new one.
ResumeBackfill ==
    /\ pass = "incremental" /\ at = "start" /\ isBackfillCursor(runCursor)
    /\ base' = clock /\ token' = runCursor.token /\ work' = <<>> /\ at' = "list"
    /\ FeedEntered(Item)
    /\ UNCHANGED <<hub, source, indexed, seen, owed, orphans>>

StartReplay ==
    /\ pass = "incremental" /\ at = "start" /\ Steady(runCursor)
    /\ base' = runCursor.base /\ token' = 0 /\ work' = <<>> /\ at' = "changes"
    /\ UNCHANGED <<hub, source, index>>

ListEvents == NextLink

backfill ==
    /\ at = "page" /\ work = <<>>
    /\ IF token = 0 THEN Save(deltaCursor(base), "done") ELSE Save(pageCursor(token), "list")

FinishPrimed == at = "done" /\ Return(deltaCursor(base))
DeltaEvents == DeltaLink
replayDelta == Round

CalSync == \/ FullSyncPrimed \/ ResumeBackfill \/ StartReplay \/ ListEvents \/ EmitPage
           \/ backfill \/ FinishPrimed \/ DeltaEvents \/ replayDelta

CalTurn == (Begin /\ StartPass) \/ CalSync
CalNext == StartPass \/ Interrupted \/ CalSync \/ Source

-----------------------------------------------------------------------------
(* Properties *)

\* Once a delta token is stored, a message or an event is indexed as it is in
\* the account or changed after the token ("a delta token that covers the whole
\* backfill window").  Excepted are those deleted before a backfill that was
\* started over; messages that changed during the backfill after their page was
\* listed, the token being asked for when the pages are done; and events that
\* changed before an interrupted backfill was resumed.
MissesNothing ==
    Steady(stored.cursor) =>
        \A i \in Item : Tracked(i, stored.cursor.base) \/ Orphan(i) \/ i \in excused

Poisoned == isBackfillCursor(stored.cursor) /\ owed < floor
Settled == Poisoned \/ \A i \in Item : indexed[i] = Version(i) \/ Orphan(i) \/ i \in excused
=============================================================================
