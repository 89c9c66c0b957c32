------------------------------ MODULE SlackSync ------------------------------
(***************************************************************************)
(* The Slack connector (connectors/slack): a pass reads the history of the *)
(* channels, newest message first, down to the channel's high-water mark.  *)
(* Edits and deletions of older messages come by webhook only, and the hub *)
(* lets webhooks emit while a pass runs (hub/http.go, handleWebhook).      *)
(*                                                                         *)
(* The items are the user messages (isUserMessage), numbered in the order  *)
(* they are posted, so that an item is its own ts.  Slack is external: its *)
(* events arrive in any order, again, or not at all.  A document emitted   *)
(* without the facets of its channel has its version negated.              *)
(***************************************************************************)
EXTENDS FeedPass

CONSTANT ChannelOf    \* the channel of each message

Channel == {ChannelOf[i] : i \in Item}
cursorState(marks) == [marks |-> marks]
NoMarks == [c \in Channel |-> 0]
Mark(i) == IF stored.cursor = NoCursor THEN 0 ELSE stored.cursor.marks[ChannelOf[i]]

TypeOK ==
    /\ FeedTypeOK
    /\ stored.cursor \in {NoCursor} \cup [marks : [Channel -> {0} \cup Item]]
    /\ events \subseteq [item : Item, ver : 0..MaxChanges]
    /\ at \in {"start", "channel", "history", "page"}

-----------------------------------------------------------------------------
(* Slack *)

Posted(i) == remote[i].at # 0

Happens(i, live) ==
    /\ clock < MaxChanges /\ clock' = clock + 1
    /\ remote' = [remote EXCEPT ![i] = [at |-> clock', live |-> live]]
    /\ events' = events \cup {[item |-> i, ver |-> IF live THEN clock' ELSE 0]}
    /\ UNCHANGED <<hub, floor, conn, index>>

PostMessage(i) == ~Posted(i) /\ (\A j \in Item : j < i => Posted(j)) /\ Happens(i, TRUE)
EditMessage(i) == Live(i) /\ Happens(i, TRUE)
DeleteMessage(i) == Live(i) /\ Happens(i, FALSE)

Workspace == \E i \in Item : PostMessage(i) \/ EditMessage(i) \/ DeleteMessage(i)

-----------------------------------------------------------------------------
(* Emission.  A document that is older than one that was emitted replaces it. *)

\* An event on its way that will have an effect.
Due(i) == [item |-> i, ver |-> Version(i)] \in events /\ <<i, Version(i)>> \notin seen

EmitMessage(e, v) ==
    CASE e.ver = 0 -> Tombstone(e.item)
      [] <<e.item, e.ver>> \in seen -> UNCHANGED index
      [] OTHER ->
           /\ indexed' = [indexed EXCEPT ![e.item] = v] /\ seen' = seen \cup {<<e.item, e.ver>>}
           /\ excused' = IF e.ver = Version(e.item) THEN excused \ {e.item}
                         ELSE IF Due(e.item) THEN excused ELSE excused \cup {e.item}
           /\ UNCHANGED <<owed, orphans>>

\* resolveChannel fails: the document has neither channel name nor ACL.
messageDocument(e) ==
    \/ EmitMessage(e, e.ver) /\ UNCHANGED faults
    \/ e.ver # 0 /\ EmitMessage(e, -e.ver) /\ Fault

\* A verified event.  An error makes Slack call again; a call may be repeated.
HandleWebhook ==
    \E e \in events :
        /\ events' = events \ {e}
        /\ messageDocument(e)
        /\ UNCHANGED <<stored, pass, runCursor, remote, clock, floor, conn>>

Redelivered ==
    \E e \in events :
        /\ Fault /\ EmitMessage(e, e.ver)
        /\ UNCHANGED <<stored, pass, runCursor, source, conn>>

\* The hub was away, or the signature did not verify, until Slack gave up: a
\* message that no pass will read any more, or that one may be past, is missed.
Lost ==
    \E e \in events :
        /\ events' = events \ {e}
        /\ excused' = IF indexed[e.item] = Version(e.item) \/ (pass = "idle" /\ Live(e.item) /\ e.item > Mark(e.item))
                      THEN excused ELSE excused \cup {e.item}
        /\ UNCHANGED <<hub, remote, clock, floor, conn, indexed, seen, owed, orphans>>

-----------------------------------------------------------------------------
(* The pass.  `base' is its state, the high-water marks; `token' the queue of *)
(* channels and the page, 0 before the first one.                             *)

channel == Head(token.channels)
listChannels ==
    token' = [channels |-> SetToSortSeq({ChannelOf[i] : i \in {j \in Item : Posted(j)}}, LAMBDA c, d : c < d),
              page |-> 0, oldest |-> 0]

FullSync ==
    /\ pass = "full" /\ at = "start"
    /\ listChannels /\ base' = NoMarks /\ work' = <<>> /\ at' = "channel"
    /\ UNCHANGED <<hub, source, index>>

IncrementalSync ==
    /\ pass = "incremental" /\ at = "start" /\ runCursor # NoCursor
    /\ listChannels /\ base' = runCursor.marks /\ work' = <<>> /\ at' = "channel"
    /\ UNCHANGED <<hub, source, index>>

\* The mark of the channel is read once, before its first page.
NextChannel ==
    /\ at = "channel"
    /\ IF token.channels = <<>>
       THEN Return(cursorState(base))
       ELSE /\ at' = "history" /\ token' = [token EXCEPT !.page = 0, !.oldest = base[channel]]
            /\ UNCHANGED <<hub, source, index, base, work>>

\* A page of the messages above the mark.
history ==
    LET Newest(i, j) == i > j
        above == {i \in Item : ChannelOf[i] = channel /\ Live(i) /\ i > token.oldest
                               /\ (token.page = 0 \/ i < token.page)}
        page == FirstOf(above, Newest)
    IN  /\ at = "history" /\ at' = "page"
        /\ work' = Entries(page, Newest)
        /\ token' = [token EXCEPT !.page = IF page = above THEN 0 ELSE Min(page)]
        /\ UNCHANGED <<hub, source, index, base>>

\* The page cursor is refused: an expired cursor, but an error of a full sync.
InvalidCursor ==
    /\ at = "history" /\ token.page # 0
    /\ pass = "incremental" /\ Expired /\ Reset
    /\ UNCHANGED <<source, index>>

advance(i) == base' = [base EXCEPT ![ChannelOf[i]] = IF i > @ THEN i ELSE @]

\* backfillChannel, syncChannelSince: the messages of the page.
EmitPage ==
    /\ at = "page" /\ work # <<>>
    /\ EmitMessage(Head(work), Head(work).ver) /\ advance(Head(work).item)
    /\ work' = Tail(work)
    /\ UNCHANGED <<hub, source, at, token>>

ChannelDone == token' = [token EXCEPT !.channels = Tail(@)]

\* The next page, or the next channel; a full sync checkpoints in between.
PageDone ==
    /\ at = "page" /\ work = <<>>
    /\ \/ token.page # 0 /\ at' = "history" /\ UNCHANGED <<hub, base, token, work>>
       \/ /\ token.page = 0
          /\ IF pass = "full" THEN Checkpoint(cursorState(base)) ELSE UNCHANGED hub
          /\ at' = "channel" /\ ChannelDone /\ UNCHANGED <<base, work>>
       \/ token.page = 0 /\ pass = "full" /\ CheckpointFails(cursorState(base)) /\ Reset
    /\ UNCHANGED <<source, index>>

\* channel_not_found: an incremental pass goes on with the next channel.  After
\* a first page the mark is above the pages that were not read.
Vanished ==
    /\ at = "history" /\ pass = "incremental" /\ Fault
    /\ at' = "channel" /\ ChannelDone
    /\ excused' = excused \cup {i \in Item : ChannelOf[i] = channel /\ i < token.page
                                            /\ indexed[i] # Version(i)}
    /\ UNCHANGED <<stored, pass, runCursor, source, indexed, seen, owed, orphans, base, work>>

Sync == \/ FullSync \/ IncrementalSync \/ NextChannel \/ history \/ EmitPage \/ PageDone
Refused == InvalidCursor \/ Vanished
Webhook == HandleWebhook \/ Redelivered \/ Lost

Turn == (Begin /\ StartPass) \/ Sync
Next == StartPass \/ Interrupted \/ Sync \/ Refused \/ Webhook \/ Workspace
Spec == FeedInit /\ [][Next]_vars

-----------------------------------------------------------------------------
(* Properties *)

\* The message is indexed as it is in Slack, with the facets of its channel.
Shows(i) == indexed[i] = Version(i)

\* Indexed as it is, without the facets: resolveChannel failed for its event.  A
\* pass that reads the message later emits it complete, under an etag that
\* ingest has seen and drops; so it stays, although resolveChannel's comment has
\* "a later full/incremental sync re-emits the complete document".
Bare(i) == Live(i) /\ indexed[i] = -Version(i)

\* A message up to the high-water mark is indexed as it is in Slack, or its event
\* is on the way.  Excepted are messages whose channel could not be resolved for
\* their last event, which stay without its facets; those whose last event was
\* lost, or was overtaken by an older page of a running pass or by an older
\* event; and those on the later pages of a channel that vanished during a pass.
MissesNothing ==
    \A i \in Item : i <= Mark(i) => Shows(i) \/ Due(i) \/ Bare(i) \/ i \in excused

Settled == \A i \in Item : Shows(i) \/ Due(i) \/ Bare(i) \/ i \in excused
=============================================================================
