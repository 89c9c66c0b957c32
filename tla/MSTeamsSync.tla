----------------------------- MODULE MSTeamsSync -----------------------------
(***************************************************************************)
(* The Microsoft Teams connector (connectors/msteams): the chats of the    *)
(* user one after the other, each with a backfill that pages its messages  *)
(* and a delta link drained afterwards; incremental passes walk the delta  *)
(* of the chats in the cursor and backfill the chats that are new.         *)
(*                                                                         *)
(* The items are the messages.  The position of a chat is Unprimed until   *)
(* its delta is primed; the cursor is the map of the positions.  Graph is  *)
(* external: a chat exists from its first message on, and the user may not *)
(* see a chat for a while.  A message of such a chat is emitted without    *)
(* the members of the chat, which is its version, negated.                 *)
(***************************************************************************)
EXTENDS FeedPass

CONSTANT ChatOf     \* the chat of each message

Chat == {ChatOf[i] : i \in Item}
Messages(c) == {i \in Item : ChatOf[i] = c}
Unprimed == -1
NoDeltas == [c \in Chat |-> Unprimed]
deltaCursor(d) == [deltas |-> d]
Started(c) == c # NoCursor

Position == -1..MaxChanges
TypeOK ==
    /\ FeedTypeOK
    /\ stored.cursor \in {NoCursor} \cup [deltas : [Chat -> Position]]
    /\ at \in {"start", "chat", "list", "page", "prime", "changes", "replay"}
    /\ pass = "idle" \/ at = "start" \/ base \in [Chat -> Position]

\* A pass works on the first chat of its queue; `members' says whether
\* listChats returned it, `page' is the token within it.
chat == Head(token.chats)
members == chat \in token.listed
Goto(label) == at' = label /\ UNCHANGED <<hub, source, base, work>>

-----------------------------------------------------------------------------
Existing == {c \in Chat : \E i \in Messages(c) : remote[i].at > 0}

\* The chats the user sees: all of them, or all but one.
listChats(Use(_)) ==
    \/ Use(Existing) /\ UNCHANGED faults
    \/ Fault /\ \E c \in Existing : Use(Existing \ {c})

Queue(S, listed) ==
    token' = [chats |-> SetToSortSeq(S, LAMBDA c, d : c < d), listed |-> listed, page |-> 0]

FullSync ==
    /\ pass = "full" /\ at = "start"
    /\ listChats(LAMBDA listed : Queue(listed, listed))
    /\ base' = NoDeltas /\ work' = <<>> /\ at' = "chat"
    /\ BackfillBegins
    /\ UNCHANGED <<stored, pass, runCursor, source>>

\* The chats of the cursor and the chats listed now, in the order of their ids.
IncrementalSync ==
    /\ pass = "incremental" /\ at = "start" /\ runCursor # NoCursor
    /\ base' = runCursor.deltas
    /\ listChats(LAMBDA listed : Queue(listed \cup {c \in Chat : base'[c] # Unprimed}, listed))
    /\ work' = <<>> /\ at' = "chat"
    /\ UNCHANGED <<stored, pass, runCursor, source, index>>

ChatBegins == /\ owed' = clock
              /\ orphans' = orphans \cup {i \in Messages(chat) : indexed[i] # 0}

\* The next chat: a delta walk when it has a position, else a backfill.
NextChat ==
    /\ at = "chat"
    /\ IF token.chats = <<>>
       THEN Return(deltaCursor(base))
       ELSE /\ IF base[chat] = Unprimed
               THEN Goto("list") /\ ChatBegins
               ELSE Goto("changes") /\ UNCHANGED <<owed, orphans>>
            /\ UNCHANGED <<token, indexed, seen, excused>>

ChatDone == token' = [token EXCEPT !.chats = Tail(@), !.page = 0]

-----------------------------------------------------------------------------
messageDocument(e) == Upsert(e.item, e.ver, IF members THEN e.ver ELSE -e.ver)

ListMessages ==
    /\ at = "list"
    /\ IF token.page # 0 /\ owed < floor
       THEN Fail
       ELSE LET p == Listed(Messages(chat), token.page)
            IN  /\ work' = p.work /\ token' = [token EXCEPT !.page = p.token]
                /\ at' = (IF p.work = <<>> THEN "prime" ELSE "page")
                /\ UNCHANGED <<hub, base>>
    /\ UNCHANGED <<source, index>>

\* A message of the page; after the last page comes the delta link.
backfillChat ==
    /\ at = "page"
    /\ messageDocument(Head(work)) /\ work' = Tail(work)
    /\ at' = CASE Len(work) > 1 -> "page" [] token.page # 0 -> "list" [] OTHER -> "prime"
    /\ UNCHANGED <<hub, source, base, token>>

\* The feed is drained and discarded: its link stands for the present.  A full
\* sync checkpoints the chats done so far; an incremental one does not.
primeDelta ==
    /\ at = "prime"
    /\ FeedEntered(Messages(chat))
    /\ LET deltas == [base EXCEPT ![chat] = clock]
       IN  \/ /\ IF pass = "full" THEN Checkpoint(deltaCursor(deltas)) ELSE UNCHANGED hub
              /\ base' = deltas /\ at' = "chat" /\ ChatDone /\ UNCHANGED work
           \/ pass = "full" /\ CheckpointFails(deltaCursor(deltas)) /\ Reset
    /\ UNCHANGED <<source, indexed, seen, owed, orphans>>

\* 410 from any chat expires the cursor of all of them.
DeltaMessages ==
    /\ at = "changes"
    /\ IF base[chat] < floor
       THEN Expired /\ Reset
       ELSE LET f == Fed(Messages(chat), base[chat])
            IN  /\ work' = f.work /\ base' = [base EXCEPT ![chat] = f.base]
                /\ token' = [token EXCEPT !.page = f.token]
                /\ at' = "replay" /\ UNCHANGED hub
    /\ UNCHANGED <<source, index>>

EmitChange ==
    /\ at = "replay" /\ work # <<>>
    /\ LET e == Head(work) IN IF e.ver = 0 THEN Tombstone(e.item) ELSE messageDocument(e)
    /\ work' = Tail(work)
    /\ UNCHANGED <<hub, source, at, base, token>>

replayChatDelta ==
    /\ at = "replay" /\ work = <<>>
    /\ IF token.page # 0
       THEN Goto("changes") /\ UNCHANGED token
       ELSE Goto("chat") /\ ChatDone
    /\ UNCHANGED index

Sync == \/ FullSync \/ IncrementalSync \/ NextChat \/ ListMessages \/ backfillChat
        \/ primeDelta \/ DeltaMessages \/ EmitChange \/ replayChatDelta

Turn == (Begin /\ StartPass) \/ Sync
Next == StartPass \/ Interrupted \/ Sync \/ Source
Spec == FeedInit /\ [][Next]_vars

-----------------------------------------------------------------------------
(* Properties *)

Shows(i) == indexed[i] \in {Version(i), -Version(i)}

\* A message of a chat with a position is indexed as it is in the chat, though
\* perhaps without the members, or changed after the position.  Excepted are
\* messages deleted before a backfill that was started over, and those that
\* changed while their chat was backfilled, which the drained feed discards.
MissesNothing ==
    Started(stored.cursor) =>
        \A i \in Item :
            LET p == stored.cursor.deltas[ChatOf[i]]
            IN  p # Unprimed => remote[i].at > p \/ Shows(i) \/ Orphan(i) \/ i \in excused

Settled == \A i \in Item : Shows(i) \/ Orphan(i) \/ i \in excused
=============================================================================
