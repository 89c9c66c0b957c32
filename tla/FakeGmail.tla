------------------------------ MODULE FakeGmail ------------------------------
(* The in-memory Gmail of the dev stack and the end-to-end suites            *)
(* (tools/fake-gmail): one mailbox with its capped history log, the admin    *)
(* handlers that change it, the paged reads of the API, and the pushes to    *)
(* the registered watcher.  Every store method holds the store's lock, so it *)
(* is one step; a push is delivered on a goroutine of its own.               *)
(*                                                                           *)
(* The client stands for a connector (GmailSync has the real one): it takes  *)
(* the history id, lists the mailbox, fetches what is listed, and from then  *)
(* on replays the history, an entry at a time.                               *)
EXTENDS Integers, Sequences, SequencesExt, FiniteSetsExt

CONSTANTS Seeds,              \* messages the seed generator makes, ids 1..Seeds
          Adds,               \* bound: messages added, which get the ids after
          maxHistoryEntries, pushAttempts,
          maxResults,         \* the page size the client asks for
          MaxHistory          \* bound: history ids

VARIABLES mb,        \* the mailbox: messages, historyID, history, prunedThrough
          handed,    \* ids handed out to added messages
          watch,     \* "none", "live" or "expired"
          since,     \* the history id handleWatch answered last
          pushes,    \* pushes in flight: [id, attempt]
          told,      \* the latest history id the watcher has been told of
          lost,      \* a push was dropped after its last attempt
          client,    \* the client's place: pc, start, token, work and,
                     \* on the last page of a replay, the history id it ends at
          mirror,    \* the client's copy of the messages
          shifted    \* history: a message was deleted between two list pages

vars == <<mb, handed, watch, since, pushes, told, lost, client, mirror, shifted>>
server == <<mb, handed, watch, since, pushes, told, lost>>

Id == 1..Seeds + Adds
NoMessage == [etag |-> 0, text |-> 0]
Message == {NoMessage} \cup [etag : 1..MaxHistory, text : 0..1]
Exists(m) == mb.messages[m].etag # 0

TypeOK == /\ mb.messages \in [Id -> Message]
          /\ mb.historyID \in 0..MaxHistory /\ Len(mb.history) <= maxHistoryEntries
          /\ watch \in {"none", "live", "expired"}
          /\ pushes \subseteq [id : 1..MaxHistory, attempt : 1..pushAttempts]
          /\ client.pc \in {"off", "new", "list", "idle", "replay"}
          /\ mirror \in [Id -> Message]

Idle(start) == [pc |-> "idle", start |-> start, token |-> 0, last |-> FALSE, end |-> 0, work |-> <<>>]
New == [Idle(0) EXCEPT !.pc = "new"]

\* The pushes and the reads do not touch each other: a mailbox is watched, or
\* it is read.
Watcher == [New EXCEPT !.pc = "off"]

Init == /\ mb = [messages |-> [m \in Id |-> NoMessage], historyID |-> 0,
                 history |-> <<>>, prunedThrough |-> 0]
        /\ handed = 0
        /\ watch = "none" /\ since = 0 /\ pushes = {} /\ told = 0 /\ lost = FALSE
        /\ client \in {New, Watcher} /\ mirror = [m \in Id |-> NoMessage] /\ shifted = FALSE

-----------------------------------------------------------------------------
(* The store.                                                                *)

appendHistoryLocked(b, m, kind) ==
    LET id  == b.historyID + 1
        log == Append(b.history, [id |-> id, msg |-> m, kind |-> kind])
        n   == Len(log) - maxHistoryEntries
    IN  IF n <= 0 THEN [b EXCEPT !.historyID = id, !.history = log]
        ELSE [b EXCEPT !.historyID = id, !.prunedThrough = log[n].id,
                       !.history = SubSeq(log, n + 1, Len(log))]

\* The message is stored under the history id of its "added" entry.
addMessage(b, m, text) ==
    LET c == appendHistoryLocked(b, m, "added")
    IN  [c EXCEPT !.messages[m] = [etag |-> c.historyID, text |-> text]]

\* An edit is logged as a deletion and an arrival of the same id.
editLocked(b, m, text) == addMessage(appendHistoryLocked(b, m, "deleted"), m, text)

deleteMessage(b, m) ==
    [appendHistoryLocked(b, m, "deleted") EXCEPT !.messages[m] = NoMessage]

\* The same seed makes the same ids and texts again: those that exist are edited.
seedMessages(b, n) ==
    FoldLeft(LAMBDA c, m : IF c.messages[m].etag # 0 THEN editLocked(c, m, 0) ELSE addMessage(c, m, 0),
             b, [i \in 1..n |-> i])

\* Newest first.  Seeded mail is older than anything added, so its ids come
\* last.  The page token is an offset into the mailbox of the moment.
listMessages(offset) ==
    LET all  == SetToSortSeq({m \in Id : Exists(m)}, LAMBDA m, n : m > n)
        from == Min({offset, Len(all)})
        end  == Min({from + maxResults, Len(all)})
    IN  [refs |-> SubSeq(all, from + 1, end), next |-> IF end < Len(all) THEN end ELSE 0]

Stale(start) == start > mb.historyID \/ start < mb.prunedThrough

\* The entries behind the start and the token; the next token is the id of the
\* last entry of a full page.  (The client asks for both types of change, so
\* `filtered' keeps every entry.)
listHistory(start, token) ==
    LET entries == SelectSeq(mb.history, LAMBDA e : e.id > Max({start, token}))
    IN  IF Len(entries) <= maxResults THEN [entries |-> entries, next |-> 0]
        ELSE [entries |-> SubSeq(entries, 1, maxResults), next |-> entries[maxResults].id]

-----------------------------------------------------------------------------
(* The admin handlers: change the mailbox, then notify the watcher.          *)

\* A goroutine is started when there is a watch and it has not expired.
notify(id) ==
    pushes' = IF watch = "live" THEN pushes \cup {[id |-> id, attempt |-> 1]} ELSE pushes

Change(b) == /\ b.historyID <= MaxHistory
             /\ mb' = b /\ notify(b.historyID)
             /\ UNCHANGED <<watch, since, told, lost, client, mirror>>

handleAdminSeed ==
    \E n \in 1..Seeds : Change(seedMessages(mb, n)) /\ UNCHANGED <<handed, shifted>>

\* The id comes from the clock: newer than every other, and never used before.
handleAdminAddMessage ==
    \E text \in 0..1 :
        /\ handed < Adds /\ handed' = handed + 1
        /\ Change(addMessage(mb, Seeds + handed', text))
        /\ UNCHANGED shifted

handleAdminEditMessage ==
    \E m \in Id, text \in 0..1 : Exists(m) /\ Change(editLocked(mb, m, text)) /\ UNCHANGED <<handed, shifted>>

handleAdminDeleteMessage ==
    \E m \in Id :
        /\ Exists(m) /\ Change(deleteMessage(mb, m)) /\ UNCHANGED handed
        /\ shifted' = (shifted \/ client.pc = "list")

-----------------------------------------------------------------------------
(* The watch and its pushes.                                                 *)

handleWatch == /\ client = Watcher /\ watch # "live" /\ watch' = "live" /\ since' = mb.historyID
               /\ UNCHANGED <<mb, handed, pushes, told, lost, client, mirror, shifted>>

Expire == /\ watch = "live" /\ watch' = "expired"
          /\ UNCHANGED <<mb, handed, since, pushes, told, lost, client, mirror, shifted>>

\* One attempt of `deliver': answered, tried again, or dropped.
deliver(p) ==
    /\ \/ pushes' = pushes \ {p} /\ told' = Max({told, p.id}) /\ UNCHANGED lost
       \/ /\ p.attempt < pushAttempts
          /\ pushes' = (pushes \ {p}) \cup {[p EXCEPT !.attempt = @ + 1]}
          /\ UNCHANGED <<told, lost>>
       \/ p.attempt = pushAttempts /\ pushes' = pushes \ {p} /\ lost' = TRUE /\ UNCHANGED told
    /\ UNCHANGED <<mb, handed, watch, since, client, mirror, shifted>>

-----------------------------------------------------------------------------
(* The client.                                                               *)

\* handleGetProfile: the history id, before the listing that it covers.
handleGetProfile ==
    /\ client.pc = "new"
    /\ client' = [New EXCEPT !.pc = "list", !.start = mb.historyID]
    /\ mirror' = [m \in Id |-> NoMessage] /\ shifted' = FALSE
    /\ UNCHANGED server

handleListMessages ==
    /\ client.pc = "list" /\ client.work = <<>>
    /\ client' = IF client.last THEN Idle(client.start)
                 ELSE LET page == listMessages(client.token)
                      IN  [client EXCEPT !.token = page.next, !.last = (page.next = 0), !.work = page.refs]
    /\ UNCHANGED <<server, mirror, shifted>>

\* A 404 sends the client back to a full listing.
handleListHistory ==
    /\ \/ client.pc = "idle"
       \/ client.pc = "replay" /\ client.work = <<>>
    /\ client' = IF client.last THEN Idle(client.end)
                 ELSE IF Stale(client.start) THEN New
                 ELSE LET page == listHistory(client.start, client.token)
                      IN  [pc |-> "replay", start |-> client.start, token |-> page.next,
                           last |-> (page.next = 0), end |-> mb.historyID, work |-> page.entries]
    /\ UNCHANGED <<server, mirror, shifted>>

\* handleGetMessage for the next message; a version the client has already is
\* dropped, a message that is gone is removed.
handleGetMessage ==
    /\ client.work # <<>>
    /\ LET w    == Head(client.work)
           m    == IF client.pc = "list" THEN w ELSE w.msg
           gone == client.pc = "replay" /\ w.kind = "deleted"
           now  == IF gone THEN NoMessage ELSE mb.messages[m]
       IN  mirror' = [mirror EXCEPT ![m] = IF @.etag = now.etag THEN @ ELSE now]
    /\ client' = [client EXCEPT !.work = Tail(@)]
    /\ UNCHANGED <<server, shifted>>

Admin == handleAdminSeed \/ handleAdminAddMessage \/ handleAdminEditMessage \/ handleAdminDeleteMessage
Client == handleGetProfile \/ handleListMessages \/ handleListHistory \/ handleGetMessage

Next == Admin \/ Client \/ handleWatch \/ Expire \/ \E p \in pushes : deliver(p)
Spec == Init /\ [][Next]_vars

-----------------------------------------------------------------------------
(* Properties.                                                               *)

\* A later replay from the client's cursor mentions the message, or is a 404.
Ahead(m) == \/ Stale(client.start)
            \/ \E i \in DOMAIN mb.history : mb.history[i].msg = m /\ mb.history[i].id > client.start

\* "consumers that process entries in id order always converge to the right
\* state": what the cursor of a client at rest has left behind is mirrored as
\* it is in the mailbox, whatever was changed between its pages and however
\* far the log was pruned meanwhile.  A deletion between two pages of a listing
\* is excepted ("concurrent mutation between pages may shift results").
ReplayConverges ==
    (client.pc = "idle" /\ ~shifted) => \A m \in Id : Ahead(m) \/ mirror[m] = mb.messages[m]

\* The watcher of a live watch is told of the mailbox's latest history id, in
\* whatever order the pushes arrive, unless one was dropped: nothing is left to
\* the polling but what a lost push would have carried.
LatestAnnounced ==
    (watch = "live" /\ pushes = {} /\ ~lost) => mb.historyID \in {told, since}
=============================================================================
