----------------------------- MODULE GDriveSync -----------------------------
(***************************************************************************)
(* The Google Drive connector (connectors/gdrive): a backfill over         *)
(* files.list behind a changes token taken first, and incremental passes   *)
(* over changes.list.  The permissions and the body of a file are fetched  *)
(* after the page that lists it, when the file may be gone.  A document    *)
(* whose body could not be fetched has the version it is of, negated.      *)
(*                                                                         *)
(* Drive is external; a deleted file was trashed, and can still be read,   *)
(* or removed, and answers 404.                                            *)
(***************************************************************************)
EXTENDS FeedPass

\* backfillCursor, incrementalCursor: "start:<token>|files:<page>", "page:<token>".
backfillCursor(start, page) == [kind |-> "start", base |-> start, token |-> page]
incrementalCursor(start) == [kind |-> "page", base |-> start, token |-> 0]
Steady(c) == c # NoCursor /\ c.kind = "page"

TypeOK ==
    /\ FeedTypeOK
    /\ stored.cursor \in {NoCursor} \cup
         [kind : {"start", "page"}, base : 0..clock, token : {0} \cup Item]
    /\ at \in {"start", "list", "page", "changes", "replay", "done"}

-----------------------------------------------------------------------------
\* The start token first, then the listing from its first page.
FullSync ==
    /\ pass = "full" /\ at = "start"
    /\ base' = clock /\ token' = 0 /\ work' = <<>> /\ at' = "list"
    /\ BackfillBegins
    /\ UNCHANGED <<hub, source>>

\* A checkpoint of a backfill resumes it, any other cursor replays the changes.
IncrementalSync ==
    /\ pass = "incremental" /\ at = "start" /\ runCursor # NoCursor
    /\ base' = runCursor.base /\ token' = runCursor.token /\ work' = <<>>
    /\ at' = IF Steady(runCursor) THEN "changes" ELSE "list"
    /\ UNCHANGED <<hub, source, index>>

\* files.list with trashed=false.  A page token that lapsed is an error like
\* any other: the checkpoint that holds it stays.
listFiles ==
    /\ at = "list"
    /\ IF token # 0 /\ base < floor
       THEN Fail
       ELSE ListPage(Item, token) /\ at' = "page" /\ UNCHANGED <<hub, base>>
    /\ UNCHANGED <<source, index>>

\* permissions.list and the body of a file as the page has it.  A body that
\* cannot be fetched leaves a document of the metadata under the same etag.
documentForFile(e) ==
    \/ Upsert(e.item, e.ver, e.ver) /\ UNCHANGED faults
    \/ Upsert(e.item, e.ver, -e.ver) /\ Fault

NotFound(e) == ~Live(e.item)

\* A file of the page; one that vanished is skipped.
backfill ==
    /\ at = "page" /\ work # <<>>
    /\ \/ documentForFile(Head(work))
       \/ NotFound(Head(work)) /\ UNCHANGED <<index, faults>>
    /\ work' = Tail(work)
    /\ UNCHANGED <<stored, pass, runCursor, source, at, base, token>>

PageDone ==
    /\ at = "page" /\ work = <<>>
    /\ IF token = 0 THEN Save(incrementalCursor(base), "done") ELSE Save(backfillCursor(base, token), "list")

\* changes.list; a token that lapsed (400, 410) is an expired cursor.
listChanges ==
    /\ at = "changes"
    /\ IF base < floor
       THEN Expired /\ Reset
       ELSE FeedPage(Item, base) /\ at' = "replay" /\ UNCHANGED hub
    /\ UNCHANGED <<source, index>>

\* A change with its file, or with the file as files.get returns it now.  A
\* file that is gone by the time its permissions are read fails the pass.
documentForChange ==
    /\ at = "replay" /\ work # <<>>
    /\ \/ /\ \E e \in {Head(work), Entry(Head(work).item)} :
               IF e.ver = 0 THEN Tombstone(e.item) /\ UNCHANGED faults ELSE documentForFile(e)
          /\ work' = Tail(work)
          /\ UNCHANGED <<stored, pass, runCursor, at, base, token>>
       \/ /\ Head(work).ver # 0 /\ NotFound(Head(work))
          /\ Fail /\ UNCHANGED index
    /\ UNCHANGED source

\* The page is done: the next page, or newStartPageToken.
replayChanges ==
    /\ at = "replay" /\ work = <<>>
    /\ IF token # 0
       THEN at' = "changes" /\ UNCHANGED <<hub, source, index, base, token, work>>
       ELSE Return(incrementalCursor(base))

Finish == at = "done" /\ Return(incrementalCursor(base))

Sync == \/ FullSync \/ IncrementalSync \/ listFiles \/ backfill \/ PageDone
        \/ listChanges \/ documentForChange \/ replayChanges \/ Finish

Turn == (Begin /\ StartPass) \/ Sync
Next == StartPass \/ Interrupted \/ Sync \/ Source
Spec == FeedInit /\ [][Next]_vars

-----------------------------------------------------------------------------
(* Properties *)

\* The index has a file as Drive has it.
Shows(i) == indexed[i] = Version(i)

\* As Drive has it, without its body, which could not be extracted: "a non-fatal
\* body error still yields a searchable metadata-only document".  It stays until
\* the next change of the file: nothing comes back to it before, and ingest would
\* drop its etag.
Bare(i) == Live(i) /\ indexed[i] = -Version(i)

\* "every edit racing the backfill is replayed by the first incremental pass"
\* (FullSync): what the stored cursor has left behind is indexed as it is in
\* Drive, whatever raced, failed or lapsed.  Excepted are files deleted before
\* a backfill that an expired cursor started over, which nothing tells of, and
\* the bodies that could not be extracted.
MissesNothing ==
    Steady(stored.cursor) =>
        \A i \in Item : remote[i].at > stored.cursor.base \/ Shows(i) \/ Bare(i) \/ Orphan(i)

\* A checkpoint whose page token lapsed: every pass that resumes it fails.
Poisoned == stored.cursor # NoCursor /\ ~Steady(stored.cursor) /\ stored.cursor.base < floor

\* The index comes to show Drive (Connectors!Converges).
Settled == Poisoned \/ \A i \in Item : Shows(i) \/ Bare(i) \/ Orphan(i)
=============================================================================
