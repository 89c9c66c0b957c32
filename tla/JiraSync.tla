------------------------------ MODULE JiraSync ------------------------------
(***************************************************************************)
(* The Jira connector (connectors/jira/sync.go, cursor.go) run by the      *)
(* hub's sync pass: one scan of the issues in the order of their last      *)
(* update, page by page, from the minute of the cursor on.  The bound is   *)
(* inclusive, so the cursor also names the issue it stands at, and the     *)
(* scan skips that issue.                                                  *)
(*                                                                         *)
(* The site is external: search returns a page of what matches when it is  *)
(* asked.  An issue is the time of its last update and a version; version  *)
(* 0 is "not created".  A deleted-like status is one more version.         *)
(* The bound of a search is written without a zone: the connector formats  *)
(* it in UTC, and the site reads it in the zone of the account.            *)
(***************************************************************************)
EXTENDS SyncPass, Sequences, SequencesExt

CONSTANTS Issue,        \* issue keys
          pageSize,
          PerMinute,    \* instants in a minute, the precision of JQL
          MaxUpdates    \* bound: updates at the site

VARIABLES zone,        \* minutes that the account's zone is ahead of UTC; fixed
          site,        \* site[k]: the issue k
          clock,       \* instants so far; every update has its own
          at,          \* "start", "search", "page"
          start,       \* the cursor the scan starts from
          cursor,      \* the newest issue seen by the scan
          startAt, total,
          page,        \* issues of the page not handled yet, as search returned them
          indexed,     \* the last version of each issue handed to the pipeline
          overlooked   \* history: passed over by the boundary, paging or zone of a scan

source == <<zone, site, clock>>
conn   == <<at, start, cursor, startAt, total, page>>
vars   == <<hub, source, conn, indexed, overlooked>>

Minute(t) == t \div PerMinute
Cursor(t, k) == [updated |-> Minute(t), key |-> k]
CursorType == {NoCursor} \cup [updated : 0..MaxUpdates + 1, key : Issue]

\* What the site takes the bound of the cursor c for.
Bound(c) == c.updated - zone

TypeOK ==
    /\ zone \in {-1, 0, 1}
    /\ stored \in [cursor : CursorType, phase : Phase]
    /\ pass \in {"idle", "full", "incremental"} /\ faults \in 0..MaxFaults
    /\ site \in [Issue -> [upd : 0..MaxUpdates + 1, ver : 0..MaxUpdates + 1]]
    /\ at \in {"start", "search", "page"} /\ start \in CursorType /\ cursor \in CursorType
    /\ indexed \in [Issue -> 0..MaxUpdates + 1] /\ overlooked \subseteq Issue
    /\ pass = "idle" => at = "start" /\ page = <<>>

Init ==
    /\ HubInit
    /\ zone \in {-1, 0, 1}
    /\ site = [k \in Issue |-> [upd |-> 0, ver |-> 0]] /\ clock = 0
    /\ at = "start" /\ start = NoCursor /\ cursor = NoCursor
    /\ startAt = 0 /\ total = 0 /\ page = <<>>
    /\ indexed = [k \in Issue |-> 0] /\ overlooked = {}

Reset == /\ at' = "start" /\ start' = NoCursor /\ cursor' = NoCursor
         /\ startAt' = 0 /\ total' = 0 /\ page' = <<>>

-----------------------------------------------------------------------------
\* "updated >= '<minute>' order by updated asc"
jql(c) ==
    {k \in Issue : site[k].ver # 0 /\ (c = NoCursor \/ Minute(site[k].upd) >= Bound(c))}
results == SetToSortSeq(jql(start), LAMBDA j, k : site[j].upd < site[k].upd)

\* The results in front of the offset of the next page.
Passed == IF at = "start" THEN {} ELSE ToSet(SubSeq(results, 1, startAt))

\* An issue is created or changed.  A cursor that stands at it makes the next
\* scan skip it; and the issues that it leaves, as it moves to the end of the
\* results, in front of the offset are never returned to the running scan.
Update(k) ==
    /\ clock < MaxUpdates /\ clock' = clock + 1 /\ UNCHANGED zone
    /\ site' = [site EXCEPT ![k] = [upd |-> clock', ver |-> clock']]
    /\ UNCHANGED <<hub, conn, indexed>>
    /\ overlooked' = overlooked
         \cup {j \in {k} : stored.cursor # NoCursor /\ stored.cursor.key = j}
         \cup {j \in Passed' \ Passed : indexed[j] # site[j].ver}

StartPass == (Begin \/ BeginFails) /\ UNCHANGED <<source, conn, indexed, overlooked>>

Interrupted == Abort /\ Reset /\ UNCHANGED <<source, indexed, overlooked>>

\* FullSync and IncrementalSync: a scan from nothing, or from the cursor.
StartScan ==
    /\ pass # "idle" /\ at = "start"
    /\ start' = runCursor /\ cursor' = runCursor /\ startAt' = 0
    /\ at' = "search"
    /\ UNCHANGED <<hub, source, total, page, indexed, overlooked>>

\* A page counts from startAt in the results of this moment.
Search ==
    LET last == IF startAt + pageSize < Len(results) THEN startAt + pageSize ELSE Len(results)
        keys == SubSeq(results, startAt + 1, last)
    IN  /\ at = "search"
        /\ page' = [i \in DOMAIN keys |-> [key |-> keys[i], issue |-> site[keys[i]]]]
        /\ total' = Len(results)
        /\ startAt' = startAt + Len(keys)
        /\ at' = "page"
        /\ UNCHANGED <<hub, source, start, cursor, indexed, overlooked>>

\* The source rejects the bound (400): the hub restarts with a full sync.
Rejected ==
    /\ at = "search" /\ Expired /\ Reset
    /\ UNCHANGED <<source, indexed, overlooked>>

\* The issue i goes to the pipeline as the page has it.
Found(i) ==
    /\ indexed' = [indexed EXCEPT ![i.key] = i.issue.ver]
    /\ cursor' = Cursor(i.issue.upd, i.key)
    /\ overlooked' = IF i.issue = site[i.key] THEN overlooked \ {i.key} ELSE overlooked

\* The issue the scan starts at is skipped, whatever happened to it since.
EmitIssue ==
    /\ at = "page" /\ page # <<>>
    /\ LET i == Head(page) IN
         IF start # NoCursor /\ i.key = start.key
         THEN UNCHANGED <<indexed, cursor, overlooked>>
         ELSE Found(i)
    /\ page' = Tail(page)
    /\ UNCHANGED <<hub, source, at, start, startAt, total>>

\* West of UTC the bound is read as a later time than was written: the issues
\* between the two are not found from the cursor c.
Gap(c) == {k \in Issue : c # NoCursor /\ Minute(site[k].upd) \in c.updated..Bound(c) - 1}

\* The next page after a checkpoint, or the end of the scan.
PageDone ==
    /\ at = "page" /\ page = <<>>
    /\ \/ /\ startAt < total
          /\ \/ Checkpoint(cursor) /\ at' = "search" /\ UNCHANGED <<start, cursor, startAt, total, page>>
             \/ CheckpointFails(cursor) /\ Reset
       \/ startAt >= total /\ Complete(cursor) /\ Reset
    /\ overlooked' = overlooked \cup
         {k \in Issue : /\ indexed[k] # site[k].ver
                        /\ k \in Gap(start) \/ (cursor # NoCursor /\ cursor.key = k)}
    /\ UNCHANGED <<source, indexed>>

Sync == StartScan \/ Search \/ Rejected \/ EmitIssue \/ PageDone
Change == \E k \in Issue : Update(k)

\* The scheduler starts pass after pass, and the source answers.
Turn == (Begin /\ StartPass) \/ Sync

Next == StartPass \/ Interrupted \/ Sync \/ Change
Spec == Init /\ [][Next]_vars

-----------------------------------------------------------------------------
(* Properties *)

\* The scan from the stored cursor will come to issue k.
Ahead(k) == k \in jql(stored.cursor) /\ (stored.cursor = NoCursor \/ stored.cursor.key # k)

\* "IncrementalSync emits every document created, changed, ... since cur"
\* (sdk.Connector): between two passes an issue is indexed as it is, or the
\* next scan comes to it; but for an issue that was updated again while a
\* cursor stood at it, which the scan skips, one that an update of another issue
\* moved below the page offset of a running scan, and, west of UTC, one updated
\* less than the offset of the zone after the cursor: the bound, formatted in UTC
\* (parseJiraTime, jqlTimeLayout), is read as a later time.
OnlyOverlookedMissed ==
    pass = "idle" =>
        \A k \in Issue :
            indexed[k] = site[k].ver \/ Ahead(k) \/ k \in overlooked \cup Gap(stored.cursor)

\* What is indexed when the site has been quiet for long enough
\* (Connectors!Converges).
Settled == \A k \in Issue : indexed[k] = site[k].ver \/ k \in overlooked
=============================================================================
