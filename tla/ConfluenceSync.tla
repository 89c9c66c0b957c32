--------------------------- MODULE ConfluenceSync ---------------------------
(***************************************************************************)
(* The Confluence connector (connectors/confluence): a backfill by offset  *)
(* over the pages of a space, and incremental passes that search the pages *)
(* modified from the minute of the cursor on, first the current and then   *)
(* the trashed ones.  The cursor never expires.                            *)
(*                                                                         *)
(* Confluence is external; a change has its own instant, and trashing a    *)
(* page is a change of it (syncTrashed).  It reads the minute of a search, *)
(* which is written in UTC and without a zone, in the zone of the account. *)
(***************************************************************************)
EXTENDS FeedPass

CONSTANT PerMinute    \* instants in a minute, the precision of CQL

VARIABLE zone         \* minutes that the account's zone is ahead of UTC; fixed

Minute(t) == t \div PerMinute

\* renderCursor; offsetCursor, which parseCursor does not parse.
renderCursor(t) == [kind |-> "minute", since |-> Minute(t)]
offsetCursor(n) == [kind |-> "offset", since |-> n]
Steady(c) == c # NoCursor /\ c.kind = "minute"
parseCursor(c) == IF Steady(c) THEN c.since ELSE 0

TypeOK ==
    /\ FeedTypeOK /\ zone \in {-1, 0, 1}
    /\ stored.cursor \in {NoCursor} \cup [kind : {"minute", "offset"}, since : 0..MaxChanges]
    /\ at \in {"start", "list", "page", "changed", "changedPage", "trashed", "trashedPage", "done"}

-----------------------------------------------------------------------------
\* What the source takes the minute m for.
Read(m) == m - zone

\* "status=<status> and lastModified>=<minute>"
buildCQL(status, since) ==
    {i \in Item : remote[i].at # 0 /\ (Live(i) <=> status = "current")
                  /\ (since = 0 \/ Minute(remote[i].at) >= Read(since))}

ById(i, j) == i < j
ByModified(i, j) == remote[i].at < remote[j].at

\* The results that the running scan counts its offset in.
Results ==
    CASE at \in {"list", "page"} -> SetToSortSeq({i \in Item : Live(i)}, ById)
      [] at \in {"changed", "changedPage"} -> SetToSortSeq(buildCQL("current", base), ByModified)
      [] at \in {"trashed", "trashedPage"} -> SetToSortSeq(buildCQL("trashed", base), ByModified)
      [] OTHER -> <<>>

Slice(s, from, to) == SubSeq(s, from, Min({to, Len(s)}))

\* The part of them in front of the next page.
Passed == IF Results = <<>> THEN {} ELSE ToSet(Slice(Results, 1, token.start))

\* A change moves pages in front of the offset of a running scan, which does
\* not come to them any more.
Shifted == {j \in Passed' \ Passed : indexed[j] # Version(j)}

Modify(i, live) ==
    /\ clock < MaxChanges /\ clock' = clock + 1
    /\ remote' = [remote EXCEPT ![i] = [at |-> clock', live |-> live]]
    /\ UNCHANGED <<hub, floor, events, conn, indexed, seen, owed, orphans>>
    /\ excused' = excused \cup (Shifted \ {i})

Edit(i) == Modify(i, TRUE)
Trash(i) == Live(i) /\ Modify(i, FALSE)

Tick == /\ clock < MaxChanges /\ clock' = clock + 1
        /\ UNCHANGED <<hub, remote, floor, events, conn, index>>

Space == Tick \/ \E i \in Item : Edit(i) \/ Trash(i)

-----------------------------------------------------------------------------
Begins(label, since) ==
    /\ at' = label /\ base' = since /\ work' = <<>>
    /\ token' = [start |-> 0, more |-> FALSE, newest |-> since * PerMinute]

FullSync ==
    /\ pass = "full" /\ at = "start" /\ Begins("list", 0)
    /\ BackfillBegins
    /\ UNCHANGED <<hub, source>>

\* A checkpoint of a backfill does not parse: all the pages are searched.
IncrementalSync ==
    /\ pass = "incremental" /\ at = "start" /\ Begins("changed", parseCursor(runCursor))
    /\ owed' = clock
    /\ UNCHANGED <<hub, source, indexed, seen, orphans, excused>>

\* A page of the results from the offset; a full page may have a next one.
FetchPage(here, next) ==
    /\ at = here /\ at' = next
    /\ LET page == Slice(Results, token.start + 1, token.start + PageSize)
       IN  /\ work' = [k \in DOMAIN page |-> [item |-> page[k], ver |-> Version(page[k]),
                                              when |-> remote[page[k]].at]]
           /\ token' = [token EXCEPT !.start = @ + Len(page), !.more = Len(page) = PageSize]
    /\ UNCHANGED <<hub, source, index, base>>

listPage == FetchPage("list", "page")
searchPage == FetchPage("changed", "changedPage") \/ FetchPage("trashed", "trashedPage")

\* contentDocument or tombstoneDocument, by the status that was asked for.
EmitContent ==
    /\ work # <<>>
    /\ Emit(Head(work)) /\ work' = Tail(work)
    /\ token' = [token EXCEPT !.newest = IF Head(work).when > @ THEN Head(work).when ELSE @]
    /\ UNCHANGED <<hub, source, at, base>>

NextPage(here, next) ==
    at = here /\ token.more /\ at' = next /\ UNCHANGED <<hub, source, index, base, token, work>>

PageDone ==
    /\ work = <<>>
    /\ \/ at = "page" /\ token.more /\ Save(offsetCursor(token.start), "list")
       \/ NextPage("changedPage", "changed") \/ NextPage("trashedPage", "trashed")

\* The cursor is the newest modification seen, to the minute; what was modified
\* behind the back of the pass in an earlier minute is left behind.
Stale(c) == {i \in Item : indexed[i] # Version(i) /\ remote[i].at > owed
                          /\ Minute(remote[i].at) < Read(c.since)}

\* West of UTC, what was modified between the minute m and what it is read as.
Gap(m) == {i \in Item : m # 0 /\ Minute(remote[i].at) \in m..Read(m) - 1}

\* The end of a backfill; an empty one starts from now.
finalCursor ==
    /\ at = "page" /\ work = <<>> /\ ~token.more
    /\ LET c == renderCursor(IF token.newest = 0 THEN clock ELSE token.newest)
       IN  /\ excused' = excused \cup Stale(c)
           /\ \/ Checkpoint(c) /\ at' = "done" /\ base' = c.since /\ UNCHANGED <<token, work>>
              \/ CheckpointFails(c) /\ Reset
    /\ UNCHANGED <<source, indexed, seen, owed, orphans>>

Finish == at = "done" /\ Return([kind |-> "minute", since |-> base])

\* syncChanged is done: the same window again for the trashed pages.
syncChanged ==
    /\ at = "changedPage" /\ work = <<>> /\ ~token.more
    /\ at' = "trashed" /\ token' = [token EXCEPT !.start = 0]
    /\ UNCHANGED <<hub, source, index, base, work>>

syncTrashed ==
    /\ at = "trashedPage" /\ work = <<>> /\ ~token.more
    /\ Complete(renderCursor(token.newest)) /\ Reset
    /\ excused' = excused \cup Stale(renderCursor(token.newest))
                 \cup {i \in Gap(base) : indexed[i] # Version(i)}
    /\ UNCHANGED <<source, indexed, seen, owed, orphans>>

Sync == \/ FullSync \/ IncrementalSync \/ listPage \/ searchPage \/ EmitContent \/ PageDone
        \/ finalCursor \/ Finish \/ syncChanged \/ syncTrashed

Turn == (Begin /\ StartPass) \/ Sync
Next == UNCHANGED zone /\ (StartPass \/ Interrupted \/ Sync \/ Space)
Init == FeedInit /\ zone \in {-1, 0, 1}
Spec == Init /\ [][Next]_<<vars, zone>>

-----------------------------------------------------------------------------
(* Properties *)

Ahead(i) == stored.cursor.since = 0 \/ Minute(remote[i].at) >= Read(stored.cursor.since)

\* Once a minute is stored, a page is indexed as it is in the space or the
\* searches from that minute on return it.  Excepted are pages trashed before a
\* backfill that was started over, those that a concurrent change moved below
\* the offset of a scan, and those modified during a pass in an earlier minute
\* than the newest modification that the pass saw; and, west of UTC, those
\* modified less than the offset of the zone after the stored minute, which is
\* formatted in UTC (buildCQL) and read as a later one.
MissesNothing ==
    Steady(stored.cursor) =>
        \A i \in Item : \/ Ahead(i) \/ indexed[i] = Version(i) \/ Orphan(i)
                        \/ i \in excused \cup Gap(stored.cursor.since)

Settled == \A i \in Item : indexed[i] = Version(i) \/ Orphan(i) \/ i \in excused
=============================================================================
