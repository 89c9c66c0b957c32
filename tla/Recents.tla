------------------------------ MODULE Recents ------------------------------
(* A tenant's history of searches: a Redis list that the gateways write when *)
(* a search has been answered (recent.go, redis.go).  RecordRecent sends its *)
(* commands in one pipeline; Redis runs them one by one, with those of other *)
(* gateways in between.  A call is cancelled after 100 ms, and what Redis    *)
(* has by then is run or not.                                                *)
EXTENDS Integers, Sequences, SequencesExt

CONSTANTS Call,               \* searches, explicit records and removals
          Query,
          maxRecentSearches

VARIABLES list,     \* the list at recentKey, newest first
          call,     \* call -> [at, q]
          ref,      \* history: the list, had every call been one step
          removed,  \* history: queries removed and not recorded since
          raced,    \* history: a query was recorded by two calls at the same time
          cut       \* history: a pipeline was cut short

vars == <<list, call, ref, removed, raced, cut>>

NoCall == [at |-> "new", q |-> CHOOSE q \in Query : TRUE]
Flying == {c \in Call : call[c].at \in {"push", "trim"}}

TypeOK == /\ \A i \in DOMAIN list : list[i] \in Query
          /\ Len(ref) <= maxRecentSearches /\ removed \subseteq Query

Init == /\ list = <<>> /\ call = [c \in Call |-> NoCall]
        /\ ref = <<>> /\ removed = {} /\ raced = FALSE /\ cut = FALSE

Drop(s, q) == SelectSeq(s, LAMBDA x : x # q)
Keep(s, n) == SubSeq(s, 1, IF Len(s) < n THEN Len(s) ELSE n)
Goto(c, next) == call' = [call EXCEPT ![c] = IF next = "done" THEN [NoCall EXCEPT !.at = "done"]
                                             ELSE [@ EXCEPT !.at = next]]

\* normalizeRecentQuery: nothing is left of a blank query.
normalizeRecentQuery(blank, q) == IF blank THEN {} ELSE {q}

\* A search was answered, or POST /v1/searches; nothing is recorded of a blank
\* query, nor when Redis cannot be reached.
recordRecent(c, blank, q) ==
    /\ call[c].at = "new"
    /\ \/ q \in normalizeRecentQuery(blank, q) /\ call' = [call EXCEPT ![c] = [at |-> "record", q |-> q]]
       \/ Goto(c, "done")
    /\ UNCHANGED <<list, ref, removed, raced, cut>>

LRem(c) ==
    /\ call[c].at = "record" /\ Goto(c, "push") /\ list' = Drop(list, call[c].q)
    /\ raced' = (raced \/ \E d \in Call \ {c} : call[d].at = "push" /\ call[d].q = call[c].q)
    /\ UNCHANGED <<ref, removed, cut>>

LPush(c) ==
    /\ call[c].at = "push" /\ Goto(c, "trim") /\ list' = <<call[c].q>> \o list
    /\ ref' = Keep(<<call[c].q>> \o Drop(ref, call[c].q), maxRecentSearches)
    /\ removed' = removed \ {call[c].q}
    /\ UNCHANGED <<raced, cut>>

LTrim(c) ==
    /\ call[c].at = "trim" /\ Goto(c, "done") /\ list' = Keep(list, maxRecentSearches)
    /\ UNCHANGED <<ref, removed, raced, cut>>

\* The rest of the pipeline does not get to Redis.
Cut(c) ==
    /\ call[c].at \in {"record", "push", "trim"} /\ Goto(c, "done")
    /\ cut' = (cut \/ call[c].at # "record")
    /\ UNCHANGED <<list, ref, removed, raced>>

RemoveRecent(q) == Drop(list, q)

\* DELETE /v1/searches: one query, or all of them.
handleDeleteRecent(c, blank, q) ==
    /\ call[c].at = "new" /\ Goto(c, "done")
    /\ \/ /\ q \in normalizeRecentQuery(blank, q) /\ list' = RemoveRecent(q)
          /\ ref' = Drop(ref, q) /\ removed' = removed \cup {q}
       \/ blank /\ list' = <<>> /\ ref' = <<>> /\ removed' = Query
    /\ UNCHANGED <<raced, cut>>

Next == \E c \in Call : \/ \E blank \in BOOLEAN, q \in Query : \/ recordRecent(c, blank, q)
                                                             \/ handleDeleteRecent(c, blank, q)
                       \/ LRem(c) \/ LPush(c) \/ LTrim(c) \/ Cut(c)

Spec == Init /\ [][Next]_vars

-----------------------------------------------------------------------------
(* Properties.                                                               *)

\* "most-recent-first, deduped, bounded": with no pipeline half run, the list
\* begins with the last queries recorded, in that order, each once, and is
\* within its bound; only what an interleaved removal has made room for may
\* follow.  Excepted are two records of one query at the same time, which may
\* leave it twice, and a pipeline that was cut short.
HistoryInOrder ==
    (Flying = {} /\ ~raced /\ ~cut) => IsPrefix(ref, list) /\ Len(list) <= maxRecentSearches

\* A query that the user has removed does not come back unless it is recorded
\* again, whatever records were under way and whatever they left behind.
RemovedStaysAway == \A i \in DOMAIN list : list[i] \notin removed
=============================================================================
