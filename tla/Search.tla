------------------------------- MODULE Search -------------------------------
(***************************************************************************)
(* Searches of one tenant as the query service runs them (server.go,       *)
(* degrade.go, cache.go, personalization_store.go): each goes through the  *)
(* profile, the result cache, the embedders, the retrieval arms and the    *)
(* cross-encoder, every one of which may fail or never answer, within a    *)
(* budget of time.                                                         *)
(*                                                                         *)
(* What a search returns is abstracted to what it was made from: the arms, *)
(* whether the cross-encoder ordered it, the profile it was ranked by and  *)
(* the time of its oldest read of the index (Ranking has the order).       *)
(***************************************************************************)
EXTENDS Integers, FiniteSets

CONSTANTS Caller,
          TTL,        \* cacheTTL, in ticks
          Budget,     \* searchTimeout, in ticks
          MaxTime,    \* bound: ticks
          MaxChanges  \* bound: changes of the profile and the model

\* Deployments: without options, with the image arm and the cross-encoder, with
\* fusion and the cross-encoder, and the default, with profiles and fusion.
Server == {[personalizing |-> "profiles" \in on, rrf |-> "rrf" \in on, clip |-> "clip" \in on,
            reranker |-> "reranker" \in on] :
           on \in {{}, {"clip", "reranker"}, {"rrf", "reranker"}, {"profiles", "rrf"}}}

VARIABLES server,  \* how the service is configured
          prefs,   \* the profile and the model in Redis: [version, model]
          cache,   \* key -> the entries under it, at most one
          now,
          asked,   \* the request that the callers make
          search   \* caller -> its search

vars == <<server, prefs, cache, now, asked, search>>

Request == [mode : {"HYBRID"}, text : {TRUE}, rerank : BOOLEAN]
           \cup [mode : {"HYBRID"}, text : {FALSE}, rerank : {TRUE}]
           \cup [mode : {"KEYWORD", "VECTOR"}, text : {TRUE}, rerank : {FALSE}]
Prefs == [version : 0..MaxChanges, model : 0..MaxChanges]
DefaultProfile == [version |-> 0, model |-> 0]
Arm == {"filter", "keyword", "hybrid", "vector", "clip"}
Result == [arms : SUBSET Arm, reranked : BOOLEAN, prefs : Prefs, read : 0..MaxTime]
Key == [request : Request, prefs : Prefs]
Reason == {"keyword-only", "clip-unavailable", "rerank-unavailable", "rerank-not-enabled", "rerank-not-applicable"}

Label == {"idle", "profile", "cache", "embed", "clip", "arms", "rerank", "respond",
          "ok", "invalid", "unavailable", "deadline"}
Final == {"ok", "invalid", "unavailable", "deadline"}

NoRequest == [mode |-> "KEYWORD", text |-> TRUE, rerank |-> FALSE]
NoResult == [arms |-> {}, reranked |-> FALSE, prefs |-> DefaultProfile, read |-> 0]
Idle == [pc |-> "idle", request |-> NoRequest, started |-> 0, prefs |-> DefaultProfile,
         vector |-> FALSE, clip |-> FALSE, waiting |-> {}, degraded |-> {}, result |-> NoResult,
         keywordFailed |-> FALSE]

TypeOK ==
    /\ server \in Server /\ asked \in Request /\ prefs \in Prefs /\ now \in 0..MaxTime
    /\ \A k \in DOMAIN cache : k \in Key /\ cache[k].result \in Result /\ cache[k].at \in 0..MaxTime
    /\ \A c \in Caller : LET s == search[c] IN
         /\ s.pc \in Label /\ s.request \in Request /\ s.started \in 0..MaxTime /\ s.prefs \in Prefs
         /\ s.waiting \subseteq Arm /\ s.degraded \subseteq Reason /\ s.result \in Result

\* Searches meet in the cache, under the key of one request; each caller makes
\* one.
Init == /\ server \in Server /\ asked \in Request /\ prefs = DefaultProfile /\ now = 0
        /\ cache = <<>>
        /\ search = [c \in Caller |-> Idle]

-----------------------------------------------------------------------------
(* Plans *)

clipPlanned(r) == server.clip /\ r.text /\ r.mode = "HYBRID"
rerankActive(r) == server.reranker /\ r.rerank /\ r.mode = "HYBRID" /\ r.text
textPlanned(r) == r.text /\ r.mode \in {"HYBRID", "VECTOR"}

\* Candidates are retrieved widely and ranked afterwards.
Wide(r) == server.personalizing \/ server.rrf \/ rerankActive(r)

retrievalPlan(r, vector) ==
    IF ~r.text THEN "filter"
    ELSE IF r.mode = "KEYWORD" \/ ~vector THEN "keyword"
    ELSE IF r.mode = "VECTOR" THEN "vector" ELSE "hybrid"

\* The text arm and the ones that are fused with it.
Fuses(r, vector) == Wide(r) /\ server.rrf /\ r.mode = "HYBRID" /\ r.text /\ vector
Primary(r, vector) == IF Fuses(r, vector) THEN "keyword" ELSE retrievalPlan(r, vector)
Arms(r, vector, clip) ==
    {Primary(r, vector)} \cup (IF Fuses(r, vector) THEN {"vector"} ELSE {})
                         \cup (IF clip THEN {"clip"} ELSE {})

\* Mutant: the version of the profile stands for the learned weights.
boundCacheKeyVersion(r, p) == [request |-> r, prefs |-> [p EXCEPT !.model = 0]]

boundCacheKey(r, p) == [request |-> r, prefs |-> p]

-----------------------------------------------------------------------------
(* Steps.  A call that waits goes on as long as its context is not done.     *)

Alive(c) == now - search[c].started < Budget
At(c, label) == search[c].pc = label /\ Alive(c)
\* A search that has ended keeps what it answered.
Ended(s) == [s EXCEPT !.vector = FALSE, !.clip = FALSE, !.waiting = {}, !.started = 0]
Set(c, s) == search' = [search EXCEPT ![c] = IF s.pc \in Final THEN Ended(s) ELSE s]
Others == <<server, asked, prefs, now>>

\* normalizeRequest, understand, scopeQuery: a request that asks for nothing is
\* refused.
Start(c) ==
    /\ search[c].pc = "idle" /\ now + Budget <= MaxTime
    /\ \E valid \in {TRUE, asked.text} :
         Set(c, [Idle EXCEPT !.pc = IF valid THEN "profile" ELSE "invalid", !.request = asked, !.started = now])
    /\ UNCHANGED <<Others, cache>>

\* A profile or a model that cannot be read is the default, without a word.
LoadProfile(c) ==
    /\ At(c, "profile")
    /\ \E v \in {prefs.version, 0}, m \in {prefs.model, 0} :
         Set(c, [search[c] EXCEPT !.pc = "cache",
                    !.prefs = IF server.personalizing THEN [version |-> v, model |-> m] ELSE DefaultProfile])
    /\ UNCHANGED <<Others, cache>>

\* What is said of a rerank that was asked for and cannot be.
RerankMarker(r) ==
    IF ~r.rerank \/ rerankActive(r) THEN {}
    ELSE IF ~server.reranker THEN {"rerank-not-enabled"} ELSE {"rerank-not-applicable"}

\* A hit is the answer; a miss, or a Redis that fails, goes on.
cacheGet(c) ==
    LET s == search[c]
        k == boundCacheKey(s.request, s.prefs)
    IN  /\ At(c, "cache")
        /\ \/ /\ k \in DOMAIN cache /\ now - cache[k].at < TTL
              /\ Set(c, [s EXCEPT !.pc = "ok", !.result = cache[k].result])
           \/ Set(c, [s EXCEPT !.pc = "embed", !.degraded = RerankMarker(s.request)])
        /\ UNCHANGED <<Others, cache>>

\* Ladder rung 1: without a vector a hybrid search is a search for words, a
\* vector search fails.
Embed(c) ==
    LET s == search[c]
    IN  /\ At(c, "embed")
        /\ \/ Set(c, [s EXCEPT !.pc = "clip", !.vector = textPlanned(s.request)])
           \/ /\ textPlanned(s.request)
              /\ Set(c, IF s.request.mode = "VECTOR" THEN [s EXCEPT !.pc = "unavailable"]
                        ELSE [s EXCEPT !.pc = "clip", !.degraded = @ \cup {"keyword-only"}])
        /\ UNCHANGED <<Others, cache>>

\* The text of the query for the image arm, which is dropped when that fails;
\* the arms start.
EmbedClip(c) ==
    LET s == search[c]
    IN  /\ At(c, "clip")
        /\ \E clip \in {clipPlanned(s.request), FALSE} :
             Set(c, [s EXCEPT !.pc = "arms", !.clip = clip, !.waiting = Arms(s.request, s.vector, clip),
                              !.degraded = @ \cup IF clip = clipPlanned(s.request) THEN {} ELSE {"clip-unavailable"}])
        /\ UNCHANGED <<Others, cache>>

Read(s, a) == [s.result EXCEPT !.arms = @ \cup {a}, !.read = IF s.result.arms = {} THEN now ELSE @]

\* parallelSearch: an arm answers.
ArmAnswers(c, a) ==
    LET s == search[c]
    IN  /\ At(c, "arms") /\ a \in s.waiting
        /\ Set(c, [s EXCEPT !.waiting = @ \ {a}, !.result = Read(s, a)])
        /\ UNCHANGED <<Others, cache>>

\* The text arm decides: a hybrid one that fails for the time being is tried
\* once more for words alone, any other failure is the search's.  Another arm
\* is dropped.
ArmFails(c, a) ==
    LET s == search[c]
    IN  /\ At(c, "arms") /\ a \in s.waiting
        /\ IF a # Primary(s.request, s.vector)
           THEN Set(c, [s EXCEPT !.waiting = @ \ {a},
                           !.degraded = @ \cup {IF a = "clip" THEN "clip-unavailable" ELSE "keyword-only"}])
           ELSE \/ Set(c, [s EXCEPT !.pc = "unavailable", !.keywordFailed = TRUE])
                \/ a = "hybrid" /\ Set(c, [s EXCEPT !.waiting = (@ \ {a}) \cup {"keyword"}, !.vector = FALSE,
                                                    !.degraded = @ \cup {"keyword-only"}])
        /\ UNCHANGED <<Others, cache>>

\* All arms are in.  Candidates for the cross-encoder are there, or not.
Retrieved(c) ==
    LET s == search[c]
    IN  /\ At(c, "arms") /\ s.waiting = {}
        /\ \/ rerankActive(s.request) /\ Set(c, [s EXCEPT !.pc = "rerank"])
           \/ Set(c, [s EXCEPT !.pc = "respond", !.result.reranked = rerankActive(s.request)])
        /\ UNCHANGED <<Others, cache>>

Rerank(c) ==
    LET s == search[c]
    IN  /\ At(c, "rerank")
        /\ \/ Set(c, [s EXCEPT !.pc = "respond", !.result.reranked = TRUE])
           \/ Set(c, [s EXCEPT !.pc = "respond", !.degraded = @ \cup {"rerank-unavailable"}])
        /\ UNCHANGED <<Others, cache>>

Entry(s) == [result |-> [s.result EXCEPT !.prefs = s.prefs], at |-> now]
Stored(s) ==
    LET k == boundCacheKey(s.request, s.prefs)
    IN  [x \in DOMAIN cache \cup {k} |-> IF x = k THEN Entry(s) ELSE cache[x]]
Answered(s) == [s EXCEPT !.pc = "ok", !.result.prefs = s.prefs]

\* A result with nothing missing is stored, if Redis takes it, and returned.
Respond(c) ==
    LET s == search[c]
    IN  /\ At(c, "respond")
        /\ \/ s.degraded = {} /\ cache' = Stored(s)
           \/ UNCHANGED cache
        /\ Set(c, Answered(s))
        /\ UNCHANGED Others

\* The budget is used up, whatever the search waits for.
Deadline(c) ==
    /\ search[c].pc \notin Final \cup {"idle"} /\ ~Alive(c)
    /\ Set(c, [search[c] EXCEPT !.pc = "deadline"])
    /\ UNCHANGED <<Others, cache>>

Step(c) == \/ LoadProfile(c) \/ cacheGet(c) \/ Embed(c) \/ EmbedClip(c) \/ Retrieved(c) \/ Rerank(c)
           \/ Respond(c) \/ \E a \in Arm : ArmAnswers(c, a) \/ ArmFails(c, a)

\* The user saves preferences, or gives feedback.
Change ==
    /\ server.personalizing /\ prefs.version + prefs.model < MaxChanges
    /\ \/ prefs' = [prefs EXCEPT !.version = @ + 1]
       \/ prefs' = [prefs EXCEPT !.model = @ + 1]
    /\ UNCHANGED <<server, asked, cache, now, search>>

Tick == now < MaxTime /\ now' = now + 1 /\ UNCHANGED <<server, asked, prefs, cache, search>>

Next == Change \/ Tick \/ \E c \in Caller : Start(c) \/ Step(c) \/ Deadline(c)

\* Time passes, and a search whose time is up is told so.  No service need
\* ever answer.
Spec == Init /\ [][Next]_vars /\ WF_vars(Tick) /\ \A c \in Caller : WF_vars(Deadline(c))

-----------------------------------------------------------------------------
(* Properties *)

\* All that a request asks for, with every service up.
Full(r, res) == /\ res.arms = Arms(r, textPlanned(r), clipPlanned(r))
                /\ res.reranked = r.rerank

\* What is missing is told: an answer without a marker has every arm that the
\* request calls for, in the order of the cross-encoder if it asked for one.
MissingIsTold ==
    \A c \in Caller : (search[c].pc = "ok" /\ search[c].degraded = {}) =>
                          Full(search[c].request, search[c].result)

\* "cache full-fidelity (non-degraded) results only, so a 60s TTL never pins
\* keyword-only results past a TEI/Vespa blip".
CacheIsFull == \A k \in DOMAIN cache : Full(k.request, cache[k].result)

\* An answer is ranked by the profile and the model that its own search loaded,
\* also when another search computed it: "their values are included so
\* feedback updates invalidate stale orders".
RankedForCaller ==
    \A c \in Caller : search[c].pc = "ok" => search[c].result.prefs = search[c].prefs

\* No answer is older than the life of a cache entry and the budget of the
\* search that made it.
InTime == \A c \in Caller : (search[c].pc # "ok" /\ search'[c].pc = "ok") =>
                now - search'[c].result.read < TTL + Budget

\* The optional parts never fail a search: one for words, or a hybrid one, that
\* is in time is only unavailable when the text arm itself failed.
FailsOnlyOnTextArm ==
    \A c \in Caller : (search[c].pc = "unavailable" /\ search[c].request.mode # "VECTOR") =>
                          search[c].keywordFailed

\* Every search has come to an end.
Over == \A c \in Caller : search[c].pc \in {"idle"} \cup Final
=============================================================================
