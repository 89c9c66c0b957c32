---------------------------- MODULE MCComponents ----------------------------
(* The components that run next to each other without sharing state in these *)
(* models, one small instance of each: the part that runs is chosen at the   *)
(* start.  The chunker has its own variables; those of any other part are    *)
(* v1, v2, ... in the order in which its module declares them.               *)
EXTENDS Chunker, TLC

CONSTANTS Parts   \* the parts to run

VARIABLES part, v1, v2, v3, v4, v5, v6, v7, v8, v9, v10, v11, v12, v13, v14,
          v15, v16, v17, v18

from17 == <<v17, v18>>
from15 == <<v15, v16, from17>>
from14 == <<v14, from15>>
from12 == <<v12, v13, from14>>
from11 == <<v11, from12>>
from10 == <<v10, from11>>
from9 == <<v9, from10>>
from8 == <<v8, from9>>
from7 == <<v7, from8>>
from6 == <<v6, from7>>
from1 == <<v1, v2, v3, v4, v5, from6>>
all    == <<part, vars, from1>>

Zero17 == v17 = 0 /\ v18 = 0
Zero15 == v15 = 0 /\ v16 = 0 /\ Zero17
Zero14 == v14 = 0 /\ Zero15
Zero12 == v12 = 0 /\ v13 = 0 /\ Zero14
Zero11 == v11 = 0 /\ Zero12
Zero10 == v10 = 0 /\ Zero11
Zero9 == v9 = 0 /\ Zero10
Zero8 == v8 = 0 /\ Zero9
Zero7 == v7 = 0 /\ Zero8
Zero6 == v6 = 0 /\ Zero7
Zero1 == v1 = 0 /\ v2 = 0 /\ v3 = 0 /\ v4 = 0 /\ v5 = 0 /\ Zero6
NoBody == /\ type = "file" /\ body = <<>> /\ at = "begin" /\ start = 0 /\ secEnd = 0
          /\ spans = <<>> /\ truncated = FALSE

Mapped == {"gmail", "outlookMail", "slack", "msteams", "whatsapp", "imessage", "gcal",
           "outlookCal", "ical", "gdrive", "s3", "jira", "confluence"}

\* Lifecycle: a service alone, through its shutdown; and the starts of a control
\* plane next to another process, on an empty database.
Alone(s) == [service |-> <<s, "none">>, env |-> "dev", serves |-> TRUE, starts |-> 1, version |-> 2,
             bucket |-> TRUE]
Beside(s, env, n) == [service |-> <<"controlPlane", s>>, env |-> env, serves |-> FALSE, starts |-> n,
                      version |-> 0, bucket |-> FALSE]
Deployments ==
    {Alone(s) : s \in {"gateway", "query", "ingest", "indexWriter", "hub", "controlPlane", "fakeGmail",
                       "fakeOAuth"}}
    \cup {Beside("controlPlane", "dev", 2), Beside("hub", "dev", 2), Beside("hub", "vault", 1),
          Beside("hub", "prod", 1)}

\* Synthgen: what the generator of a seed draws.
Seed == [large |-> {0}, draw |-> [i \in 0..2 |-> i], rare |-> {<<0, 2>>, <<1, 1>>, <<2, 1>>}]
Corpora == {[tenants |-> 2, minDocs |-> 1, maxDocs |-> 3, seed |-> Seed],
            [tenants |-> 3, minDocs |-> 0, maxDocs |-> 1, seed |-> Seed]}

\* Eval: golden records of every slice, flags, benchmarks that were tampered with
\* or not, and answers of the query service.
Judged(id, slice, gains) ==
    [kind |-> "record", id |-> id, slice |-> slice, wellFormed |-> TRUE, relevant |-> {}, gains |-> gains,
     noMatch |-> FALSE, forbidden |-> {}, required |-> <<>>, split |-> "dev", tenant |-> 1]
Exact == [Judged(1, "exact", ("a" :> 2)) EXCEPT !.relevant = {"a", "b"}]
Both == [Judged(2, "multi_need", ("a" :> 1) @@ ("b" :> 1)) EXCEPT !.required = <<{"a"}, {"b"}>>]
Nothing == [Judged(0, "no_match", <<>>) EXCEPT !.noMatch = TRUE, !.forbidden = {"b"}]
EmptyLine == [Nothing EXCEPT !.kind = "blank"]
Broken == [Nothing EXCEPT !.kind = "malformed"]
Contradiction == [Exact EXCEPT !.id = 7, !.noMatch = TRUE]
OtherTenant(r) == [r EXCEPT !.tenant = 2]

Flags == [pipelines |-> <<"hybrid", "hybrid_rerank">>, baseline |-> "hybrid", candidate |-> "hybrid_rerank",
          k |-> 2, limit |-> 4, repeats |-> 1, maxP95 |-> 5, minTask |-> 0, minExact |-> 0,
          minNeeds |-> 0, minSamples |-> 1, noCache |-> TRUE, allowEqual |-> FALSE]
Criteria == [k |-> 2, limit |-> 4, maxP95 |-> 5, minTask |-> 9000, minExact |-> 5000, minNeeds |-> 0,
             minSamples |-> 2, noCache |-> TRUE, allowEqual |-> TRUE, concurrency |-> 2]
Strict == [Flags EXCEPT !.minTask = 9000, !.minExact = 5000, !.minSamples = 2, !.allowEqual = TRUE]

NoCorpus == [id |-> "none", acceptance |-> Criteria, files |-> <<>>, disk |-> <<>>]
Manifest == ("documents" :> <<>>) @@ ("criteria" :> Criteria) @@ ("evidence" :> <<>>)
            @@ ("dev" :> <<Exact, Nothing>>) @@ ("regression" :> <<Both>>) @@ ("holdout" :> <<Broken>>)
Benchmark == [id |-> "v2", acceptance |-> Criteria, files |-> Manifest, disk |-> Manifest]
Edited == {[Benchmark EXCEPT !.acceptance.k = 3], [Benchmark EXCEPT !.disk = ("dev" :> <<Exact>>) @@ @]}

Evaluation(golden, split, corpus, flags) ==
    [golden |-> golden, split |-> split, corpus |-> corpus, cfg |-> flags]
Evaluations ==
    {Evaluation(<<Exact, EmptyLine, Nothing>>, "", NoCorpus, Flags),
     Evaluation(<<Both, OtherTenant(Exact)>>, "dev", NoCorpus,
                [Flags EXCEPT !.minNeeds = 5000, !.noCache = FALSE])}
    \cup {Evaluation(<<Exact>>, "", NoCorpus, flags) : flags \in
            {[Flags EXCEPT !.repeats = 2], [Flags EXCEPT !.baseline = ""],
             [Flags EXCEPT !.pipelines = <<"hybrid", "dense">>],
             [Flags EXCEPT !.pipelines = <<"hybrid", "hybrid">>]}}
    \cup {Evaluation(golden, "", NoCorpus, Flags) : golden \in
            {<<EmptyLine>>, <<Exact, Broken>>, <<Exact, Contradiction>>, <<Exact, [Nothing EXCEPT !.id = 1]>>,
             <<Exact, [Nothing EXCEPT !.id = 3], Nothing>>}}
    \cup {Evaluation(<<Exact, Nothing>>, "dev", corpus, flags) :
            corpus \in {Benchmark} \cup Edited, flags \in {Flags, Strict}}
    \cup {Evaluation(golden, "dev", Benchmark, Strict) : golden \in
            {<<OtherTenant(Exact), Nothing>>, <<[Exact EXCEPT !.relevant = {"a"}], Nothing>>, <<Exact>>}}
    \cup {Evaluation(<<Both>>, "regression", Benchmark, Strict),
          Evaluation(<<Exact>>, "holdout", Benchmark, Strict)}

Reply == [failed |-> FALSE, docs |-> <<"a", "b">>, wall |-> 1, cached |-> FALSE, degraded |-> FALSE,
          asked |-> "yes", applied |-> "yes",
          head |-> [complete |-> TRUE, count |-> 2, depth |-> 1, ids |-> <<"a">>]]
Replies == {Reply, [Reply EXCEPT !.docs = <<>>, !.head.depth = 0],
            [Reply EXCEPT !.docs = <<"b", "", "b", "a">>, !.applied = "no"],
            [Reply EXCEPT !.docs = <<"c", "d", "a">>, !.asked = "absent"], [Reply EXCEPT !.failed = TRUE],
            [Reply EXCEPT !.wall = 9], [Reply EXCEPT !.cached = TRUE, !.degraded = TRUE]}

Scope == INSTANCE QueryScope WITH
    request <- v1, now <- v2, zone <- v3, at <- v4, plan <- v5, MaxTokens <- 2
Rank == INSTANCE Ranking WITH
    arms <- v1, path <- v2, personal <- v3, profile <- v4, limit <- v5, at <- v6,
    hits <- v7, MaxLimit <- 2
Docs == INSTANCE Documents WITH
    connector <- v1, supplied <- v2, item <- v3, clock <- v4, index <- v5, seen <- v6,
    fresh <- v7, taken <- v8, recurred <- v9, Connectors <- Mapped, MaxEdits <- 2
Contacts == INSTANCE People WITH
    hits <- v1, terms <- v2, at <- v3, aggs <- v4, people <- v5, Address <- {1, 2},
    peopleMaxResults <- 2
Prefs == INSTANCE Preferences WITH
    at <- v1, given <- v2, stored <- v3, profile <- v4, model <- v5, samples <- v6,
    event <- v7, hit <- v8, maxEntryLen <- 2, maxListEntries <- 2, coefClamp <- 20,
    MaxSamples <- 3
Learning == INSTANCE Personalization WITH
    profile <- v1, weights <- v2, events <- v3, prefCache <- v4, weightCache <- v5,
    pc <- v6, answer <- v7, learned <- v8, raced <- v9, faults <- v10, Request <- {1, 2, 3},
    MaxFaults <- 1
Tokens == INSTANCE OAuth WITH
    now <- v1, provider <- v2, pending <- v3, code <- v4, callback <- v5, live <- v6,
    issued <- v7, vault <- v8, worker <- v9, passed <- v10, latest <- v11, lost <- v12,
    overtaken <- v13, Flow <- {1, 2}, Worker <- {1, 2}, Instance <- {1, 2}, Plain <- {},
    stateTTL <- 1, codeTTL <- 1, tokenTTL <- 2, refreshSkew <- 1, expiryDelta <- 0,
    MaxTime <- 2, MaxIssued <- 2
Throttle == INSTANCE PreAuth WITH
    now <- v1, global <- v2, ips <- v3, lastWeep <- v4, exact <- v5, exactAll <- v6,
    waved <- v7, refused <- v8, Address <- {1, 2, 3}, perIPCap <- 2, globalBurst <- 3,
    globalRefill <- 2, ipEntryTTL <- 2, ipSweepEvery <- 1, maxTrackedIPs <- 2,
    Proxied <- TRUE, MaxTime <- 6
Limiter == INSTANCE RateLimit WITH
    now <- v1, keys <- v2, request <- v3, asked <- v4, passed <- v5, Request <- {1, 2, 3},
    Tenant <- {1, 2}, Window <- 2, limit <- 1, rateWindowTTL <- 3, MaxTime <- 5
Recent == INSTANCE Recents WITH
    list <- v1, call <- v2, ref <- v3, removed <- v4, raced <- v5, cut <- v6,
    Call <- {1, 2, 3, 4}, Query <- {1, 2, 3}, maxRecentSearches <- 2
Upload == INSTANCE Uploads WITH
    db <- v1, saved <- v2, run <- v3, up <- v4, blobs <- v5, docs <- v6, skipped <- v7,
    faults <- v8, Agent <- {"a"}, Chat <- {"c", "d"}, MaxRow <- 3, maxUploadBytes <- 2,
    maxBodyTextBytes <- 1, MaxFaults <- 1
Fake == INSTANCE FakeGmail WITH
    mb <- v1, handed <- v2, watch <- v3, since <- v4, pushes <- v5, told <- v6, lost <- v7,
    client <- v8, mirror <- v9, shifted <- v10, Seeds <- 2, Adds <- 1,
    maxHistoryEntries <- 2, pushAttempts <- 2, maxResults <- 1, MaxHistory <- 4
Searches == INSTANCE Search WITH
    server <- v1, prefs <- v2, cache <- v3, now <- v4, asked <- v5, search <- v6,
    Caller <- {1, 2}, TTL <- 1, Budget <- 1, MaxTime <- 3, MaxChanges <- 1
Index == INSTANCE Indexing WITH
    row <- v1, pass <- v2, changed <- v3, pipe <- v4, indexed <- v5, status <- v6,
    emits <- v7, events <- v8, owed <- v9, raced <- v10, reset <- v11, counted <- v12,
    life <- v13, Instance <- {1, 2}, MaxEmits <- 2, MaxEvents <- 2
Pipe == INSTANCE Pipeline WITH
    log <- v1, committed <- v2, at <- v3, pc <- v4, seen <- v5, dead <- v6, index <- v7,
    faults <- v8, lost <- v9, Tenant <- {"t"}, Doc <- {"d"}, Etag <- {"e", "f"},
    FaultKinds <- {"crash", "commit", "redis", "ttl", "answer", "handler"}, MaxRaw <- 2,
    MaxFaults <- 2
Plug == INSTANCE Plugin WITH
    rpc <- v1, tenant <- v2, conn <- v3, outcome <- v4, made <- v5, sending <- v6,
    wire <- v7, status <- v8, canceled <- v9, client <- v10, result <- v11, emitted <- v12,
    saved <- v13, faulted <- v14, ctx <- v15, lis <- v16, stopper <- v17, serve <- v18,
    MaxDocs <- 3, Window <- 2
Life == INSTANCE Lifecycle WITH
    site <- v1, main <- v2, open <- v3, gor <- v4, closed <- v5, busy <- v6, errCh <- v7,
    signalled <- v8, expired <- v9, ready <- v10, shared <- v11, applied <- v12, faults <- v13,
    starts <- v14, Proc <- {1, 2}, Sites <- Deployments, Latest <- 2, migrateAttempts <- 2,
    MaxFaults <- 1
Synth == INSTANCE Synthgen WITH
    spec <- v1, checkpoint <- v2, tmp <- v3, pc <- v4, outcome <- v5, ti <- v6, rareBase <- v7,
    docs <- v8, next <- v9, hand <- v10, err <- v11, canceled <- v12, fed <- v13, index <- v14,
    runs <- v15, faults <- v16, Specs <- Corpora, Worker <- {1, 2}, MaxRuns <- 3, MaxFaults <- 2
Gate == INSTANCE Eval WITH
    case <- v1, pc <- v2, exit <- v3, recs <- v4, next <- v5, hand <- v6, answered <- v7,
    scores <- v8, report <- v9, Cases <- Evaluations, Answers <- Replies, Worker <- {1, 2}

-----------------------------------------------------------------------------
OtherInit ==
    \/ part = "scope" /\ Scope!Init /\ Zero6
    \/ part = "ranking" /\ Rank!Init /\ Zero8
    \/ part = "documents" /\ Docs!Init /\ Zero10
    \/ part = "people" /\ Contacts!Init /\ Zero6
    \/ part = "preferences" /\ Prefs!Init /\ Zero9
    \/ part = "learning" /\ Learning!Init /\ Zero11
    \/ part = "oauth" /\ Tokens!Init /\ Zero14
    \/ part = "preauth" /\ Throttle!Init /\ Zero9
    \/ part = "ratelimit" /\ Limiter!Init /\ Zero6
    \/ part = "recents" /\ Recent!Init /\ Zero7
    \/ part = "uploads" /\ Upload!Init /\ Zero9
    \/ part = "fakegmail" /\ Fake!Init /\ Zero11
    \/ part = "search" /\ Searches!Init /\ Zero7
    \/ part = "indexing" /\ Index!Init /\ Zero14
    \/ part = "pipeline" /\ Pipe!Init /\ Zero10
    \/ part = "plugin" /\ Plug!Init
    \/ part = "lifecycle" /\ Life!Init /\ Zero15
    \/ part = "synthgen" /\ Synth!Init /\ Zero17
    \/ part = "eval" /\ Gate!Init /\ Zero10

PartInit ==
    /\ part \in Parts
    /\ \/ part = "chunker" /\ Init /\ Zero1
       \/ NoBody /\ OtherInit

OtherNext ==
    \/ part = "scope" /\ Scope!Next /\ UNCHANGED from6
    \/ part = "ranking" /\ Rank!Next /\ UNCHANGED from8
    \/ part = "documents" /\ Docs!Next /\ UNCHANGED from10
    \/ part = "people" /\ Contacts!Next /\ UNCHANGED from6
    \/ part = "preferences" /\ Prefs!Next /\ UNCHANGED from9
    \/ part = "learning" /\ Learning!Next /\ UNCHANGED from11
    \/ part = "oauth" /\ Tokens!Next /\ UNCHANGED from14
    \/ part = "preauth" /\ Throttle!Next /\ UNCHANGED from9
    \/ part = "ratelimit" /\ Limiter!Next /\ UNCHANGED from6
    \/ part = "recents" /\ Recent!Next /\ UNCHANGED from7
    \/ part = "uploads" /\ Upload!Next /\ UNCHANGED from9
    \/ part = "fakegmail" /\ Fake!Next /\ UNCHANGED from11
    \/ part = "search" /\ Searches!Next /\ UNCHANGED from7
    \/ part = "indexing" /\ Index!Next /\ UNCHANGED from14
    \/ part = "pipeline" /\ Pipe!Next /\ UNCHANGED from10
    \/ part = "plugin" /\ Plug!Next
    \/ part = "lifecycle" /\ Life!Next /\ UNCHANGED from15
    \/ part = "synthgen" /\ Synth!Next /\ UNCHANGED from17
    \/ part = "eval" /\ Gate!Next /\ UNCHANGED from10

PartNext ==
    /\ UNCHANGED part
    /\ \/ part = "chunker" /\ Next /\ UNCHANGED from1
       \/ UNCHANGED vars /\ OtherNext

PartSpec == PartInit /\ [][PartNext]_all

\* The fairness of Search, Indexing, Pipeline and Plugin: only one of them runs,
\* so that one condition stands for one of each.
Fair(a, b, c, d) ==
    /\ UNCHANGED <<part, vars>>
    /\ \/ part = "search" /\ a /\ UNCHANGED from7
       \/ part = "indexing" /\ b /\ UNCHANGED from14
       \/ part = "pipeline" /\ c /\ UNCHANGED from10
       \/ part = "plugin" /\ d

FairPartSpec ==
    /\ PartSpec
    /\ WF_all(Fair(Searches!Tick, Index!Pass(1), Pipe!Work("ingest", "t"), Plug!Sent))
    /\ WF_all(Fair(Searches!Deadline(1), Index!Pass(2), Pipe!Work("enrich", "t"), Plug!finishSync))
    /\ WF_all(Fair(Searches!Deadline(2), FALSE, Pipe!Work("index", "t"), Plug!drainSync))
    /\ WF_all(Fair(FALSE, FALSE, FALSE, Plug!EndOfStream))
    /\ WF_all(Fair(FALSE, FALSE, FALSE, Plug!GracefulStop))
    /\ WF_all(Fair(FALSE, FALSE, FALSE, Plug!serveOn))
    /\ SF_all(Fair(FALSE, FALSE, FALSE, Plug!Return))

-----------------------------------------------------------------------------
(* Properties.  Each is the conjunction of what the module of the part, or   *)
(* of two parts of one kind, states of it; the chunker's is Chunker's own.   *)

\* QueryScope: no document is found outside the types, dates, people and words
\* the user spelled out, whatever understandQuery reads into the text; a schedule
\* lookup finds every event that takes place in the window, whenever it was
\* received (buildYQL's event_start clauses); the post-retrieval guard drops
\* nothing that the index found for the same window; and "today", "next week" and
\* the like are whole days of the user's zone (parseTemporal).
ScopeHonoured ==
    part = "scope" =>
        /\ Scope!TypeOK /\ Scope!ExplicitRespected /\ Scope!ScheduleComplete
        /\ Scope!GuardAgrees /\ Scope!PhrasesMeanDays

\* Ranking: fusion, reranking and diversification (mmrReorder) neither lose a
\* candidate that filterCandidates keeps nor show one twice; page after page a
\* client sees every candidate exactly once (searchMerged, pageHits), ties across
\* arms and the pages past the candidate cap (server.go:313) excepted; scores do not
\* rise down a personalised list; a schedule is listed by occurrence
\* (sortByEventStart); and fusion never puts a document behind one that every arm
\* ranks lower.
RankingFaithful ==
    part = "ranking" =>
        /\ Rank!TypeOK /\ Rank!NothingLostOrTwice /\ Rank!PagesCover
        /\ Rank!ScoresDescend /\ Rank!Chronological /\ Rank!FusionAgrees

\* Documents: an emitted item shows in the index as it is, although ingest drops
\* what has a version etag it has seen; it is one document through moves, renames,
\* deletions and restorations; a person of a chat or a page is listed once; a Drive
\* file captured as private is open to its owners only; and a calendar event with a
\* start has its event_start in the index.
DocumentsCurrent ==
    part = "documents" =>
        /\ Docs!TypeOK /\ Docs!IndexCurrent /\ Docs!OneDocument
        /\ Docs!EveryoneOnce /\ Docs!PrivateIsOwners /\ Docs!OnSchedule

\* People: a bad recipient hides no other address of its header (parsePeople),
\* except one with a comma in its quoted name; a contact merges all mentions of its
\* address, in any order; the order of contacts does not depend on the order of a Go
\* map; and no contact left out is better than one shown (peopleMaxResults).
ContactsComplete ==
    part = "people" =>
        /\ Contacts!EveryAddressFound /\ Contacts!ContactsMerged
        /\ Contacts!OrderTotal /\ Contacts!BestShown

\* Preferences: the ranker sees no value out of range, whatever was sent (Clamp),
\* the number of muted sources excepted; what was saved is what is read, entries cut
\* in white space excepted; a click trains the features the hit is scored on, its
\* topics excepted (FeatureKeys, senderKey); a hit with a reason for
\* attention never scores zero; of two events the sooner is at least as salient
\* (upcomingScore); and a click never lowers what the model predicts for the hit,
\* nor does a dismissal raise it (LearnedModel.Update).
PreferencesKept ==
    /\ [](part = "preferences" =>
          /\ Prefs!RankerInRange /\ Prefs!ReadsBack /\ Prefs!TrainedIsScored
          /\ Prefs!EvidenceCounts /\ Prefs!SoonerIsMore)
    /\ [][part = "preferences" => Prefs!Lesson]_all

\* Personalization: the model of record holds exactly the feedback whose update
\* committed since the last reset, and the cached profile and model settle on those
\* of record, after a reset too.  Recents: the list of searches, which has no other
\* copy, is most-recent-first, deduplicated and bounded, and a removed query comes
\* back only when it is recorded again.
CopiesSettle ==
    /\ part = "learning" =>
          /\ Learning!TypeOK /\ Learning!NoLostUpdate /\ Learning!ProfileSettles
          /\ Learning!WeightsSettle
    /\ part = "recents" =>
          /\ Recent!TypeOK /\ Recent!HistoryInOrder /\ Recent!RemovedStaysAway

\* OAuth: a state gets one callback to the exchange (consumeState); an instance's
\* token comes from its last connected flow; a bearer handed to a connector had not
\* expired (NeedsRefresh); and the stored refresh token is one that the provider
\* accepts.
TokensUsable ==
    part = "oauth" =>
        /\ Tokens!TypeOK /\ Tokens!StateSingleUse /\ Tokens!TokenOfLatestFlow
        /\ Tokens!HandedLive /\ Tokens!RefreshSurvives

\* PreAuth: no address and no crowd of them exceeds its rate, although idle buckets
\* are swept, and an address that keeps to its rate is not refused for itself.
\* RateLimit: no more than limit requests of a tenant pass in a window, and a tenant
\* is refused for its own requests only, and sent to the next window.
RatesKept ==
    /\ part = "preauth" =>
          /\ Throttle!TypeOK /\ Throttle!WithinRate /\ Throttle!RefusedOnlyOverRate
    /\ part = "ratelimit" =>
          /\ Limiter!TypeOK /\ Limiter!AtMostLimit /\ Limiter!RefusedOnlyOverLimit

\* Uploads: no message at or below the agent's saved mark was passed over; an
\* emitted document has its original in the store, also while a tenant with a
\* similar name is erased; and a client that has its 202 has its document in the
\* pipeline.  FakeGmail: a client that lists and then replays the history converges
\* to the mailbox, and the watcher is told of the latest history id in any order of
\* the pushes.
SourcesKept ==
    /\ part = "uploads" =>
          /\ Upload!TypeOK /\ Upload!AgentMissesNothing /\ Upload!OriginalKept
          /\ Upload!AcceptedIsEmitted
    /\ part = "fakegmail" =>
          /\ Fake!TypeOK /\ Fake!ReplayConverges /\ Fake!LatestAnnounced

\* Lifecycle: after a signal nothing is closed under a request, a record or a pass
\* in flight that keeps to the deadline, and in ingest and the hub under no record
\* and no pass after a failed server either; what is drained is no longer told to be
\* ready; a failed server or loop makes run return an error; replicas that start at
\* once apply each migration once (runMigrations), converge on one KEK
\* (loadOrCreateKEKFile) and do not make each other fail; and no process waits for
\* something that nobody will do.
ServicesOrderly ==
    part = "lifecycle" =>
        /\ Life!TypeOK /\ Life!DrainedBeforeClose /\ Life!ExitTells /\ Life!SchemaOnce
        /\ Life!OneKEK /\ Life!StartsBesideOthers /\ Life!DrainingIsTold /\ Life!NoneStuck

\* Synthgen: however often a run fails, is cancelled or crashes, what it resumes to
\* is the corpus of an uninterrupted run (Run, saveCheckpoint), and its counts are
\* those of the plan.  Eval: exit status 0 is earned by answers to every query of
\* every slice (evaluateGate); a frozen benchmark is run unchanged
\* (validateFrozenBenchmark); and the metrics agree with each other.
ToolsExact ==
    /\ part = "synthgen" => Synth!ResumeExact /\ Synth!CountsExact
    /\ part = "eval" => Gate!QualifiedIsEarned /\ Gate!FrozenKept /\ Gate!MetricsAgree

\* Search: an answer without a marker has every arm that the request calls for; no
\* answer with something missing is cached; an answer is ranked by the profile and
\* the model that its own search loaded, also when it comes from the cache
\* (boundCacheKey); the optional parts never fail a search; and no answer is older
\* than the life of a cache entry and the budget of the search that made it
\* (cacheTTL, searchTimeout).
AnswersHonest ==
    /\ [](part = "search" =>
          /\ Searches!TypeOK /\ Searches!MissingIsTold /\ Searches!CacheIsFull
          /\ Searches!RankedForCaller /\ Searches!FailsOnlyOnTextArm)
    /\ [][part = "search" => Searches!InTime]_all

\* Indexing: the card shows every instance that the tenant had when it was listed
\* (handleIndexStatus), and what completed passes emitted is searchable when the card
\* no longer says that the tenant is syncing, but for as many documents as the count
\* had that no pass had counted.
StatusTrue ==
    part = "indexing" =>
        /\ Index!TypeOK /\ Index!StatusComplete /\ Index!SettledIsSearchable

\* Pipeline: a dedupe key is in Redis only when its document is on docs.chunked; an
\* upsert whose offset is committed is on docs.chunked or in the dead letter; and a
\* drained pipeline has brought the index to the source's state.
NothingDropped ==
    part = "pipeline" =>
        /\ Pipe!TypeOK /\ Pipe!SeenMeansProduced /\ Pipe!NeverSkippedSilently
        /\ Pipe!ZeroDataLoss

\* Plugin: no saved cursor stands behind a document that Emit did not accept; the
\* Client returns what the connector returned; and ListenAndServe returns only when
\* no pass is running any more.
PassesFaithful ==
    part = "plugin" =>
        /\ Plug!TypeOK /\ Plug!ResumeSafe /\ Plug!SameOutcome
        /\ Plug!NothingLeftRunning

\* Search: a search comes to an end, even if no service answers it.  Indexing: a
\* re-index is followed by a full sync, or by the deletion of the instance, unless
\* it came during a pass.  Pipeline: no record is stuck in a stage for good.
\* Plugin: a call that ends at the hub ends at the plugin, and serveOn returns
\* after the caller cancels and after a failing listener.
WorkEnds ==
    /\ []<>(/\ part = "search" => Searches!Over
            /\ part = "indexing" => Index!NoneOwed
            /\ part = "pipeline" => Pipe!Drained
            /\ part = "plugin" => Plug!EndsAtBoth)
    /\ []<>(part = "plugin" => Plug!Stops)
=============================================================================
