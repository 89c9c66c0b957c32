-------------------------------- MODULE Eval --------------------------------
(* The quality gate of the search engine (tools/eval): it loads a set of      *)
(* judged queries, checks it against a frozen benchmark, asks every query of  *)
(* every pipeline through concurrent workers, and qualifies the candidate     *)
(* pipeline only if it was measured in full and is no worse than the          *)
(* baseline.  Fractions are in units of 1/One, to which the logarithms of     *)
(* nDCG are rounded.  The files do not change while the tool runs.            *)
EXTENDS Integers, Sequences, FiniteSets, FiniteSetsExt, SequencesExt, TLC

CONSTANTS Cases,     \* files and flags of a run: [golden, split, corpus, cfg]
          Answers,   \* what the gateway may answer to a query
          Worker     \* the workers of --concurrency

VARIABLES case, pc, exit,
          recs,      \* the records to ask
          next,      \* the next job to hand out
          hand,      \* the job of each worker, 0 for none
          answered,  \* per job the answer that its worker got
          scores,    \* per job what Run keeps of it
          report     \* the gate's verdict: [skipped, violations]

vars == <<case, pc, exit, recs, next, hand, answered, scores, report>>

cfg == case.cfg
One == 10000
Discount == <<10000, 6309, 5000, 4307>>   \* One / log2(rank + 1)
Mean(sum, n) == IF n = 0 THEN 0 ELSE sum \div n

-----------------------------------------------------------------------------
(* Golden records *)

judged(r) == [d \in r.relevant \cup DOMAIN r.gains |-> IF d \in DOMAIN r.gains THEN r.gains[d] ELSE 1]
gainOf(j, d) == IF d \in DOMAIN j THEN j[d] ELSE 0
RelevantIn(j) == {d \in DOMAIN j : j[d] > 0}

\* wellFormed: query, tenant, slice, split, filters and gains are each in range.
validate(r) ==
    LET relevant == RelevantIn(judged(r))
    IN  /\ r.wellFormed
        /\ r.noMatch => relevant = {} /\ r.required = <<>>
        /\ r.slice = "multi_need" => Len(r.required) >= 2
        /\ \A n \in DOMAIN r.required : r.required[n] # {} /\ r.required[n] \subseteq relevant
        /\ r.forbidden \cap relevant = {}
        /\ r.noMatch \/ relevant # {}

\* The lines of a file: records, malformed ones, blank ones.  A record without an
\* id has the number of its line; no two have the same.
Named(lines) == [i \in DOMAIN lines |-> IF lines[i].id = 0 THEN [lines[i] EXCEPT !.id = i] ELSE lines[i]]
parseGolden(lines) == SelectSeq(Named(lines), LAMBDA r : r.kind = "record")
LoadGolden(lines) ==
    /\ parseGolden(lines) # <<>>
    /\ \A i \in DOMAIN lines : lines[i].kind # "malformed" /\ (lines[i].kind = "record" => validate(lines[i]))
    /\ \A i, j \in DOMAIN parseGolden(lines) : parseGolden(lines)[i].id = parseGolden(lines)[j].id => i = j

-----------------------------------------------------------------------------
(* Metrics *)

Cut(s, k) == IF Len(s) > k THEN SubSeq(s, 1, k) ELSE s

\* Without the hits that have no id, and without repetitions.
dedupeStable(ranked) ==
    FoldLeft(LAMBDA out, d : IF d = "" \/ d \in ToSet(out) THEN out ELSE Append(out, d), <<>>, ranked)

RecallAtK(ranked, j, k) ==
    (One * Cardinality(ToSet(Cut(dedupeStable(ranked), k)) \cap RelevantIn(j))) \div Cardinality(RelevantIn(j))

ReciprocalRank(ranked, j) ==
    LET s == dedupeStable(ranked)
        hits == {i \in DOMAIN s : gainOf(j, s[i]) > 0}
    IN  IF hits = {} THEN 0 ELSE One \div Min(hits)

DCG(gains) == MapThenSumSet(LAMBDA i : gains[i] * Discount[i], DOMAIN gains)
Ideal(j) == SortSeq([n \in 1..Cardinality(RelevantIn(j)) |-> j[SetToSeq(RelevantIn(j))[n]]], >)

NDCGAtK(ranked, j, k) ==
    LET s == Cut(dedupeStable(ranked), k)
    IN  (One * DCG([i \in DOMAIN s |-> gainOf(j, s[i])])) \div DCG(Cut(Ideal(j), k))

\* The nearest rank, for p in 1..99; finiteOrZero without a sample.
percentile(xs, p) ==
    LET n == Len(xs) IN IF n = 0 THEN 0 ELSE SortSeq(xs, <)[(p * n + 99) \div 100]

-----------------------------------------------------------------------------
(* The score of an answer *)

\* The telemetry counts only when it is complete and consistent.
decodeCandidateHead(h) ==
    IF h.complete /\ h.count >= h.depth /\ Len(h.ids) = h.depth /\ dedupeStable(h.ids) = h.ids THEN {h.ids} ELSE {}

\* Of an answer that cannot be had or read nothing is kept, and execution is known
\* only if the server tells both what was asked and what was done.
Search(a) ==
    LET known == a.asked # "absent" /\ a.applied # "absent"
        ids == IF a.failed THEN <<>> ELSE a.docs
    IN  [ids |-> ids, err |-> a.failed, wall |-> a.wall, cached |-> ~a.failed /\ a.cached,
         degraded |-> ~a.failed /\ a.degraded, asked |-> ~a.failed /\ known /\ a.asked = "yes",
         applied |-> ~a.failed /\ a.applied = "yes",
         head |-> IF ~a.failed /\ known /\ a.asked = "yes" THEN decodeCandidateHead(a.head) ELSE {}]

scoreOutcome(rec, p, out) ==
    LET j == judged(rec)
        ids == dedupeStable(out.ids)
        top == Cut(ids, cfg.k)
        rerank == p = "hybrid_rerank"
        found == IF rec.noMatch THEN ids = <<>> ELSE RecallAtK(ids, j, cfg.k) > 0
        needs == \A n \in DOMAIN rec.required : ToSet(top) \cap rec.required[n] # {}
        forbidden == Cardinality(ToSet(ids) \cap rec.forbidden)
        success == ~out.err /\ found /\ needs /\ forbidden = 0
        metric(m) == IF rec.noMatch \/ out.err THEN 0 ELSE m
    IN  [recall |-> metric(RecallAtK(ids, j, cfg.k)), ndcg |-> metric(NDCGAtK(ids, j, cfg.k)),
         rr |-> metric(ReciprocalRank(top, j)), quality |-> ~rec.noMatch,
         head |-> IF rec.noMatch \/ out.err THEN {} ELSE {RecallAtK(h, j, Len(h)) : h \in out.head},
         exact |-> ~rec.noMatch /\ ~out.err /\ ids # <<>> /\ gainOf(j, ids[1]) > 0,
         success |-> success, need |-> rec.required # <<>>, covered |-> rec.required # <<>> /\ success,
         forbidden |-> forbidden, wall |-> out.wall, cached |-> out.cached, degraded |-> out.degraded,
         missing |-> rerank /\ ~out.asked, unfulfilled |-> rerank /\ ids # <<>> /\ ~out.applied,
         err |-> out.err]

-----------------------------------------------------------------------------
(* The run *)

\* Pipeline by pipeline, repetition by repetition, record by record.
Jobs ==
    LET n == Len(recs)
    IN  [i \in 1..(Len(cfg.pipelines) * cfg.repeats * n) |->
            [p |-> cfg.pipelines[((i - 1) \div (cfg.repeats * n)) + 1],
             repeat |-> (((i - 1) \div n) % cfg.repeats) + 1, rec |-> recs[((i - 1) % n) + 1]]]

Slices == {recs[i].slice : i \in DOMAIN recs}
InSlice(rec, s) == s = "all" \/ rec.slice = s

aggregate(p, s) ==
    LET I == {i \in DOMAIN Jobs : Jobs[i].p = p /\ InSlice(Jobs[i].rec, s)}
        Count(T(_)) == Quantify(I, LAMBDA i : T(scores[i]))
        Sum(f(_), n) == Mean(MapThenSumSet(LAMBDA i : f(scores[i]), I), n)
        Share(T(_), n) == Mean(One * Count(T), n)
        quality == Count(LAMBDA sc : sc.quality)
        exactN == Quantify(I, LAMBDA i : Jobs[i].rec.slice = "exact")
        needN == Count(LAMBDA sc : sc.need)
    IN  [supported |-> p \in ToSet(cfg.pipelines), n |-> Cardinality(I),
         expected |-> cfg.repeats * Quantify(DOMAIN recs, LAMBDA r : InSlice(recs[r], s)),
         errors |-> Count(LAMBDA sc : sc.err), quality |-> quality,
         ndcg |-> Sum(LAMBDA sc : IF sc.quality THEN sc.ndcg ELSE 0, quality),
         success |-> Share(LAMBDA sc : sc.success, Cardinality(I)), exactN |-> exactN,
         exact |-> Mean(One * Quantify(I, LAMBDA i : Jobs[i].rec.slice = "exact" /\ scores[i].exact), exactN),
         needN |-> needN, covered |-> Share(LAMBDA sc : sc.covered, needN),
         cached |-> Count(LAMBDA sc : sc.cached), degraded |-> Count(LAMBDA sc : sc.degraded),
         missing |-> Count(LAMBDA sc : sc.missing), unfulfilled |-> Count(LAMBDA sc : sc.unfulfilled),
         forbidden |-> Sum(LAMBDA sc : sc.forbidden, 1),
         headN |-> Count(LAMBDA sc : sc.head # {}),
         p95 |-> percentile([n \in 1..Cardinality(I) |-> scores[SetToSeq(I)[n]].wall], 95)]

\* What the report tells against the candidate.
Violations ==
    LET base == aggregate(cfg.baseline, "all")
        cand == aggregate(cfg.candidate, "all")
        When(bad, v) == IF bad THEN {v} ELSE {}
        Whole(name) ==
            LET a == aggregate(name, "all")
            IN  IF ~a.supported THEN {<<name, "supported">>}
                ELSE When(a.n # a.expected \/ a.n = 0, <<name, "completed">>)
                     \cup When(a.errors > 0, <<name, "errors">>)
                     \cup When(a.degraded > 0, <<name, "degraded">>)
                     \cup When(a.forbidden > 0, <<name, "constraint_violations">>)
                     \cup When(a.unfulfilled > 0, <<name, "rerank_unfulfilled">>)
                     \cup When(a.missing > 0, <<name, "execution_missing">>)
                     \cup When(cfg.noCache /\ a.cached > 0, <<name, "cache_hits">>)
        Slice(s) ==
            LET b == aggregate(cfg.baseline, s)
                c == aggregate(cfg.candidate, s)
            IN  IF c.n # b.expected \/ c.errors > 0 \/ ~c.supported THEN {<<s, "completed">>}
                ELSE When(b.quality > 0 /\ c.ndcg < b.ndcg, <<s, "ndcg">>)
                     \cup When(c.success < b.success, <<s, "task_success">>)
    IN  Whole(cfg.baseline) \cup Whole(cfg.candidate)
        \cup (IF base.supported THEN UNION {Slice(s) : s \in Slices} ELSE {})
        \cup When(cand.ndcg < base.ndcg \/ (~cfg.allowEqual /\ cand.ndcg <= base.ndcg), <<"all", "ndcg">>)
        \cup When(cand.p95 > cfg.maxP95, <<"all", "p95_ms_max">>)
        \cup When(cand.n < cfg.minSamples, <<"all", "latency_samples_min">>)
        \cup When(cfg.minTask > 0 /\ cand.success < cfg.minTask, <<"all", "task_success_min">>)
        \cup When(cfg.minExact > 0 /\ (cand.exactN = 0 \/ cand.exact < cfg.minExact), <<"exact", "min">>)
        \cup When(cfg.minNeeds > 0 /\ (cand.needN = 0 \/ cand.covered < cfg.minNeeds), <<"multi_need", "min">>)

\* Mutant: slices are not compared one by one.
evaluateGateOverall ==
    [skipped |-> FALSE, violations |-> {v \in Violations : v[1] \notin Slices}]

evaluateGate ==
    IF cfg.baseline = "" \/ cfg.candidate = "" THEN [skipped |-> TRUE, violations |-> {}]
    ELSE [skipped |-> FALSE, violations |-> Violations]

-----------------------------------------------------------------------------
(* The frozen benchmark *)

Splits == {"dev", "regression", "holdout"}
Frozen(id) ==
    CASE id = "v1" -> Splits \cup {"documents"}
      [] id = "v2" -> Splits \cup {"documents", "criteria", "evidence"}
      [] OTHER -> {}

\* Every authored file is the one that the manifest fingerprints.
verifyManifest(m) ==
    \A f \in Frozen(m.id) : f \in DOMAIN m.files /\ f \in DOMAIN m.disk /\ m.disk[f] = m.files[f]

Thresholds == [k |-> cfg.k, limit |-> cfg.limit, maxP95 |-> cfg.maxP95, minTask |-> cfg.minTask,
               minExact |-> cfg.minExact, minNeeds |-> cfg.minNeeds, minSamples |-> cfg.minSamples,
               noCache |-> cfg.noCache, allowEqual |-> cfg.allowEqual, concurrency |-> Cardinality(Worker)]

\* Version 2 fixes the thresholds, and every task of a split but for its tenant.
validateFrozenBenchmark(m, records) ==
    m.id = "v2" =>
        /\ m.acceptance = m.disk["criteria"] /\ Thresholds = m.disk["criteria"]
        /\ records # <<>> /\ records[1].split \in Splits
        /\ LET original == parseGolden(m.disk[records[1].split])
           IN  /\ LoadGolden(m.disk[records[1].split]) /\ Len(records) = Len(original)
               /\ \A i \in DOMAIN records : \E n \in DOMAIN original :
                      records[i] = [original[n] EXCEPT !.tenant = records[i].tenant]

FlagsInRange ==
    /\ cfg.repeats >= 1 /\ cfg.maxP95 > 0 /\ cfg.minSamples >= 1
    /\ \A x \in {cfg.minTask, cfg.minExact, cfg.minNeeds} : x \in 0..One

-----------------------------------------------------------------------------
Init ==
    /\ case \in Cases /\ pc = "start" /\ exit = -1 /\ recs = <<>> /\ next = 1
    /\ hand = [w \in Worker |-> 0] /\ answered = <<>> /\ scores = <<>>
    /\ report = [skipped |-> FALSE, violations |-> {}]

\* Everything up to the first search, in the order of main; Run refuses a pipeline
\* that is named twice.
main ==
    LET loaded == parseGolden(case.golden)
        selected == IF case.split = "" THEN loaded ELSE SelectSeq(loaded, LAMBDA r : r.split = case.split)
        ok == /\ LoadGolden(case.golden) /\ verifyManifest(case.corpus) /\ FlagsInRange
              /\ case.split \in Splits \cup {""} /\ selected # <<>>
              /\ ToSet(cfg.pipelines) \subseteq {"lexical", "dense", "hybrid", "hybrid_rerank"}
              /\ validateFrozenBenchmark(case.corpus, selected)
              /\ IsInjective(cfg.pipelines)
    IN  /\ pc = "start"
        /\ IF ok THEN pc' = "run" /\ recs' = selected /\ UNCHANGED exit
           ELSE pc' = "done" /\ exit' = 2 /\ UNCHANGED recs
        /\ UNCHANGED <<case, next, hand, answered, scores, report>>

Take(w) ==
    /\ pc = "run" /\ hand[w] = 0 /\ next <= Len(Jobs)
    /\ hand' = [hand EXCEPT ![w] = next] /\ next' = next + 1
    /\ UNCHANGED <<case, pc, exit, recs, answered, scores, report>>

\* The score goes to the place of the job, in whatever order the answers come.
Ask(w) ==
    /\ hand[w] # 0 /\ hand' = [hand EXCEPT ![w] = 0]
    /\ \E a \in Answers :
          /\ answered' = (hand[w] :> a) @@ answered
          /\ scores' = (hand[w] :> scoreOutcome(Jobs[hand[w]].rec, Jobs[hand[w]].p, Search(a))) @@ scores
    /\ UNCHANGED <<case, pc, exit, recs, next, report>>

\* All workers are done; the report may fail to be written.
Finish ==
    /\ pc = "run" /\ next > Len(Jobs) /\ \A w \in Worker : hand[w] = 0
    /\ pc' = "done" /\ report' = evaluateGate
    /\ \/ exit' = IF ~report'.skipped /\ report'.violations = {} THEN 0 ELSE 1
       \/ exit' = 2
    /\ UNCHANGED <<case, recs, next, hand, answered, scores>>

Next == main \/ Finish \/ \E w \in Worker : Take(w) \/ Ask(w)

Spec == Init /\ [][Next]_vars

-----------------------------------------------------------------------------
(* Properties *)

\* What a user sees of an answer: its distinct hits.
Shown(a) == IF a.failed THEN <<>> ELSE dedupeStable(a.docs)
Solved(rec, a) ==
    LET top == ToSet(Cut(Shown(a), cfg.k))
    IN  /\ ~a.failed /\ ToSet(Shown(a)) \cap rec.forbidden = {}
        /\ IF rec.noMatch THEN Shown(a) = <<>> ELSE top \cap RelevantIn(judged(rec)) # {}
        /\ \A n \in DOMAIN rec.required : top \cap rec.required[n] # {}
SolvedIn(p, s) ==
    Quantify(DOMAIN Jobs, LAMBDA i : /\ Jobs[i].p = p /\ InSlice(Jobs[i].rec, s)
                                     /\ Solved(Jobs[i].rec, answered[i]))

\* "Gates fail closed": exit status 0 means that both pipelines answered every record
\* in every repetition, none of it failed, degraded, forbidden or, under no-cache,
\* cached, and every list of the reranking pipeline was really reranked; that the
\* candidate solves at least as many tasks of every slice as the baseline; and that
\* 95 % of its answers kept to the latency, in whatever order the workers got them.
QualifiedIsEarned ==
    exit = 0 =>
        /\ \A p \in {cfg.baseline, cfg.candidate}, r \in ToSet(recs), n \in 1..cfg.repeats :
              \E i \in DOMAIN Jobs :
                  /\ Jobs[i] = [p |-> p, repeat |-> n, rec |-> r]
                  /\ ~answered[i].failed /\ ~answered[i].degraded /\ ~(cfg.noCache /\ answered[i].cached)
                  /\ ToSet(answered[i].docs) \cap r.forbidden = {}
                  /\ p = "hybrid_rerank" /\ Shown(answered[i]) # <<>> => answered[i].applied = "yes"
        /\ \A s \in Slices : SolvedIn(cfg.candidate, s) >= SolvedIn(cfg.baseline, s)
        /\ LET I == {i \in DOMAIN Jobs : Jobs[i].p = cfg.candidate}
           IN  100 * Quantify(I, LAMBDA i : answered[i].wall <= cfg.maxP95) >= 95 * Cardinality(I)

\* A run against the frozen benchmark that is not refused asks every task of the
\* declared split, with its judgements and thresholds unchanged.
FrozenKept ==
    pc # "start" /\ recs # <<>> /\ case.corpus.id = "v2" =>
        LET Untold(rs) == {[rs[i] EXCEPT !.tenant = 0] : i \in DOMAIN rs}
        IN  /\ Thresholds = case.corpus.acceptance
            /\ \E s \in Splits : Untold(recs) = Untold(parseGolden(case.corpus.files[s]))

\* The three metrics agree on whether there is a relevant hit in the first k, none
\* exceeds 1, and nDCG is 1 for the lists with the best gains in front only, although
\* a list may have hits without id and hits twice ("keeps rank positions consistent").
MetricsAgree ==
    \A i \in DOMAIN scores :
        LET sc == scores[i]
            j == judged(Jobs[i].rec)
            s == Cut(Shown(answered[i]), cfg.k)
            best == Cut(Ideal(j), cfg.k)
        IN  sc.quality =>
                /\ sc.recall \in 0..One /\ sc.ndcg \in 0..One
                /\ (sc.recall > 0) = (sc.rr > 0) /\ (sc.recall > 0) = (sc.ndcg > 0)
                /\ (sc.ndcg = One) = IsPrefix(best, [n \in DOMAIN s |-> gainOf(j, s[n])])
                /\ sc.exact = (sc.rr = One)
=============================================================================
