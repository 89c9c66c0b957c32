------------------------------ MODULE Synthgen ------------------------------
(* The generator of the load-test corpus (tools/synthgen): tenant after       *)
(* tenant it generates the documents, feeds them through concurrent workers,  *)
(* and saves a checkpoint at the tenant's end, from which a run that failed,  *)
(* was cancelled or crashed is resumed.  A document is its tenant, its number *)
(* and its rare token, -1 for none; a seed is the draws that it leads to.     *)
EXTENDS Integers, Sequences, FiniteSets, FiniteSetsExt

CONSTANTS Specs,        \* [tenants, minDocs, maxDocs, seed: [large, draw, rare]]
          Worker,       \* the workers of --concurrency
          MaxRuns,      \* bound: runs of the tool
          MaxFaults     \* bound: failing feeds and saves, and crashes

VARIABLES spec,         \* that of the present run
          checkpoint,   \* the file: [spec, last, rareBase, docs], last = -1 without it
          tmp,          \* the file written before the rename
          pc,           \* "off", "loop", "feed", "save", "rename"
          outcome,      \* of the last run: "none", "ok", "refused", "err"
          ti, rareBase, \* the tenant at hand, and the tokens used before it
          docs, next,   \* its documents, and the next to hand out
          hand,         \* what each worker is feeding
          err, canceled,
          fed,          \* stats.docs
          index,        \* what the target holds
          runs, faults

vars == <<spec, checkpoint, tmp, pc, outcome, ti, rareBase, docs, next, hand, err, canceled, fed, index,
          runs, faults>>

None == [tenant |-> -1, doc |-> 0, rare |-> -1]
Free == [w \in Worker |-> None]
Fresh(s) == [spec |-> s, last |-> -1, rareBase |-> 0, docs |-> 0]

-----------------------------------------------------------------------------
(* Generation *)

\* The upper or the lower half of minDocs..maxDocs, and a draw in it.
docCountFor(s, i) ==
    LET lo == s.minDocs
        hi == s.maxDocs
        mid == lo + (hi - lo + 1) \div 2
    IN  CASE hi <= lo -> lo
          [] hi > lo /\ i \in s.seed.large -> IF hi <= mid THEN hi ELSE mid + (s.seed.draw[i] % (hi - mid + 1))
          [] hi > lo /\ i \notin s.seed.large -> lo + (s.seed.draw[i] % (mid - lo + 1))

\* The documents of tenant i up to the n-th that draw a rare token.
RareUpTo(s, i, n) == {d \in 1..n : <<i, d>> \in s.seed.rare}
RareTokensInTenant(s, i) == Cardinality(RareUpTo(s, i, docCountFor(s, i)))

GenerateTenant(s, i, base) ==
    [d \in 1..docCountFor(s, i) |->
        [tenant |-> i, doc |-> d,
         rare |-> IF <<i, d>> \in s.seed.rare THEN base + Cardinality(RareUpTo(s, i, d - 1)) ELSE -1]]

\* What --dry-run says of the corpus up to tenant n.
BuildPlan(s, n) ==
    [docs |-> MapThenSumSet(LAMBDA i : docCountFor(s, i), 0..n),
     rareTokens |-> MapThenSumSet(LAMBDA i : RareTokensInTenant(s, i), 0..n)]

-----------------------------------------------------------------------------
Init ==
    /\ spec \in Specs /\ checkpoint = Fresh(spec) /\ tmp = Fresh(spec)
    /\ pc = "off" /\ outcome = "none" /\ ti = 0 /\ rareBase = 0 /\ docs = <<>> /\ next = 1
    /\ hand = Free /\ err = FALSE /\ canceled = FALSE /\ fed = 0 /\ index = {}
    /\ runs = 0 /\ faults = 0

Ended(o) == pc' = "off" /\ outcome' = o
Fault == faults < MaxFaults /\ faults' = faults + 1

\* Another spec is refused, a complete checkpoint is left alone, and any other is
\* resumed after its last tenant.  Before the first checkpoint the spec is kept:
\* another one then makes another corpus.
Run(s) ==
    /\ pc = "off" /\ runs < MaxRuns /\ runs' = runs + 1
    /\ checkpoint.last < 0 => s = spec
    /\ spec' = s
    /\ IF checkpoint.last >= 0 /\ checkpoint.spec # s
       THEN Ended("refused") /\ UNCHANGED <<ti, rareBase, fed>>
       ELSE /\ ti' = checkpoint.last + 1 /\ rareBase' = checkpoint.rareBase /\ fed' = checkpoint.docs
            /\ IF ti' >= s.tenants THEN Ended("ok") ELSE pc' = "loop" /\ UNCHANGED outcome
    /\ err' = FALSE /\ canceled' = FALSE
    /\ UNCHANGED <<checkpoint, tmp, docs, next, hand, index, faults>>

\* Between two tenants: the end, a cancelled context, or the next tenant.
NextTenant ==
    /\ pc = "loop"
    /\ CASE ti = spec.tenants -> Ended("ok") /\ UNCHANGED <<docs, next>>
         [] ti < spec.tenants /\ canceled -> Ended("err") /\ UNCHANGED <<docs, next>>
         [] ti < spec.tenants /\ ~canceled ->
              /\ docs' = GenerateTenant(spec, ti, rareBase) /\ next' = 1
              /\ pc' = "feed" /\ UNCHANGED outcome
    /\ UNCHANGED <<spec, checkpoint, tmp, ti, rareBase, hand, err, canceled, fed, index, runs, faults>>

\* The unbuffered channel: a document goes to a free worker.  After a cancellation
\* no more than this one is handed out.
Hand(w) ==
    /\ pc = "feed" /\ next <= Len(docs) /\ hand[w] = None
    /\ hand' = [hand EXCEPT ![w] = docs[next]]
    /\ next' = IF canceled THEN Len(docs) + 1 ELSE next + 1
    /\ UNCHANGED <<spec, checkpoint, tmp, pc, outcome, ti, rareBase, docs, err, canceled, fed, index,
                   runs, faults>>

StopHanding ==
    /\ pc = "feed" /\ canceled /\ next <= Len(docs) /\ next' = Len(docs) + 1
    /\ UNCHANGED <<spec, checkpoint, tmp, pc, outcome, ti, rareBase, docs, hand, err, canceled, fed, index,
                   runs, faults>>

\* Of a document the target keeps the last version.
Stored(d) == {e \in index : <<e.tenant, e.doc>> # <<d.tenant, d.doc>>} \cup {d}

Feed(w) ==
    /\ hand[w] # None /\ hand' = [hand EXCEPT ![w] = None]
    /\ index' = Stored(hand[w]) /\ fed' = fed + 1
    /\ UNCHANGED <<spec, checkpoint, tmp, pc, outcome, ti, rareBase, docs, next, err, canceled, runs, faults>>

\* The worker goes on after a failed feed, which may have arrived all the same; a
\* cancelled one fails, or is not tried.
FeedFails(w) ==
    /\ hand[w] # None /\ hand' = [hand EXCEPT ![w] = None]
    /\ \/ Fault /\ err' = TRUE /\ index' \in {index, Stored(hand[w])}
       \/ canceled /\ UNCHANGED <<faults, index>> /\ err' \in {err, TRUE}
    /\ UNCHANGED <<spec, checkpoint, tmp, pc, outcome, ti, rareBase, docs, next, canceled, fed, runs>>

\* All workers are done; a tenant without documents is, even after a cancellation.
feedTenant ==
    /\ pc = "feed" /\ next > Len(docs) /\ hand = Free
    /\ IF docs # <<>> /\ (err \/ canceled)
       THEN Ended("err") /\ UNCHANGED rareBase
       ELSE /\ pc' = "save" /\ rareBase' = rareBase + RareTokensInTenant(spec, ti) /\ UNCHANGED outcome
    /\ UNCHANGED <<spec, checkpoint, tmp, ti, docs, next, hand, err, canceled, fed, index, runs, faults>>

\* A temporary file, renamed into place.
saveCheckpoint ==
    /\ \/ /\ pc = "save" /\ pc' = "rename" /\ UNCHANGED <<checkpoint, ti>>
          /\ tmp' = [spec |-> spec, last |-> ti, rareBase |-> rareBase, docs |-> fed]
       \/ /\ pc = "rename" /\ pc' = "loop" /\ checkpoint' = tmp /\ ti' = ti + 1 /\ UNCHANGED tmp
    /\ UNCHANGED <<spec, outcome, rareBase, docs, next, hand, err, canceled, fed, index, runs, faults>>

SaveFails ==
    /\ pc \in {"save", "rename"} /\ Fault /\ Ended("err")
    /\ UNCHANGED <<spec, checkpoint, tmp, ti, rareBase, docs, next, hand, err, canceled, fed, index, runs>>

Cancel ==
    /\ pc # "off" /\ ~canceled /\ canceled' = TRUE
    /\ UNCHANGED <<spec, checkpoint, tmp, pc, outcome, ti, rareBase, docs, next, hand, err, fed, index,
                   runs, faults>>

\* What is under way may still arrive.
Crash ==
    /\ pc # "off" /\ Fault /\ Ended("err") /\ hand' = Free
    /\ \/ UNCHANGED index
       \/ \E w \in Worker : hand[w] # None /\ index' = Stored(hand[w])
    /\ UNCHANGED <<spec, checkpoint, tmp, ti, rareBase, docs, next, err, canceled, fed, runs>>

Next ==
    \/ \E s \in Specs : Run(s)
    \/ \E w \in Worker : Hand(w) \/ Feed(w) \/ FeedFails(w)
    \/ NextTenant \/ StopHanding \/ feedTenant \/ saveCheckpoint \/ SaveFails \/ Cancel \/ Crash

Spec == Init /\ [][Next]_vars

-----------------------------------------------------------------------------
(* Properties *)

\* The corpus that a run without an interruption feeds.
Corpus(s, n) ==
    UNION {{GenerateTenant(s, i, BuildPlan(s, i - 1).rareTokens)[d] : d \in 1..docCountFor(s, i)} : i \in 0..n}

\* However often a run fails, is cancelled or crashes: the tenants up to the
\* checkpoint are in the target, document for document as an uninterrupted run makes
\* them ("resuming reproduces the SAME rare-token ordinals"), nothing outside the
\* corpus is, and so no rare token is in two documents.
ResumeExact ==
    /\ Corpus(checkpoint.spec, checkpoint.last) \subseteq index
    /\ index \subseteq Corpus(checkpoint.spec, checkpoint.spec.tenants - 1)
    /\ \A x, y \in index : x.rare = y.rare /\ x.rare # -1 => x = y

\* A run that succeeds has fed the number of documents and of rare tokens that
\* --dry-run announced: a document that was fed again after a resume counts once.
CountsExact ==
    /\ checkpoint.docs = BuildPlan(checkpoint.spec, checkpoint.last).docs
    /\ outcome = "ok" => /\ fed = BuildPlan(spec, spec.tenants - 1).docs
                         /\ rareBase = BuildPlan(spec, spec.tenants - 1).rareTokens
=============================================================================
