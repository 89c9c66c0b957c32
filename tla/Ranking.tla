------------------------------ MODULE Ranking ------------------------------
(***************************************************************************)
(* From what the index returns to the pages of a search (services/query):  *)
(* the fusion of the retrieval arms (rrf.go, server.go), the filter and    *)
(* the cross-encoder (personalize.go, rerank_model.go) and the final order *)
(* (personalize.go, rerank.go).                                            *)
(*                                                                         *)
(* An arm is the score of every document in it, 0 when it does not match.  *)
(* Scores and weights are integers in units of 1/Unit, divisions rounded   *)
(* down.  What the profile says of a document is chosen for it; what its   *)
(* text, its sender, its age and its date contribute is fixed below.       *)
(*                                                                         *)
(* A page is a request of its own and asks the arms for more the further   *)
(* it is (server.go:313).  The pages of one search are computed together:  *)
(* hits holds the candidates for every number of hits that a page may ask  *)
(* for, and Page(offset) takes the one that its request would have.  So no *)
(* arm or model fails for one page only, and the index stays as it is.     *)
(***************************************************************************)
EXTENDS Integers, Sequences, SequencesExt, FiniteSets, FiniteSetsExt

CONSTANTS MaxLimit   \* bound: hits of a page

Doc == 1..3
MaxScore == 2
minAttentionResults == 1
Unit == 1000
rrfK == 60
rerankCandidates == 2      \* the depth of the cross-encoder
candidateCap == 2          \* what every ranked page asks of an arm at least
MaxCandidates == 3         \* and at most (1000)

VARIABLES arms,      \* [text, vector, clip], each document -> score
          path,      \* how the arms are combined: "plain", "merged", "single", "fused", "rrf"
          personal,  \* a profile is loaded
          profile,   \* profile and plan: [novelty, pref, muted, intent, window, salient]
          limit,
          at,        \* "retrieve", "filter", "rerank", "rank", "done"
          hits       \* for each depth the candidates, best first: [doc, score, media]

vars == <<arms, path, personal, profile, limit, at, hits>>

\* Media documents, occurrence (0: none), freshness, and words of a document.
Media == {3}
Start == <<5, 0, 3>>
End == <<7, 0, 4>>
Recency == <<0, 500, 1000>>
Words == <<{"a", "b"}, {"a", "b"}, {"b", "c"}>>
Sender == <<"x", "x", "">>

\* s in the order of key, highest first; equals keep their order.
StableSort(s, key(_)) ==
    LET Before(j, i) == key(s[j]) > key(s[i]) \/ (key(s[j]) = key(s[i]) /\ j < i)
        Place(i) == 1 + Cardinality({j \in DOMAIN s : Before(j, i)})
    IN  [k \in DOMAIN s |-> s[CHOOSE i \in DOMAIN s : Place(i) = k]]
ByScore(s) == StableSort(s, LAMBDA h : h.score)
Docs(s) == {s[i].doc : i \in DOMAIN s}
SumOf(S, f(_)) == FoldSet(LAMBDA x, sum : f(x) + sum, 0, S)

\* A ranked arm, and its first n hits.
Listed(arm, visual) ==
    LET matched == SetToSeq({d \in Doc : arm[d] > 0})
    IN  ByScore([i \in DOMAIN matched |->
            [doc |-> matched[i], score |-> arm[matched[i]] * Unit, media |-> visual /\ matched[i] \in Media]])
Prefix(s, n) == SubSeq(s, 1, IF n < Len(s) THEN n ELSE Len(s))

-----------------------------------------------------------------------------
(* Fusion *)

\* The first hit of every document, in order, with the media of any.
Once(s) ==
    LET first == SelectSeq([i \in DOMAIN s |-> i], LAMBDA i : \A j \in 1..i - 1 : s[j].doc # s[i].doc)
    IN  [k \in DOMAIN first |->
            [s[first[k]] EXCEPT !.media = \E i \in DOMAIN s : s[i].doc = s[first[k]].doc /\ s[i].media]]

Of(s, d) == {i \in DOMAIN s : s[i].doc = d}

mergeHits(text, clip) ==
    LET both == text \o clip
        one == Once(both)
    IN  ByScore([k \in DOMAIN one |-> [one[k] EXCEPT !.score = Max({both[i].score : i \in Of(both, one[k].doc)})]])

\* Reciprocal rank fusion: the lists a document is in add up.
rrfFuse(lists) ==
    LET one == Once(FlattenSeq(lists))
        sum(d) == SumOf({l \in DOMAIN lists : Of(lists[l], d) # {}},
                        LAMBDA l : (Unit * Unit) \div (rrfK + Min(Of(lists[l], d))))
    IN  ByScore([k \in DOMAIN one |-> [one[k] EXCEPT !.score = sum(one[k].doc)]])

-----------------------------------------------------------------------------
(* Pages *)

pageHits(s, offset, n) ==
    IF offset >= Len(s) THEN <<>>
    ELSE SubSeq(s, offset + 1, IF offset + n > Len(s) THEN Len(s) ELSE offset + n)

\* The page of a merged search, of which every arm only brings a prefix.
searchMerged(offset, n) ==
    pageHits(mergeHits(Prefix(Listed(arms.text, FALSE), offset + n),
                       Prefix(Listed(arms.clip, TRUE), offset + n)), offset, n)

-----------------------------------------------------------------------------
(* Cross-encoder and final order *)

\* The model's scores order the head; the tail stays, and all get a score by
\* their place.
Ordinal(s) == [k \in DOMAIN s |-> [s[k] EXCEPT !.score = ((Len(s) - k + 1) * Unit) \div Len(s)]]

applyRerank(s, model) ==
    Ordinal(StableSort(Prefix(s, rerankCandidates), LAMBDA h : model[h.doc])
            \o SubSeq(s, rerankCandidates + 1, Len(s)))

normalizedRelevance(v, lo, hi) == IF hi <= lo THEN Unit ELSE ((v - lo) * Unit) \div (hi - lo)
Normalized(s) ==
    LET lo == Min({s[i].score : i \in DOMAIN s})
        hi == Max({s[i].score : i \in DOMAIN s})
    IN  [k \in DOMAIN s |-> [s[k] EXCEPT !.score = normalizedRelevance(@, lo, hi)]]

\* Semantic relevance, explicit preference and freshness.
Scored(s) ==
    LET n == Normalized(s)
    IN  [k \in DOMAIN n |-> [n[k] EXCEPT !.score = @ + 600 * profile.pref[n[k].doc] + (3 * Recency[n[k].doc]) \div 10]]

tokenJaccard(a, b) == (Cardinality(a \cap b) * Unit) \div Cardinality(a \cup b)

\* How much b repeats a: shared words, weighed by the context they share.
Similarity(a, b) ==
    LET context == 2 + (IF (a \in Media) = (b \in Media) THEN 1 ELSE 0)
                     + (IF Sender[a] # "" /\ Sender[a] = Sender[b] THEN 1 ELSE 0)
    IN  (tokenJaccard(Words[a], Words[b]) * context) \div 4

Utility(h, selected) ==
    ((Unit - profile.novelty) * h.score
     - profile.novelty * Max({0} \cup {Similarity(selected[i].doc, h.doc) : i \in DOMAIN selected})) \div Unit

\* Greedy: of the hits left the first of highest utility, which becomes its
\* score.
mmrReorder(s) ==
    LET pick[k \in 0..Len(s)] ==
            IF k = 0 THEN <<>>
            ELSE LET chosen == pick[k - 1]
                     left == {i \in DOMAIN s : s[i].doc \notin Docs(chosen)}
                     best == CHOOSE i \in left : \A j \in left :
                                 \/ Utility(s[i], chosen) > Utility(s[j], chosen)
                                 \/ Utility(s[i], chosen) = Utility(s[j], chosen) /\ i <= j
                 IN  Append(chosen, [s[best] EXCEPT !.score = Utility(s[best], chosen)])
    IN  pick[Len(s)]

\* By occurrence, undated hits last, then by score.
sortByEventStart(s) ==
    StableSort(s, LAMBDA h : (IF Start[h.doc] = 0 THEN -99 ELSE -Start[h.doc]) * 10 * Unit + h.score)

personalizeRank(s) ==
    LET scored == Scored(s)
        best == ByScore(scored)
    IN  IF s = <<>> THEN s
        ELSE IF profile.intent = "schedule" THEN sortByEventStart(scored)
        ELSE IF profile.novelty > 0 /\ Len(s) > 1 THEN mmrReorder(Normalized(best))
        ELSE best

\* Half the weight on freshness; the hit keeps its retrieval score.
rerankByRecency(s) ==
    IF Len(s) < 2 THEN s
    ELSE LET n == Normalized(s)
             blended(h) == LET i == CHOOSE j \in DOMAIN n : n[j].doc = h.doc
                           IN  (n[i].score + Recency[h.doc]) \div 2
         IN  StableSort(s, blended)

\* The page of an attention query has fewer hits the more sensitive it is.
attentionPageLimit(n, sensitivity) ==
    LET scaled == (n * (400 - 3 * sensitivity)) \div 400
        least == IF scaled < minAttentionResults THEN minAttentionResults ELSE scaled
    IN  IF least > n THEN n ELSE least

-----------------------------------------------------------------------------
(* A search *)

Arm(docs) == {a \in [Doc -> 0..MaxScore] : \A d \in Doc \ docs : a[d] = 0}
Always == [from |-> 0, to |-> 0]
Neutral == [novelty |-> 0, pref |-> [d \in Doc |-> 0], muted |-> {}, intent |-> "find",
            window |-> Always, salient |-> {}]

\* The profiles, and what the plan and the attention scores add to them.
Prefs == {p \in [Doc -> {0, 1}] : p[3] = 0}
Mutes == {{}, {2}}
Profiles ==
    {[Neutral EXCEPT !.pref = p, !.muted = m, !.novelty = n] : p \in Prefs, m \in Mutes, n \in {0, 500}}
    \cup {[Neutral EXCEPT !.intent = "schedule", !.muted = m, !.window = w] :
            m \in Mutes, w \in {Always, [from |-> 6, to |-> 8]}}
    \cup {[Neutral EXCEPT !.intent = "attention", !.pref = p, !.salient = d] :
            p \in Prefs, d \in {{1, 3}, {2}}}

\* The two-arm merge and the plain page are the paths of a service without
\* profiles, rank fusion and cross-encoder.
Init == /\ arms \in [text : Arm(Doc), vector : Arm({2, 3}), clip : Arm({1, 3})]
        /\ \A d \in Doc : arms.vector[d] < MaxScore /\ (d # 3 => arms.clip[d] < MaxScore)
        /\ path \in {"plain", "merged", "single", "fused", "rrf"} /\ personal \in BOOLEAN
        /\ path # "rrf" => \A d \in Doc : arms.vector[d] = 0
        /\ path \in {"plain", "single"} => \A d \in Doc : arms.clip[d] = 0
        /\ path \in {"plain", "merged"} => ~personal
        /\ profile = Neutral
        /\ limit = 0 /\ at = "retrieve" /\ hits = <<>>

Ranked == path \notin {"plain", "merged"}
Depths == IF Ranked THEN candidateCap..MaxCandidates ELSE {Cardinality(Doc)}

\* Mutant: a page asks for what it needs and one hit more, whatever the cap.
DepthOfPage(offset) == IF Ranked THEN Min({MaxCandidates, limit + offset + 1}) ELSE Cardinality(Doc)

\* What the request of a page asks of every arm.
Depth(offset) ==
    IF Ranked THEN Min({MaxCandidates, Max({candidateCap, limit + offset})}) ELSE Cardinality(Doc)

\* The arms of a request that asks for n hits of each.
Lists(n) == [text |-> Prefix(Listed(arms.text, FALSE), n),
             vector |-> Prefix(Listed(arms.vector, FALSE), n),
             clip |-> Prefix(Listed(arms.clip, TRUE), n)]

Found(n) ==
    LET l == Lists(n)
    IN  CASE path \in {"plain", "single"} -> l.text
          [] path = "merged" -> mergeHits(l.text, l.clip)
          [] path = "fused" -> rrfFuse(<<l.text, l.clip>>)
          [] path = "rrf" -> rrfFuse(<<l.text, l.vector, l.clip>>)

Retrieve ==
    /\ at = "retrieve"
    /\ hits' = [n \in Depths |-> Found(n)]
    /\ limit' \in 1..MaxLimit
    /\ at' = IF Ranked THEN "filter" ELSE "done"
    /\ UNCHANGED <<arms, path, personal, profile>>

\* Window ends are exclusive and 0 when open; a missing end leaves the start.
calendarOverlaps(d, window) ==
    /\ window.to # 0 => Start[d] < window.to
    /\ (window.from # 0 /\ Start[d] < window.from) => (End[d] > Start[d] /\ End[d] > window.from)

Kept(d, p) ==
    /\ d \notin p.muted
    /\ (p.intent = "schedule" /\ p.window # Always) => (Start[d] # 0 /\ calendarOverlaps(d, p.window))
    /\ p.intent = "attention" => d \in p.salient

filterCandidates(s, p) == SelectSeq(s, LAMBDA h : Kept(h.doc, p))

\* The profile's hard filter comes before the model.
Filter ==
    /\ at = "filter"
    /\ profile' \in IF personal THEN Profiles ELSE {Neutral}
    /\ hits' = [n \in Depths |-> IF personal THEN filterCandidates(hits[n], profile') ELSE hits[n]]
    /\ at' = "rerank"
    /\ UNCHANGED <<arms, path, personal, limit>>

\* The cross-encoder answers, or it was not asked for or fails.
Rerank ==
    /\ at = "rerank"
    /\ \/ UNCHANGED hits
       \/ \E model \in {<<0, 1, 1>>, <<1, 0, 2>>} :
              hits' = [n \in Depths |-> applyRerank(hits[n], model)]
    /\ at' = "rank"
    /\ UNCHANGED <<arms, path, personal, profile, limit>>

Rank ==
    /\ at = "rank"
    /\ hits' = [n \in Depths |-> IF personal THEN personalizeRank(filterCandidates(hits[n], profile))
                                 ELSE rerankByRecency(hits[n])]
    /\ at' = "done"
    /\ UNCHANGED <<arms, path, personal, profile, limit>>

Next == Retrieve \/ Filter \/ Rerank \/ Rank
Spec == Init /\ [][Next]_vars

\* What the client gets at an offset.
Page(offset) ==
    LET ranked == hits[Depth(offset)]
    IN  CASE path = "plain" -> rerankByRecency(pageHits(ranked, offset, limit))
          [] path = "merged" -> rerankByRecency(searchMerged(offset, limit))
          [] OTHER -> pageHits(ranked, offset,
                          IF profile.intent = "attention" THEN attentionPageLimit(limit, 100) ELSE limit)

-----------------------------------------------------------------------------
(* Properties *)

TypeOK ==
    /\ at \in {"retrieve", "filter", "rerank", "rank", "done"} /\ limit \in 0..MaxLimit
    /\ \A n \in DOMAIN hits : \A i \in DOMAIN hits[n] :
           hits[n][i] \in [doc : Doc, score : -Unit..60 * Unit, media : BOOLEAN]

\* Fusing, reordering and diversifying neither lose a document nor show one
\* twice: at every stage the candidates are the documents that the arms found,
\* once each, but for the ones that the profile mutes, a schedule's window leaves
\* out or nothing calls to attention.
NothingLostOrTwice ==
    at # "retrieve" => \A n \in DOMAIN hits :
        LET l == Lists(n)
        IN  /\ Docs(hits[n]) = {d \in Docs(l.text) \cup Docs(l.vector) \cup Docs(l.clip) : Kept(d, profile)}
            /\ Len(hits[n]) = Cardinality(Docs(hits[n]))

\* Documents of equal best score, of which the arms disagree on the order.
Ties == \E c, d \in Doc :
            LET best(x) == Max({arms.text[x], arms.clip[x]})
            IN  c # d /\ best(c) > 0 /\ best(c) = best(d)

\* An arm has more than every page asks for: the pages that ask for more than the
\* first one rank other candidates than it does.
Truncated == Ranked /\ \E a \in {"text", "vector", "clip"} :
                            Cardinality({d \in Doc : arms[a][d] > 0}) > candidateCap

\* A client that goes from page to page in steps of its limit sees every
\* candidate exactly once ("Each arm needs the full prefix [0, offset+limit) so
\* pagination over the merged set is correct").  When an arm has more than
\* candidateCap hits this is said of the pages within the cap, which show the
\* first candidateCap of one list: a page past it asks for more, and its order is
\* that of more candidates, fused, normalised and diversified anew, so that it
\* may repeat a hit and another is never shown.  Excepted are also merged arms
\* with equal scores, whose order depends on the prefix, and attention queries,
\* whose pages are shorter than the step: there a hit is seen at most once.
PagesCover ==
    (at = "done" /\ ~(path = "merged" /\ Ties)) =>
        LET first == hits[Depth(0)]
            pages == {k \in 0..Cardinality(Doc) : Truncated => (k + 1) * limit <= candidateCap}
        IN  \A i \in DOMAIN first :
                LET seen == {k \in pages : first[i].doc \in Docs(Page(k * limit))}
                IN  /\ Cardinality(seen) <= 1
                    /\ (profile.intent # "attention" /\ i <= limit * Cardinality(pages)) => seen # {}

\* The scores shown do not rise down a ranked list: "these selected utilities
\* follow the existing greedy order".  A schedule is in order of occurrence,
\* and freshness reorders hits that keep their score.
ScoresDescend ==
    (at = "done" /\ personal /\ profile.intent # "schedule") => \A n \in DOMAIN hits :
        \A i \in 1..Len(hits[n]) - 1 : hits[n][i].score >= hits[n][i + 1].score

\* A schedule lists its events by occurrence, hits without one after them.
Chronological ==
    (at = "done" /\ personal /\ profile.intent = "schedule") => \A n \in DOMAIN hits :
        \A i \in 1..Len(hits[n]) - 1 : LET a == Start[hits[n][i].doc]
                                           b == Start[hits[n][i + 1].doc]
                                       IN  b # 0 => (a # 0 /\ a <= b)

\* Agreement of the arms counts: fusion does not put a document behind one that
\* no arm ranks higher and that fewer arms find.
Behind(s, c, d) == Of(s, c) = {} \/ (Of(s, d) # {} /\ Min(Of(s, d)) < Min(Of(s, c)))
FusionAgrees ==
    (at = "filter" /\ path \in {"fused", "rrf"}) => \A n \in DOMAIN hits :
        LET l == Lists(n)
        IN  \A i, j \in DOMAIN hits[n] : (i < j) =>
                ~(\A s \in {l.text, l.vector, l.clip} :
                     \/ Of(s, hits[n][i].doc) = {} /\ Of(s, hits[n][j].doc) = {}
                     \/ Behind(s, hits[n][i].doc, hits[n][j].doc))
=============================================================================
