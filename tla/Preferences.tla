----------------------------- MODULE Preferences -----------------------------
(* What the ranker knows of a user (platform/personalization): the profile,  *)
(* clamped when the gateway saves it and again when a loader reads it, the   *)
(* model learned from feedback, and the salience of a hit                    *)
(* (services/query/attention.go).                                            *)
(*                                                                           *)
(* Text is a sequence of characters: "a" and "A" differ in case, "_" is white *)
(* space.  Numbers are in hundredths; sigmoid is replaced by another          *)
(* increasing function through (0, 1/2).                                      *)
EXTENDS Integers, Sequences, FiniteSets, SequencesExt, FiniteSetsExt

CONSTANTS maxEntryLen, maxListEntries, coefClamp,
          MaxSamples      \* bound: feedback events

VARIABLES at,        \* "put", "load", "rank"; "learn"; "attend"
          given,     \* the profile in the request
          stored,    \* the profile of record
          profile,   \* the profile a loader hands to the ranker
          model,     \* the learned model
          samples,   \* how much feedback it was updated with
          event,     \* the last feedback
          hit        \* a candidate, for scoreAttention

vars == <<at, given, stored, profile, model, samples, event, hit>>

Unit == 100
sourceWeightMax == 5 * Unit

-----------------------------------------------------------------------------
(* Clamp.                                                                    *)

Lower(c) == IF c = "A" THEN "a" ELSE c
ToLower(s) == [i \in DOMAIN s |-> Lower(s[i])]
ToUpper(s) == [i \in DOMAIN s |-> IF s[i] = "a" THEN "A" ELSE s[i]]

TrimSpace(s) ==
    LET ink == {i \in DOMAIN s : s[i] # "_"}
    IN  IF ink = {} THEN <<>> ELSE SubSeq(s, Min(ink), Max(ink))

Cut(s) == SubSeq(s, 1, Min({Len(s), maxEntryLen}))

clamp01(v) == Max({0, Min({Unit, v})})
clampNonNeg(v) == Max({0, v})

DefaultWeights == [semantic |-> 100, fatigue |-> 30]

\* An all-zero set would rank everything alike: the defaults take its place.
clampWeights(w) ==
    LET c == [semantic |-> clampNonNeg(w.semantic), fatigue |-> clampNonNeg(w.fatigue)]
    IN  IF c = [semantic |-> 0, fatigue |-> 0] THEN DefaultWeights ELSE c

clampWorkingHours(w) ==
    LET c == [start |-> IF w.start \in 0..23 THEN w.start ELSE 9,
              end   |-> IF w.end \in 1..24 THEN w.end ELSE 17]
    IN  IF c.end <= c.start THEN [start |-> 9, end |-> 17] ELSE c

\* Entries trimmed, lower-cased for addresses, cut, and kept once whatever
\* their case.
normalizeList(in, lower) ==
    LET Entry(raw) == LET v == TrimSpace(raw) IN Cut(IF lower THEN ToLower(v) ELSE v)
        Known(out, v) == \E i \in DOMAIN out : ToLower(out[i]) = ToLower(v)
    IN  FoldLeft(LAMBDA out, raw :
                     LET v == Entry(raw)
                     IN  IF v = <<>> \/ Known(out, v) \/ Len(out) >= maxListEntries
                         THEN out ELSE Append(out, v),
                 <<>>, in)

\* The muted types: trimmed, upper-cased and kept once, however many or long.
normalizeSources(in) ==
    FoldLeft(LAMBDA out, raw : LET v == ToUpper(TrimSpace(raw))
                               IN  IF v = <<>> \/ v \in ToSet(out) THEN out ELSE Append(out, v),
             <<>>, in)

\* The entries of the map in the order it is iterated in, which is any: the
\* last of two keys that become one stays.
clampSourceWeights(in) ==
    LET Key(raw) == ToUpper(TrimSpace(raw))
        Weight(v) == Max({0, Min({sourceWeightMax, v})})
    IN  FoldLeft(LAMBDA out, e :
                     IF Key(e.key) = <<>> \/ Cardinality(DOMAIN out) >= maxListEntries THEN out
                     ELSE [k \in DOMAIN out \cup {Key(e.key)} |->
                               IF k = Key(e.key) THEN Weight(e.weight) ELSE out[k]],
                 <<>>, in)

\* A map is read back in any order; its keys differ by now.
AsEntries(m) == [i \in 1..Cardinality(DOMAIN m) |->
                    LET k == SetToSeq(DOMAIN m)[i] IN [key |-> k, weight |-> m[k]]]

\* An unknown zone is UTC.
clampTimezone(z) == IF z = "unknown" THEN "" ELSE z

Clamp(p) ==
    [sensitivity |-> clamp01(p.sensitivity),
     weights     |-> clampWeights(p.weights),
     sources     |-> clampSourceWeights(p.sources),
     people      |-> normalizeList(p.people, TRUE),
     topics      |-> normalizeList(p.topics, FALSE),
     selfEmails  |-> normalizeList(p.selfEmails, TRUE),
     mute        |-> [people  |-> normalizeList(p.mute.people, TRUE),
                      topics  |-> normalizeList(p.mute.topics, FALSE),
                      sources |-> normalizeSources(p.mute.sources)],
     hours       |-> clampWorkingHours(p.hours),
     timezone    |-> clampTimezone(p.timezone)]

DefaultProfile ==
    [sensitivity |-> 50, weights |-> DefaultWeights, sources |-> <<>>, people |-> <<>>,
     topics |-> <<>>, selfEmails |-> <<>>, mute |-> [people |-> <<>>, topics |-> <<>>, sources |-> <<>>],
     hours |-> [start |-> 9, end |-> 17], timezone |-> ""]

\* handlePutPreferences: clamp, and put the caller's address in when there is
\* none.
handlePutPreferences ==
    /\ at = "put" /\ at' = "load"
    /\ \E email \in {<<>>, <<"a", "A">>} :
         LET p == Clamp(given)
         IN  stored' = IF p.selfEmails = <<>> /\ email # <<>>
                       THEN [p EXCEPT !.selfEmails = <<ToLower(email)>>] ELSE p
    /\ UNCHANGED <<given, profile, model, samples, event, hit>>

\* The query service's Load, or resolveProfile for GET /v1/preferences.
resolveProfile ==
    /\ at = "load" /\ at' = "rank"
    /\ profile' = Clamp([stored EXCEPT !.sources = AsEntries(@)])
    /\ UNCHANGED <<given, stored, model, samples, event, hit>>

-----------------------------------------------------------------------------
(* The learned model.                                                        *)

IndexOf(s, c) == LET S == {i \in DOMAIN s : s[i] = c} IN IF S = {} THEN 0 ELSE Min(S)

\* The text between the first "<" and the first ">" from there on.
Bracketed(s) ==
    LET i == IndexOf(s, "<")
        j == IndexOf(SubSeq(s, i, Len(s)), ">")
    IN  IF i = 0 \/ j = 0 THEN [found |-> FALSE, text |-> <<>>]
        ELSE [found |-> TRUE, text |-> SubSeq(s, i + 1, i + j - 2)]

\* Empty brackets are not taken for an address here ...
senderKey(s) ==
    LET b == Bracketed(TrimSpace(s))
    IN  ToLower(TrimSpace(IF b.found /\ b.text # <<>> THEN b.text ELSE s))

\* ... but are by the query path.
extractEmail(s) ==
    LET b == Bracketed(s) IN ToLower(TrimSpace(IF b.found THEN b.text ELSE s))

hitSenders(from) == IF TrimSpace(from) = <<>> THEN <<>> ELSE <<extractEmail(TrimSpace(from))>>

\* Type, connector, senders and topics, in this order; a feature may occur twice.
FeatureKeys(type, connector, senders, topics) ==
    LET Of(ns, keys) == LET known == SelectSeq(keys, LAMBDA k : k # <<>>)
                        IN  [i \in DOMAIN known |-> [ns |-> ns, key |-> known[i]]]
    IN  Of("type", <<ToUpper(TrimSpace(type))>>) \o Of("src", <<ToLower(TrimSpace(connector))>>)
        \o Of("from", [i \in DOMAIN senders |-> senderKey(senders[i])])
        \o Of("topic", [i \in DOMAIN topics |-> ToLower(TrimSpace(topics[i]))])

sigmoid(z) == IF z >= 0 THEN Unit - (Unit * Unit) \div (2 * (Unit + z))
              ELSE (Unit * Unit) \div (2 * (Unit - z))
clampCoef(v) == Max({-coefClamp, Min({coefClamp, v})})

Coef(m, f) == IF f \in DOMAIN m.weights THEN m.weights[f] ELSE 0
Predict(m, features) == sigmoid(m.bias + FoldLeft(LAMBDA z, f : z + Coef(m, f), 0, features))

Times(features, f) == Cardinality({i \in DOMAIN features : features[i] = f})

\* Mutant: the coefficient that leaves the range is forgotten.
UpdateWraps(m, features, label) ==
    LET step == (30 * (label - Predict(m, features))) \div Unit
        Next(v) == IF v \in -coefClamp..coefClamp THEN v ELSE 0
    IN  [bias |-> Next(m.bias + step),
         weights |-> [f \in DOMAIN m.weights \cup ToSet(features) |->
                         Next(Coef(m, f) + step * Times(features, f))]]

\* One step of the logistic regression towards the label, at a rate of 0.3, for
\* every occurrence of a feature.
Update(m, features, label) ==
    LET step == (30 * (label - Predict(m, features))) \div Unit
    IN  [bias |-> clampCoef(m.bias + step),
         weights |-> [f \in DOMAIN m.weights \cup ToSet(features) |->
                         clampCoef(Coef(m, f) + step * Times(features, f))]]

\* What the page sends of a hit: everyone the document names, as it is named
\* (sender stands for sender, author and owner), and no topics.
senders(h) == LET named == SelectSeq(<<h.from, h.sender>>, LAMBDA v : v # <<>>)
              IN  [i \in DOMAIN named |-> TrimSpace(named[i])]

\* A click or a dismissal of the hit, or of another hit of the same type.
LabelForAction == {0, Unit}
TrainedOn(h) == FeatureKeys(<<"m">>, <<"g">>, senders(h), <<>>)
ScoredOn(h) == FeatureKeys(<<"m">>, <<"g">>, hitSenders(h.from), h.topics)

Another == [from |-> <<"b">>, sender |-> <<>>, topics |-> <<>>]

RecordFeedback ==
    /\ at = "learn" /\ samples < MaxSamples /\ samples' = samples + 1
    /\ \E label \in LabelForAction, h \in {hit, Another} :
          /\ model' = Update(model, TrainedOn(h), label)
          /\ event' = [hit |-> h, label |-> label]
    /\ UNCHANGED <<at, given, stored, profile, hit>>

-----------------------------------------------------------------------------
(* scoreAttention.  Times are days from now; `never' stands for a key that is *)
(* absent or does not parse.                                                  *)

never == -99
attentionHorizon == 7
staleThreadHorizon == 14
attnUpcoming == 70

InWindow(h) == h.window # <<>> /\ h.start >= h.window[1] /\ h.start < h.window[2]

\* The weight falls to nothing at the horizon, but to half of it at most for an
\* event of the window that was asked for.
upcomingScore(h) ==
    IF h.start < 0 \/ (h.start > attentionHorizon /\ ~InWindow(h)) THEN {}
    ELSE LET w == Max({0, attnUpcoming - (attnUpcoming * h.start) \div attentionHorizon})
         IN  {<<"upcoming", IF InWindow(h) THEN Max({w, attnUpcoming \div 2}) ELSE w>>}

\* The reasons that apply, with their weights.
Reasons(h) ==
    (IF h.rsvp THEN {<<"RSVP pending", 90>>} ELSE {})
    \cup upcomingScore(h)
    \cup (IF h.due # never /\ h.due < 0 /\ ~h.done THEN {<<"overdue", 90>>} ELSE {})
    \cup (IF h.unread THEN {<<"unread", 40>>} ELSE {})
    \cup (IF h.important THEN {<<"important", 50>>} ELSE {})
    \cup (IF h.toSelf THEN {<<"addressed to you", 30>>} ELSE {})
    \cup (IF h.age \in 0..attentionHorizon THEN {<<"recent", 20>>}
          ELSE IF h.age > staleThreadHorizon /\ h.unread THEN {<<"waiting a while", 20>>} ELSE {})

scoreAttention(h) == Min({Unit, MapThenSumSet(LAMBDA r : r[2], Reasons(h))})

-----------------------------------------------------------------------------
Texts(C, n) == UNION {[1..k -> C] : k \in 0..n}
Lists(S) == UNION {[1..k -> S] : k \in 0..2}
Many == [1..3 -> {<<"a">>, <<"b">>, <<"c", "A", "c">>}]

NoHit == [from |-> <<>>]
Mails == [from : Texts({"a", "A", "<", ">", "_"}, 3), sender : {<<>>}, topics : {<<>>}]
         \cup [from : {<<>>, <<"a">>, <<"_">>}, sender : {<<"A">>, <<"b">>}, topics : {<<>>, <<<<"A">>>>}]
Hits == [rsvp : BOOLEAN, start : {never} \cup -1..9, window : {<<>>, <<0, 3>>, <<6, 10>>},
         due : {never, -1, 1}, done : BOOLEAN, unread : BOOLEAN, important : BOOLEAN,
         toSelf : BOOLEAN, age : {never, -1, 7, 8, 15}]

\* Requests that vary one part of a profile.
Requests ==
    {[DefaultProfile EXCEPT !.sensitivity = v] : v \in {-1, 0, 70, 101}}
    \cup {[DefaultProfile EXCEPT !.weights = w] : w \in [semantic : {-1, 0, 40}, fatigue : {-1, 0, 40}]}
    \cup {[DefaultProfile EXCEPT !.hours = w] : w \in [start : {-1, 0, 8, 18, 24}, end : {0, 8, 12, 24, 25}]}
    \cup {[DefaultProfile EXCEPT !.timezone = z] : z \in {"", "known", "unknown"}}
    \cup {[DefaultProfile EXCEPT !.people = l, !.topics = l, !.mute = [people |-> l, topics |-> l, sources |-> l]] :
              l \in Lists(Texts({"a", "A", "_"}, 3)) \cup Many}
    \cup {[DefaultProfile EXCEPT !.sources = l] :
              l \in Lists([key : {<<"a">>, <<"A">>, <<"_">>, <<"a", "_">>, <<"b">>}, weight : {-1, 100, 501}])}

Init == /\ at \in {"put", "learn", "attend"}
        /\ given \in IF at = "put" THEN Requests ELSE {DefaultProfile}
        /\ stored = DefaultProfile /\ profile = DefaultProfile
        /\ model = [bias |-> 0, weights |-> <<>>] /\ samples = 0
        /\ event = [hit |-> NoHit, label |-> 0]
        /\ hit \in CASE at = "put"    -> {NoHit}
                     [] at = "learn"  -> Mails
                     [] at = "attend" -> Hits

Next == handlePutPreferences \/ resolveProfile \/ RecordFeedback
Spec == Init /\ [][Next]_vars

-----------------------------------------------------------------------------
(* Properties.                                                               *)

\* "the ranker never sees an out-of-range value", whatever was sent: sliders
\* and weights in their ranges, not all weights zero, a working day with hours
\* in it, lists within their bounds without blanks, or twice the same entry.
\* The muted sources have no bounds, in number or length, although Clamp speaks
\* of "list entries trimmed/deduped/length-capped/count-capped", nor have the
\* keys of the source weights in length.
RankerInRange ==
    at = "rank" =>
        /\ profile.sensitivity \in 0..Unit
        /\ profile.weights.semantic >= 0 /\ profile.weights.fatigue >= 0
        /\ profile.weights.semantic + profile.weights.fatigue > 0
        /\ 0 <= profile.hours.start /\ profile.hours.start < profile.hours.end /\ profile.hours.end <= 24
        /\ \A k \in DOMAIN profile.sources : profile.sources[k] \in 0..sourceWeightMax
        /\ Cardinality(DOMAIN profile.sources) <= maxListEntries
        /\ \A l \in {profile.people, profile.topics, profile.selfEmails, profile.mute.people, profile.mute.topics} :
              Len(l) <= maxListEntries /\ \A i \in DOMAIN l : Len(l[i]) <= maxEntryLen
        /\ \A l \in {profile.people, profile.topics, profile.selfEmails, profile.mute.people, profile.mute.topics,
                     profile.mute.sources} :
              /\ \A i \in DOMAIN l : l[i] # <<>> /\ l[i] = TrimSpace(l[i])
              /\ \A i, j \in DOMAIN l : ToLower(l[i]) = ToLower(l[j]) => i = j

\* An entry that was cut behind white space, which the next Clamp trims.
CutInSpace(l) == \E i \in DOMAIN l : l[i] # TrimSpace(l[i])

\* What was saved is what the ranker and the settings page read ("It is
\* idempotent"), but for entries cut behind white space.
ReadsBack ==
    at = "rank" => \/ profile = stored
                   \/ \E l \in {stored.people, stored.topics, stored.mute.people, stored.mute.topics} : CutInSpace(l)

\* What a click trains is what the hit is scored on: its type, its connector
\* and its sender, in whatever form the sender arrives ("MUST map to the same
\* feature"), a header with empty brackets excepted.  The topics that a hit is
\* scored on are never trained, and the other people that a click trains score
\* no hit but one they sent ("The SAME builder is used at update time [...] and at
\* scoring time", but not for the same arguments).
TrainedIsScored ==
    at = "learn" => \/ /\ \A f \in ToSet(ScoredOn(hit)) : f.ns # "topic" => f \in ToSet(TrainedOn(hit))
                       /\ \A f \in ToSet(TrainedOn(hit)) \ ToSet(ScoredOn(hit)) :
                             f = [ns |-> "from", key |-> senderKey(hit.sender)]
                    \/ Bracketed(hit.from) = [found |-> TRUE, text |-> <<>>]

\* However much was learned before, a click never lowers what the model
\* predicts for the hit and a dismissal never raises it, and no coefficient
\* leaves its bounds.
Lesson == samples' > samples =>
    LET before == Predict(model, ScoredOn(event'.hit))
        after  == Predict(model', ScoredOn(event'.hit))
    IN  /\ IF event'.label = 0 THEN after <= before ELSE after >= before
        /\ \A f \in DOMAIN model'.weights : model'.weights[f] \in -coefClamp..coefClamp

\* A hit with a reason for attention is never dropped from a needs-attention
\* search for a score of zero; an event exactly at the horizon is excepted.
EvidenceCounts ==
    at = "attend" => \/ scoreAttention(hit) > 0
                     \/ Reasons(hit) = {}
                     \/ hit.start = attentionHorizon

\* Of two hits that differ in their start, in the window both or neither, the
\* sooner one is at least as salient ("sooner = more urgent").
SoonerIsMore ==
    (at = "attend" /\ hit.start > 0) =>
        LET sooner == [hit EXCEPT !.start = @ - 1]
        IN  InWindow(sooner) = InWindow(hit) => scoreAttention(sooner) >= scoreAttention(hit)
=============================================================================
