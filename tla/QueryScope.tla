----------------------------- MODULE QueryScope -----------------------------
(***************************************************************************)
(* What a search asks the index for: the query service's reading of the    *)
(* query text (understand.go), its intent (intent.go), its dates           *)
(* (temporal.go, scope.go) and the filter it sends to Vespa (vespa.go).    *)
(*                                                                         *)
(* A query is a sequence of tokens of Token.  A phrase that the code finds *)
(* with containsAny or in its table of dates is one token, "word" stands   *)
(* for any other word.  Times are ticks, of which a day has Day; days      *)
(* count from a Monday.  Dates of the query are days of UTC, "today" is a  *)
(* day of the user's zone.  Optional values are sets of at most one.       *)
(***************************************************************************)
EXTENDS Integers, Sequences, SequencesExt, FiniteSets

CONSTANTS MaxTokens   \* bound: tokens of a query

Day == 4
Date == [after |-> 10, before |-> 11, fromDate |-> 9, toDate |-> 9]   \* days

Dated == {"today", "tomorrow", "this week", "next week", "this weekend", "rest of the week"}
Inline == {"type:event", "type:email", "before:", "after:", "from:", "-other", "type:other"}
Token == {"word", "id-1", "\"quoted\"", "\"open", "my calendar", "meetings", "needs attention", "busy",
          "today", "tomorrow", "next week", "this weekend", "rest of the week"} \cup Inline

VARIABLES request,   \* [query, types, from, to, participant], as normalizeRequest leaves it
          now, zone, \* the time of the search, the user's offset from UTC
          at,        \* "understand", "scope", "search" or "rejected"
          plan       \* parsedQuery

vars == <<request, now, zone, at, plan>>

Type == {"EVENT", "EMAIL"}
Opt(S) == {{}} \cup {{x} : x \in S}
Tick == -1..30 * Day
Ticks == Opt(Tick)
Intent == {"freeform", "find", "schedule", "attention"}

NoPlan == [text |-> <<>>, types |-> {}, from |-> {}, to |-> {}, participant |-> {},
           clauses |-> {}, warned |-> FALSE, syntaxError |-> FALSE, toExclusive |-> FALSE,
           intent |-> "freeform", eventFrom |-> {}, eventTo |-> {}, winFrom |-> {}, winTo |-> {}]

Has(text, S) == \E i \in DOMAIN text : text[i] \in S

-----------------------------------------------------------------------------
(* understand.go *)

DocType == [t \in {"type:event", "type:email"} |-> IF t = "type:event" THEN "EVENT" ELSE "EMAIL"]

parseDocTypes(query) == {DocType[t] : t \in ToSet(query) \cap DOMAIN DocType}

\* What is left of the text once the filters are taken out: phrases, words and
\* whatever looks like a filter and is none.
Residual(query) ==
    SelectSeq(query, LAMBDA t : t \notin (Inline \ {"type:other"}))

\* Quoted phrases and exclusions are hard clauses, a phrase is searched for as
\* well; an identifier that stands alone is one, too.
maxClauses == 32
identifierLookup(query) == Residual(query) = <<"id-1">>
Clauses(query) == SelectSeq(query, LAMBDA t : t \in {"\"quoted\"", "-other"})
                  \o (IF identifierLookup(query) THEN <<"id-1">> ELSE <<>>)

\* A "before:" ends with the last second of its day.
extractInlineFilters(query) ==
    [NoPlan EXCEPT !.text = Residual(query),
                   !.types = parseDocTypes(query),
                   !.to = IF Has(query, {"before:"}) THEN {(Date.before + 1) * Day - 1} ELSE {},
                   !.from = IF Has(query, {"after:"}) THEN {Date.after * Day} ELSE {},
                   !.participant = IF Has(query, {"from:"}) THEN {"from:"} ELSE {},
                   !.clauses = ToSet(Clauses(query)),
                   !.warned = Has(query, {"type:other"}),
                   !.syntaxError = Has(query, {"\"open"}) \/ Len(Clauses(query)) > maxClauses]

\* The fields of the request take precedence over the text.
understand(r) ==
    LET p == extractInlineFilters(r.query)
    IN  [p EXCEPT !.types = IF r.types # {} THEN r.types ELSE @,
                  !.from = IF r.from # {} THEN r.from ELSE @,
                  !.to = IF r.to # {} THEN r.to ELSE @,
                  !.participant = IF r.participant # {} THEN r.participant ELSE @]

hasFilters(p) == p.types # {} \/ p.from # {} \/ p.to # {} \/ p.participant # {} \/ p.clauses # {}

-----------------------------------------------------------------------------
(* intent.go *)

onlyCalendarTypes(types) == types = {"EVENT"}

Plain(text) == SelectSeq(text, LAMBDA t : t \notin {"\"quoted\"", "\"open"})

\* A text made of the nouns of a calendar, alone or next to a date.
scheduleRequest(text) ==
    \/ Len(text) >= 1 /\ text[1] = "meetings" /\ (Len(text) > 1 => text[2] \in Dated \ {"rest of the week"})
    \/ Len(text) = 2 /\ text[1] \in {"today", "tomorrow", "next week"} /\ text[2] = "meetings"

\* What is left without the words that only frame a question.
contentResidual(text) == SelectSeq(text, LAMBDA t : t \notin {"my calendar", "meetings", "needs attention", "busy"})

classifyIntent(text, types) ==
    LET lower == Plain(text)
    IN  IF Has(lower, {"needs attention"}) THEN "attention"
        ELSE IF \/ onlyCalendarTypes(types) /\ text = <<>>
                \/ Has(lower, {"my calendar"})
                \/ scheduleRequest(lower) THEN "schedule"
        ELSE IF contentResidual(lower) # <<>> THEN "find"
        ELSE "freeform"

hasScheduleSignal(text) == Has(text, {"busy"})

-----------------------------------------------------------------------------
(* temporal.go: a window is half-open *)

startOfDay(t, loc) == ((t + loc) \div Day) * Day - loc
weekday(t, loc) == ((t + loc) \div Day) % 7
startOfWeek(t, loc) == startOfDay(t, loc) - weekday(t, loc) * Day

Days(first, n) == [from |-> first, to |-> first + n * Day]

window(phrase, t, loc) ==
    LET today == startOfDay(t, loc)
        monday == startOfWeek(t, loc)
    IN  CASE phrase = "today" -> Days(today, 1)
          [] phrase = "tomorrow" -> Days(today + Day, 1)
          [] phrase = "next week" -> Days(monday + 7 * Day, 7)
          [] phrase = "this weekend" -> Days(monday + 5 * Day, 2)
          [] phrase = "rest of the week" -> [from |-> today, to |-> monday + 7 * Day]

\* The phrases in the order in which they are looked for.
temporalPhrases == <<"this weekend", "next week", "tomorrow", "today", "rest of the week">>

\* The phrase the text is dated by: the first one of the table, where it first
\* occurs; a second phrase stays in the text.
parseTemporal(text) ==
    LET found == {i \in DOMAIN temporalPhrases : Has(text, {temporalPhrases[i]})}
        phrase == temporalPhrases[CHOOSE i \in found : \A j \in found : i <= j]
        place == CHOOSE i \in DOMAIN text : text[i] = phrase /\ \A j \in 1..i - 1 : text[j] # phrase
    IN  IF found = {} THEN [phrases |-> {}, text |-> text]
        ELSE [phrases |-> {phrase}, text |-> RemoveAt(text, place)]

-----------------------------------------------------------------------------
(* scope.go *)

\* An inclusive end becomes an exclusive one.
Beyond(p) == {IF p.toExclusive THEN t ELSE t + 1 : t \in p.to}

\* Occurrence windows replace dates of receipt.
ByOccurrence(p) == [p EXCEPT !.eventFrom = p.from, !.eventTo = Beyond(p), !.from = {}, !.to = {}]
InWindow(p) == [p EXCEPT !.eventFrom = p.winFrom, !.eventTo = p.winTo]

ByIntent(p, hasWin, calendarScoped) ==
    CASE p.intent = "schedule" ->
           LET q == [p EXCEPT !.types = IF @ = {} THEN {"EVENT"} ELSE @,
                              !.text = IF contentResidual(@) = <<>> THEN <<>> ELSE @]
           IN  IF calendarScoped THEN q
               ELSE IF p.from # {} \/ p.to # {}
                    THEN LET r == ByOccurrence(q)
                         IN  IF r.eventFrom # {} /\ r.eventTo # {}
                             THEN [r EXCEPT !.winFrom = r.eventFrom, !.winTo = r.eventTo] ELSE r
               ELSE IF hasWin THEN InWindow(q)
               ELSE [q EXCEPT !.eventFrom = {startOfDay(now, zone)}]
      [] p.intent = "attention" ->
           [p EXCEPT !.text = IF contentResidual(@) = <<>> THEN <<>> ELSE @]
      [] OTHER ->
           IF hasWin /\ ~calendarScoped /\ p.from = {} /\ p.to = {}
           THEN [p EXCEPT !.from = p.winFrom, !.to = p.winTo, !.toExclusive = TRUE] ELSE p

\* Whether a query that only has a date or a soft cue means the calendar.
Promoted(p, hasWin) ==
    /\ p.intent \in {"find", "freeform"}
    /\ p.types = {} \/ onlyCalendarTypes(p.types)
    /\ contentResidual(p.text) = <<>>
    /\ hasWin \/ hasScheduleSignal(p.text)

scopeQuery(p) ==
    LET named == classifyIntent(p.text, p.types)
        intent == IF p.types # {} /\ ~onlyCalendarTypes(p.types) /\ named = "schedule" THEN "find" ELSE named
        dated == parseTemporal(p.text)
        hasWin == dated.phrases # {}
        win == {window(f, now, zone) : f \in dated.phrases}
        read == [p EXCEPT !.text = dated.text, !.intent = intent,
                          !.winFrom = {w.from : w \in win}, !.winTo = {w.to : w \in win}]
        meant == IF Promoted(read, hasWin) THEN [read EXCEPT !.intent = "schedule"] ELSE read
        explicit == p.from # {} \/ p.to # {}
        calendarScoped == onlyCalendarTypes(p.types) /\ (explicit \/ hasWin)
        occurring == IF explicit THEN ByOccurrence(meant) ELSE InWindow(meant)
        scoped == IF calendarScoped
                  THEN [occurring EXCEPT !.winFrom = occurring.eventFrom, !.winTo = occurring.eventTo]
                  ELSE meant
    IN  ByIntent(scoped, hasWin, calendarScoped)

intentDrivenEmptyText(p) == p.intent \in {"schedule", "attention"}

-----------------------------------------------------------------------------
(* vespa.go, personalize.go: which documents a plan is answered from *)

\* The hard clauses of buildYQL, over a document [type, created, start, end,
\* from, has]; a document without an occurrence has start and end 0.
buildYQL(p, d) ==
    /\ p.types # {} => d.type \in p.types
    /\ \A t \in p.from : d.created >= t
    /\ \A t \in p.to : IF p.toExclusive THEN d.created < t ELSE d.created <= t
    /\ \A t \in p.eventFrom : d.start >= t \/ (d.start # 0 /\ d.end > t)
    /\ \A t \in p.eventTo : d.start < t
    /\ p.participant \subseteq {d.from}
    /\ "\"quoted\"" \in p.clauses => "quoted" \in d.has
    /\ "-other" \in p.clauses => "other" \notin d.has
    /\ "id-1" \in p.clauses => "id-1" \in d.has

\* Mutant: an event that began before the window is out of it.
calendarOverlapsStarts(d, p) ==
    /\ \A t \in p.winTo : d.start < t
    /\ \A t \in p.winFrom : d.start >= t

calendarOverlaps(d, p) ==
    /\ \A t \in p.winTo : d.start < t
    /\ \A t \in p.winFrom : d.start >= t \/ (d.end > d.start /\ d.end > t)

\* The second look at the window of a schedule, by filterCandidates.
Guard(p, d) ==
    (p.intent = "schedule" /\ (p.winFrom # {} \/ p.winTo # {})) => (d.start # 0 /\ calendarOverlaps(d, p))

-----------------------------------------------------------------------------
Queries == UNION {[1..n -> Token] : n \in 0..MaxTokens}

Init == /\ request \in [query : Queries, types : SUBSET Type,
                         from : Opt({Date.fromDate * Day}), to : Opt({Date.toDate * Day}),
                         participant : Opt({"field"})]
        /\ Cardinality(request.types) + Cardinality(request.from) + Cardinality(request.to)
             + Cardinality(request.participant) <= 1
        /\ now \in {8 * Day + 2, 13 * Day + 3} /\ zone \in {0, 1, -2}
        /\ at = "understand" /\ plan = NoPlan

\* Stage 1 and 2 of Search: a query that does not parse, or whose dates are
\* the wrong way round, is refused.
Understand ==
    LET p == understand(request)
        backwards == \E f \in p.from, t \in p.to : f > t
    IN  /\ at = "understand"
        /\ plan' = p
        /\ at' = IF p.syntaxError \/ backwards THEN "rejected" ELSE "scope"
        /\ UNCHANGED <<request, now, zone>>

\* Stage 2b; an empty text needs a filter or an intent.
Scope ==
    LET p == scopeQuery(plan)
    IN  /\ at = "scope"
        /\ plan' = p
        /\ at' = IF p.text = <<>> /\ ~hasFilters(p) /\ ~intentDrivenEmptyText(p)
                 THEN "rejected" ELSE "search"
        /\ UNCHANGED <<request, now, zone>>

Next == Understand \/ Scope
Spec == Init /\ [][Next]_vars

-----------------------------------------------------------------------------
(* Properties *)

TypeOK ==
    /\ at \in {"understand", "scope", "search", "rejected"}
    /\ plan \in [text : Seq(Token), types : SUBSET Type, from : Ticks, to : Ticks,
                 participant : Opt({"from:", "field"}), clauses : SUBSET {"\"quoted\"", "-other", "id-1"}, warned : BOOLEAN, syntaxError : BOOLEAN,
                 toExclusive : BOOLEAN, intent : Intent,
                 eventFrom : Ticks, eventTo : Ticks, winFrom : Ticks, winTo : Ticks]

\* Documents that differ in what a filter can ask for: mails and events that
\* were received early or late, events before, across and in every window.
Instant == {7 * Day + 1, 8 * Day, 8 * Day + 2, 9 * Day, 10 * Day + 3, 12 * Day, 12 * Day + 1, 13 * Day, 15 * Day}
Mail == [type : {"EMAIL"}, created : Instant, start : {0}, end : {0},
         from : {"from:", "field"}, has : SUBSET {"quoted", "other"} \cup {{"id-1"}}]
Event == [type : {"EVENT"}, created : {1, 12 * Day}, start : Instant, end : {0, 9 * Day, 16 * Day},
          from : {"from:", "field"}, has : {{"quoted"}, {"quoted", "id-1"}}]

\* The types and the dates the user gave, in a field or in the text.
AskedTypes == IF request.types # {} THEN request.types
              ELSE {DocType[t] : t \in ToSet(request.query) \cap DOMAIN DocType}
AskedFrom == IF request.from # {} THEN request.from
             ELSE {Date.after * Day : x \in {y \in {1} : Has(request.query, {"after:"})}}
AskedTo == IF request.to # {} THEN request.to
           ELSE {(Date.before + 1) * Day - 1 : x \in {y \in {1} : Has(request.query, {"before:"})}}

Within(d) ==
    IF d.type = "EVENT" /\ plan.eventFrom \cup plan.eventTo # {}
    THEN (\A t \in AskedTo : d.start <= t) /\ (\A t \in AskedFrom : d.start >= t \/ d.end > t)
    ELSE (\A t \in AskedTo : d.created <= t) /\ (\A t \in AskedFrom : d.created >= t)

\* "explicit source/date controls taking precedence": whatever intent and date
\* are read into the text, a document is only found if it is of a type, in the
\* range (of receipt, or of occurrence where a calendar is meant), from the
\* person and with and without the words that the user spelled out, an identifier
\* on its own among them.
ExplicitRespected ==
    at = "search" => \A d \in Mail \cup Event : buildYQL(plan, d) =>
        /\ AskedTypes # {} => d.type \in AskedTypes
        /\ Within(d)
        /\ request.participant \subseteq {d.from}
        /\ (request.participant = {} /\ Has(request.query, {"from:"})) => d.from = "from:"
        /\ Has(request.query, {"\"quoted\""}) => "quoted" \in d.has
        /\ Has(request.query, {"-other"}) => "other" \notin d.has
        /\ identifierLookup(request.query) => "id-1" \in d.has

\* The window a schedule lookup is about: the dates the user gave, else the
\* phrase, else from today on.
Occurs(d) ==
    LET phrases == {f \in ToSet(temporalPhrases) : Has(request.query, {f})}
    IN  IF AskedFrom \cup AskedTo # {}
        THEN (\A t \in AskedTo : d.start <= t) /\ (\A t \in AskedFrom : d.start >= t \/ d.end > t)
        ELSE IF phrases = {} THEN d.start >= startOfDay(now, zone) \/ d.end > startOfDay(now, zone)
        ELSE \A f \in parseTemporal(Residual(request.query)).phrases :
               LET w == window(f, now, zone) IN d.start < w.to /\ (d.start >= w.from \/ d.end > w.from)

\* A schedule lookup finds every event that takes place in the window, whenever
\* it was received and however long it has been going on, unless the user
\* asked for other words, people or types.
ScheduleComplete ==
    (at = "search" /\ plan.intent = "schedule" /\ plan.clauses = {} /\ plan.participant = {}) =>
        \A d \in Event : Occurs(d) => buildYQL(plan, d)

\* The second look, which only the personalised path takes, drops nothing that
\* the index found: "the post-retrieval guard that complements the Vespa
\* event_start filter".  A date phrase next to one bound of the user's is
\* excepted: the bound selects in the index, the phrase in the guard.
PhraseAndBound ==
    /\ parseTemporal(Residual(request.query)).phrases # {}
    /\ Cardinality(AskedFrom \cup AskedTo) = 1 /\ ~onlyCalendarTypes(AskedTypes)
GuardAgrees ==
    (at = "search" /\ ~PhraseAndBound) => \A d \in Event : buildYQL(plan, d) => Guard(plan, d)

\* A date phrase means whole days of the user's zone: today the one that now is
\* in, a week from Monday to Sunday, the weekend its last two days.
Meant(phrase, t) ==
    LET day == (t + zone) \div Day
        today == (now + zone) \div Day
    IN  CASE phrase = "today" -> day = today
          [] phrase = "tomorrow" -> day = today + 1
          [] phrase = "next week" -> day \div 7 = today \div 7 + 1
          [] phrase = "this weekend" -> day \div 7 = today \div 7 /\ day % 7 \in {5, 6}
          [] phrase = "rest of the week" -> day \div 7 = today \div 7 /\ day >= today
PhrasesMeanDays ==
    (at = "search" /\ AskedFrom \cup AskedTo = {}) =>
        \A f \in parseTemporal(Residual(request.query)).phrases : \A t \in 4 * Day..22 * Day :
            Meant(f, t) <=> ((\A x \in plan.winFrom : t >= x) /\ (\A x \in plan.winTo : t < x))
=============================================================================
