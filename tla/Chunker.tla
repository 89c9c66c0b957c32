------------------------------ MODULE Chunker ------------------------------
(***************************************************************************)
(* How ingest cuts a document's body into chunks (ingest/chunker.go): a    *)
(* mail is split into sections at its quoted replies, a section into       *)
(* windows that overlap, a chat message or an event is one chunk.          *)
(*                                                                         *)
(* A body is a sequence of bytes of these kinds: "w" a letter, "_" a blank *)
(* and "n" a newline, "r" the first and "c" the second byte of a letter of *)
(* two bytes, ">" the sign of a quotation, and "m" a letter that, at the   *)
(* head of a line, makes the line an attribution ("On ... wrote:").        *)
(* Offsets count from 0; the byte at offset i is body[i + 1].              *)
(***************************************************************************)
EXTENDS Integers, Sequences, FiniteSets, SequenceTheorems, WellFoundedInduction, TLAPS

CONSTANTS chunkWindow,    \* chunkWindowBytes
          chunkOverlap,   \* chunkOverlapBytes
          maxChunks,      \* maxChunksPerDoc
          singleCap,      \* singleChunkCapBytes
          MaxBody         \* bound: bytes of a body

\* The longest letter has fewer bytes than a window; a window is longer than
\* what it repeats of the one before.
ASSUME WindowAssumption ==
    /\ chunkWindow \in Nat /\ chunkWindow > 1
    /\ chunkOverlap \in Nat /\ chunkOverlap + 1 < chunkWindow
    /\ maxChunks \in Nat \ {0} /\ singleCap \in Nat \ {0} /\ MaxBody \in Nat

Kind == {"message", "mail", "file"}

\* What the cutting of a body of each kind can tell apart.
Byte(t) == IF t = "mail" THEN {"w", "n", ">", "m"} ELSE {"w", "_", "n", "r", "c"}
Whole(b) ==
    \A i \in 1..Len(b) : /\ b[i] = "c" => (i > 1 /\ b[i - 1] = "r")
                         /\ b[i] = "r" => (i < Len(b) /\ b[i + 1] = "c")
Body(t) == {b \in UNION {[1..n -> Byte(t)] : n \in 0..MaxBody} : Whole(b)}

VARIABLES type, body,
          at,          \* "begin", "window", "cap", "done"
          start,       \* where the next window begins
          secEnd,      \* end of the section that is being cut
          spans,       \* the chunks so far, [start, end)
          truncated

vars == <<type, body, at, start, secEnd, spans, truncated>>

LastOf(S) == CHOOSE i \in S : \A j \in S : j <= i
FirstOf(S) == CHOOSE i \in S : \A j \in S : i <= j

-----------------------------------------------------------------------------
(* Bytes and lines *)

RuneStart(i) == i = Len(body) \/ body[i + 1] # "c"
isSpaceByte(i) == body[i + 1] \in {"_", "n"}

LineStart(i) == i = 0 \/ body[i] = "n"
LineEnd(i) == FirstOf({j \in i..Len(body) : j = Len(body) \/ body[j + 1] = "n"})
InLine(i) == i..LineEnd(i) - 1
Blank(i) == \A j \in InLine(i) : body[j + 1] = "_"
marker(i) == InLine(i) # {} /\ body[i + 1] = "m"
quoted(i) == \E j \in InLine(i) : body[j + 1] = ">" /\ \A k \in i..j - 1 : body[k + 1] = "_"

Text(i) == LineStart(i) /\ ~Blank(i)
prevSticky(i) ==
    LET before == {j \in 0..i - 1 : Text(j)}
    IN  before # {} /\ (quoted(LastOf(before)) \/ marker(LastOf(before)))

\* A section of a mail, but for the first, begins at i.
emailSection(i) == i > 0 /\ i < Len(body) /\ Text(i) /\ (marker(i) \/ (quoted(i) /\ ~prevSticky(i)))

\* The end of the section that begins at p.
SectionEnd(p) ==
    FirstOf({b \in p + 1..Len(body) : b = Len(body) \/ (type = "mail" /\ emailSection(b))})

-----------------------------------------------------------------------------
(* Windows *)

\* Where a window that begins at p and goes no further than `limit' may end:
\* after a blank line, a line or a word, and beyond the overlap.
Past(p, limit) == p + chunkOverlap + 1..limit
Paragraphs(p, limit) == {i \in Past(p, limit) : i > p + 1 /\ body[i] = "n" /\ body[i - 1] = "n"}
LineBreaks(p, limit) == {i \in Past(p, limit) : body[i] = "n"}
WordBreaks(p, limit) == {i \in Past(p, limit) : body[i] = "_"}

HardLimit(p) == LastOf({i \in p..p + chunkWindow : i = p \/ RuneStart(i)})

cutPoint(p, end) ==
    LET limit == HardLimit(p)
    IN  IF end - p <= chunkWindow THEN end
        ELSE IF Paragraphs(p, limit) # {} THEN LastOf(Paragraphs(p, limit))
        ELSE IF LineBreaks(p, limit) # {} THEN LastOf(LineBreaks(p, limit))
        ELSE IF WordBreaks(p, limit) # {} THEN LastOf(WordBreaks(p, limit))
        ELSE limit

\* The words that begin in from..limit-1, behind the one `from' is inside of.
WordStarts(from, limit) ==
    IF from = 0 THEN {}
    ELSE IF isSpaceByte(from - 1) \/ isSpaceByte(from) THEN {}
    ELSE {i \in from + 1..limit - 1 : ~isSpaceByte(i) /\ isSpaceByte(i - 1)}

\* Mutant: the next window begins an overlap behind this one.
nextWindowStartPast(p, end) ==
    IF end + chunkOverlap < secEnd THEN end + chunkOverlap ELSE end

nextWindowStart(p, end) ==
    LET from == IF end - chunkOverlap <= p THEN p + 1 ELSE end - chunkOverlap
        next == FirstOf({i \in from..end : i = end \/ RuneStart(i)})
        words == WordStarts(next, end)
    IN  IF words # {} THEN FirstOf(words) ELSE next

truncateRuneSafe(limit) ==
    IF Len(body) <= limit THEN Len(body)
    ELSE LastOf({i \in 0..limit : i = 0 \/ RuneStart(i)})

-----------------------------------------------------------------------------
(* buildChunks *)

Init == /\ type \in Kind /\ body \in Body(type)
        /\ at = "begin" /\ start = 0 /\ secEnd = 0 /\ spans = <<>> /\ truncated = FALSE

Span(a, b) == [start |-> a, end |-> b]

\* An empty body has no chunks, a message or an event has one.
Begin ==
    /\ at = "begin"
    /\ \/ body = <<>> /\ at' = "done" /\ UNCHANGED <<secEnd, spans>>
       \/ /\ body # <<>> /\ type = "message"
          /\ spans' = <<Span(0, truncateRuneSafe(singleCap))>> /\ at' = "cap"
          /\ UNCHANGED secEnd
       \/ /\ body # <<>> /\ type # "message"
          /\ secEnd' = SectionEnd(0) /\ at' = "window"
          /\ UNCHANGED spans
    /\ UNCHANGED <<type, body, start, truncated>>

\* One turn of the loop of appendWindowSpans, and the step to the next section.
appendWindowSpans ==
    LET end == cutPoint(start, secEnd) IN
    /\ at = "window"
    /\ spans' = Append(spans, Span(start, end))
    /\ \/ end < secEnd /\ start' = nextWindowStart(start, end) /\ UNCHANGED <<at, secEnd>>
       \/ /\ end >= secEnd /\ secEnd < Len(body)
          /\ start' = secEnd /\ secEnd' = SectionEnd(secEnd) /\ UNCHANGED at
       \/ end >= secEnd /\ secEnd = Len(body) /\ at' = "cap" /\ UNCHANGED <<start, secEnd>>
    /\ UNCHANGED <<type, body, truncated>>

Cap ==
    /\ at = "cap" /\ at' = "done"
    /\ truncated' = (Len(spans) > maxChunks)
    /\ spans' = SubSeq(spans, 1, IF truncated' THEN maxChunks ELSE Len(spans))
    /\ UNCHANGED <<type, body, start, secEnd>>

Next == Begin \/ appendWindowSpans \/ Cap
Spec == Init /\ [][Next]_vars

-----------------------------------------------------------------------------
(* Properties *)

Offset == 0..Len(body)
TypeOK ==
    /\ type \in Kind /\ body \in Seq(Byte(type))
    /\ at \in {"begin", "window", "cap", "done"}
    /\ start \in Offset /\ secEnd \in Offset /\ truncated \in BOOLEAN
    /\ spans \in Seq([start : Offset, end : Offset])

In(i, s) == s.start <= i /\ i < s.end
Chunked(i) == \E k \in DOMAIN spans : In(i, spans[k])

\* "no byte of the body is skipped": the chunks of a mail or a file hold every
\* byte of the body, and those of a document that was cut off at the cap, like
\* the windows so far, every byte in front of the end of the last.
NothingSkipped ==
    type # "message" =>
        /\ \A i \in 0..Len(body) - 1 :
               (\E k \in DOMAIN spans : i < spans[k].end) => Chunked(i)
        /\ at = "done" /\ ~truncated => \A i \in 0..Len(body) - 1 : Chunked(i)

\* A chunk is not empty, begins and ends between two letters ("every chunk is
\* valid UTF-8"), and is no longer than a window, or than the cap of a message;
\* and there are no more of them than the cap.
WellCut ==
    /\ \A k \in DOMAIN spans :
          LET s == spans[k] IN
          /\ RuneStart(s.start) /\ RuneStart(s.end)
          /\ type # "message" => s.start < s.end
          /\ s.end - s.start <= IF type = "message" THEN singleCap ELSE chunkWindow
    /\ at = "done" => Len(spans) <= maxChunks

\* "windows never span sections": no chunk of a mail has bytes of two sections.
SectionsApart ==
    type = "mail" => \A k \in DOMAIN spans :
                        \A b \in spans[k].start + 1..spans[k].end - 1 : ~emailSection(b)

\* "so the next window always advances": both ends of the windows move on, so
\* no chunk is a part of the one before, and the cutting ends.
Advances ==
    \A k \in DOMAIN spans \ {1} :
        spans[k - 1].start < spans[k].start /\ spans[k - 1].end < spans[k].end

\* The chunks of a body cover it: no byte is skipped, every chunk is well cut,
\* none spans two sections of a mail, and each advances on the one before
\* (buildChunks and appendWindowSpans).
TextCovered == NothingSkipped /\ WellCut /\ SectionsApart /\ Advances

-----------------------------------------------------------------------------
(* Proofs, for any window, overlap and caps and a body of any length: the    *)
(* chunks cover the text.                                                    *)
(*                                                                           *)
(* TextCovered speaks of the chunks that are cut; what makes it inductive is *)
(* where the next window begins: behind the start of the last chunk, not     *)
(* behind its end, and no more than the overlap in front of it, so that the  *)
(* next chunk leaves no gap and still ends further on.                       *)

-----------------------------------------------------------------------------
(* The first and the last of a set of offsets *)

LEMMA NatMin ==
  ASSUME NEW T \in SUBSET Nat, T # {}
  PROVE  \E m \in T : \A k \in T : m <= k
<1> DEFINE R == OpToRel(<, Nat)
<1>1. IsWellFoundedOn(R, Nat)
  BY NatLessThanWellFounded, Zenon
<1>2. \A k, m \in Nat : k < m => <<k, m>> \in R
  BY DEF OpToRel
<1> HIDE DEF R
<1>3. PICK m \in T : \A k \in T : ~ (<<k, m>> \in R)
  BY <1>1, WFMin, Zenon
<1>4. \A k \in T : m <= k
  <2> TAKE k \in T
  <2>1. ~(k < m)
    BY <1>2, <1>3, Zenon
  <2> QED
    BY <2>1
<1> QED
  BY <1>4

LEMMA First ==
  ASSUME NEW T \in SUBSET Nat, T # {}
  PROVE  FirstOf(T) \in T /\ \A k \in T : FirstOf(T) <= k
BY NatMin, Zenon DEF FirstOf

LEMMA Last ==
  ASSUME NEW b \in Nat, NEW T \in SUBSET (0..b), T # {}
  PROVE  LastOf(T) \in T /\ \A k \in T : k <= LastOf(T)
<1> DEFINE U == {b - k : k \in T}
<1>1. U \in SUBSET Nat /\ U # {}
  <2>1. \A k \in T : k \in 0..b
    OBVIOUS
  <2>2. \A k \in T : b - k \in Nat
    BY <2>1
  <2> QED
    BY <2>2, Zenon
<1>2. PICK u \in U : \A v \in U : u <= v
  <2> HIDE DEF U
  <2> QED
    BY <1>1, NatMin
<1>3. PICK m \in T : u = b - m
  OBVIOUS
<1>4. \A k \in T : k <= m
  <2> TAKE k \in T
  <2>1. b - k \in U
    OBVIOUS
  <2>2. u <= b - k
    BY <1>2, <2>1
  <2> QED
    BY <1>3, <2>2
<1> QED
  BY <1>4, Zenon DEF LastOf

-----------------------------------------------------------------------------
(* Letters *)

\* A body of one of the kinds, of any length.
Text0 == type \in Kind /\ body \in Seq(Byte(type)) /\ Whole(body)

LEMMA BodyLength ==
  ASSUME Text0
  PROVE  Len(body) \in Nat
BY DEF Text0

LEMMA NotTheLast ==
  ASSUME NEW n \in Nat, NEW i \in 1..n, i # n
  PROVE  i + 1 \in 1..n /\ (i + 1) - 1 = i
OBVIOUS

LEMMA RuneZero ==
  ASSUME Text0
  PROVE  RuneStart(0)
BY DEF Text0, RuneStart, Whole

\* Of two neighbouring offsets, one is between two letters.
LEMMA RuneNeighbour ==
  ASSUME Text0, NEW i \in 1..Len(body), ~RuneStart(i)
  PROVE  RuneStart(i - 1)
<1>1. i < Len(body) /\ body[i + 1] = "c"
  BY DEF RuneStart, Text0
<1>2. body[i] = "r"
  BY <1>1 DEF Text0, Whole
<1> QED
  BY <1>2 DEF RuneStart

\* Behind a blank or a newline, a letter begins.
LEMMA RuneAfterSpace ==
  ASSUME Text0, NEW i \in 1..Len(body), body[i] \in {"_", "n"}
  PROVE  RuneStart(i)
<1> SUFFICES ASSUME i # Len(body) PROVE body[i + 1] # "c"
  BY Zenon DEF RuneStart
<1>2. i + 1 \in 1..Len(body) /\ (i + 1) - 1 = i
  BY BodyLength, NotTheLast, Zenon
<1>3. body[i + 1] = "c" => body[(i + 1) - 1] = "r"
  BY <1>2, Zenon DEF Text0, Whole
<1> QED
  BY <1>2, <1>3, Zenon

-----------------------------------------------------------------------------
(* Sections *)

LEMMA SectionCut ==
  ASSUME Text0, NEW p \in 0..Len(body) - 1
  PROVE  /\ SectionEnd(p) \in p + 1..Len(body)
         /\ RuneStart(SectionEnd(p))
         /\ type = "mail" => \A b \in p + 1..SectionEnd(p) - 1 : ~emailSection(b)
<1> DEFINE T == {b \in p + 1..Len(body) : b = Len(body) \/ (type = "mail" /\ emailSection(b))}
<1>0. Len(body) \in Nat
  BY DEF Text0
<1>1. T \in SUBSET Nat /\ Len(body) \in T
  BY <1>0
<1>2. SectionEnd(p) = FirstOf(T)
  BY DEF SectionEnd
<1>3. FirstOf(T) \in T /\ \A k \in T : FirstOf(T) <= k
  <2> HIDE DEF T
  <2> QED
    BY <1>1, First
<1>4. SectionEnd(p) \in p + 1..Len(body)
  BY <1>2, <1>3
<1>5. RuneStart(SectionEnd(p))
  <2>1. CASE SectionEnd(p) = Len(body)
    BY <2>1 DEF RuneStart
  <2>2. CASE type = "mail" /\ SectionEnd(p) # Len(body)
    BY <1>0, <1>4, <2>2 DEF RuneStart, Text0, Byte
  <2> QED
    BY <1>2, <1>3, <2>1, <2>2
<1>6. ASSUME type = "mail", NEW b \in p + 1..SectionEnd(p) - 1, emailSection(b) PROVE FALSE
  <2>1. b \in T
    BY <1>0, <1>4, <1>6
  <2>2. SectionEnd(p) <= b
    BY <1>2, <1>3, <2>1
  <2> QED
    BY <1>0, <1>4, <2>2
<1> QED
  BY <1>4, <1>5, <1>6

-----------------------------------------------------------------------------
(* Windows *)

\* The hard limit of a window that does not reach the end of the body takes no
\* more than one byte off it.
LEMMA HardLimitCut ==
  ASSUME Text0, NEW p \in Nat, p + chunkWindow < Len(body)
  PROVE  /\ HardLimit(p) \in p + chunkWindow - 1..p + chunkWindow
         /\ RuneStart(HardLimit(p))
<1> DEFINE b == p + chunkWindow
           T == {i \in p..p + chunkWindow : i = p \/ RuneStart(i)}
<1>0. b \in Nat /\ b - 1 \in Nat /\ b - 1 > p /\ Len(body) \in Nat
  BY WindowAssumption DEF Text0
<1>1. T \in SUBSET (0..b) /\ T # {}
  <2>1. p \in T
    BY <1>0
  <2>2. \A i \in p..p + chunkWindow : i \in 0..b
    BY <1>0
  <2> QED
    BY <2>1, <2>2
<1>2. HardLimit(p) = LastOf(T)
  BY DEF HardLimit
<1>3. LastOf(T) \in T /\ \A k \in T : k <= LastOf(T)
  <2> HIDE DEF T, b
  <2> QED
    BY <1>0, <1>1, Last, Zenon
<1>4. b \in T \/ b - 1 \in T
  <2>1. CASE RuneStart(b)
    BY <1>0, <2>1
  <2>2. CASE ~RuneStart(b)
    <3>1. RuneStart(b - 1)
      BY <1>0, <2>2, RuneNeighbour
    <3> QED
      BY <1>0, <3>1
  <2> QED
    BY <2>1, <2>2
<1>5. LastOf(T) \in b - 1..b
  BY <1>0, <1>3, <1>4
<1>6. RuneStart(LastOf(T))
  BY <1>0, <1>3, <1>5
<1> HIDE DEF T
<1> QED
  BY <1>2, <1>5, <1>6, WindowAssumption

LEMMA PastInside ==
  ASSUME Text0, NEW p \in Nat, NEW limit \in Nat, limit < Len(body)
  PROVE  \A i \in Past(p, limit) : i \in 1..Len(body) /\ i \in 0..limit
<1>1. Len(body) \in Nat /\ chunkOverlap \in Nat
  BY BodyLength, WindowAssumption
<1> QED
  BY <1>1 DEF Past

\* The last of the breaks in front of a limit is a place to cut.
LEMMA BreakCut ==
  ASSUME Text0, NEW p \in Nat, NEW limit \in Nat, limit < Len(body),
         NEW T \in SUBSET Past(p, limit), T # {},
         \A i \in T : body[i] \in {"_", "n"}
  PROVE  LastOf(T) \in Past(p, limit) /\ RuneStart(LastOf(T))
<1>1. \A i \in Past(p, limit) : i \in 1..Len(body) /\ i \in 0..limit
  BY PastInside, Zenon
<1>2. LastOf(T) \in T
  <2>1. T \in SUBSET (0..limit)
    BY <1>1, Zenon
  <2> QED
    BY <2>1, Last, Zenon
<1>3. LastOf(T) \in 1..Len(body)
  BY <1>1, <1>2, Zenon
<1> QED
  BY <1>2, <1>3, RuneAfterSpace, Zenon

\* A window goes to the end of the section, or ends between two letters behind
\* what it may share with the next one.
LEMMA WindowCut ==
  ASSUME Text0, NEW p \in Nat, NEW end \in Nat, p < end, end <= Len(body), RuneStart(end)
  PROVE  LET e == cutPoint(p, end) IN
         /\ e \in p + 1..end /\ e - p <= chunkWindow /\ RuneStart(e)
         /\ e < end => e >= p + chunkOverlap + 1
<1> DEFINE limit == HardLimit(p)
           P == Paragraphs(p, limit)
           L == LineBreaks(p, limit)
           W == WordBreaks(p, limit)
<1>0. Len(body) \in Nat
  BY DEF Text0
<1>1. CASE end - p <= chunkWindow
  <2>1. cutPoint(p, end) = end
    BY <1>1 DEF cutPoint
  <2> QED
    BY <1>1, <2>1
<1>2. CASE ~(end - p <= chunkWindow)
  <2>1. p + chunkWindow < end /\ p + chunkWindow < Len(body)
    BY <1>0, <1>2, WindowAssumption
  <2>2. limit \in p + chunkWindow - 1..p + chunkWindow /\ RuneStart(limit)
    BY <2>1, HardLimitCut
  <2>3. limit \in Nat /\ limit < Len(body) /\ limit \in Past(p, limit)
    BY <1>0, <2>1, <2>2, WindowAssumption DEF Past
  <2>4. cutPoint(p, end) = IF P # {} THEN LastOf(P)
                           ELSE IF L # {} THEN LastOf(L)
                           ELSE IF W # {} THEN LastOf(W)
                           ELSE limit
    BY <1>2 DEF cutPoint
  <2>5. /\ P \in SUBSET Past(p, limit) /\ \A i \in P : body[i] \in {"_", "n"}
        /\ L \in SUBSET Past(p, limit) /\ \A i \in L : body[i] \in {"_", "n"}
        /\ W \in SUBSET Past(p, limit) /\ \A i \in W : body[i] \in {"_", "n"}
    BY Zenon DEF Paragraphs, LineBreaks, WordBreaks
  <2> HIDE DEF limit, P, L, W
  <2>6. P # {} => LastOf(P) \in Past(p, limit) /\ RuneStart(LastOf(P))
    BY <2>3, <2>5, BreakCut, Zenon
  <2>7. L # {} => LastOf(L) \in Past(p, limit) /\ RuneStart(LastOf(L))
    BY <2>3, <2>5, BreakCut, Zenon
  <2>8. W # {} => LastOf(W) \in Past(p, limit) /\ RuneStart(LastOf(W))
    BY <2>3, <2>5, BreakCut, Zenon
  <2>9. cutPoint(p, end) \in Past(p, limit) /\ RuneStart(cutPoint(p, end))
    BY <2>2, <2>3, <2>4, <2>6, <2>7, <2>8
  <2> QED
    BY <2>1, <2>2, <2>3, <2>9, WindowAssumption DEF Past
<1> QED
  BY <1>1, <1>2

\* The next window begins in the part that this one may share with it, between
\* two letters.
LEMMA NextStart ==
  ASSUME Text0, NEW p \in Nat, NEW end \in Nat, p + chunkOverlap + 1 <= end,
         end < Len(body), RuneStart(end)
  PROVE  LET s == nextWindowStart(p, end) IN
         /\ s \in p + 1..end /\ end <= s + chunkOverlap /\ RuneStart(s)
<1> DEFINE from == end - chunkOverlap
           T == {i \in from..end : i = end \/ RuneStart(i)}
           next == FirstOf(T)
           words == WordStarts(next, end)
<1>0. Len(body) \in Nat /\ from \in Nat /\ from \in p + 1..end
  BY WindowAssumption DEF Text0
<1>1. (IF end - chunkOverlap <= p THEN p + 1 ELSE end - chunkOverlap) = from
  BY WindowAssumption
<1>2. nextWindowStart(p, end) = IF words # {} THEN FirstOf(words) ELSE next
  BY <1>1, Zenon DEF nextWindowStart
<1>3. T \in SUBSET Nat /\ T # {} /\ T \in SUBSET (from..end) /\ \A i \in T : RuneStart(i)
  BY <1>0
<1>4. next \in T
  <2> HIDE DEF T
  <2> QED
    BY <1>3, First
<1>5. next \in from..end /\ RuneStart(next)
  <2> HIDE DEF T
  <2> QED
    BY <1>3, <1>4, Zenon
<1>6. ASSUME words # {} PROVE FirstOf(words) \in next + 1..end - 1 /\ RuneStart(FirstOf(words))
  <2> HIDE DEF next, from, T
  <2>1. words \in SUBSET (next + 1..end - 1) /\ \A i \in words : isSpaceByte(i - 1)
    BY DEF WordStarts
  <2>2. words \in SUBSET Nat
    BY <1>0, <1>5, <2>1
  <2>3. FirstOf(words) \in words
    <3> HIDE DEF words
    <3> QED
      BY <1>6, <2>2, First
  <2>4. FirstOf(words) \in next + 1..end - 1 /\ isSpaceByte(FirstOf(words) - 1)
    <3> HIDE DEF words
    <3> QED
      BY <2>1, <2>3, Zenon
  <2> DEFINE f == FirstOf(words)
  <2> HIDE DEF f, words
  <2>5. f \in 1..Len(body) /\ body[f] \in {"_", "n"}
    <3>1. f \in next + 1..end - 1 /\ isSpaceByte(f - 1)
      BY <2>4 DEF f
    <3>2. f \in 1..Len(body) /\ (f - 1) + 1 = f
      BY <1>0, <1>5, <3>1
    <3> QED
      BY <3>1, <3>2, Zenon DEF isSpaceByte
  <2>6. RuneStart(f)
    BY <2>5, RuneAfterSpace, Zenon
  <2> QED
    BY <2>4, <2>6 DEF f
<1>7. CASE words # {}
  <2> HIDE DEF words, next, T
  <2>1. nextWindowStart(p, end) = FirstOf(words)
    BY <1>2, <1>7
  <2> QED
    BY <1>0, <1>5, <1>6, <1>7, <2>1, WindowAssumption
<1>8. CASE words = {}
  <2> HIDE DEF words, next, T
  <2>1. nextWindowStart(p, end) = next
    BY <1>2, <1>8
  <2> QED
    BY <1>0, <1>5, <2>1, WindowAssumption
<1> QED
  BY <1>7, <1>8, Zenon

\* A message that is cut is cut between two letters.
LEMMA MessageCut ==
  ASSUME Text0
  PROVE  LET e == truncateRuneSafe(singleCap) IN
         e \in 0..Len(body) /\ e <= singleCap /\ RuneStart(e)
<1> DEFINE T == {i \in 0..singleCap : i = 0 \/ RuneStart(i)}
<1>0. Len(body) \in Nat /\ singleCap \in Nat
  BY WindowAssumption DEF Text0
<1>1. CASE Len(body) <= singleCap
  <2>1. truncateRuneSafe(singleCap) = Len(body)
    BY <1>1 DEF truncateRuneSafe
  <2> QED
    BY <1>0, <1>1, <2>1 DEF RuneStart
<1>2. CASE ~(Len(body) <= singleCap)
  <2>1. truncateRuneSafe(singleCap) = LastOf(T)
    BY <1>2 DEF truncateRuneSafe
  <2>2. T \in SUBSET (0..singleCap) /\ 0 \in T /\ \A i \in T : RuneStart(i)
    BY <1>0, RuneZero
  <2> HIDE DEF T
  <2>3. LastOf(T) \in T
    BY <1>0, <2>2, Last, Zenon
  <2>4. LastOf(T) \in 0..singleCap /\ RuneStart(LastOf(T))
    BY <2>2, <2>3, Zenon
  <2> QED
    BY <1>0, <1>2, <2>1, <2>4
<1> QED
  BY <1>1, <1>2

-----------------------------------------------------------------------------
(* The inductive invariant *)

\* A chunk by itself.
Chunk(s) ==
    /\ s.end <= Len(body) /\ RuneStart(s.start) /\ RuneStart(s.end)
    /\ type # "message" => s.start < s.end
    /\ s.end - s.start <= IF type = "message" THEN singleCap ELSE chunkWindow
    /\ type = "mail" => \A b \in s.start + 1..s.end - 1 : ~emailSection(b)

\* The next window: in one section, right behind or overlapping the last chunk.
Window ==
    /\ type # "message"
    /\ start \in Nat /\ secEnd \in Nat /\ start < secEnd /\ secEnd <= Len(body)
    /\ RuneStart(start) /\ RuneStart(secEnd)
    /\ type = "mail" => \A b \in start + 1..secEnd - 1 : ~emailSection(b)
    /\ spans = <<>> => start = 0
    /\ spans # <<>> => LET s == spans[Len(spans)] IN
                       /\ s.start < start /\ start <= s.end
                       /\ s.end <= start + chunkOverlap /\ s.end < secEnd

\* Every byte in front of the end of a chunk is in that chunk or an earlier one.
Covered ==
    type # "message" =>
        \A k \in 1..Len(spans) : \A i \in Nat :
            i < spans[k].end => \E j \in 1..k : In(i, spans[j])

ToTheEnd == spans # <<>> /\ (type # "message" => spans[Len(spans)].end = Len(body))

Finished ==
    /\ Len(spans) <= maxChunks
    /\ type # "message" /\ ~truncated => \A i \in 0..Len(body) - 1 : Chunked(i)

Chunks == /\ spans \in Seq([start : Nat, end : Nat])
          /\ \A k \in 1..Len(spans) : Chunk(spans[k])
          /\ Covered /\ Advances

IInv == /\ Text0 /\ Chunks
        /\ at \in {"begin", "window", "cap", "done"}
        /\ at = "begin" => spans = <<>> /\ start = 0
        /\ at = "window" => Window
        /\ at = "cap" => ToTheEnd
        /\ at = "done" => Finished

LEMMA SameSections ==
  ASSUME UNCHANGED <<type, body>>
  PROVE  \A b : emailSection(b)' <=> emailSection(b)
<1>1. body' = body
  OBVIOUS
<1>2. ASSUME NEW i PROVE LineEnd(i)' = LineEnd(i)
  <2> DEFINE S == {j \in i..Len(body) : j = Len(body) \/ body[j + 1] = "n"}
  <2>1. S' = S
    BY <1>1
  <2>2. LineEnd(i) = FirstOf(S) /\ LineEnd(i)' = FirstOf(S')
    BY DEF LineEnd
  <2> HIDE DEF S
  <2> QED
    BY <2>1, <2>2
<1>3. ASSUME NEW i
      PROVE  /\ InLine(i)' = InLine(i)
             /\ LineStart(i)' <=> LineStart(i)
  BY <1>1, <1>2 DEF InLine, LineStart
<1>4. ASSUME NEW i
      PROVE  /\ Blank(i)' <=> Blank(i)
             /\ marker(i)' <=> marker(i)
             /\ quoted(i)' <=> quoted(i)
  BY <1>1, <1>3, Zenon DEF Blank, marker, quoted
<1>5. ASSUME NEW i PROVE Text(i)' <=> Text(i)
  BY <1>3, <1>4 DEF Text
<1>6. ASSUME NEW i PROVE prevSticky(i)' <=> prevSticky(i)
  <2> DEFINE S == {j \in 0..i - 1 : Text(j)}
  <2>1. S' = S
    BY <1>5
  <2>2. /\ prevSticky(i) <=> S # {} /\ (quoted(LastOf(S)) \/ marker(LastOf(S)))
        /\ prevSticky(i)' <=> S' # {} /\ (quoted(LastOf(S))' \/ marker(LastOf(S))')
    BY DEF prevSticky
  <2> HIDE DEF S
  <2> QED
    BY <1>4, <2>1, <2>2
<1> QED
  BY <1>1, <1>4, <1>5, <1>6 DEF emailSection

\* Two neighbouring chunks of a prefix are neighbours in the whole.
LEMMA PrefixChunks ==
  ASSUME Text0, Chunks, UNCHANGED <<type, body>>, NEW m \in 0..Len(spans),
         spans' = SubSeq(spans, 1, m)
  PROVE  Text0' /\ Chunks'
<1>0. spans \in Seq([start : Nat, end : Nat]) /\ Len(spans) \in Nat
  BY DEF Chunks
<1>1. /\ spans' \in Seq([start : Nat, end : Nat]) /\ Len(spans') = m
      /\ \A k \in 1..m : spans'[k] = spans[k]
  <2> DEFINE S == [start : Nat, end : Nat]
  <2>1. spans \in Seq(S) /\ 1 \in 1..Len(spans) + 1 /\ m \in 1 - 1..Len(spans)
    BY <1>0
  <2> HIDE DEF S
  <2>2. /\ SubSeq(spans, 1, m) \in Seq(S) /\ Len(SubSeq(spans, 1, m)) = m
        /\ \A k \in 1..m : SubSeq(spans, 1, m)[k] = spans[k]
    BY <1>0, <2>1
  <2> QED
    BY <2>2 DEF S
<1>2. (\A k \in 1..Len(spans) : Chunk(spans[k]))'
  BY <1>1, SameSections, SMTT(30) DEF Chunks, Chunk, RuneStart
<1>3. Covered'
  <2> SUFFICES ASSUME type # "message", NEW k \in 1..m, NEW i \in Nat, i < spans'[k].end
               PROVE  \E j \in 1..k : In(i, spans'[j])
    BY <1>1, Zenon DEF Covered
  <2>1. k \in 1..Len(spans) /\ \A j \in 1..k : spans'[j] = spans[j]
    BY <1>0, <1>1, SMTT(30)
  <2>2. i < spans[k].end
    BY <2>1
  <2>3. PICK j \in 1..k : In(i, spans[j])
    BY <2>1, <2>2, Zenon DEF Chunks, Covered
  <2> QED
    BY <2>1, <2>3
<1>4. Advances'
  <2> SUFFICES ASSUME NEW k \in 1..m, k # 1
               PROVE  spans'[k - 1].start < spans'[k].start /\ spans'[k - 1].end < spans'[k].end
    <3>1. (DOMAIN spans)' = 1..m
      BY <1>1
    <3> QED
      BY <3>1, SMTT(30) DEF Advances
  <2>1. k \in DOMAIN spans \ {1} /\ spans'[k - 1] = spans[k - 1] /\ spans'[k] = spans[k]
    BY <1>0, <1>1
  <2> QED
    BY <2>1, Zenon DEF Chunks, Advances
<1> QED
  BY <1>1, <1>2, <1>3, <1>4 DEF Chunks, Text0

\* One more chunk, at the place of the next window.
LEMMA OneMoreChunk ==
  ASSUME Text0, Chunks, Window, UNCHANGED <<type, body>>,
         NEW e \in Nat, spans' = Append(spans, Span(start, e)),
         start < e, e <= secEnd, e - start <= chunkWindow, RuneStart(e),
         e < secEnd => e >= start + chunkOverlap + 1
  PROVE  /\ Text0' /\ Chunks'
         /\ spans' # <<>> /\ spans'[Len(spans')] = Span(start, e)
<1> DEFINE n == Len(spans)
           s == Span(start, e)
<1>0. spans \in Seq([start : Nat, end : Nat]) /\ n \in Nat /\ Len(body) \in Nat
  BY DEF Chunks, Text0
<1>1. s \in [start : Nat, end : Nat] /\ s.start = start /\ s.end = e
  BY DEF Window, Span
<1>2. /\ spans' \in Seq([start : Nat, end : Nat]) /\ Len(spans') = n + 1
      /\ \A k \in 1..n : spans'[k] = spans[k]
      /\ spans'[n + 1] = s
  <2> HIDE DEF s
  <2> QED
    BY <1>0, <1>1 DEF s
<1>3. Chunk(s)
  BY <1>0, <1>1 DEF Window, Chunk
<1>4. n > 0 => spans[n].start < start /\ spans[n].end < e /\ start <= spans[n].end
  <2> SUFFICES ASSUME n > 0
               PROVE  spans[n].start < start /\ spans[n].end < e /\ start <= spans[n].end
    OBVIOUS
  <2>1. spans # <<>> /\ spans[n].end \in Nat /\ spans[n].start \in Nat
    <3>1. n \in 1..Len(spans) /\ spans # <<>>
      BY <1>0
    <3>2. spans[n] \in [start : Nat, end : Nat]
      BY <1>0, <3>1, ElementOfSeq, Zenon
    <3> QED
      BY <3>1, <3>2
  <2> QED
    BY <2>1, WindowAssumption DEF Window
<1>5. n = 0 => start = 0
  BY <1>0 DEF Window
<1> HIDE DEF s
<1>6. \A k \in 1..Len(spans') : Chunk(spans'[k])
  BY <1>0, <1>2, <1>3 DEF Chunks
<1>7. (\A k \in 1..Len(spans) : Chunk(spans[k]))'
  BY <1>6, SameSections DEF Chunk, RuneStart
<1>8. Covered'
  <2> SUFFICES ASSUME type # "message", NEW k \in 1..n + 1, NEW i \in Nat, i < spans'[k].end
               PROVE  \E j \in 1..k : In(i, spans'[j])
    BY <1>2, Zenon DEF Covered
  <2>1. CASE k \in 1..n
    <3>1. PICK j \in 1..k : In(i, spans[j])
      BY <1>0, <1>2, <2>1, SMTT(30) DEF Chunks, Covered
    <3> QED
      BY <1>0, <1>2, <2>1, <3>1, SMTT(30)
  <2>2. CASE k = n + 1 /\ start <= i
    BY <1>0, <1>1, <1>2, <2>2 DEF In
  <2>3. CASE k = n + 1 /\ ~(start <= i)
    <3>1. start \in Nat /\ i < start
      BY <2>3 DEF Window
    <3>2. n > 0 /\ n \in 1..Len(spans) /\ spans[n].end \in Nat
      <4>1. n > 0 /\ n \in 1..Len(spans)
        BY <1>0, <1>5, <3>1, SMTT(30)
      <4>2. spans[n] \in [start : Nat, end : Nat]
        BY <1>0, <4>1, ElementOfSeq, Zenon
      <4> QED
        BY <4>1, <4>2
    <3>3. i < spans[n].end
      BY <1>4, <3>1, <3>2
    <3>4. PICK j \in 1..n : In(i, spans[j])
      BY <3>2, <3>3, Zenon DEF Chunks, Covered
    <3> QED
      BY <1>0, <1>2, <2>3, <3>4, SMTT(30)
  <2> QED
    BY <1>0, <2>1, <2>2, <2>3, SMTT(30)
<1>9. Advances'
  <2> SUFFICES ASSUME NEW k \in 1..n + 1, k # 1
               PROVE  spans'[k - 1].start < spans'[k].start /\ spans'[k - 1].end < spans'[k].end
    <3>1. (DOMAIN spans)' = 1..n + 1
      BY <1>0, <1>2
    <3> QED
      BY <3>1 DEF Advances
  <2>1. CASE k \in 1..n
    <3>1. k \in DOMAIN spans \ {1}
      BY <1>0, <2>1
    <3>2. spans[k - 1].start < spans[k].start /\ spans[k - 1].end < spans[k].end
      BY <3>1, SMTT(30) DEF Chunks, Advances
    <3> QED
      BY <1>0, <1>2, <2>1, <3>2, SMTT(30)
  <2>2. CASE k = n + 1
    <3>1. n > 0 /\ k - 1 = n /\ n \in 1..n
      BY <1>0, <2>2
    <3> QED
      BY <1>1, <1>2, <1>4, <2>2, <3>1
  <2> QED
    BY <1>0, <2>1, <2>2, SMTT(30)
<1> QED
  BY <1>0, <1>2, <1>7, <1>8, <1>9 DEF Chunks, Text0, s

LEMMA InitIInv == Init => IInv
<1> SUFFICES ASSUME Init PROVE IInv
  OBVIOUS
<1>1. Text0
  BY DEF Init, Text0, Body, Kind
<1>2. spans = <<>> /\ at = "begin" /\ start = 0
  BY DEF Init
<1>3. Chunks
  BY <1>2 DEF Chunks, Covered, Advances
<1> QED
  BY <1>1, <1>2, <1>3 DEF IInv

LEMMA BeginIInv ==
  ASSUME IInv, Begin
  PROVE  IInv'
<1>1. /\ Text0 /\ Chunks /\ spans = <<>> /\ start = 0 /\ start' = 0
      /\ UNCHANGED <<type, body>> /\ Len(body) \in Nat /\ at = "begin"
  BY DEF IInv, Begin, Text0
<1>2. Text0'
  BY <1>1 DEF Text0
<1>3. CASE body = <<>> /\ at' = "done" /\ UNCHANGED <<secEnd, spans>>
  <2>1. Chunks'
    BY <1>1, <1>3 DEF Chunks, Covered, Advances
  <2>2. Finished'
    BY <1>1, <1>3, WindowAssumption DEF Finished
  <2> QED
    BY <1>2, <1>3, <2>1, <2>2 DEF IInv
<1>4. CASE /\ type = "message" /\ at' = "cap"
           /\ spans' = <<Span(0, truncateRuneSafe(singleCap))>>
  <2> DEFINE e == truncateRuneSafe(singleCap)
             s == Span(0, e)
  <2>1. e \in 0..Len(body) /\ e <= singleCap /\ RuneStart(e) /\ RuneStart(0)
    BY <1>1, MessageCut, RuneZero
  <2> HIDE DEF e
  <2>2. s \in [start : Nat, end : Nat] /\ s.start = 0 /\ s.end = e
    BY <1>1, <2>1 DEF Span
  <2>3. spans' = <<s>>
    BY <1>4 DEF e
  <2>4. Chunk(s)
    BY <1>1, <1>4, <2>1, <2>2, WindowAssumption DEF Chunk
  <2> HIDE DEF s
  <2>5. /\ spans' \in Seq([start : Nat, end : Nat]) /\ Len(spans') = 1 /\ spans'[1] = s
        /\ spans' # <<>> /\ DOMAIN spans' = {1}
    BY <2>2, <2>3
  <2>6. (\A k \in 1..Len(spans) : Chunk(spans[k]))'
    <3>1. \A k \in 1..Len(spans') : Chunk(spans'[k])
      BY <2>4, <2>5
    <3> QED
      BY <1>1, <3>1, SameSections DEF Chunk, RuneStart
  <2>7. Chunks'
    BY <1>1, <1>4, <2>5, <2>6 DEF Chunks, Covered, Advances
  <2>8. ToTheEnd'
    BY <1>1, <1>4, <2>5 DEF ToTheEnd
  <2> QED
    BY <1>2, <1>4, <2>7, <2>8 DEF IInv
<1>5. CASE /\ body # <<>> /\ type # "message" /\ secEnd' = SectionEnd(0) /\ at' = "window"
           /\ UNCHANGED spans
  <2>1. 0 \in 0..Len(body) - 1
    BY <1>1, <1>5 DEF Text0
  <2>2. /\ SectionEnd(0) \in 1..Len(body) /\ RuneStart(SectionEnd(0))
        /\ type = "mail" => \A b \in 1..SectionEnd(0) - 1 : ~emailSection(b)
    BY <1>1, <2>1, SectionCut
  <2>3. RuneStart(0)
    BY <1>1, RuneZero
  <2>4. Window'
    BY <1>1, <1>5, <2>2, <2>3, SameSections DEF Window, RuneStart
  <2>5. Chunks'
    BY <1>1, <1>5 DEF Chunks, Covered, Advances
  <2> QED
    BY <1>2, <1>5, <2>4, <2>5 DEF IInv
<1> QED
  BY <1>3, <1>4, <1>5 DEF Begin

LEMMA WindowIInv ==
  ASSUME IInv, appendWindowSpans
  PROVE  IInv'
<1> DEFINE e == cutPoint(start, secEnd)
<1>1. /\ Text0 /\ Chunks /\ Window /\ UNCHANGED <<type, body>> /\ Len(body) \in Nat
      /\ at = "window" /\ spans' = Append(spans, Span(start, e))
  BY DEF IInv, appendWindowSpans, Text0
<1>2. /\ start \in Nat /\ secEnd \in Nat /\ start < secEnd /\ secEnd <= Len(body)
      /\ RuneStart(secEnd) /\ type # "message"
  BY <1>1 DEF Window
<1>3. /\ e \in start + 1..secEnd /\ e - start <= chunkWindow /\ RuneStart(e)
      /\ e < secEnd => e >= start + chunkOverlap + 1
  BY <1>1, <1>2, WindowCut
<1>4. \/ e < secEnd /\ start' = nextWindowStart(start, e) /\ UNCHANGED <<at, secEnd>>
      \/ /\ e >= secEnd /\ secEnd < Len(body)
         /\ start' = secEnd /\ secEnd' = SectionEnd(secEnd) /\ UNCHANGED at
      \/ e >= secEnd /\ secEnd = Len(body) /\ at' = "cap" /\ UNCHANGED <<start, secEnd>>
  BY DEF appendWindowSpans
<1> HIDE DEF e
<1>5. /\ Text0' /\ Chunks' /\ spans' # <<>>
      /\ spans'[Len(spans')] = Span(start, e)
  BY <1>1, <1>2, <1>3, OneMoreChunk
<1>6. spans'[Len(spans')].start = start /\ spans'[Len(spans')].end = e
  BY <1>5 DEF Span
<1>7. CASE e < secEnd /\ start' = nextWindowStart(start, e) /\ UNCHANGED <<at, secEnd>>
  <2>1. /\ start' \in start + 1..e /\ e <= start' + chunkOverlap /\ RuneStart(start')
    BY <1>1, <1>2, <1>3, <1>7, NextStart
  <2>2. /\ start' \in Nat /\ start < start' /\ start' <= e /\ start' < secEnd
        /\ start' + 1..secEnd - 1 \subseteq start + 1..secEnd - 1
    BY <1>2, <1>3, <1>7, <2>1
  <2>3. type = "mail" => \A b \in start' + 1..secEnd - 1 : ~emailSection(b)
    BY <1>1, <2>2, Zenon DEF Window
  <2>4. RuneStart(start)' /\ RuneStart(secEnd)'
    BY <1>1, <1>2, <1>7, <2>1 DEF RuneStart
  <2>5. Window'
    BY <1>1, <1>2, <1>5, <1>6, <1>7, <2>1, <2>2, <2>3, <2>4, SameSections DEF Window, RuneStart
  <2> QED
    BY <1>1, <1>5, <1>7, <2>5 DEF IInv
<1>8. CASE /\ e >= secEnd /\ secEnd < Len(body)
           /\ start' = secEnd /\ secEnd' = SectionEnd(secEnd) /\ UNCHANGED at
  <2>1. /\ secEnd' \in secEnd + 1..Len(body) /\ RuneStart(secEnd')
        /\ type = "mail" => \A b \in secEnd + 1..secEnd' - 1 : ~emailSection(b)
    BY <1>1, <1>2, <1>8, SectionCut
  <2>2. e = secEnd
    BY <1>2, <1>3, <1>8
  <2>3. Window'
    BY <1>1, <1>2, <1>5, <1>6, <1>8, <2>1, <2>2, SameSections, WindowAssumption, SMTT(30)
       DEF Window, RuneStart
  <2> QED
    BY <1>1, <1>5, <1>8, <2>3 DEF IInv
<1>9. CASE e >= secEnd /\ secEnd = Len(body) /\ at' = "cap" /\ UNCHANGED <<start, secEnd>>
  <2>1. e = Len(body)
    BY <1>2, <1>3, <1>9
  <2>2. ToTheEnd'
    BY <1>1, <1>5, <1>6, <2>1 DEF ToTheEnd
  <2> QED
    BY <1>5, <1>9, <2>2 DEF IInv
<1> QED
  BY <1>4, <1>7, <1>8, <1>9

LEMMA CapIInv ==
  ASSUME IInv, Cap
  PROVE  IInv'
<1>1. /\ Text0 /\ Chunks /\ ToTheEnd /\ UNCHANGED <<type, body>> /\ Len(body) \in Nat
      /\ at' = "done" /\ spans \in Seq([start : Nat, end : Nat]) /\ Len(spans) \in Nat
  BY DEF IInv, Cap, Chunks, Text0
<1> DEFINE m == IF Len(spans) > maxChunks THEN maxChunks ELSE Len(spans)
<1>2. truncated' <=> Len(spans) > maxChunks
  BY Zenon DEF Cap
<1>3. m \in 0..Len(spans) /\ m <= maxChunks /\ spans' = SubSeq(spans, 1, m)
  <2>1. maxChunks \in Nat
    BY WindowAssumption
  <2>2. m \in 0..Len(spans) /\ m <= maxChunks
    BY <1>1, <2>1
  <2>3. spans' = SubSeq(spans, 1, IF truncated' THEN maxChunks ELSE Len(spans))
    BY DEF Cap
  <2> QED
    BY <1>2, <2>2, <2>3
<1>4. Text0' /\ Chunks'
  <2> HIDE DEF m
  <2> QED
    BY <1>1, <1>3, PrefixChunks
<1>5. Len(spans') <= maxChunks
  <2> HIDE DEF m
  <2> QED
    BY <1>1, <1>3
<1>6. ASSUME type # "message", ~truncated', NEW i \in 0..Len(body) - 1
      PROVE  Chunked(i)'
  <2>1. m = Len(spans)
    BY <1>2, <1>6
  <2>2. spans' = spans
    BY <1>1, <1>3, <2>1
  <2>3. Len(spans) \in 1..Len(spans) /\ i \in Nat /\ i < spans[Len(spans)].end
    BY <1>1, <1>6 DEF ToTheEnd
  <2>4. \E j \in 1..Len(spans) : In(i, spans[j])
    BY <1>1, <1>6, <2>3 DEF Chunks, Covered
  <2> QED
    BY <1>1, <2>2, <2>4 DEF Chunked
<1>7. Finished'
  BY <1>1, <1>5, <1>6 DEF Finished
<1> QED
  BY <1>1, <1>4, <1>7 DEF IInv

LEMMA NextIInv == IInv /\ [Next]_vars => IInv'
<1> SUFFICES ASSUME IInv, [Next]_vars PROVE IInv'
  OBVIOUS
<1>1. CASE UNCHANGED vars
  <2>1. UNCHANGED <<type, body, at, start, secEnd, spans, truncated>>
    BY <1>1 DEF vars
  <2>2. Text0' /\ Chunks'
    <3>1. Text0 /\ Chunks /\ Len(spans) \in 0..Len(spans)
      BY DEF IInv, Chunks
    <3>2. spans' = SubSeq(spans, 1, Len(spans))
      BY <2>1 DEF IInv, Chunks
    <3> QED
      BY <2>1, <3>1, <3>2, PrefixChunks
  <2>3. Window => Window'
    BY <2>1, SameSections DEF Window, RuneStart
  <2>4. (ToTheEnd => ToTheEnd') /\ (Finished => Finished')
    BY <2>1 DEF ToTheEnd, Finished, Chunked
  <2> QED
    BY <2>1, <2>2, <2>3, <2>4 DEF IInv
<1> QED
  BY <1>1, BeginIInv, WindowIInv, CapIInv DEF Next

\* The chunks of a body of any length cover it: no byte is skipped, every chunk
\* is well cut, none spans two sections of a mail and each advances on the one
\* before, for any window, overlap and caps (buildChunks, appendWindowSpans).
THEOREM EveryByteChunked == Spec => []TextCovered
<1>1. IInv => TextCovered
  <2> SUFFICES ASSUME IInv PROVE TextCovered
    OBVIOUS
  <2>1. DOMAIN spans = 1..Len(spans) /\ spans \in Seq([start : Nat, end : Nat])
    BY DEF IInv, Chunks
  <2>2. NothingSkipped
    <3>1. ASSUME type # "message", NEW i \in 0..Len(body) - 1, NEW k \in DOMAIN spans,
                 i < spans[k].end
          PROVE  Chunked(i)
      <4>1. k \in 1..Len(spans) /\ i \in Nat
        BY <2>1
      <4>2. PICK j \in 1..k : In(i, spans[j])
        BY <3>1, <4>1 DEF IInv, Chunks, Covered
      <4>3. j \in DOMAIN spans
        BY <2>1, <4>1
      <4> QED
        BY <4>2, <4>3 DEF Chunked
    <3> QED
      BY <3>1 DEF NothingSkipped, IInv, Finished
  <2>3. WellCut
    BY <2>1 DEF WellCut, IInv, Chunks, Chunk, Finished
  <2>4. SectionsApart
    BY <2>1 DEF SectionsApart, IInv, Chunks, Chunk
  <2> QED
    BY <2>2, <2>3, <2>4 DEF TextCovered, IInv, Chunks
<1> QED
  BY <1>1, InitIInv, NextIInv, PTL DEF Spec
=============================================================================
