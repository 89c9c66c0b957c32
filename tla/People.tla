------------------------------- MODULE People -------------------------------
(* The People tab (people.go): contacts are derived from the senders,        *)
(* recipients and attendees of the documents that match the query, merged by *)
(* address, and ranked.                                                      *)
(*                                                                           *)
(* An address is a number, 0 for none.  A name is Full (several words),      *)
(* Quoted (in quotes, with a comma), Single (one word), the local part of an *)
(* address, the whole text of a list, or nothing.  A header is the sequence  *)
(* of its recipients: an address with or without a name, or text that is     *)
(* none, like the first half of a name with a comma and no quotes.           *)
EXTENDS Integers, Sequences, SequencesExt, FiniteSets, FiniteSetsExt

CONSTANTS Address,           \* positive numbers
          peopleMaxResults

VARIABLES hits, terms, at, aggs, people

vars == <<hits, terms, at, aggs, people>>

NoName == "" 
Full == "Ann Lee"
Quoted == "Lee, Ann"
Single == "ann"
List == "ann, ann"
QuotedList == "'Lee, Ann' <local-1>, ann"
Local(e) == <<"local", "local-1", "local-2">>[e + 1]

\* The names in order.
Names == <<NoName, QuotedList, Full, Quoted, Single, List, "local-1", "local-2">>
nameRank(n) == CHOOSE i \in DOMAIN Names : Names[i] = n
Spaced(n) == n \in {Full, Quoted, List, QuotedList}

Recipient == [email : Address, name : {NoName, Full}]
             \cup {[email |-> 1, name |-> Quoted], [email |-> 0, name |-> Single]}
Header == {<<>>} \cup {<<f>> : f \in Recipient}
          \cup {<<f, g>> : f \in Recipient, g \in {x \in Recipient : x.name \notin {Full, Quoted}}}
Kind == {"email", "message", "event"}
Hit == [kind : Kind \ {"event"}, when : {0, 3}, header : Header, responses : {{}}]
       \cup [kind : {"event"}, when : {1}, header : Header, responses : SUBSET Address]

\* The terms of a query: those of the name Full, of an address, or a topic.
Terms == {"none", "ann", "local-1", "topic"}

Init == /\ \E g, h \in Hit : Len(h.header) < 2 /\ hits = <<g, h>>
        /\ terms \in Terms
        /\ at = "search" /\ aggs = {} /\ people = <<>>

-----------------------------------------------------------------------------
(* From a document to mentions of people.                                    *)

ref(name, email) == [name |-> name, email |-> email]

\* An address without a name is shown by its local part.
refFromAddr(f) == ref(IF f.name = NoName THEN Local(f.email) ELSE f.name, f.email)
Parses(f) == f.email # 0

\* The pieces of a list that is split at every comma: the halves of a quoted
\* name are no address, nor is a text that was none.
Salvaged(s) == SelectSeq(s, LAMBDA f : Parses(f) /\ f.name # Quoted)
Raw(s) == IF Len(s) = 1 THEN s[1].name ELSE IF s[1].name = Quoted THEN QuotedList ELSE List

\* ParseAddressList takes all or nothing; then the pieces that parse are kept,
\* and without one the whole text is a name.
parsePeople(s) ==
    LET refs(l) == [i \in DOMAIN l |-> refFromAddr(l[i])]
    IN  IF \A i \in DOMAIN s : Parses(s[i]) THEN refs(s)
        ELSE IF Salvaged(s) # <<>> THEN refs(Salvaged(s))
        ELSE <<ref(Raw(s), 0)>>

\* A calendar event also names those who responded.
peopleFromHit(h) ==
    parsePeople(h.header) \o SetToSeq({ref(Local(e), e) : e \in h.responses})

-----------------------------------------------------------------------------
(* From mentions to contacts.                                                *)

betterName(stored, candidate) ==
    IF candidate = NoName THEN stored
    ELSE IF stored = NoName \/ (Spaced(candidate) /\ ~Spaced(stored)) THEN candidate ELSE stored

\* The key of a mention: the address, else the name.
key(r) == IF r.email # 0 THEN <<r.email, NoName>> ELSE <<0, r.name>>

Mention(r, h) == [name |-> r.name, email |-> r.email, kind |-> h.kind, when |-> h.when]
Mentions ==
    LET mentions(h) == LET refs == peopleFromHit(h) IN [j \in DOMAIN refs |-> Mention(refs[j], h)]
    IN  FlattenSeq([i \in DOMAIN hits |-> mentions(hits[i])])

newAgg(m) == [key |-> key(m), name |-> NoName, email |-> m.email, count |-> 0, last |-> 0,
              byCat |-> [k \in Kind |-> 0]]

Add(as, m) ==
    LET mine == {a \in as : a.key = key(m)}
        a == IF mine = {} THEN newAgg(m) ELSE CHOOSE x \in mine : TRUE
    IN  (as \ mine) \cup {[a EXCEPT !.name = betterName(@, m.name), !.count = @ + 1,
                                    !.byCat[m.kind] = @ + 1, !.last = IF m.when > @ THEN m.when ELSE @]}

\* personMatches: every term occurs in the name or in the address.
personMatches(a, q) ==
    \/ q = "none"
    \/ q = "ann" /\ (Spaced(a.name) \/ a.name = Single)
    \/ q = "local-1" /\ (a.name \in {"local-1", QuotedList} \/ a.email = 1)

\* ln(1 + count), and 2^(-age / 30 days), in hundredths; a time is how recent
\* it is, 0 for unknown.
logCount(n) == <<69, 110, 139, 161, 179, 195, 208, 220>>[n]
recency(t) == <<0, 41, 70, 100>>[t + 1]
personScore(a) == logCount(a.count) + recency(a.last)

\* Mutant: ties are broken by the name alone.
beforeByName(a, b) ==
    \/ personScore(a) > personScore(b)
    \/ personScore(a) = personScore(b) /\ nameRank(a.name) < nameRank(b.name)

before(a, b) ==
    \/ personScore(a) > personScore(b)
    \/ /\ personScore(a) = personScore(b)
       /\ \/ nameRank(a.name) < nameRank(b.name)
          \/ a.name = b.name /\ a.email < b.email

rank(picked) ==
    LET s == SortSeq(SetToSeq(picked), before) IN SubSeq(s, 1, Min({Len(s), peopleMaxResults}))

Picked == LET matched == {a \in aggs : personMatches(a, terms)}
          IN  IF matched = {} THEN aggs ELSE matched

aggregate == /\ at = "search" /\ at' = "aggregated"
             /\ aggs' = FoldLeft(Add, {}, Mentions)
             /\ UNCHANGED <<hits, terms, people>>

aggregatePeople == /\ at = "aggregated" /\ at' = "done"
                   /\ people' = rank(Picked)
                   /\ UNCHANGED <<hits, terms, aggs>>

Next == aggregate \/ aggregatePeople
Spec == Init /\ [][Next]_vars

-----------------------------------------------------------------------------
(* Properties.                                                               *)

\* The recipients of a header that is not well formed whose quoted names have a
\* comma: the salvage cuts them in two (people.go:234).
Cut(s) == {j \in DOMAIN s : s[j].name = Quoted /\ \E k \in DOMAIN s : ~Parses(s[k])}
Reachable(s) == {j \in DOMAIN s : Parses(s[j])} \ Cut(s)

\* Every address of a header is found, "so one bad recipient never discards
\* the rest, nor collapses the raw header into one junk contact", and a contact
\* without an address stands for a header that has none; but for the recipients
\* with a comma in a quoted name, which a bad recipient does discard, and which
\* leave the raw header as a contact when there is no other address.
EveryAddressFound ==
    at # "search" =>
        /\ \A i \in DOMAIN hits : \A j \in Reachable(hits[i].header) :
              \E a \in aggs : a.email = hits[i].header[j].email
        /\ \A a \in aggs : a.email = 0 =>
              \E i \in DOMAIN hits : hits[i].header # <<>> /\ Reachable(hits[i].header) = {}

\* A contact stands for all mentions of its address, whatever their order: it
\* counts them, is as recent as the latest and has a full name if one has.
ContactsMerged ==
    at # "search" =>
        \A a \in aggs :
            LET all == Mentions
                mine == {i \in DOMAIN all : key(all[i]) = a.key}
            IN  /\ a.count = Cardinality(mine)
                /\ a.last = Max({all[i].when : i \in mine})
                /\ Spaced(a.name) <=> \E i \in mine : Spaced(all[i].name)
                /\ \A b \in aggs : b.key = a.key => b = a

\* "Fully deterministic tiebreak": of two contacts one comes first, so the
\* order does not depend on the order of the map; distinct people "can share a
\* score AND a display name".
OrderTotal == \A a, b \in aggs : a # b => (before(a, b) <=> ~before(b, a))

\* Contacts that match the query come alone and best first, else those related
\* to the topic; none that is left out is better than one that is shown.
BestShown ==
    at = "done" =>
        /\ \A i, j \in DOMAIN people : i < j => personScore(people[i]) >= personScore(people[j])
        /\ \A a \in Picked \ ToSet(people) : \A i \in DOMAIN people : ~before(a, people[i])
        /\ (\E a \in aggs : personMatches(a, terms)) => \A i \in DOMAIN people : personMatches(people[i], terms)
        /\ people = <<>> => aggs = {}
=============================================================================
