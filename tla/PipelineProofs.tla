--------------------------- MODULE PipelineProofs ---------------------------
(***************************************************************************)
(* Proofs about Pipeline, for any tenants, documents and etags and any     *)
(* number of records and failures: what ingest, enrich and the             *)
(* index-writer never lose between docs.raw and the index.                 *)
(*                                                                         *)
(* The first half is about ingest's dedupe keys (SkipInv): a key in Redis  *)
(* stands for a document on docs.chunked, and everything up to the         *)
(* committed offset is on docs.chunked, in the dead letter, or a repeat.   *)
(*                                                                         *)
(* The second half is about the index (DataInv).  While no commit is lost  *)
(* a stage's committed offset is where it stands, so that a crash repeats  *)
(* only the record in hand.  Then what a stage has written holds, of every *)
(* document, the newest of its input up to where it stands (Even), or what *)
(* the record in hand leaves (Repeated).  An upsert that is dropped is a   *)
(* repeat of the record in hand: etags are fresh and tenants are apart.    *)
(***************************************************************************)
EXTENDS Pipeline, SequenceTheorems, WellFoundedInduction, TLAPS

-----------------------------------------------------------------------------
(* What ingest commits is not lost *)

Typed ==
    /\ log \in [Topic -> [Tenant -> Seq(Rec)]]
    /\ committed \in [Stage -> [Tenant -> Nat]]
    /\ at \in [Stage -> [Tenant -> Nat]]
    /\ pc \in [Stage -> [Tenant -> {"idle", "seen", "produce", "mark", "commit"}]]
    /\ seen \subseteq (Doc \X Etag)
    /\ dead \in [Stage -> [Tenant -> SUBSET Nat]]
    /\ index \in [Tenant -> [Doc -> Etag \cup {Absent}]]
    /\ lost \in BOOLEAN

\* A handler that is at work has a record in hand.
Working ==
    \A s \in Stage, t \in Tenant :
        /\ committed[s][t] <= at[s][t]
        /\ at[s][t] <= Len(log[InTopic[s]][t])
        /\ dead[s][t] \subseteq 1..Len(log[InTopic[s]][t])
        /\ pc[s][t] # "idle" => at[s][t] < Len(log[InTopic[s]][t])

Longer(q, r) == Len(q) <= Len(r) /\ \A o \in 1..Len(q) : r[o] = q[o]

\* The topics of the stages.
LEMMA Topics ==
    /\ \A s \in Stage : InTopic[s] \in Topic
    /\ InTopic["ingest"] = "raw" /\ InTopic["enrich"] = "chunked" /\ InTopic["index"] = "enriched"
    /\ OutTopic["ingest"] = "chunked" /\ OutTopic["enrich"] = "enriched"
BY DEF Stage, Topic, InTopic, OutTopic

\* Setting one cell of a table.
LEMMA Put ==
    ASSUME NEW S, NEW T, NEW V, NEW f \in [S -> [T -> V]], NEW s \in S, NEW t \in T, NEW v \in V
    PROVE  [f EXCEPT ![s] = [f[s] EXCEPT ![t] = v]] \in [S -> [T -> V]]
OBVIOUS

\* A record in hand is a record.
LEMMA InHand ==
    ASSUME Typed, Working, NEW s \in Stage, NEW t \in Tenant, pc[s][t] # "idle"
    PROVE  /\ at[s][t] + 1 \in 1..Len(log[InTopic[s]][t])
           /\ Hand(s, t) \in Rec
<1>1. at[s][t] \in Nat /\ log[InTopic[s]][t] \in Seq(Rec) /\ at[s][t] < Len(log[InTopic[s]][t])
  BY Topics DEF Typed, Working
<1>2. at[s][t] + 1 \in 1..Len(log[InTopic[s]][t])
  BY <1>1
<1> QED
  BY <1>1, <1>2, ElementOfSeq DEF Hand

\* Appending to a log of a topic.
LEMMA AppendLog ==
    ASSUME Typed, NEW k \in Topic, NEW t \in Tenant, NEW r \in Rec,
           log' = [log EXCEPT ![k][t] = Append(@, r)]
    PROVE  /\ log' \in [Topic -> [Tenant -> Seq(Rec)]]
           /\ log'[k][t] = Append(log[k][t], r)
           /\ \A j \in Topic, u \in Tenant : j # k \/ u # t => log'[j][u] = log[j][u]
           /\ \A j \in Topic, u \in Tenant : Longer(log[j][u], log'[j][u])
<1>1. log[k][t] \in Seq(Rec) /\ \A j \in Topic, u \in Tenant : log[j][u] \in Seq(Rec)
  BY DEF Typed
<1>2. Append(log[k][t], r) \in Seq(Rec)
  BY <1>1
<1>3. log' = [log EXCEPT ![k] = [log[k] EXCEPT ![t] = Append(log[k][t], r)]]
  OBVIOUS
<1>4. log' \in [Topic -> [Tenant -> Seq(Rec)]]
  BY <1>2, <1>3 DEF Typed
<1>5. log'[k][t] = Append(log[k][t], r)
  BY <1>3 DEF Typed
<1>6. \A j \in Topic, u \in Tenant : j # k \/ u # t => log'[j][u] = log[j][u]
  BY <1>3 DEF Typed
<1>7. Longer(log[k][t], Append(log[k][t], r))
  BY <1>1, AppendProperties DEF Longer
<1>8. \A j \in Topic, u \in Tenant : Longer(log[j][u], log[j][u])
  BY <1>1 DEF Longer
<1> QED
  BY <1>4, <1>5, <1>6, <1>7, <1>8

\* What a step of stage s on tenant t may do to the logs: nothing, or append
\* the record in hand to the topic it produces to.
LEMMA OutLog ==
    ASSUME Typed, Working, NEW s \in {"ingest", "enrich"}, NEW t \in Tenant,
           pc[s][t] # "idle", Out(s, t)
    PROVE  /\ log' \in [Topic -> [Tenant -> Seq(Rec)]]
           /\ log'[OutTopic[s]][t] = Append(log[OutTopic[s]][t], Hand(s, t))
           /\ \A j \in Topic, u \in Tenant :
                j # OutTopic[s] \/ u # t => log'[j][u] = log[j][u]
           /\ \A j \in Topic, u \in Tenant : Longer(log[j][u], log'[j][u])
<1>1. Hand(s, t) \in Rec
  BY InHand DEF Stage
<1>2. OutTopic[s] \in Topic
  BY Topics DEF Topic
<1>3. log' = [log EXCEPT ![OutTopic[s]][t] = Append(@, Hand(s, t))]
  BY DEF Out
<1> HIDE DEF Hand
<1> QED
  BY <1>1, <1>2, <1>3, AppendLog, Zenon

\* A stage goes on to l.
LEMMA GotoPc ==
    ASSUME Typed, NEW s \in Stage, NEW t \in Tenant,
           NEW l \in {"idle", "seen", "produce", "mark", "commit"}, Goto(s, t, l)
    PROVE  /\ pc' \in [Stage -> [Tenant -> {"idle", "seen", "produce", "mark", "commit"}]]
           /\ pc'[s][t] = l
           /\ \A z \in Stage, u \in Tenant : z # s \/ u # t => pc'[z][u] = pc[z][u]
BY DEF Typed, Goto

\* The logs and the dead letters only grow.
Grown ==
    /\ \A k \in Topic, t \in Tenant : Longer(log[k][t], log'[k][t])
    /\ \A s \in Stage, t \in Tenant : dead[s][t] \subseteq dead'[s][t]

LEMMA SameLog == Typed /\ UNCHANGED log => \A k \in Topic, t \in Tenant : Longer(log[k][t], log'[k][t])
BY DEF Typed, Longer

LEMMA SameDead == UNCHANGED dead => \A s \in Stage, t \in Tenant : dead[s][t] \subseteq dead'[s][t]
OBVIOUS

\* A step keeps the types, and only adds to the logs and the dead letters.
LEMMA NextTyped == ASSUME Typed, Working, [Next]_vars PROVE Typed' /\ Grown
<1>1. CASE UNCHANGED vars
  BY <1>1, SameLog, SameDead DEF vars, consumer, Typed, Grown
<1>2. ASSUME NEW t \in Tenant, Emit(t) PROVE Typed' /\ Grown
  <2>1. PICK r \in Rec : log' = [log EXCEPT !["raw"][t] = Append(@, r)]
    BY <1>2, Zenon DEF Emit
  <2>2. log' \in [Topic -> [Tenant -> Seq(Rec)]] /\ \A j \in Topic, u \in Tenant : Longer(log[j][u], log'[j][u])
    BY <2>1, AppendLog, Zenon DEF Topic
  <2> QED
    BY <1>2, <2>2, SameDead DEF Emit, Typed, Grown, consumer
<1>3. ASSUME NEW s \in Stage, NEW t \in Tenant, Handle(s, t) PROVE Typed' /\ Grown
  BY <1>3, SameLog, SameDead DEF Handle, Goto, Typed, Grown
<1>4. ASSUME NEW t \in Tenant, Seen(t) PROVE Typed' /\ Grown
  <2>1. pc' \in [Stage -> [Tenant -> {"idle", "seen", "produce", "mark", "commit"}]]
    BY <1>4, GotoPc DEF Seen, Stage
  <2> QED
    BY <1>4, <2>1, SameLog, SameDead DEF Seen, Typed, Grown
<1>5. ASSUME NEW t \in Tenant, IngestProduce(t) PROVE Typed' /\ Grown
  <2>1. log' \in [Topic -> [Tenant -> Seq(Rec)]] /\ \A j \in Topic, u \in Tenant : Longer(log[j][u], log'[j][u])
    BY <1>5, OutLog DEF IngestProduce
  <2> QED
    BY <1>5, <2>1, SameDead DEF IngestProduce, Goto, Typed, Grown, Stage
<1>6. ASSUME NEW t \in Tenant, MarkSeen(t) PROVE Typed' /\ Grown
  <2>1. Hand("ingest", t) \in Rec
    BY <1>6, InHand DEF MarkSeen, Stage
  <2>2. Key(Hand("ingest", t)) \in Doc \X Etag
    BY <2>1 DEF Key, Rec
  <2>3. seen' \subseteq Doc \X Etag
    BY <1>6, <2>2 DEF MarkSeen, Typed
  <2> QED
    BY <1>6, <2>3, SameLog, SameDead, Zenon DEF MarkSeen, Goto, Typed, Grown, Stage
<1>7. ASSUME NEW t \in Tenant, EnrichProduce(t) PROVE Typed' /\ Grown
  <2>1. log' \in [Topic -> [Tenant -> Seq(Rec)]] /\ \A j \in Topic, u \in Tenant : Longer(log[j][u], log'[j][u])
    BY <1>7, OutLog DEF EnrichProduce
  <2> QED
    BY <1>7, <2>1, SameDead, SMTT(30) DEF EnrichProduce, Goto, Typed, Grown, Stage
<1>8. ASSUME NEW t \in Tenant, pc["index"][t] = "produce", Feed(t)
      PROVE  index' \in [Tenant -> [Doc -> Etag \cup {Absent}]]
  <2>1. Hand("index", t) \in Rec
    BY <1>8, InHand DEF Stage
  <2> DEFINE r == Hand("index", t)
  <2>2. r.doc \in Doc /\ Effect(r) \in Etag \cup {Absent}
    BY <2>1 DEF Rec, Effect
  <2>3. index' = [index EXCEPT ![t] = [index[t] EXCEPT ![r.doc] = Effect(r)]]
    BY <1>8 DEF Feed
  <2> HIDE DEF r
  <2> QED
    BY <2>2, <2>3 DEF Typed
<1>9. ASSUME NEW t \in Tenant, IndexWrite(t) PROVE Typed' /\ Grown
  BY <1>8, <1>9, SameLog, SameDead, Zenon DEF IndexWrite, Goto, Typed, Grown, Stage
<1>10. ASSUME NEW s \in Stage, NEW t \in Tenant, AnswerLost(s, t) PROVE Typed' /\ Grown
  <2>1. CASE s = "index"
    BY <1>8, <1>10, <2>1, SameLog, SameDead, Zenon DEF AnswerLost, Goto, Typed, Grown, Stage
  <2>2. CASE s # "index"
    <3>1. log' \in [Topic -> [Tenant -> Seq(Rec)]] /\ \A j \in Topic, u \in Tenant : Longer(log[j][u], log'[j][u])
      BY <1>10, <2>2, OutLog DEF AnswerLost, Stage
    <3> QED
      BY <1>10, <2>2, <3>1, SameDead, SMTT(30) DEF AnswerLost, Goto, Typed, Grown, Stage
  <2> QED
    BY <2>1, <2>2
<1>11. ASSUME NEW s \in Stage, NEW t \in Tenant, Quarantine(s, t) PROVE Typed' /\ Grown
  <2>1. dead' \in [Stage -> [Tenant -> SUBSET Nat]] /\ \A z \in Stage, u \in Tenant : dead[z][u] \subseteq dead'[z][u]
    BY <1>11 DEF Quarantine, Typed
  <2> QED
    BY <1>11, <2>1, SameLog DEF Quarantine, Goto, Typed, Grown
<1>12. ASSUME NEW s \in Stage, NEW t \in Tenant, Commit(s, t) PROVE Typed' /\ Grown
  <2> DEFINE n == at[s][t] + 1
  <2>0. n \in Nat
    BY DEF Typed
  <2> HIDE DEF n
  <2>1. committed' \in [Stage -> [Tenant -> Nat]] /\ at' \in [Stage -> [Tenant -> Nat]]
    <3>1. at' = [at EXCEPT ![s] = [at[s] EXCEPT ![t] = n]]
      BY <1>12 DEF Commit, n
    <3>2. committed' = committed \/ committed' = [committed EXCEPT ![s] = [committed[s] EXCEPT ![t] = n]]
      BY <1>12 DEF Commit, n
    <3>3. at \in [Stage -> [Tenant -> Nat]] /\ committed \in [Stage -> [Tenant -> Nat]]
      BY DEF Typed
    <3>4. [at EXCEPT ![s] = [at[s] EXCEPT ![t] = n]] \in [Stage -> [Tenant -> Nat]]
      BY <2>0, <3>3, Put, Zenon
    <3>5. [committed EXCEPT ![s] = [committed[s] EXCEPT ![t] = n]] \in [Stage -> [Tenant -> Nat]]
      BY <2>0, <3>3, Put, Zenon
    <3> QED
      BY <3>1, <3>2, <3>3, <3>4, <3>5, Zenon
  <2>2. pc' \in [Stage -> [Tenant -> {"idle", "seen", "produce", "mark", "commit"}]]
    BY <1>12, GotoPc DEF Commit
  <2>3. lost' \in BOOLEAN
    BY <1>12, Zenon DEF Commit, Typed
  <2> QED
    BY <1>12, <2>1, <2>2, <2>3, SameLog, SameDead DEF Commit, Typed, Grown
<1>13. ASSUME NEW s \in Stage, NEW t \in Tenant, Crash(s, t) PROVE Typed' /\ Grown
  BY <1>13, SameLog, SameDead DEF Crash, Goto, Typed, Grown
<1>14. CASE KeyExpires
  BY <1>14, SameLog, SameDead DEF KeyExpires, Typed, Grown, consumer
<1> QED
  BY <1>1, <1>2, <1>3, <1>4, <1>5, <1>6, <1>7, <1>9, <1>10, <1>11, <1>12, <1>13, <1>14 DEF Next, Work

\* What a step does to the consumer of a partition: it leaves it where it is,
\* moves it forward from "commit", or sends it back to its commit.  A record
\* that is quarantined is the record in hand.
Moved(s, t) ==
    /\ \/ at'[s][t] = at[s][t] /\ committed'[s][t] = committed[s][t] /\ pc'[s][t] = "idle"
       \/ /\ at'[s][t] = at[s][t] /\ committed'[s][t] = committed[s][t]
          /\ at[s][t] < Len(log[InTopic[s]][t])
       \/ /\ pc[s][t] = "commit" /\ pc'[s][t] = "idle" /\ at'[s][t] = at[s][t] + 1
          /\ committed'[s][t] \in {committed[s][t], at[s][t] + 1}
       \/ /\ at'[s][t] = committed[s][t] /\ committed'[s][t] = committed[s][t]
          /\ pc'[s][t] = "idle"
    /\ \/ dead'[s][t] = dead[s][t]
       \/ at[s][t] < Len(log[InTopic[s]][t]) /\ dead'[s][t] = dead[s][t] \cup {at[s][t] + 1}

LEMMA NextMoved ==
    ASSUME Typed, Working, [Next]_vars, NEW z \in Stage, NEW u \in Tenant PROVE Moved(z, u)
<1>1. ASSUME UNCHANGED <<at[z][u], committed[z][u], dead[z][u], pc[z][u]>> PROVE Moved(z, u)
  BY <1>1 DEF Moved, Working
<1>2. ASSUME UNCHANGED <<at, committed, dead>>, NEW s \in Stage, NEW t \in Tenant,
             pc[s][t] # "idle" \/ at[s][t] < Len(log[InTopic[s]][t]),
             NEW l \in {"idle", "seen", "produce", "mark", "commit"}, Goto(s, t, l)
      PROVE  Moved(z, u)
  <2>1. CASE z = s /\ u = t
    BY <1>2, <2>1 DEF Moved, Working
  <2>2. CASE z # s \/ u # t
    BY <1>1, <1>2, <2>2, GotoPc
  <2> QED
    BY <2>1, <2>2
<1>3. CASE UNCHANGED vars
  BY <1>1, <1>3 DEF vars, consumer
<1>4. ASSUME NEW t \in Tenant, Emit(t) PROVE Moved(z, u)
  BY <1>1, <1>4 DEF Emit, consumer
<1>5. ASSUME NEW s \in Stage, NEW t \in Tenant, Handle(s, t) PROVE Moved(z, u)
  BY <1>2, <1>5 DEF Handle
<1>6. ASSUME NEW t \in Tenant, Seen(t) PROVE Moved(z, u)
  BY <1>2, <1>6 DEF Seen, Stage
<1>7. ASSUME NEW t \in Tenant, IngestProduce(t) PROVE Moved(z, u)
  BY <1>2, <1>7 DEF IngestProduce, Stage
<1>8. ASSUME NEW t \in Tenant, MarkSeen(t) PROVE Moved(z, u)
  BY <1>2, <1>8 DEF MarkSeen, Stage
<1>9. ASSUME NEW t \in Tenant, EnrichProduce(t) PROVE Moved(z, u)
  BY <1>2, <1>9 DEF EnrichProduce, Stage
<1>10. ASSUME NEW t \in Tenant, IndexWrite(t) PROVE Moved(z, u)
  BY <1>2, <1>10 DEF IndexWrite, Stage
<1>11. ASSUME NEW s \in Stage, NEW t \in Tenant, AnswerLost(s, t) PROVE Moved(z, u)
  BY <1>2, <1>11 DEF AnswerLost
<1>12. ASSUME NEW s \in Stage, NEW t \in Tenant, Quarantine(s, t) PROVE Moved(z, u)
  <2>1. dead'[s][t] = dead[s][t] \cup {at[s][t] + 1}
        /\ (z # s \/ u # t => dead'[z][u] = dead[z][u])
    BY <1>12 DEF Quarantine, Typed
  <2>2. at[s][t] < Len(log[InTopic[s]][t])
    BY <1>12 DEF Quarantine, Working
  <2>3. CASE z = s /\ u = t
    BY <1>12, <2>1, <2>2, <2>3 DEF Quarantine, Moved
  <2>4. CASE z # s \/ u # t
    BY <1>1, <1>12, <2>1, <2>4, GotoPc DEF Quarantine
  <2> QED
    BY <2>3, <2>4
<1>13. ASSUME NEW s \in Stage, NEW t \in Tenant, Commit(s, t) PROVE Moved(z, u)
  <2>1. /\ at'[s][t] = at[s][t] + 1 /\ committed'[s][t] \in {committed[s][t], at[s][t] + 1}
        /\ z # s \/ u # t => at'[z][u] = at[z][u] /\ committed'[z][u] = committed[z][u]
    BY <1>13 DEF Commit, Typed
  <2>2. pc'[s][t] = "idle" /\ (z # s \/ u # t => pc'[z][u] = pc[z][u])
    BY <1>13, GotoPc DEF Commit
  <2>3. CASE z = s /\ u = t
    BY <1>13, <2>1, <2>2, <2>3 DEF Commit, Moved
  <2>4. CASE z # s \/ u # t
    BY <1>1, <1>13, <2>1, <2>2, <2>4 DEF Commit
  <2> QED
    BY <2>3, <2>4
<1>14. ASSUME NEW s \in Stage, NEW t \in Tenant, Crash(s, t) PROVE Moved(z, u)
  <2>1. at'[s][t] = committed[s][t] /\ (z # s \/ u # t => at'[z][u] = at[z][u])
    BY <1>14 DEF Crash, Typed
  <2>2. pc'[s][t] = "idle" /\ (z # s \/ u # t => pc'[z][u] = pc[z][u])
    BY <1>14, GotoPc DEF Crash
  <2>3. CASE z = s /\ u = t
    BY <1>14, <2>1, <2>2, <2>3 DEF Crash, Moved
  <2>4. CASE z # s \/ u # t
    BY <1>1, <1>14, <2>1, <2>2, <2>4 DEF Crash
  <2> QED
    BY <2>3, <2>4
<1>15. CASE KeyExpires
  BY <1>1, <1>15 DEF KeyExpires, consumer
<1> QED
  BY <1>3, <1>4, <1>5, <1>6, <1>7, <1>8, <1>9, <1>10, <1>11, <1>12, <1>13, <1>14, <1>15
     DEF Next, Work

LEMMA NextWorking == ASSUME Typed, Working, [Next]_vars PROVE Working'
<1> SUFFICES ASSUME NEW s \in Stage, NEW t \in Tenant
             PROVE  /\ committed'[s][t] <= at'[s][t]
                    /\ at'[s][t] <= Len(log'[InTopic[s]][t])
                    /\ dead'[s][t] \subseteq 1..Len(log'[InTopic[s]][t])
                    /\ pc'[s][t] # "idle" => at'[s][t] < Len(log'[InTopic[s]][t])
  BY DEF Working
<1> DEFINE n == Len(log[InTopic[s]][t])
           m == Len(log'[InTopic[s]][t])
<1>1. Moved(s, t) /\ Typed' /\ Grown
  BY NextMoved, NextTyped
<1>2. n \in Nat /\ m \in Nat /\ n <= m
  <2>1. log[InTopic[s]][t] \in Seq(Rec) /\ log'[InTopic[s]][t] \in Seq(Rec)
    BY <1>1, Topics DEF Typed
  <2>2. Longer(log[InTopic[s]][t], log'[InTopic[s]][t])
    BY <1>1, Topics DEF Grown
  <2> QED
    BY <2>1, <2>2 DEF Longer
<1>3. committed[s][t] \in Nat /\ at[s][t] \in Nat
  BY DEF Typed
<1>4. /\ committed[s][t] <= at[s][t] /\ at[s][t] <= n /\ dead[s][t] \subseteq 1..n
      /\ pc[s][t] # "idle" => at[s][t] < n
  BY DEF Working
<1> HIDE DEF n, m
<1>5. 1..n \subseteq 1..m
  BY <1>2
<1>6. at[s][t] < n => at[s][t] + 1 \in 1..m
  BY <1>2, <1>3
<1>7. dead'[s][t] \subseteq 1..m
  BY <1>1, <1>4, <1>5, <1>6 DEF Moved, n
<1>8. committed'[s][t] <= at'[s][t] /\ at'[s][t] <= m /\ (pc'[s][t] # "idle" => at'[s][t] < m)
  <2>1. /\ \/ at'[s][t] = at[s][t] /\ committed'[s][t] = committed[s][t] /\ pc'[s][t] = "idle"
           \/ at'[s][t] = at[s][t] /\ committed'[s][t] = committed[s][t] /\ at[s][t] < n
           \/ /\ at[s][t] < n /\ pc'[s][t] = "idle" /\ at'[s][t] = at[s][t] + 1
              /\ committed'[s][t] \in {committed[s][t], at[s][t] + 1}
           \/ at'[s][t] = committed[s][t] /\ committed'[s][t] = committed[s][t] /\ pc'[s][t] = "idle"
    BY <1>1, <1>4 DEF Moved, n
  <2> QED
    BY <1>2, <1>3, <1>4, <2>1
<1> QED
  BY <1>7, <1>8 DEF m

\* How a stage comes to "seen", to "mark" and to "commit".
Labelled(s, t) ==
    \/ pc'[s][t] = pc[s][t] /\ at'[s][t] = at[s][t]
    \/ pc'[s][t] \in {"idle", "produce"}
    \/ pc'[s][t] = "seen" /\ at'[s][t] = at[s][t] /\ Handle(s, t)
    \/ pc'[s][t] = "mark" /\ at'[s][t] = at[s][t] /\ s = "ingest" /\ IngestProduce(t)
    \/ /\ pc'[s][t] = "commit" /\ at'[s][t] = at[s][t]
       /\ \/ s = "ingest" /\ Seen(t) /\ Key(Hand("ingest", t)) \in seen
          \/ s = "ingest" /\ IngestProduce(t) /\ Hand("ingest", t).op # "upsert"
          \/ s = "ingest" /\ MarkSeen(t)
          \/ Quarantine(s, t)
          \/ s = "enrich" /\ EnrichProduce(t)
          \/ s = "index" /\ IndexWrite(t)

LEMMA NextLabelled ==
    ASSUME Typed, Working, [Next]_vars, NEW z \in Stage, NEW u \in Tenant PROVE Labelled(z, u)
<1>1. ASSUME pc'[z][u] = pc[z][u], at'[z][u] = at[z][u] PROVE Labelled(z, u)
  BY <1>1 DEF Labelled
<1>2. ASSUME NEW s \in Stage, NEW t \in Tenant, z # s \/ u # t,
             NEW l \in {"idle", "seen", "produce", "mark", "commit"}, Goto(s, t, l),
             at'[z][u] = at[z][u]
      PROVE  Labelled(z, u)
  BY <1>1, <1>2, GotoPc
<1>3. ASSUME NEW l \in {"idle", "produce"}, Goto(z, u, l) PROVE Labelled(z, u)
  BY <1>3, GotoPc DEF Labelled
<1>4. CASE UNCHANGED vars
  BY <1>1, <1>4 DEF vars, consumer
<1>5. ASSUME NEW t \in Tenant, Emit(t) PROVE Labelled(z, u)
  BY <1>1, <1>5 DEF Emit, consumer
<1>6. ASSUME NEW s \in Stage, NEW t \in Tenant, Handle(s, t) PROVE Labelled(z, u)
  <2>1. CASE z = s /\ u = t
    <3>1. CASE Goto(s, t, "produce")
      BY <1>3, <2>1, <3>1
    <3>2. CASE Goto(s, t, "seen")
      <4>1. pc'[s][t] = "seen" /\ at' = at
        BY <1>6, <3>2, GotoPc DEF Handle
      <4> QED
        BY <1>6, <2>1, <4>1 DEF Labelled
    <3> QED
      BY <1>6, <3>1, <3>2 DEF Handle
  <2>2. CASE z # s \/ u # t
    BY <1>2, <1>6, <2>2 DEF Handle
  <2> QED
    BY <2>1, <2>2
<1>7. ASSUME NEW t \in Tenant, Seen(t) PROVE Labelled(z, u)
  <2>1. CASE z = "ingest" /\ u = t
    <3>1. CASE Key(Hand("ingest", t)) \in seen /\ Goto("ingest", t, "commit")
      <4>1. pc'["ingest"][t] = "commit"
        BY <3>1, GotoPc DEF Stage
      <4>2. at' = at
        BY <1>7 DEF Seen
      <4> QED
        BY <1>7, <2>1, <3>1, <4>1, <4>2 DEF Labelled
    <3>2. CASE Goto("ingest", t, "produce")
      BY <1>3, <2>1, <3>2
    <3> QED
      BY <1>7, <3>1, <3>2 DEF Seen
  <2>2. CASE z # "ingest" \/ u # t
    BY <1>2, <1>7, <2>2 DEF Seen, Stage
  <2> QED
    BY <2>1, <2>2
<1>8. ASSUME NEW t \in Tenant, IngestProduce(t) PROVE Labelled(z, u)
  <2>0. at' = at
    BY <1>8 DEF IngestProduce
  <2>1. CASE z = "ingest" /\ u = t
    <3>1. CASE Hand("ingest", t).op = "upsert"
      <4>1. pc'["ingest"][t] = "mark"
        BY <1>8, <3>1, GotoPc DEF IngestProduce, Stage
      <4> QED
        BY <1>8, <2>0, <2>1, <4>1 DEF Labelled
    <3>2. CASE Hand("ingest", t).op # "upsert"
      <4>1. pc'["ingest"][t] = "commit"
        BY <1>8, <3>2, GotoPc DEF IngestProduce, Stage
      <4> QED
        BY <1>8, <2>0, <2>1, <3>2, <4>1 DEF Labelled
    <3> QED
      BY <3>1, <3>2
  <2>2. CASE z # "ingest" \/ u # t
    BY <1>2, <1>8, <2>2 DEF IngestProduce, Stage
  <2> QED
    BY <2>1, <2>2
<1>9. ASSUME NEW t \in Tenant, MarkSeen(t) PROVE Labelled(z, u)
  <2>1. CASE z = "ingest" /\ u = t
    <3>1. pc'["ingest"][t] = "commit" /\ at' = at
      BY <1>9, GotoPc DEF MarkSeen, Stage
    <3> QED
      BY <1>9, <2>1, <3>1 DEF Labelled
  <2>2. CASE z # "ingest" \/ u # t
    BY <1>2, <1>9, <2>2 DEF MarkSeen, Stage
  <2> QED
    BY <2>1, <2>2
<1>10. ASSUME NEW t \in Tenant, EnrichProduce(t) PROVE Labelled(z, u)
  <2>1. CASE z = "enrich" /\ u = t
    <3>1. pc'["enrich"][t] = "commit" /\ at' = at
      BY <1>10, GotoPc DEF EnrichProduce, Stage
    <3> QED
      BY <1>10, <2>1, <3>1 DEF Labelled
  <2>2. CASE z # "enrich" \/ u # t
    BY <1>2, <1>10, <2>2 DEF EnrichProduce, Stage
  <2> QED
    BY <2>1, <2>2
<1>11. ASSUME NEW t \in Tenant, IndexWrite(t) PROVE Labelled(z, u)
  <2>1. CASE z = "index" /\ u = t
    <3>1. pc'["index"][t] = "commit" /\ at' = at
      BY <1>11, GotoPc DEF IndexWrite, Stage
    <3> QED
      BY <1>11, <2>1, <3>1 DEF Labelled
  <2>2. CASE z # "index" \/ u # t
    BY <1>2, <1>11, <2>2 DEF IndexWrite, Stage
  <2> QED
    BY <2>1, <2>2
<1>12. ASSUME NEW s \in Stage, NEW t \in Tenant, AnswerLost(s, t) PROVE Labelled(z, u)
  BY <1>2, <1>3, <1>12 DEF AnswerLost
<1>13. ASSUME NEW s \in Stage, NEW t \in Tenant, Quarantine(s, t) PROVE Labelled(z, u)
  <2>1. CASE z = s /\ u = t
    <3>1. pc'[s][t] = "commit" /\ at' = at
      BY <1>13, GotoPc DEF Quarantine
    <3> QED
      BY <1>13, <2>1, <3>1 DEF Labelled
  <2>2. CASE z # s \/ u # t
    BY <1>2, <1>13, <2>2 DEF Quarantine
  <2> QED
    BY <2>1, <2>2
<1>14. ASSUME NEW s \in Stage, NEW t \in Tenant, Commit(s, t) PROVE Labelled(z, u)
  <2>1. z # s \/ u # t => at'[z][u] = at[z][u]
    BY <1>14 DEF Commit, Typed
  <2> QED
    BY <1>2, <1>3, <1>14, <2>1 DEF Commit
<1>15. ASSUME NEW s \in Stage, NEW t \in Tenant, Crash(s, t) PROVE Labelled(z, u)
  <2>1. z # s \/ u # t => at'[z][u] = at[z][u]
    BY <1>15 DEF Crash, Typed
  <2> QED
    BY <1>2, <1>3, <1>15, <2>1 DEF Crash
<1>16. CASE KeyExpires
  BY <1>1, <1>16 DEF KeyExpires, consumer
<1> QED
  BY <1>4, <1>5, <1>6, <1>7, <1>8, <1>9, <1>10, <1>11, <1>12, <1>13, <1>14, <1>15, <1>16
     DEF Next, Work

\* How the logs and the index of a tenant change.
Written(t) ==
    /\ \/ log'["raw"][t] = log["raw"][t]
       \/ \E r \in Rec : log'["raw"][t] = Append(log["raw"][t], r)
    /\ \/ log'["chunked"][t] = log["chunked"][t]
       \/ /\ pc["ingest"][t] = "produce" /\ at'["ingest"][t] = at["ingest"][t]
          /\ log'["chunked"][t] = Append(log["chunked"][t], Hand("ingest", t))
    /\ \/ log'["enriched"][t] = log["enriched"][t]
       \/ /\ pc["enrich"][t] = "produce" /\ at'["enrich"][t] = at["enrich"][t]
          /\ log'["enriched"][t] = Append(log["enriched"][t], Hand("enrich", t))
    /\ \/ index'[t] = index[t]
       \/ /\ pc["index"][t] = "produce" /\ at'["index"][t] = at["index"][t]
          /\ index'[t] = [index[t] EXCEPT ![Hand("index", t).doc] = Effect(Hand("index", t))]

LEMMA NextWritten ==
    ASSUME Typed, Working, [Next]_vars, NEW u \in Tenant PROVE Written(u)
<1>1. ASSUME UNCHANGED <<log, index>> PROVE Written(u)
  BY <1>1 DEF Written
<1>2. ASSUME NEW s \in {"ingest", "enrich"}, NEW t \in Tenant, pc[s][t] = "produce", Out(s, t),
             UNCHANGED <<at, index>>
      PROVE  Written(u)
  <2>1. /\ log'[OutTopic[s]][t] = Append(log[OutTopic[s]][t], Hand(s, t))
        /\ \A j \in Topic, v \in Tenant : j # OutTopic[s] \/ v # t => log'[j][v] = log[j][v]
    BY <1>2, OutLog, Zenon
  <2>2. CASE s = "ingest"
    BY <1>2, <2>1, <2>2, Topics DEF Written, Topic
  <2>3. CASE s = "enrich"
    BY <1>2, <2>1, <2>3, Topics DEF Written, Topic
  <2> QED
    BY <2>2, <2>3
<1>3. ASSUME NEW t \in Tenant, pc["index"][t] = "produce", Feed(t), UNCHANGED <<at, log>>
      PROVE  Written(u)
  <2>1. index' = [index EXCEPT ![t] = [index[t] EXCEPT ![Hand("index", t).doc] = Effect(Hand("index", t))]]
    BY <1>3 DEF Feed
  <2> HIDE DEF Hand, Effect
  <2>2. index'[t] = [index[t] EXCEPT ![Hand("index", t).doc] = Effect(Hand("index", t))]
        /\ (u # t => index'[u] = index[u])
    BY <2>1 DEF Typed
  <2> QED
    BY <1>3, <2>2 DEF Written
<1>4. CASE UNCHANGED vars
  BY <1>1, <1>4 DEF vars
<1>5. ASSUME NEW t \in Tenant, Emit(t) PROVE Written(u)
  <2>1. PICK r \in Rec : log' = [log EXCEPT !["raw"][t] = Append(@, r)]
    BY <1>5, Zenon DEF Emit
  <2>2. /\ log'["raw"][t] = Append(log["raw"][t], r)
        /\ \A j \in Topic, v \in Tenant : j # "raw" \/ v # t => log'[j][v] = log[j][v]
    BY <2>1, AppendLog, Zenon DEF Topic
  <2>3. index' = index
    BY <1>5 DEF Emit
  <2> QED
    BY <2>2, <2>3 DEF Written, Topic
<1>6. ASSUME NEW s \in Stage, NEW t \in Tenant, Handle(s, t) PROVE Written(u)
  BY <1>1, <1>6 DEF Handle
<1>7. ASSUME NEW t \in Tenant, Seen(t) PROVE Written(u)
  BY <1>1, <1>7 DEF Seen
<1>8. ASSUME NEW t \in Tenant, IngestProduce(t) PROVE Written(u)
  BY <1>2, <1>8 DEF IngestProduce
<1>9. ASSUME NEW t \in Tenant, MarkSeen(t) PROVE Written(u)
  BY <1>1, <1>9 DEF MarkSeen
<1>10. ASSUME NEW t \in Tenant, EnrichProduce(t) PROVE Written(u)
  BY <1>2, <1>10 DEF EnrichProduce
<1>11. ASSUME NEW t \in Tenant, IndexWrite(t) PROVE Written(u)
  BY <1>3, <1>11 DEF IndexWrite
<1>12. ASSUME NEW s \in Stage, NEW t \in Tenant, AnswerLost(s, t) PROVE Written(u)
  BY <1>2, <1>3, <1>12 DEF AnswerLost, Stage
<1>13. ASSUME NEW s \in Stage, NEW t \in Tenant, Quarantine(s, t) PROVE Written(u)
  BY <1>1, <1>13 DEF Quarantine
<1>14. ASSUME NEW s \in Stage, NEW t \in Tenant, Commit(s, t) PROVE Written(u)
  BY <1>1, <1>14 DEF Commit
<1>15. ASSUME NEW s \in Stage, NEW t \in Tenant, Crash(s, t) PROVE Written(u)
  BY <1>1, <1>15 DEF Crash
<1>16. CASE KeyExpires
  BY <1>1, <1>16 DEF KeyExpires
<1> QED
  BY <1>4, <1>5, <1>6, <1>7, <1>8, <1>9, <1>10, <1>11, <1>12, <1>13, <1>14, <1>15, <1>16
     DEF Next, Work

-----------------------------------------------------------------------------
(* Nothing is skipped silently. *)

\* The upserts on docs.chunked, of any tenant.
Chunked == UNION {Upserts("chunked", t) : t \in Tenant}

\* Docs.chunked holds records of docs.raw.
Came ==
    \A t \in Tenant : \A o \in 1..Len(log["chunked"][t]) :
        \E p \in 1..Len(log["raw"][t]) : log["chunked"][t][o] = log["raw"][t][p]

\* Ingest is about to record the key of a document that it has produced.
Marked ==
    \A t \in Tenant :
        pc["ingest"][t] = "mark" => Key(Hand("ingest", t)) \in Upserts("chunked", t)

\* Ingest is done with the record at offset o.
Settled(t, o) ==
    log["raw"][t][o].op = "upsert" => o \in dead["ingest"][t] \/ Key(log["raw"][t][o]) \in Chunked

Settling ==
    \A t \in Tenant :
        /\ \A o \in 1..at["ingest"][t] : Settled(t, o)
        /\ pc["ingest"][t] = "commit" => Settled(t, at["ingest"][t] + 1)

SkipInv == Typed /\ Working /\ Came /\ Marked /\ SeenMeansProduced /\ Settling

LEMMA UpsertsGrow ==
    ASSUME Typed, Typed', Grown, NEW k \in Topic, NEW t \in Tenant
    PROVE  Upserts(k, t) \subseteq Upserts(k, t)'
<1> SUFFICES ASSUME NEW o \in 1..Len(log[k][t]), log[k][t][o].op = "upsert"
             PROVE  Key(log[k][t][o]) \in Upserts(k, t)'
  BY DEF Upserts
<1>1. log[k][t] \in Seq(Rec) /\ log'[k][t] \in Seq(Rec) /\ Longer(log[k][t], log'[k][t])
  BY DEF Typed, Grown
<1>2. o \in 1..Len(log'[k][t]) /\ log'[k][t][o] = log[k][t][o]
  BY <1>1 DEF Longer
<1> QED
  BY <1>2 DEF Upserts, Key

LEMMA ChunkedGrows == ASSUME Typed, Typed', Grown PROVE Chunked \subseteq Chunked'
<1>1. \A t \in Tenant : Upserts("chunked", t) \subseteq Upserts("chunked", t)'
  BY UpsertsGrow DEF Topic
<1> QED
  BY <1>1 DEF Chunked

\* A record stays where it is on docs.raw.
LEMMA RawKept ==
    ASSUME Typed, Typed', Grown, NEW t \in Tenant, NEW o \in 1..Len(log["raw"][t])
    PROVE  o \in 1..Len(log'["raw"][t]) /\ log'["raw"][t][o] = log["raw"][t][o]
<1>1. log["raw"][t] \in Seq(Rec) /\ log'["raw"][t] \in Seq(Rec) /\ Longer(log["raw"][t], log'["raw"][t])
  BY DEF Typed, Grown, Topic
<1> QED
  BY <1>1 DEF Longer

\* What is settled stays settled.
LEMMA StaysSettled ==
    ASSUME Typed, Typed', Grown, NEW t \in Tenant, NEW o \in 1..Len(log["raw"][t]), Settled(t, o)
    PROVE  Settled(t, o)'
<1>1. log'["raw"][t][o] = log["raw"][t][o]
  BY RawKept
<1>2. dead["ingest"][t] \subseteq dead'["ingest"][t]
  BY DEF Grown, Stage
<1>3. Chunked \subseteq Chunked'
  BY ChunkedGrows
<1>4. Key(log["raw"][t][o])' = Key(log["raw"][t][o])
  BY <1>1 DEF Key
<1> QED
  BY <1>1, <1>2, <1>3, <1>4 DEF Settled

\* The record produced is an upsert of docs.chunked when it is one at all.
LEMMA ProducedKey ==
    ASSUME Typed, Working, NEW t \in Tenant, IngestProduce(t), Hand("ingest", t).op = "upsert"
    PROVE  Key(Hand("ingest", t)) \in Upserts("chunked", t)'
<1> DEFINE q == log["chunked"][t]
<1>1. Hand("ingest", t) \in Rec /\ q \in Seq(Rec)
  BY InHand, Zenon DEF IngestProduce, Stage, Typed, Topic
<1>2. log'["chunked"][t] = Append(q, Hand("ingest", t))
  BY OutLog, Topics, Zenon DEF IngestProduce
<1> HIDE DEF Hand, q
<1>3. /\ Len(q) + 1 \in 1..Len(Append(q, Hand("ingest", t)))
      /\ Append(q, Hand("ingest", t))[Len(q) + 1] = Hand("ingest", t)
  BY <1>1, AppendProperties
<1> QED
  BY <1>2, <1>3 DEF Upserts, Key

LEMMA NextCame == ASSUME Typed, Working, Came, [Next]_vars PROVE Came'
<1>1. Typed' /\ Grown
  BY NextTyped
<1> SUFFICES ASSUME NEW t \in Tenant, NEW o \in 1..Len(log'["chunked"][t])
             PROVE  \E p \in 1..Len(log'["raw"][t]) : log'["chunked"][t][o] = log'["raw"][t][p]
  BY DEF Came
<1>2. log["chunked"][t] \in Seq(Rec)
  BY DEF Typed, Topic
<1>3. CASE o \in 1..Len(log["chunked"][t]) /\ log'["chunked"][t][o] = log["chunked"][t][o]
  <2>1. PICK p \in 1..Len(log["raw"][t]) : log["chunked"][t][o] = log["raw"][t][p]
    BY <1>3 DEF Came
  <2> QED
    BY <1>1, <1>3, <2>1, RawKept
<1>4. CASE pc["ingest"][t] = "produce" /\ log'["chunked"][t][o] = Hand("ingest", t)
  <2>1. at["ingest"][t] + 1 \in 1..Len(log["raw"][t])
    BY <1>4, InHand, Topics DEF Stage
  <2>2. Hand("ingest", t) = log["raw"][t][at["ingest"][t] + 1]
    BY Topics DEF Hand
  <2> QED
    BY <1>1, <1>4, <2>1, <2>2, RawKept, Zenon
<1>5. Written(t)
  BY NextWritten
<1>6. CASE log'["chunked"][t] = log["chunked"][t]
  BY <1>3, <1>6
<1>7. CASE /\ pc["ingest"][t] = "produce"
           /\ log'["chunked"][t] = Append(log["chunked"][t], Hand("ingest", t))
  <2>1. Hand("ingest", t) \in Rec
    BY <1>7, InHand DEF Stage
  <2> HIDE DEF Hand
  <2>2. \/ o \in 1..Len(log["chunked"][t]) /\ log'["chunked"][t][o] = log["chunked"][t][o]
        \/ log'["chunked"][t][o] = Hand("ingest", t)
    BY <1>2, <1>7, <2>1, AppendProperties
  <2> QED
    BY <1>3, <1>4, <1>7, <2>2
<1> QED
  BY <1>5, <1>6, <1>7 DEF Written

LEMMA NextMarked == ASSUME Typed, Working, Marked, [Next]_vars PROVE Marked'
<1>1. Typed' /\ Grown /\ Working'
  BY NextTyped, NextWorking
<1> SUFFICES ASSUME NEW t \in Tenant, pc'["ingest"][t] = "mark"
             PROVE  Key(Hand("ingest", t))' \in Upserts("chunked", t)'
  BY DEF Marked
<1>2. ASSUME at'["ingest"][t] = at["ingest"][t], pc["ingest"][t] # "idle",
             Key(Hand("ingest", t)) \in Upserts("chunked", t)'
      PROVE  Key(Hand("ingest", t))' \in Upserts("chunked", t)'
  <2>1. at["ingest"][t] + 1 \in 1..Len(log["raw"][t])
    BY <1>2, InHand, Topics DEF Stage
  <2>2. Hand("ingest", t)' = Hand("ingest", t)
    BY <1>1, <1>2, <2>1, RawKept, Topics DEF Hand
  <2> QED
    BY <1>2, <2>2 DEF Key
<1>3. CASE pc'["ingest"][t] = pc["ingest"][t] /\ at'["ingest"][t] = at["ingest"][t]
  <2>1. Key(Hand("ingest", t)) \in Upserts("chunked", t)
    BY <1>3 DEF Marked
  <2>2. Upserts("chunked", t) \subseteq Upserts("chunked", t)'
    BY <1>1, UpsertsGrow DEF Topic
  <2> QED
    BY <1>2, <1>3, <2>1, <2>2
<1>4. CASE at'["ingest"][t] = at["ingest"][t] /\ IngestProduce(t)
  <2>1. Hand("ingest", t).op = "upsert"
    <3> SUFFICES ASSUME Hand("ingest", t).op # "upsert" PROVE FALSE
      OBVIOUS
    <3>1. pc'["ingest"][t] = "commit"
      BY <1>4, GotoPc DEF IngestProduce, Stage
    <3> QED
      BY <3>1
  <2>2. Key(Hand("ingest", t)) \in Upserts("chunked", t)'
    BY <1>4, <2>1, ProducedKey
  <2>3. pc["ingest"][t] # "idle"
    BY <1>4 DEF IngestProduce
  <2> QED
    BY <1>2, <1>4, <2>2, <2>3
<1>5. Labelled("ingest", t)
  BY NextLabelled DEF Stage
<1> QED
  BY <1>3, <1>4, <1>5 DEF Labelled

LEMMA NextSeen == ASSUME Typed, Working, Marked, SeenMeansProduced, [Next]_vars PROVE SeenMeansProduced'
<1>1. Typed' /\ Grown
  BY NextTyped
<1>2. Chunked \subseteq Chunked'
  BY <1>1, ChunkedGrows
<1>3. seen \subseteq Chunked
  BY DEF SeenMeansProduced, Chunked
<1>4. ASSUME NEW t \in Tenant, MarkSeen(t) PROVE seen' \subseteq Chunked'
  <2>1. Key(Hand("ingest", t)) \in Chunked
    BY <1>4 DEF Marked, MarkSeen, Chunked
  <2> QED
    BY <1>2, <1>3, <1>4, <2>1 DEF MarkSeen
<1>5. ASSUME seen' \subseteq seen PROVE seen' \subseteq Chunked'
  BY <1>2, <1>3, <1>5
<1>6. seen' \subseteq Chunked'
  <2>1. CASE UNCHANGED vars
    BY <1>5, <2>1 DEF vars
  <2>2. CASE Next
    BY <1>4, <1>5, <2>2, ZenonT(30)
       DEF Next, Work, Emit, Handle, Seen, IngestProduce, EnrichProduce, IndexWrite,
       AnswerLost, Quarantine, Commit, Crash, KeyExpires
  <2> QED
    BY <2>1, <2>2
<1> QED
  BY <1>6 DEF SeenMeansProduced, Chunked

LEMMA NextSettling ==
    ASSUME Typed, Working, Marked, SeenMeansProduced, Settling, [Next]_vars PROVE Settling'
<1>1. Typed' /\ Grown
  BY NextTyped
<1> SUFFICES ASSUME NEW t \in Tenant
             PROVE  /\ \A o \in 1..at'["ingest"][t] : Settled(t, o)'
                    /\ pc'["ingest"][t] = "commit" => Settled(t, at["ingest"][t] + 1)'
  BY DEF Settling
<1>0. PICK a \in Nat : a = at["ingest"][t]
  BY DEF Typed, Stage
<1>2. /\ committed["ingest"][t] \in Nat /\ committed["ingest"][t] <= a
      /\ Len(log["raw"][t]) \in Nat /\ a <= Len(log["raw"][t])
      /\ pc["ingest"][t] # "idle" => a + 1 \in 1..Len(log["raw"][t])
  <2>1. log["raw"][t] \in Seq(Rec)
    BY DEF Typed, Topic
  <2>2. committed["ingest"][t] \in Nat /\ committed["ingest"][t] <= a /\ a <= Len(log["raw"][t])
    BY <1>0, Topics DEF Typed, Working, Stage
  <2>3. pc["ingest"][t] # "idle" => a + 1 \in 1..Len(log["raw"][t])
    BY <1>0, InHand, Topics DEF Stage
  <2> QED
    BY <2>1, <2>2, <2>3
<1>3. \A o \in 1..a : Settled(t, o)'
  <2>1. \A o \in 1..a : o \in 1..Len(log["raw"][t])
    BY <1>2
  <2> QED
    BY <1>0, <1>1, <2>1, StaysSettled DEF Settling
<1>4. pc["ingest"][t] = "commit" => Settled(t, a + 1)'
  BY <1>0, <1>1, <1>2, StaysSettled DEF Settling
<1>5. \A o \in 1..at'["ingest"][t] : Settled(t, o)'
  <2>1. Moved("ingest", t)
    BY NextMoved DEF Stage
  <2>2. \/ at'["ingest"][t] = a
        \/ at'["ingest"][t] = a + 1 /\ pc["ingest"][t] = "commit"
        \/ at'["ingest"][t] = committed["ingest"][t]
    BY <1>0, <2>1 DEF Moved
  <2>3. \A o \in 1..at'["ingest"][t] : o \in 1..a \/ (o = a + 1 /\ pc["ingest"][t] = "commit")
    BY <1>2, <2>2
  <2> QED
    BY <1>3, <1>4, <2>3
<1>6. ASSUME pc'["ingest"][t] = "commit" PROVE Settled(t, at["ingest"][t] + 1)'
  <2>1. Labelled("ingest", t)
    BY NextLabelled DEF Stage
  <2>2. at'["ingest"][t] = a
    BY <1>0, <1>6, <2>1 DEF Labelled
  <2>3. Settled(t, a + 1)' => Settled(t, at["ingest"][t] + 1)'
    BY <2>2 DEF Settled
  <2>4. CASE pc["ingest"][t] = "commit"
    BY <1>4, <2>3, <2>4
  <2>5. ASSUME pc["ingest"][t] # "idle", Key(Hand("ingest", t)) \in Chunked
        PROVE  Settled(t, a + 1)'
    <3>1. Settled(t, a + 1)
      BY <1>0, <2>5, Topics DEF Settled, Hand
    <3> QED
      BY <1>1, <1>2, <2>5, <3>1, StaysSettled
  <2>6. CASE Seen(t) /\ Key(Hand("ingest", t)) \in seen
    BY <2>3, <2>5, <2>6 DEF Seen, SeenMeansProduced, Chunked
  <2>7. CASE IngestProduce(t) /\ Hand("ingest", t).op # "upsert"
    <3>1. Settled(t, a + 1)
      BY <1>0, <2>7, Topics DEF Settled, Hand
    <3> QED
      BY <1>1, <1>2, <2>3, <2>7, <3>1, StaysSettled DEF IngestProduce
  <2>8. CASE MarkSeen(t)
    BY <2>3, <2>5, <2>8 DEF MarkSeen, Marked, Chunked
  <2>9. CASE Quarantine("ingest", t)
    <3>1. a + 1 \in dead'["ingest"][t]
      BY <1>0, <2>9 DEF Quarantine, Typed, Stage
    <3> QED
      BY <2>3, <3>1 DEF Settled
  <2> QED
    BY <1>6, <2>1, <2>4, <2>6, <2>7, <2>8, <2>9 DEF Labelled
<1> QED
  BY <1>5, <1>6

LEMMA InitSkipInv == Init => SkipInv
<1> SUFFICES ASSUME Init PROVE SkipInv
  OBVIOUS
<1>1. \A k \in Topic, t \in Tenant : log[k][t] = <<>>
  BY DEF Init
<1>2. \A s \in Stage, t \in Tenant :
        committed[s][t] = 0 /\ at[s][t] = 0 /\ pc[s][t] = "idle" /\ dead[s][t] = {}
  BY DEF Init
<1>3. Typed
  <2>1. log \in [Topic -> [Tenant -> Seq(Rec)]]
    BY DEF Init
  <2>2. committed \in [Stage -> [Tenant -> Nat]] /\ at \in [Stage -> [Tenant -> Nat]]
    BY DEF Init
  <2>3. /\ pc \in [Stage -> [Tenant -> {"idle", "seen", "produce", "mark", "commit"}]]
        /\ dead \in [Stage -> [Tenant -> SUBSET Nat]]
    BY DEF Init
  <2>4. index \in [Tenant -> [Doc -> Etag \cup {Absent}]] /\ seen \subseteq (Doc \X Etag)
    BY DEF Init
  <2>5. lost \in BOOLEAN
    BY Zenon DEF Init
  <2> QED
    BY <2>1, <2>2, <2>3, <2>4, <2>5 DEF Typed
<1>4. Working
  BY <1>1, <1>2, Topics DEF Working
<1>5. Came
  BY <1>1 DEF Came, Topic
<1>6. Marked
  BY <1>2 DEF Marked, Stage
<1>7. SeenMeansProduced
  BY DEF Init, SeenMeansProduced
<1>8. Settling
  BY <1>2 DEF Settling, Stage
<1> QED
  BY <1>3, <1>4, <1>5, <1>6, <1>7, <1>8 DEF SkipInv

LEMMA NextSkipInv == SkipInv /\ [Next]_vars => SkipInv'
BY NextTyped, NextWorking, NextCame, NextMarked, NextSeen, NextSettling DEF SkipInv

LEMMA AlwaysSkipInv == Spec => []SkipInv
BY InitSkipInv, NextSkipInv, PTL DEF Spec

\* The state of the pipeline is well typed: no consumer commits or passes a
\* record its partition does not hold, or quarantines one it was not given.
THEOREM TypeCorrect == ASSUME MaxFaults \in Nat PROVE Spec => []TypeOK
<1> DEFINE Counted == faults \in 0..MaxFaults
<1>1. Init => Counted
  BY DEF Init
<1>2. Counted /\ [Next]_vars => Counted'
  <2> SUFFICES ASSUME Counted, [Next]_vars PROVE Counted'
    OBVIOUS
  <2>1. faults' = faults \/ \E k \in {"crash", "commit", "redis", "ttl", "answer", "handler"} : Fault(k)
    BY DEF Next, Work, Emit, Handle, Seen, IngestProduce, MarkSeen, EnrichProduce, IndexWrite,
           AnswerLost, Quarantine, Commit, Crash, KeyExpires, vars
  <2> QED
    BY <2>1 DEF Fault
<1>3. SkipInv /\ Counted => TypeOK
  BY DEF SkipInv, Typed, Working, TypeOK
<1> HIDE DEF Counted
<1> QED
  BY <1>1, <1>2, <1>3, AlwaysSkipInv, PTL DEF Spec

\* Whatever crashes between the produce and the mark, and whenever Redis fails
\* or a key expires: a dedupe key in Redis stands for a document that is on
\* docs.chunked, so a redelivered record is never dropped as a false duplicate.
THEOREM SeenIsProduced == Spec => []SeenMeansProduced
<1>1. SkipInv => SeenMeansProduced
  BY DEF SkipInv
<1> QED
  BY <1>1, AlwaysSkipInv, PTL

\* No two tenants emit the same version of the same document: the dedupe key
\* does not hold the tenant.
Apart ==
    \A t, u \in Tenant : t # u => Upserts("raw", t) \cap Upserts("raw", u) = {}

\* The key of a record on docs.chunked is that of a record on docs.raw.
LEMMA CameUpserts == ASSUME Came, NEW t \in Tenant PROVE Upserts("chunked", t) \subseteq Upserts("raw", t)
<1> SUFFICES ASSUME NEW o \in 1..Len(log["chunked"][t]), log["chunked"][t][o].op = "upsert"
             PROVE  Key(log["chunked"][t][o]) \in Upserts("raw", t)
  BY DEF Upserts
<1>1. PICK p \in 1..Len(log["raw"][t]) : log["chunked"][t][o] = log["raw"][t][p]
  BY DEF Came
<1> QED
  BY <1>1 DEF Upserts

\* A key of docs.raw that is on anyone's docs.chunked is on its own tenant's.
LEMMA OwnChunked ==
    ASSUME Came, Apart, NEW t \in Tenant, NEW k \in Upserts("raw", t), k \in Chunked
    PROVE  k \in Upserts("chunked", t)
<1>1. PICK u \in Tenant : k \in Upserts("chunked", u)
  BY DEF Chunked
<1>2. k \in Upserts("raw", u)
  BY <1>1, CameUpserts
<1> HIDE DEF Upserts
<1>3. u = t
  BY <1>2 DEF Apart
<1> QED
  BY <1>1, <1>3

\* "never skipped silently": as long as no two tenants emit the same version of
\* the same document, an upsert ingest has committed is on its own tenant's
\* docs.chunked or in the dead letter, under every crash, lost answer, failed
\* commit and Redis error.  With one tenant the premise holds trivially; with
\* two that share a document it is needed.
THEOREM NotSkipped == Spec => [](Apart => NeverSkippedSilently)
<1>1. SkipInv => (Apart => NeverSkippedSilently)
  <2> SUFFICES ASSUME SkipInv, Apart, NEW t \in Tenant, NEW o \in 1..committed["ingest"][t],
                      log["raw"][t][o].op = "upsert", o \notin dead["ingest"][t]
               PROVE  Key(log["raw"][t][o]) \in Upserts("chunked", t)
    BY DEF NeverSkippedSilently
  <2>1. /\ committed["ingest"][t] \in Nat /\ at["ingest"][t] \in Nat /\ log["raw"][t] \in Seq(Rec)
        /\ committed["ingest"][t] <= at["ingest"][t] /\ at["ingest"][t] <= Len(log["raw"][t])
    BY Topics DEF SkipInv, Typed, Working, Stage, Topic
  <2>2. o \in 1..at["ingest"][t] /\ o \in 1..Len(log["raw"][t])
    BY <2>1
  <2>3. Settled(t, o)
    BY <2>2 DEF SkipInv, Settling
  <2>4. Key(log["raw"][t][o]) \in Chunked
    BY <2>3 DEF Settled
  <2>5. Key(log["raw"][t][o]) \in Upserts("raw", t)
    BY <2>2 DEF Upserts
  <2> QED
    BY <2>4, <2>5, OwnChunked DEF SkipInv
<1> QED
  BY <1>1, AlwaysSkipInv, PTL

-----------------------------------------------------------------------------
(* No data is lost. *)

\* What the first n records of q leave of document d.
Newest(q, n, d) ==
    LET os == {o \in 1..n : q[o].doc = d} IN
    IF os = {} THEN Absent ELSE Effect(q[CHOOSE o \in os : \A p \in os : p <= o])

\* Of some offsets, one is the last.
LEMMA LastOffset ==
    ASSUME NEW n \in Nat, NEW T \in SUBSET (1..n), T # {}
    PROVE  \E o \in T : \A p \in T : p <= o
<1> DEFINE R == OpToRel(<, Nat)
           W == {n - p : p \in T}
<1>1. IsWellFoundedOn(R, Nat)
  BY NatLessThanWellFounded, Zenon
<1>2. \A k, m \in Nat : k < m => <<k, m>> \in R
  BY DEF OpToRel
<1>3. W \in SUBSET Nat /\ W # {}
  <2>1. \A p \in T : n - p \in Nat
    OBVIOUS
  <2>2. PICK p \in T : TRUE
    BY Zenon
  <2>3. n - p \in W
    OBVIOUS
  <2> QED
    BY <2>1, <2>3
<1> HIDE DEF R
<1>4. PICK m \in W : \A k \in W : ~ (<<k, m>> \in R)
  <2> HIDE DEF W
  <2> QED
    BY <1>1, <1>3, WFMin, Zenon
<1>5. PICK o \in T : m = n - o
  OBVIOUS
<1>6. \A p \in T : p <= o
  <2> TAKE p \in T
  <2>1. ~(n - p < m)
    BY <1>2, <1>3, <1>4, Zenon
  <2> QED
    BY <1>5, <2>1
<1> QED
  BY <1>6

\* The last of n + 1 records decides for its document, and for no other.
LEMMA NewestNext ==
    ASSUME NEW q, NEW n \in Nat, NEW d
    PROVE  Newest(q, n + 1, d) = IF q[n + 1].doc = d THEN Effect(q[n + 1]) ELSE Newest(q, n, d)
<1> DEFINE os == {o \in 1..(n + 1) : q[o].doc = d}
           ps == {o \in 1..n : q[o].doc = d}
<1>1. CASE q[n + 1].doc = d
  <2>1. n + 1 \in os /\ \A p \in os : p <= n + 1
    BY <1>1
  <2>2. \A o \in os : (\A p \in os : p <= o) => o = n + 1
    BY <2>1
  <2> HIDE DEF os
  <2>3. (CHOOSE o \in os : \A p \in os : p <= o) = n + 1
    BY <2>1, <2>2
  <2>4. Newest(q, n + 1, d) = Effect(q[CHOOSE o \in os : \A p \in os : p <= o])
    BY <2>1 DEF Newest, os
  <2> QED
    BY <1>1, <2>3, <2>4, Zenon
<1>2. CASE q[n + 1].doc # d
  <2>1. os = ps
    BY <1>2
  <2>2. Newest(q, n + 1, d) = IF os = {} THEN Absent ELSE Effect(q[CHOOSE o \in os : \A p \in os : p <= o])
    BY DEF Newest
  <2>3. Newest(q, n, d) = IF ps = {} THEN Absent ELSE Effect(q[CHOOSE o \in ps : \A p \in ps : p <= o])
    BY DEF Newest
  <2> HIDE DEF os, ps
  <2> QED
    BY <1>2, <2>1, <2>2, <2>3
<1> QED
  BY <1>1, <1>2

\* What the first n records leave depends on them alone.
LEMMA NewestKept ==
    ASSUME NEW q, NEW r, NEW n \in Nat, \A o \in 1..n : r[o] = q[o], NEW d
    PROVE  Newest(r, n, d) = Newest(q, n, d)
<1> DEFINE os == {o \in 1..n : q[o].doc = d}
           ps == {o \in 1..n : r[o].doc = d}
           last == CHOOSE o \in os : \A p \in os : p <= o
<1>1. os = ps
  OBVIOUS
<1>2. Newest(q, n, d) = IF os = {} THEN Absent ELSE Effect(q[last])
  BY DEF Newest
<1>3. Newest(r, n, d) = IF ps = {} THEN Absent ELSE Effect(r[CHOOSE o \in ps : \A p \in ps : p <= o])
  BY DEF Newest
<1>4. Newest(r, n, d) = IF os = {} THEN Absent ELSE Effect(r[last])
  <2> HIDE DEF os, ps
  <2> QED
    BY <1>1, <1>3
<1>5. CASE os = {}
  BY <1>2, <1>4, <1>5
<1>6. CASE os # {}
  <2>0. os \in SUBSET (1..n)
    OBVIOUS
  <2>1. last \in os
    <3> HIDE DEF os
    <3>1. \E o \in os : \A p \in os : p <= o
      BY <1>6, <2>0, LastOffset, Zenon
    <3> QED
      BY <3>1
  <2>2. last \in 1..n
    BY <2>1
  <2>3. r[last] = q[last]
    BY <2>2
  <2> HIDE DEF os, last
  <2> QED
    BY <1>2, <1>4, <2>3
<1> QED
  BY <1>5, <1>6

\* What a stage has brought about of a document: on the topic it produces to,
\* or in the index.
Made(s, t, d) ==
    IF s = "index" THEN index[t][d]
    ELSE Newest(log[OutTopic[s]][t], Len(log[OutTopic[s]][t]), d)

\* The premises of ZeroDataLoss that hold at every earlier state too.
Good == Fresh /\ Apart /\ ~lost /\ \A s \in Stage, t \in Tenant : dead[s][t] = {}

\* Without a lost commit a crash repeats the record in hand and no other.
Even == \A s \in Stage, t \in Tenant : committed[s][t] = at[s][t]

\* Ingest has produced no record beyond the one in hand.
Bounded ==
    \A t \in Tenant : \A o \in 1..Len(log["chunked"][t]) :
        \E p \in 1..Len(log["raw"][t]) :
            p <= at["ingest"][t] + 1 /\ log["chunked"][t][o] = log["raw"][t][p]

\* Once ingest has produced the record in hand, it is the newest of its document.
Repeated ==
    \A t \in Tenant : \A o \in 1..Len(log["chunked"][t]) :
        LET n == at["ingest"][t] + 1
            r == log["raw"][t][n]
        IN  n <= Len(log["raw"][t]) /\ log["chunked"][t][o] = r => Made("ingest", t, r.doc) = Effect(r)

\* A stage has carried over the records it is done with, maybe the one in hand,
\* and that one for certain when it is about to commit.
InStep ==
    \A s \in Stage, t \in Tenant, d \in Doc :
        LET q == log[InTopic[s]][t]
            n == at[s][t]
        IN  /\ \/ Made(s, t, d) = Newest(q, n, d)
               \/ n < Len(q) /\ Made(s, t, d) = Newest(q, n + 1, d)
            /\ pc[s][t] \in {"mark", "commit"} => Made(s, t, d) = Newest(q, n + 1, d)

DataInv == Good => Even /\ Bounded /\ Repeated /\ InStep

\* The premises were true before the step if they are after it.
LEMMA GoodBefore == ASSUME Typed, Working, [Next]_vars, Good' PROVE Good
<1>1. Typed' /\ Grown
  BY NextTyped
<1>2. Fresh
  <2> SUFFICES ASSUME NEW t \in Tenant, NEW o \in 1..Len(log["raw"][t]), NEW p \in 1..Len(log["raw"][t]),
                      Key(log["raw"][t][o]) = Key(log["raw"][t][p])
               PROVE  o = p
    BY DEF Fresh
  <2>1. /\ o \in 1..Len(log'["raw"][t]) /\ log'["raw"][t][o] = log["raw"][t][o]
        /\ p \in 1..Len(log'["raw"][t]) /\ log'["raw"][t][p] = log["raw"][t][p]
    BY <1>1, RawKept
  <2>2. Key(log["raw"][t][o])' = Key(log["raw"][t][p])'
    BY <2>1 DEF Key
  <2> QED
    BY <2>1, <2>2 DEF Good, Fresh
<1>3. Apart
  <2>1. \A t \in Tenant : Upserts("raw", t) \subseteq Upserts("raw", t)'
    BY <1>1, UpsertsGrow DEF Topic
  <2>2. Apart'
    BY DEF Good
  <2> HIDE DEF Upserts
  <2> QED
    BY <2>1, <2>2 DEF Apart
<1>4. ~lost
  <2>1. lost' = lost \/ lost' = TRUE
    BY DEF Next, Work, Emit, Handle, Seen, IngestProduce, MarkSeen, EnrichProduce, IndexWrite,
           AnswerLost, Quarantine, Commit, Crash, KeyExpires, vars
  <2> QED
    BY <2>1 DEF Good
<1>5. \A s \in Stage, t \in Tenant : dead[s][t] = {}
  BY <1>1 DEF Good, Grown
<1> QED
  BY <1>2, <1>3, <1>4, <1>5 DEF Good

LEMMA NextEven == ASSUME Typed, Working, Even, ~lost', [Next]_vars PROVE Even'
<1>1. ASSUME UNCHANGED <<at, committed>> PROVE Even'
  BY <1>1 DEF Even
<1>2. ASSUME NEW s \in Stage, NEW t \in Tenant, Commit(s, t) PROVE Even'
  <2>1. committed' = [committed EXCEPT ![s][t] = at[s][t] + 1] /\ at' = [at EXCEPT ![s][t] = @ + 1]
    BY <1>2 DEF Commit
  <2> QED
    BY <2>1 DEF Even, Typed
<1>3. ASSUME NEW s \in Stage, NEW t \in Tenant, Crash(s, t) PROVE Even'
  <2>1. committed' = committed /\ at' = [at EXCEPT ![s][t] = committed[s][t]]
    BY <1>3 DEF Crash
  <2> QED
    BY <2>1 DEF Even, Typed
<1>4. CASE UNCHANGED vars
  BY <1>1, <1>4 DEF vars, consumer
<1>5. CASE Next
  BY <1>1, <1>2, <1>3, <1>5, ZenonT(30)
     DEF Next, Work, Emit, Handle, Seen, IngestProduce, MarkSeen, EnrichProduce, IndexWrite,
         AnswerLost, Quarantine, KeyExpires, consumer
<1> QED
  BY <1>4, <1>5

\* Without a lost commit, a consumer stays where it is or goes one record on.
LEMMA Onward ==
    ASSUME Typed, Working, Even, [Next]_vars, NEW s \in Stage, NEW t \in Tenant
    PROVE  \/ at'[s][t] = at[s][t]
           \/ at'[s][t] = at[s][t] + 1 /\ pc[s][t] = "commit" /\ pc'[s][t] = "idle"
BY NextMoved DEF Moved, Even

LEMMA NextBounded == ASSUME Typed, Working, Even, Bounded, [Next]_vars PROVE Bounded'
<1>1. Typed' /\ Grown
  BY NextTyped
<1> SUFFICES ASSUME NEW t \in Tenant, NEW o \in 1..Len(log'["chunked"][t])
             PROVE  \E p \in 1..Len(log'["raw"][t]) :
                        p <= at'["ingest"][t] + 1 /\ log'["chunked"][t][o] = log'["raw"][t][p]
  BY Zenon DEF Bounded
<1>2. /\ log["chunked"][t] \in Seq(Rec) /\ at["ingest"][t] \in Nat /\ log["raw"][t] \in Seq(Rec)
      /\ at'["ingest"][t] \in Nat /\ at["ingest"][t] <= at'["ingest"][t]
  <2>1. at'["ingest"][t] = at["ingest"][t] \/ at'["ingest"][t] = at["ingest"][t] + 1
    BY Onward DEF Stage
  <2>2. log["chunked"][t] \in Seq(Rec) /\ log["raw"][t] \in Seq(Rec) /\ at["ingest"][t] \in Nat
    BY DEF Typed, Topic, Stage
  <2> QED
    BY <2>1, <2>2
<1>3. CASE o \in 1..Len(log["chunked"][t]) /\ log'["chunked"][t][o] = log["chunked"][t][o]
  <2>1. PICK p \in 1..Len(log["raw"][t]) :
            p <= at["ingest"][t] + 1 /\ log["chunked"][t][o] = log["raw"][t][p]
    BY <1>3 DEF Bounded
  <2>2. p \in 1..Len(log'["raw"][t]) /\ log'["raw"][t][p] = log["raw"][t][p]
    BY <1>1, RawKept
  <2>3. p <= at'["ingest"][t] + 1
    BY <1>2, <2>1
  <2> QED
    BY <1>3, <2>1, <2>2, <2>3
<1>4. CASE pc["ingest"][t] = "produce" /\ log'["chunked"][t][o] = Hand("ingest", t)
  <2>1. at["ingest"][t] + 1 \in 1..Len(log["raw"][t])
    BY <1>4, InHand, Topics DEF Stage
  <2>2. Hand("ingest", t) = log["raw"][t][at["ingest"][t] + 1]
    BY Topics DEF Hand
  <2>3. /\ at["ingest"][t] + 1 \in 1..Len(log'["raw"][t])
        /\ log'["raw"][t][at["ingest"][t] + 1] = log["raw"][t][at["ingest"][t] + 1]
    BY <1>1, <2>1, RawKept
  <2> QED
    BY <1>2, <1>4, <2>2, <2>3, SMTT(30)
<1>5. Written(t)
  BY NextWritten
<1>6. CASE log'["chunked"][t] = log["chunked"][t]
  BY <1>3, <1>6
<1>7. CASE /\ pc["ingest"][t] = "produce"
           /\ log'["chunked"][t] = Append(log["chunked"][t], Hand("ingest", t))
  <2>1. Hand("ingest", t) \in Rec
    BY <1>7, InHand DEF Stage
  <2> HIDE DEF Hand
  <2>2. \/ o \in 1..Len(log["chunked"][t]) /\ log'["chunked"][t][o] = log["chunked"][t][o]
        \/ log'["chunked"][t][o] = Hand("ingest", t)
    BY <1>2, <1>7, <2>1, AppendProperties
  <2> QED
    BY <1>3, <1>4, <1>7, <2>2
<1> QED
  BY <1>5, <1>6, <1>7, Zenon DEF Written

\* What a stage has brought about of each document after it wrote the record in
\* hand, and when it wrote nothing.
LEMMA MadeAppend ==
    ASSUME NEW q \in Seq(Rec), NEW r \in Rec, NEW d
    PROVE  Newest(Append(q, r), Len(Append(q, r)), d) = IF r.doc = d THEN Effect(r) ELSE Newest(q, Len(q), d)
<1>1. /\ Len(q) \in Nat /\ Len(Append(q, r)) = Len(q) + 1 /\ Append(q, r)[Len(q) + 1] = r
      /\ \A o \in 1..Len(q) : Append(q, r)[o] = q[o]
  BY AppendProperties
<1>2. Newest(Append(q, r), Len(q) + 1, d) = IF r.doc = d THEN Effect(r) ELSE Newest(Append(q, r), Len(q), d)
  BY <1>1, NewestNext, ZenonT(60)
<1>3. Newest(Append(q, r), Len(q), d) = Newest(q, Len(q), d)
  <2> DEFINE x == Append(q, r)
             n == Len(q)
  <2>1. n \in Nat /\ \A o \in 1..n : x[o] = q[o]
    BY <1>1
  <2> HIDE DEF x, n
  <2>2. Newest(x, n, d) = Newest(q, n, d)
    BY <2>1, NewestKept
  <2> QED
    BY <2>2 DEF x, n
<1> QED
  BY <1>1, <1>2, <1>3

\* The record in hand is written, or nothing is.
Carried(s, t) ==
    pc[s][t] = "produce" /\ at'[s][t] = at[s][t]
    /\ \A d \in Doc : Made(s, t, d)' = IF Hand(s, t).doc = d THEN Effect(Hand(s, t)) ELSE Made(s, t, d)

LEMMA NextMade ==
    ASSUME Typed, Working, [Next]_vars, NEW s \in Stage, NEW t \in Tenant
    PROVE  Carried(s, t) \/ \A d \in Doc : Made(s, t, d)' = Made(s, t, d)
<1>1. Written(t)
  BY NextWritten
<1>2. ASSUME s \in {"ingest", "enrich"}, pc[s][t] = "produce", at'[s][t] = at[s][t],
             log'[OutTopic[s]][t] = Append(log[OutTopic[s]][t], Hand(s, t))
      PROVE  Carried(s, t)
  <2>1. Hand(s, t) \in Rec /\ log[OutTopic[s]][t] \in Seq(Rec)
    BY <1>2, InHand, Topics DEF Typed, Topic
  <2> HIDE DEF Hand
  <2>2. \A d \in Doc : Made(s, t, d)' = IF Hand(s, t).doc = d THEN Effect(Hand(s, t)) ELSE Made(s, t, d)
    BY <1>2, <2>1, MadeAppend, ZenonT(30) DEF Made
  <2> QED
    BY <1>2, <2>2 DEF Carried
<1>3. CASE s = "ingest"
  <2>1. CASE log'["chunked"][t] = log["chunked"][t]
    BY <1>3, <2>1, Topics DEF Made
  <2>2. CASE log'["chunked"][t] # log["chunked"][t]
    BY <1>1, <1>2, <1>3, <2>2, Topics, ZenonT(30) DEF Written
  <2> QED
    BY <2>1, <2>2
<1>4. CASE s = "enrich"
  <2>1. CASE log'["enriched"][t] = log["enriched"][t]
    BY <1>4, <2>1, Topics DEF Made
  <2>2. CASE log'["enriched"][t] # log["enriched"][t]
    BY <1>1, <1>2, <1>4, <2>2, Topics, ZenonT(30) DEF Written
  <2> QED
    BY <2>1, <2>2
<1>5. CASE s = "index"
  <2>1. CASE index'[t] = index[t]
    BY <1>5, <2>1 DEF Made
  <2>2. CASE /\ pc["index"][t] = "produce" /\ at'["index"][t] = at["index"][t]
             /\ index'[t] = [index[t] EXCEPT ![Hand("index", t).doc] = Effect(Hand("index", t))]
    <3>1. index[t] \in [Doc -> Etag \cup {Absent}]
      BY DEF Typed
    <3> HIDE DEF Hand, Effect
    <3>2. \A d \in Doc : index'[t][d] = IF Hand("index", t).doc = d THEN Effect(Hand("index", t)) ELSE index[t][d]
      BY <2>2, <3>1
    <3> QED
      BY <1>5, <2>2, <3>2 DEF Carried, Made
  <2> QED
    BY <1>1, <2>1, <2>2, Zenon DEF Written
<1> QED
  BY <1>3, <1>4, <1>5 DEF Stage

\* No record of docs.chunked is one that ingest has not been given yet.
LEMMA NotAhead ==
    ASSUME Typed, Working, Bounded, Typed', Grown, Fresh', NEW t \in Tenant,
           NEW o \in 1..Len(log["chunked"][t]), NEW n \in 1..Len(log'["raw"][t]),
           \/ n > at["ingest"][t] + 1
           \/ n > Len(log["raw"][t])
    PROVE  log["chunked"][t][o] # log'["raw"][t][n]
<1> SUFFICES ASSUME log["chunked"][t][o] = log'["raw"][t][n] PROVE FALSE
  OBVIOUS
<1>1. PICK p \in 1..Len(log["raw"][t]) :
          p <= at["ingest"][t] + 1 /\ log["chunked"][t][o] = log["raw"][t][p]
  BY DEF Bounded
<1>2. p \in 1..Len(log'["raw"][t]) /\ log'["raw"][t][p] = log["raw"][t][p]
  BY RawKept
<1>3. Key(log'["raw"][t][p]) = Key(log'["raw"][t][n])
  BY <1>1, <1>2
<1>4. p = n
  BY <1>2, <1>3, ZenonT(30) DEF Fresh, Key
<1>5. at["ingest"][t] \in Nat /\ Len(log["raw"][t]) \in Nat /\ p \in Nat
  <2>1. log["raw"][t] \in Seq(Rec)
    BY DEF Typed, Topic
  <2> QED
    BY <2>1 DEF Typed, Stage
<1> QED
  BY <1>1, <1>4, <1>5

LEMMA NextRepeated ==
    ASSUME Typed, Working, Even, Bounded, Repeated, Fresh', [Next]_vars PROVE Repeated'
<1>1. Typed' /\ Grown
  BY NextTyped
<1> SUFFICES ASSUME NEW t \in Tenant, NEW o \in 1..Len(log'["chunked"][t]),
                    at'["ingest"][t] + 1 <= Len(log'["raw"][t]),
                    log'["chunked"][t][o] = log'["raw"][t][at'["ingest"][t] + 1]
             PROVE  Made("ingest", t, log["raw"][t][at["ingest"][t] + 1].doc)'
                        = Effect(log["raw"][t][at["ingest"][t] + 1])'
  BY Zenon DEF Repeated
<1>2. PICK n \in Nat : n = at["ingest"][t]
  BY DEF Typed, Stage
<1>3. log["chunked"][t] \in Seq(Rec) /\ log["raw"][t] \in Seq(Rec)
      /\ log'["chunked"][t] \in Seq(Rec) /\ log'["raw"][t] \in Seq(Rec)
  BY <1>1 DEF Typed, Topic
<1>4. \/ at'["ingest"][t] = n
      \/ at'["ingest"][t] = n + 1 /\ pc["ingest"][t] = "commit"
  BY <1>2, Onward DEF Stage
<1>5. \/ log'["chunked"][t] = log["chunked"][t]
      \/ /\ pc["ingest"][t] = "produce" /\ at'["ingest"][t] = n
         /\ log'["chunked"][t] = Append(log["chunked"][t], Hand("ingest", t))
  BY <1>2, NextWritten, ZenonT(30) DEF Written
<1>6. CASE log'["chunked"][t] = log["chunked"][t]
  <2>1. o \in 1..Len(log["chunked"][t])
    BY <1>6
  <2>2. at'["ingest"][t] + 1 \in 1..Len(log'["raw"][t])
    BY <1>3, <1>4
  <2>3. at'["ingest"][t] = n /\ n + 1 <= Len(log["raw"][t])
    <3>1. ~(at'["ingest"][t] + 1 > n + 1) /\ ~(at'["ingest"][t] + 1 > Len(log["raw"][t]))
      BY <1>1, <1>2, <1>6, <2>1, <2>2, NotAhead, SMTT(30)
    <3>2. Len(log["raw"][t]) \in Nat
      BY <1>3
    <3> QED
      BY <1>4, <3>1, <3>2
  <2>4. log'["raw"][t][n + 1] = log["raw"][t][n + 1]
    <3>1. n + 1 \in 1..Len(log["raw"][t])
      BY <1>3, <2>3
    <3> QED
      BY <1>1, <3>1, RawKept
  <2>5. Made("ingest", t, log["raw"][t][n + 1].doc) = Effect(log["raw"][t][n + 1])
    BY <1>2, <1>6, <2>1, <2>3, <2>4 DEF Repeated
  <2>6. \A d : Made("ingest", t, d)' = Made("ingest", t, d)
    BY <1>6, Topics DEF Made
  <2>7. Effect(log["raw"][t][at["ingest"][t] + 1])' = Effect(log["raw"][t][n + 1])
    BY <2>3, <2>4
  <2>8. Made("ingest", t, log["raw"][t][at["ingest"][t] + 1].doc)' = Made("ingest", t, log["raw"][t][n + 1].doc)
    BY <1>6, <2>3, <2>4, Topics DEF Made
  <2> QED
    BY <2>5, <2>7, <2>8
<1>7. CASE /\ pc["ingest"][t] = "produce" /\ at'["ingest"][t] = n
           /\ log'["chunked"][t] = Append(log["chunked"][t], Hand("ingest", t))
  <2> DEFINE r == Hand("ingest", t)
  <2>1. r \in Rec /\ n + 1 \in 1..Len(log["raw"][t]) /\ r = log["raw"][t][n + 1]
    BY <1>2, <1>7, InHand, Topics, ZenonT(30) DEF Stage, Hand
  <2>2. log'["raw"][t][n + 1] = r
    BY <1>1, <2>1, RawKept
  <2> HIDE DEF r
  <2>3. Newest(Append(log["chunked"][t], r), Len(Append(log["chunked"][t], r)), r.doc) = Effect(r)
    BY <1>3, <2>1, MadeAppend, Zenon
  <2>4. Made("ingest", t, log["raw"][t][at["ingest"][t] + 1].doc)'
            = Newest(log'["chunked"][t], Len(log'["chunked"][t]), r.doc)
    BY <1>7, <2>2, Topics, ZenonT(30) DEF Made
  <2>5. Effect(log["raw"][t][at["ingest"][t] + 1])' = Effect(r)
    BY <1>7, <2>2
  <2> QED
    BY <1>7, <2>3, <2>4, <2>5 DEF r
<1> QED
  BY <1>5, <1>6, <1>7

\* The record in hand is the next of its partition.
LEMMA HandNewest ==
    ASSUME Typed, NEW s \in Stage, NEW t \in Tenant, NEW d
    PROVE  Newest(log[InTopic[s]][t], at[s][t] + 1, d)
               = IF Hand(s, t).doc = d THEN Effect(Hand(s, t)) ELSE Newest(log[InTopic[s]][t], at[s][t], d)
<1>1. at[s][t] \in Nat
  BY DEF Typed
<1> QED
  BY <1>1, NewestNext, ZenonT(30) DEF Hand

\* Ingest asks Redis about upserts only.
Asking == \A t \in Tenant : pc["ingest"][t] = "seen" => Hand("ingest", t).op = "upsert"

LEMMA NextAsking == ASSUME Typed, Working, Asking, [Next]_vars PROVE Asking'
<1>1. Typed' /\ Grown
  BY NextTyped
<1> SUFFICES ASSUME NEW t \in Tenant, pc'["ingest"][t] = "seen" PROVE Hand("ingest", t).op' = "upsert"
  BY DEF Asking
<1>2. Labelled("ingest", t)
  BY NextLabelled DEF Stage
<1>3. CASE pc'["ingest"][t] = pc["ingest"][t] /\ at'["ingest"][t] = at["ingest"][t]
  <2>1. at["ingest"][t] + 1 \in 1..Len(log["raw"][t])
    BY <1>3, InHand, Topics DEF Stage
  <2>2. Hand("ingest", t)' = Hand("ingest", t)
    BY <1>1, <1>3, <2>1, RawKept, Topics, SMTT(30) DEF Hand
  <2> QED
    BY <1>3, <2>2 DEF Asking
<1>4. CASE Handle("ingest", t)
  <2>1. Hand("ingest", t)' = Hand("ingest", t)
    BY <1>4 DEF Handle, Hand
  <2>2. Hand("ingest", t).op # "upsert" => pc'["ingest"][t] = "produce"
    BY <1>4, GotoPc DEF Handle, Stage
  <2> QED
    BY <2>1, <2>2
<1> QED
  BY <1>2, <1>3, <1>4, Zenon DEF Labelled

\* A handler that finishes its work has written the record in hand.
LEMMA WorkCarries ==
    ASSUME Typed, Working, NEW s \in Stage, NEW t \in Tenant,
           \/ s = "ingest" /\ IngestProduce(t)
           \/ s = "enrich" /\ EnrichProduce(t)
           \/ s = "index" /\ IndexWrite(t)
    PROVE  Carried(s, t)
<1>1. pc[s][t] = "produce" /\ at' = at
  BY ZenonT(30) DEF IngestProduce, EnrichProduce, IndexWrite
<1>2. Hand(s, t) \in Rec
  BY <1>1, InHand
<1>3. CASE s # "index"
  <2>1. s \in {"ingest", "enrich"} /\ Out(s, t)
    BY <1>3 DEF IngestProduce, EnrichProduce, Stage
  <2>2. log'[OutTopic[s]][t] = Append(log[OutTopic[s]][t], Hand(s, t))
    BY <1>1, <2>1, OutLog, Zenon
  <2>3. log[OutTopic[s]][t] \in Seq(Rec)
    BY <2>1, Topics DEF Typed, Topic
  <2> HIDE DEF Hand
  <2> DEFINE q == log[OutTopic[s]][t]
             x == log'[OutTopic[s]][t]
  <2>4. \A d \in Doc : Made(s, t, d)' = IF Hand(s, t).doc = d THEN Effect(Hand(s, t)) ELSE Made(s, t, d)
    <3>1. \A d \in Doc : Newest(x, Len(x), d) = IF Hand(s, t).doc = d THEN Effect(Hand(s, t)) ELSE Newest(q, Len(q), d)
      <4> DEFINE r == Hand(s, t)
      <4>1. q \in Seq(Rec) /\ r \in Rec /\ x = Append(q, r)
        BY <1>2, <2>2, <2>3
      <4> HIDE DEF q, x, r
      <4>2. \A d \in Doc : Newest(x, Len(x), d) = IF r.doc = d THEN Effect(r) ELSE Newest(q, Len(q), d)
        BY <4>1, MadeAppend
      <4> QED
        BY <4>2 DEF r
    <3>2. \A d \in Doc : Made(s, t, d)' = Newest(x, Len(x), d) /\ Made(s, t, d) = Newest(q, Len(q), d)
      BY <1>3 DEF Made
    <3> QED
      BY <3>1, <3>2
  <2> QED
    BY <1>1, <2>4 DEF Carried
<1>4. CASE s = "index"
  <2>1. index' = [index EXCEPT ![t] = [index[t] EXCEPT ![Hand(s, t).doc] = Effect(Hand(s, t))]]
    BY <1>4 DEF IndexWrite, Feed
  <2> HIDE DEF Hand, Effect
  <2>2. index'[t] = [index[t] EXCEPT ![Hand(s, t).doc] = Effect(Hand(s, t))]
    BY <2>1 DEF Typed
  <2>3. index[t] \in [Doc -> Etag \cup {Absent}]
    BY DEF Typed
  <2>4. \A d \in Doc : index'[t][d] = IF Hand(s, t).doc = d THEN Effect(Hand(s, t)) ELSE index[t][d]
    BY <2>2, <2>3
  <2> QED
    BY <1>1, <1>4, <2>4 DEF Carried, Made
<1> QED
  BY <1>3, <1>4

\* A record ingest drops as a duplicate is already the newest of its document.
LEMMA DropsOnlyRepeats ==
    ASSUME Typed, Working, Came, Asking, SeenMeansProduced, Fresh, Apart, Bounded, Repeated,
           NEW t \in Tenant, pc["ingest"][t] = "seen", Key(Hand("ingest", t)) \in seen
    PROVE  Made("ingest", t, Hand("ingest", t).doc) = Effect(Hand("ingest", t))
<1> DEFINE n == at["ingest"][t] + 1
<1>1. n \in 1..Len(log["raw"][t]) /\ Hand("ingest", t) = log["raw"][t][n]
  BY InHand, Topics DEF Stage, Hand
<1>2. Key(Hand("ingest", t)) \in Upserts("raw", t)
  BY <1>1 DEF Asking, Upserts
<1>3. Key(Hand("ingest", t)) \in Chunked
  BY DEF SeenMeansProduced, Chunked
<1>4. Key(Hand("ingest", t)) \in Upserts("chunked", t)
  BY <1>2, <1>3, OwnChunked
<1>5. PICK o \in 1..Len(log["chunked"][t]) : Key(log["chunked"][t][o]) = Key(Hand("ingest", t))
  BY <1>4 DEF Upserts
<1>6. PICK p \in 1..Len(log["raw"][t]) : log["chunked"][t][o] = log["raw"][t][p]
  BY DEF Came
<1>7. p = n
  BY <1>1, <1>5, <1>6 DEF Fresh
<1>8. log["chunked"][t][o] = log["raw"][t][n] /\ n <= Len(log["raw"][t])
  <2>1. log["raw"][t] \in Seq(Rec) /\ at["ingest"][t] \in Nat
    BY DEF Typed, Topic, Stage
  <2> QED
    BY <1>1, <1>6, <1>7, <2>1
<1> QED
  BY <1>1, <1>8 DEF Repeated

LEMMA NextInStep ==
    ASSUME Typed, Working, Came, Asking, SeenMeansProduced, Good, Good', Even, Bounded, Repeated, InStep,
           [Next]_vars
    PROVE  InStep'
<1>1. Typed' /\ Grown
  BY NextTyped
<1> SUFFICES ASSUME NEW s \in Stage, NEW t \in Tenant, NEW d \in Doc
             PROVE  /\ \/ Made(s, t, d)' = Newest(log[InTopic[s]][t], at[s][t], d)'
                       \/ /\ at'[s][t] < Len(log'[InTopic[s]][t])
                          /\ Made(s, t, d)' = Newest(log[InTopic[s]][t], at[s][t] + 1, d)'
                    /\ pc'[s][t] \in {"mark", "commit"} =>
                           Made(s, t, d)' = Newest(log[InTopic[s]][t], at[s][t] + 1, d)'
  BY ZenonT(30) DEF InStep
<1> DEFINE q == log[InTopic[s]][t]
           x == log'[InTopic[s]][t]
           n == at[s][t]
           old == Made(s, t, d)
<1>2. /\ q \in Seq(Rec) /\ x \in Seq(Rec) /\ Longer(q, x) /\ n \in Nat /\ n <= Len(q)
      /\ pc[s][t] # "idle" => n < Len(q)
  BY <1>1, Topics DEF Typed, Grown, Working
<1>3. Len(q) \in Nat /\ Len(x) \in Nat /\ Len(q) <= Len(x)
  BY <1>2 DEF Longer
<1>4. /\ old = Newest(q, n, d) \/ (n < Len(q) /\ old = Newest(q, n + 1, d))
      /\ pc[s][t] \in {"mark", "commit"} => old = Newest(q, n + 1, d)
  BY Zenon DEF InStep
<1>5. Newest(x, n, d) = Newest(q, n, d) /\ (n < Len(q) => Newest(x, n + 1, d) = Newest(q, n + 1, d))
  <2>1. \A o \in 1..n : x[o] = q[o]
    BY <1>2, <1>3 DEF Longer
  <2>2. n < Len(q) => \A o \in 1..(n + 1) : x[o] = q[o]
    BY <1>2, <1>3 DEF Longer
  <2> HIDE DEF q, x, n
  <2>3. Newest(x, n, d) = Newest(q, n, d)
    BY <1>2, <2>1, NewestKept
  <2>4. ASSUME n < Len(q) PROVE Newest(x, n + 1, d) = Newest(q, n + 1, d)
    <3> DEFINE m == n + 1
    <3>1. m \in Nat /\ \A o \in 1..m : x[o] = q[o]
      BY <1>2, <2>2, <2>4
    <3> HIDE DEF m
    <3>2. Newest(x, m, d) = Newest(q, m, d)
      BY <3>1, NewestKept
    <3> QED
      BY <3>2 DEF m
  <2> QED
    BY <2>3, <2>4
<1>6. Newest(q, n + 1, d) = IF Hand(s, t).doc = d THEN Effect(Hand(s, t)) ELSE Newest(q, n, d)
  BY HandNewest
<1>7. /\ Newest(log[InTopic[s]][t], at[s][t], d)' = Newest(x, at'[s][t], d)
      /\ Newest(log[InTopic[s]][t], at[s][t] + 1, d)' = Newest(x, at'[s][t] + 1, d)
  OBVIOUS
<1>8. CASE Carried(s, t)
  <2>1. at'[s][t] = n /\ n < Len(q)
    BY <1>2, <1>8 DEF Carried
  <2>2. Made(s, t, d)' = IF Hand(s, t).doc = d THEN Effect(Hand(s, t)) ELSE old
    BY <1>8 DEF Carried
  <2> HIDE DEF Hand, q, x, n, old
  <2>3. Made(s, t, d)' = Newest(q, n + 1, d)
    BY <1>4, <1>6, <2>2
  <2>4. n < Len(x)
    BY <1>2, <1>3, <2>1
  <2> QED
    BY <1>5, <1>7, <2>1, <2>3, <2>4, ZenonT(30) DEF x
<1>9. CASE Made(s, t, d)' = old /\ at'[s][t] = n + 1 /\ pc[s][t] = "commit" /\ pc'[s][t] = "idle"
  <2>1. n < Len(q)
    BY <1>2, <1>9
  <2> HIDE DEF q, x, n, old
  <2> QED
    BY <1>4, <1>5, <1>7, <1>9, <2>1
<1>10. CASE Made(s, t, d)' = old /\ at'[s][t] = n
  <2>1. \/ Made(s, t, d)' = Newest(x, n, d)
        \/ n < Len(x) /\ Made(s, t, d)' = Newest(x, n + 1, d)
    <3> HIDE DEF q, x, n, old
    <3>1. CASE old = Newest(q, n, d)
      BY <1>5, <1>10, <3>1
    <3>2. CASE n < Len(q) /\ old = Newest(q, n + 1, d)
      <4>1. n < Len(x)
        BY <1>2, <1>3, <3>2
      <4> QED
        BY <1>5, <1>10, <3>2, <4>1
    <3> QED
      BY <1>4, <3>1, <3>2
  <2>2. ASSUME pc'[s][t] \in {"mark", "commit"}, ~Carried(s, t) PROVE Made(s, t, d)' = Newest(x, n + 1, d)
    <3>1. Labelled(s, t)
      BY NextLabelled
    <3>2. ~IngestProduce(t) \/ s # "ingest"
      BY <2>2, WorkCarries
    <3>3. ~(s = "enrich" /\ EnrichProduce(t)) /\ ~(s = "index" /\ IndexWrite(t))
      BY <2>2, WorkCarries
    <3>4. ~Quarantine(s, t)
      <4> SUFFICES ASSUME Quarantine(s, t) PROVE dead'[s][t] # {}
        BY DEF Good
      <4>1. dead' = [dead EXCEPT ![s] = [dead[s] EXCEPT ![t] = dead[s][t] \cup {at[s][t] + 1}]]
        BY DEF Quarantine
      <4>2. dead'[s][t] = dead[s][t] \cup {at[s][t] + 1}
        BY <4>1 DEF Typed
      <4> QED
        BY <4>2
    <3>5. CASE pc[s][t] \in {"mark", "commit"}
      <4>1. n < Len(q)
        BY <1>2, <3>5
      <4> HIDE DEF q, x, n, old
      <4> QED
        BY <1>4, <1>5, <1>10, <3>5, <4>1
    <3>6. CASE s = "ingest" /\ Seen(t) /\ Key(Hand("ingest", t)) \in seen
      <4>1. pc["ingest"][t] = "seen" /\ n < Len(q)
        BY <1>2, <3>6 DEF Seen
      <4>2. Made(s, t, Hand(s, t).doc) = Effect(Hand(s, t))
        BY <3>6, <4>1, DropsOnlyRepeats DEF Good
      <4>3. Hand(s, t).doc = d => old = Effect(Hand(s, t))
        BY <4>2
      <4> HIDE DEF q, x, n, old, Hand
      <4>4. old = Newest(q, n + 1, d)
        BY <1>4, <1>6, <4>3
      <4> QED
        BY <1>5, <1>10, <4>1, <4>4
    <3>7. CASE s = "ingest" /\ MarkSeen(t)
      BY <3>5, <3>7 DEF MarkSeen
    <3> QED
      BY <2>2, <3>1, <3>2, <3>3, <3>4, <3>5, <3>6, <3>7, ZenonT(30) DEF Labelled
  <2> HIDE DEF n, old
  <2> QED
    BY <1>7, <1>8, <1>10, <2>1, <2>2, ZenonT(30)
<1>11. Carried(s, t) \/ Made(s, t, d)' = old
  BY NextMade
<1>12. at'[s][t] = n \/ (at'[s][t] = n + 1 /\ pc[s][t] = "commit" /\ pc'[s][t] = "idle")
  BY Onward
<1> QED
  BY <1>8, <1>9, <1>10, <1>11, <1>12, Zenon

DataIInv == SkipInv /\ Asking /\ DataInv

LEMMA InitDataIInv == Init => DataIInv
<1> SUFFICES ASSUME Init PROVE DataIInv
  OBVIOUS
<1>1. \A k \in Topic, t \in Tenant : log[k][t] = <<>>
  BY DEF Init
<1>2. \A s \in Stage, t \in Tenant : committed[s][t] = 0 /\ at[s][t] = 0 /\ pc[s][t] = "idle"
  BY DEF Init
<1>3. Asking /\ Even
  BY <1>2 DEF Asking, Even, Stage
<1>4. Bounded /\ Repeated
  BY <1>1 DEF Bounded, Repeated, Topic
<1>5. InStep
  <2> SUFFICES ASSUME NEW s \in Stage, NEW t \in Tenant, NEW d \in Doc
               PROVE  Made(s, t, d) = Newest(log[InTopic[s]][t], at[s][t], d)
    BY <1>2 DEF InStep
  <2>1. \A q : Newest(q, 0, d) = Absent
    BY DEF Newest
  <2>2. Made(s, t, d) = Absent
    <3>1. CASE s = "index"
      BY <3>1 DEF Made, Init
    <3>2. CASE s # "index"
      <4>1. log[OutTopic[s]][t] = <<>>
        BY <1>1, <3>2, Topics DEF Stage, Topic
      <4> QED
        BY <2>1, <3>2, <4>1 DEF Made
    <3> QED
      BY <3>1, <3>2
  <2> QED
    BY <1>2, <2>1, <2>2
<1> QED
  BY <1>3, <1>4, <1>5, InitSkipInv DEF DataIInv, DataInv

LEMMA NextDataIInv == DataIInv /\ [Next]_vars => DataIInv'
<1> SUFFICES ASSUME DataIInv, [Next]_vars PROVE DataIInv'
  OBVIOUS
<1>1. Typed /\ Working /\ Came /\ SeenMeansProduced /\ SkipInv /\ Asking
  BY DEF DataIInv, SkipInv
<1>2. SkipInv' /\ Asking'
  BY <1>1, NextSkipInv, NextAsking
<1>3. ASSUME Good' PROVE Even' /\ Bounded' /\ Repeated' /\ InStep'
  <2>1. Good
    BY <1>1, <1>3, GoodBefore
  <2>2. Even /\ Bounded /\ Repeated /\ InStep
    BY <2>1 DEF DataIInv, DataInv
  <2>3. ~lost' /\ Fresh'
    BY <1>3 DEF Good
  <2> QED
    BY <1>1, <1>3, <2>1, <2>2, <2>3, NextEven, NextBounded, NextRepeated, NextInStep
<1> QED
  BY <1>2, <1>3 DEF DataIInv, DataInv

\* "Zero data loss": when the pipeline has drained, nothing is quarantined, no
\* commit was lost, no etag came back and no two tenants share a version of a
\* document, the index holds of every document what its last record on docs.raw
\* left, however often the stages crashed, answers were lost, Redis failed or
\* dedupe keys expired on the way.
THEOREM NoDataLost == Spec => [](Apart => ZeroDataLoss)
<1>1. DataIInv => (Apart => ZeroDataLoss)
  <2> SUFFICES ASSUME DataIInv, Good, Drained, NEW t \in Tenant, NEW d \in Doc
               PROVE  index[t][d] = Latest(t, d)
    BY DEF ZeroDataLoss, Good
  <2>1. InStep /\ Typed
    BY DEF DataIInv, DataInv, SkipInv
  <2>2. ASSUME NEW s \in Stage
        PROVE  Made(s, t, d) = Newest(log[InTopic[s]][t], Len(log[InTopic[s]][t]), d)
    <3>1. at[s][t] = Len(log[InTopic[s]][t]) /\ at[s][t] \in Nat
      BY <2>1 DEF Drained, Typed
    <3>2. ~(at[s][t] < Len(log[InTopic[s]][t]))
      BY <3>1
    <3> QED
      BY <2>1, <3>1, <3>2 DEF InStep
  <2>3. index[t][d] = Newest(log["enriched"][t], Len(log["enriched"][t]), d)
    BY <2>2, Topics DEF Made, Stage
  <2>4. Newest(log["enriched"][t], Len(log["enriched"][t]), d) = Newest(log["chunked"][t], Len(log["chunked"][t]), d)
    BY <2>2, Topics DEF Made, Stage
  <2>5. Newest(log["chunked"][t], Len(log["chunked"][t]), d) = Newest(log["raw"][t], Len(log["raw"][t]), d)
    BY <2>2, Topics DEF Made, Stage
  <2>6. Newest(log["raw"][t], Len(log["raw"][t]), d) = Latest(t, d)
    BY DEF Newest, Latest
  <2> QED
    BY <2>3, <2>4, <2>5, <2>6
<1> QED
  BY <1>1, InitDataIInv, NextDataIInv, PTL DEF Spec
=============================================================================
