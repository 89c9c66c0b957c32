------------------------------ MODULE Consumer ------------------------------
(***************************************************************************)
(* The delivery contract of the pipeline (platform/kafkautil/consumer.go): *)
(* one partition of a topic, the members of the consumer group that reads  *)
(* it, and the sink the handler writes to.                                 *)
(*                                                                         *)
(* Run polls a batch, and takes its records one by one through             *)
(* processRecord: up to maxHandlerAttempts calls of the handler, then      *)
(* quarantine, and in both cases a commit whose failure is only logged.    *)
(* Nothing blocks a rebalance while a batch is being processed             *)
(* (kgo.BlockRebalanceOnPoll is not set), so a member that lost the        *)
(* partition goes on with the batch it holds.                              *)
(*                                                                         *)
(* Offsets are 1-based and `committed' is the number of records the group  *)
(* has committed: a member that is assigned the partition starts reading   *)
(* at committed + 1.                                                       *)
(***************************************************************************)
EXTENDS Integers, Sequences, FiniteSets, FiniteSetTheorems, TLAPS

CONSTANTS
    Members,     \* the processes of the consumer group
    Record,      \* the records a producer may append
    Doc,         \* the documents records are about
    DocOf,       \* the document of a record
    Malformed,   \* records with a bad tenant header or an undecodable body
    Poison,      \* records whose handler call always fails
    Tombstone,   \* records that revoke their document
    Nobody,      \* the owner of a partition that is not assigned
    MaxLog,      \* bound: records a producer appends
    MaxFaults    \* bound: failures, crashes and rebalances that happen

maxHandlerAttempts == 3

ASSUME ConsumerAssumption ==
    /\ DocOf \in [Record -> Doc]
    /\ Malformed \subseteq Record /\ Poison \subseteq Record
    /\ Tombstone \subseteq Record
    /\ Nobody \notin Members
    /\ MaxLog \in Nat /\ MaxFaults \in Nat

\* All records are about one document, where TLC checks the module.
MCDocOf == [r \in Record |-> CHOOSE d \in Doc : TRUE]

VARIABLES
    log,         \* the partition: every record appended so far
    committed,   \* the group's committed offset
    owner,       \* the member the partition is assigned to
    pc,          \* pc[m]: where member m is in Run
    pos,         \* pos[m]: the next offset m's client fetches
    cur,         \* cur[m]: the record of its batch m is working on
    lim,         \* lim[m]: the last record of m's batch
    attempt,     \* attempt[m]: the handler call m is making for it
    sink,        \* sink[d]: the record that last wrote document d, 0 if none
    faults       \* failures so far

VARIABLES        \* history, read by the properties only
    handled,     \* records a handler call returned nil for
    dead,        \* records produced to docs.deadletter
    applied,     \* records whose effect reached the sink
    stolen       \* a rebalance took the partition from a member at work

group   == <<log, committed, owner>>
member  == <<pc, pos, cur, lim, attempt>>
history == <<handled, dead, applied, stolen>>
vars    == <<group, member, sink, faults, history>>

Offset  == 1..Len(log)
Working == {"handle", "quarantine", "commit"}
settled == handled \cup dead

TypeOK ==
    /\ log \in Seq(Record)
    /\ committed \in 0..Len(log)
    /\ owner \in Members \cup {Nobody}
    /\ pc \in [Members -> Working \cup {"down", "poll"}]
    /\ pos \in [Members -> Nat \ {0}]
    /\ cur \in [Members -> Nat]
    /\ lim \in [Members -> Nat]
    /\ attempt \in [Members -> 1..maxHandlerAttempts]
    /\ sink \in [Doc -> Nat]
    /\ faults \in Nat
    /\ handled \subseteq Offset /\ dead \subseteq Offset
    /\ applied \subseteq Offset /\ stolen \in BOOLEAN

Init ==
    /\ log = <<>> /\ committed = 0 /\ owner = Nobody
    /\ pc = [m \in Members |-> "poll"]
    /\ pos = [m \in Members |-> 1]
    /\ cur = [m \in Members |-> 0] /\ lim = [m \in Members |-> 0]
    /\ attempt = [m \in Members |-> 1]
    /\ sink = [d \in Doc |-> 0]
    /\ faults = 0
    /\ handled = {} /\ dead = {} /\ applied = {} /\ stolen = FALSE

-----------------------------------------------------------------------------
Fault == faults < MaxFaults /\ faults' = faults + 1

\* ProduceDocument: a record is appended to the partition its tenant hashes to.
Produce ==
    /\ Len(log) < MaxLog
    /\ \E r \in Record : log' = Append(log, r)
    /\ UNCHANGED <<committed, owner, member, sink, faults, history>>

\* The group coordinator assigns the partition to m, whose client then starts
\* from the committed offset.  The previous owner is not interrupted.
Rebalance(m) ==
    /\ pc[m] # "down" /\ owner # m
    /\ owner' = m
    /\ pos' = [pos EXCEPT ![m] = committed + 1]
    /\ IF owner \in Members /\ pc[owner] # "down"
         THEN Fault /\ stolen' = (stolen \/ pc[owner] \in Working)
         ELSE UNCHANGED <<faults, stolen>>
    /\ UNCHANGED <<log, committed, pc, cur, lim, attempt, sink,
                   handled, dead, applied>>

\* PollFetches: the owner's client hands out a batch of one or more records.
Poll(m) ==
    /\ pc[m] = "poll" /\ owner = m
    /\ \E k \in pos[m]..Len(log) :
         /\ cur' = [cur EXCEPT ![m] = pos[m]]
         /\ lim' = [lim EXCEPT ![m] = k]
         /\ pos' = [pos EXCEPT ![m] = k + 1]
    /\ attempt' = [attempt EXCEPT ![m] = 1]
    /\ pc' = [pc EXCEPT ![m] = "handle"]
    /\ UNCHANGED <<group, sink, faults, history>>

\* A malformed record goes straight to the dead letter.
Reject(m) ==
    /\ pc[m] = "handle" /\ log[cur[m]] \in Malformed
    /\ pc' = [pc EXCEPT ![m] = "quarantine"]
    /\ UNCHANGED <<group, pos, cur, lim, attempt, sink, faults, history>>

WriteSink(m) ==
    /\ sink' = [sink EXCEPT ![DocOf[log[cur[m]]]] = cur[m]]
    /\ applied' = applied \cup {cur[m]}

\* A handler call that returns nil.
HandlerOk(m) ==
    /\ pc[m] = "handle" /\ log[cur[m]] \notin Malformed \cup Poison
    /\ WriteSink(m)
    /\ handled' = handled \cup {cur[m]}
    /\ pc' = [pc EXCEPT ![m] = "commit"]
    /\ UNCHANGED <<group, pos, cur, lim, attempt, faults, dead, stolen>>

\* Mutant: the attempts are never counted.
HandlerFailForever(m) ==
    /\ pc[m] = "handle" /\ log[cur[m]] \notin Malformed
    /\ IF log[cur[m]] \in Poison THEN UNCHANGED <<faults, sink, applied>>
       ELSE Fault /\ (WriteSink(m) \/ UNCHANGED <<sink, applied>>)
    /\ UNCHANGED <<group, member, handled, dead, stolen>>

\* A handler call that returns an error; the write may have been applied and
\* only its answer lost.  The last attempt leads to the quarantine.
HandlerFail(m) ==
    /\ pc[m] = "handle" /\ log[cur[m]] \notin Malformed
    /\ IF log[cur[m]] \in Poison THEN UNCHANGED <<faults, sink, applied>>
       ELSE Fault /\ (WriteSink(m) \/ UNCHANGED <<sink, applied>>)
    /\ IF attempt[m] < maxHandlerAttempts
         THEN attempt' = [attempt EXCEPT ![m] = @ + 1] /\ UNCHANGED pc
         ELSE pc' = [pc EXCEPT ![m] = "quarantine"] /\ UNCHANGED attempt
    /\ UNCHANGED <<group, pos, cur, lim, handled, dead, stolen>>

\* The dead-letter produce succeeds.  The topic is one of the pipeline's: that
\* records of docs.deadletter itself are committed as they are (:187) is left
\* out, no program of the repository consumes that topic.
QuarantineOk(m) ==
    /\ pc[m] = "quarantine"
    /\ dead' = dead \cup {cur[m]}
    /\ pc' = [pc EXCEPT ![m] = "commit"]
    /\ UNCHANGED <<group, pos, cur, lim, attempt, sink, faults,
                   handled, applied, stolen>>

\* Mutant: a failed dead-letter produce is logged and the offset committed.
QuarantineSkips(m) ==
    /\ pc[m] = "quarantine" /\ Fault
    /\ pc' = [pc EXCEPT ![m] = "commit"]
    /\ UNCHANGED <<group, pos, cur, lim, attempt, sink, history>>

\* The dead-letter produce fails: Run returns the error, the process exits.
QuarantineFail(m) ==
    /\ pc[m] = "quarantine" /\ Fault
    /\ pc' = [pc EXCEPT ![m] = "down"]
    /\ UNCHANGED <<group, pos, cur, lim, attempt, sink, history>>

\* The end of processRecord: on to the next record of the batch, or to a poll.
NextRecord(m) ==
    /\ cur' = [cur EXCEPT ![m] = @ + 1]
    /\ attempt' = [attempt EXCEPT ![m] = 1]
    /\ pc' = [pc EXCEPT ![m] = IF cur[m] < lim[m] THEN "handle" ELSE "poll"]
    /\ UNCHANGED <<log, owner, pos, lim, sink, history>>

\* Mutant: the offset of the batch's last record is committed.
CommitBatch(m) ==
    /\ pc[m] = "commit"
    /\ committed' = lim[m]
    /\ NextRecord(m) /\ UNCHANGED faults

CommitOk(m) ==
    /\ pc[m] = "commit"
    /\ committed' = cur[m]
    /\ NextRecord(m) /\ UNCHANGED faults

\* A failed commit is logged, and the next record is taken all the same.
CommitFail(m) ==
    /\ pc[m] = "commit" /\ Fault
    /\ NextRecord(m) /\ UNCHANGED committed

\* A crash, a kill, or a cancelled context: whatever was in flight is dropped.
Stop(m) ==
    /\ pc[m] # "down" /\ Fault
    /\ pc' = [pc EXCEPT ![m] = "down"]
    /\ UNCHANGED <<group, pos, cur, lim, attempt, sink, history>>

\* The coordinator notices that the owner is gone.
Expire ==
    /\ owner \in Members /\ pc[owner] = "down"
    /\ owner' = Nobody
    /\ UNCHANGED <<log, committed, member, sink, faults, history>>

\* Mutant: a restarted member goes on with the batch it held.
StartResumes(m) ==
    /\ pc[m] = "down" /\ owner # m
    /\ pc' = [pc EXCEPT ![m] = IF cur[m] \in 1..lim[m] THEN "handle" ELSE "poll"]
    /\ UNCHANGED <<group, pos, cur, lim, attempt, sink, faults, history>>

Start(m) ==
    /\ pc[m] = "down" /\ owner # m
    /\ pc' = [pc EXCEPT ![m] = "poll"]
    /\ UNCHANGED <<group, pos, cur, lim, attempt, sink, faults, history>>

processRecord(m) ==
    \/ Reject(m) \/ HandlerOk(m) \/ HandlerFail(m)
    \/ QuarantineOk(m) \/ QuarantineFail(m) \/ CommitOk(m) \/ CommitFail(m)

Run(m) == Poll(m) \/ processRecord(m)

Next ==
    \/ Produce \/ Expire
    \/ \E m \in Members : Run(m) \/ Rebalance(m) \/ Stop(m) \/ Start(m)

\* Processes run, the supervisor restarts them, the coordinator reassigns.
Fairness ==
    /\ WF_vars(Expire)
    /\ \A m \in Members :
         /\ WF_vars(Run(m)) /\ WF_vars(Start(m))
         /\ WF_vars(owner = Nobody /\ Rebalance(m))

Spec == Init /\ [][Next]_vars
FairSpec == Spec /\ Fairness
-----------------------------------------------------------------------------
(* Properties *)

\* "a commit never advances past an unhandled record" (Run): whatever crashes,
\* rebalances, failed commits and late commits of former owners happen, every
\* record below the committed offset was handled or is in docs.deadletter.
AtLeastOnce == 1..committed \subseteq settled

\* Every member is done and the owner has nothing left to fetch.
Drained ==
    /\ owner \in Members /\ pc[owner] = "poll" /\ pos[owner] > Len(log)
    /\ \A m \in Members : pc[m] \notin Working

\* No record of S that was applied is masked by an older one.
NewestWins(S) == \A o \in applied \cap S : sink[DocOf[log[o]]] >= o

\* Per-tenant ordering survives retries, failed commits, crashes and restarts:
\* once the partition is drained no redelivered record masks a newer one, as
\* long as no rebalance took the partition from a member at work on a batch.
\* A record that went to the dead letter is excepted: it may have been applied
\* by a first delivery and given up by the redelivery.
OrderUnlessStolen == Drained /\ ~stolen => NewestWins(Offset \ dead)

\* A record, once settled, stays settled, and what the group commits is only
\* ever a record some member has just finished: the whole component implements
\* the abstract at-least-once delivery.
Abstract == INSTANCE Delivery WITH high <- Cardinality(settled)
ImplementsDelivery == Abstract!Spec

\* "one bad document never stalls a partition" (ADR-004): every record that is
\* appended, poisonous and malformed ones included, is eventually settled.
EveryRecordSettled ==
    \A o \in 1..MaxLog : (o <= Len(log)) ~> (o \in settled)

-----------------------------------------------------------------------------
(* Proofs, for any group, any records and any number of failures.            *)
(*                                                                           *)
(* AtLeastOnce alone is not inductive: the committed offset is the offset a  *)
(* member was working on, so something must be known of every member that    *)
(* works on a batch, of the owner's fetch position, and of the set of        *)
(* settled records, which has no gaps.                                       *)

\* The settled records are a prefix of the log.
NoGap == \E n \in Nat : settled = 1..n

\* A member at work holds a batch of the log, and has left nothing unsettled
\* behind the record it works on.
BatchInv ==
    \A m \in Members : pc[m] \in Working =>
        /\ 1 <= cur[m] /\ cur[m] <= lim[m] /\ lim[m] <= Len(log)
        /\ \A p \in 1..(cur[m] - 1) : p \in settled
        /\ pc[m] = "commit" => cur[m] \in settled

\* The owner's next fetch follows its batch, or starts in the settled prefix.
FetchInv ==
    \A m \in Members : owner = m =>
        /\ pc[m] = "poll" => \A p \in 1..(pos[m] - 1) : p \in settled
        /\ pc[m] \in Working =>
              \/ pos[m] = lim[m] + 1
              \/ \A p \in 1..(pos[m] - 1) : p \in settled

CommitInv == committed = 0 \/ committed \in settled

IInv == TypeOK /\ NoGap /\ BatchInv /\ FetchInv /\ CommitInv

LEMMA InitIInv == Init => IInv
<1> SUFFICES ASSUME Init PROVE IInv
  OBVIOUS
<1> USE DEF Init, settled, Working, Offset
<1>1. TypeOK
  <2>1. log \in Seq(Record) /\ Len(log) = 0
    OBVIOUS
  <2>2. stolen \in BOOLEAN
    BY Zenon
  <2> QED
    BY <2>1, <2>2, ConsumerAssumption DEF TypeOK, maxHandlerAttempts
<1>2. NoGap /\ BatchInv /\ FetchInv /\ CommitInv
  BY ConsumerAssumption DEF NoGap, BatchInv, FetchInv, CommitInv
<1> QED
  BY <1>1, <1>2 DEF IInv

\* What a failed handler call does to the sink, and to the member's progress.
LEMMA FailedWrite ==
  ASSUME NEW m \in Members, HandlerFail(m), faults \in Nat,
         sink \in [Doc -> Nat], applied \subseteq Offset, cur[m] \in Offset,
         Len(log) \in Nat
  PROVE  faults' \in Nat /\ sink' \in [Doc -> Nat] /\ applied' \subseteq Offset
<1>1. faults' \in Nat
  BY DEF HandlerFail, Fault
<1>2. \/ /\ sink' = [sink EXCEPT ![DocOf[log[cur[m]]]] = cur[m]]
         /\ applied' = applied \cup {cur[m]}
      \/ sink' = sink /\ applied' = applied
  BY DEF HandlerFail, WriteSink
<1>3. cur[m] \in Nat
  BY DEF Offset
<1> QED
  BY <1>1, <1>2, <1>3

LEMMA FailedAttempt ==
  ASSUME NEW m \in Members, HandlerFail(m),
         attempt \in [Members -> 1..maxHandlerAttempts],
         pc \in [Members -> Working \cup {"down", "poll"}]
  PROVE  /\ attempt' \in [Members -> 1..maxHandlerAttempts]
         /\ pc' \in [Members -> Working \cup {"down", "poll"}]
<1>1. CASE attempt[m] < maxHandlerAttempts
  <2>1. attempt' = [attempt EXCEPT ![m] = attempt[m] + 1] /\ pc' = pc
    BY <1>1 DEF HandlerFail
  <2> QED
    BY <1>1, <2>1 DEF maxHandlerAttempts
<1>2. CASE ~(attempt[m] < maxHandlerAttempts)
  BY <1>2 DEF HandlerFail, Working
<1> QED
  BY <1>1, <1>2

LEMMA NextRecordType ==
  ASSUME NEW m \in Members, TypeOK, NextRecord(m)
  PROVE  /\ pc' \in [Members -> Working \cup {"down", "poll"}]
         /\ cur' \in [Members -> Nat]
         /\ attempt' \in [Members -> 1..maxHandlerAttempts]
  BY DEF TypeOK, NextRecord, Working, maxHandlerAttempts

LEMMA TypeStep == IInv /\ [Next]_vars => TypeOK'
<1> SUFFICES ASSUME IInv, [Next]_vars PROVE TypeOK'
  OBVIOUS
<1>0. ASSUME NEW m \in Members, pc[m] \in Working PROVE cur[m] \in 1..Len(log)
  BY <1>0 DEF IInv, TypeOK, BatchInv
<1>00. TypeOK
  BY DEF IInv
<1> USE <1>00, ConsumerAssumption DEF TypeOK, Offset, Working, maxHandlerAttempts
<1>1. CASE Produce
  BY <1>1, SMTT(30) DEF Produce, member, history
<1>2. CASE Expire
  BY <1>2 DEF Expire, member, history
<1>3. ASSUME NEW m \in Members, Rebalance(m) PROVE TypeOK'
  <2>1. stolen' \in BOOLEAN
    BY <1>3, Zenon DEF Rebalance
  <2>2. faults' \in Nat
    BY <1>3 DEF Rebalance, Fault
  <2>3. /\ owner' = m /\ pos' = [pos EXCEPT ![m] = committed + 1]
        /\ UNCHANGED <<log, committed, pc, cur, lim, attempt, sink,
                       handled, dead, applied>>
    BY <1>3 DEF Rebalance
  <2> QED
    BY <2>1, <2>2, <2>3, SMTT(30)
<1>4. ASSUME NEW m \in Members, Poll(m) PROVE TypeOK'
  BY <1>4, SMTT(30) DEF Poll, group, history
<1>5. ASSUME NEW m \in Members, Reject(m) PROVE TypeOK'
  BY <1>5, SMTT(30) DEF Reject, group, history
<1>6. ASSUME NEW m \in Members, HandlerOk(m) PROVE TypeOK'
  <2>1. cur[m] \in 1..Len(log)
    BY <1>0, <1>6 DEF HandlerOk
  <2> QED
    BY <1>6, <2>1, Zenon DEF HandlerOk, WriteSink, group
<1>7. ASSUME NEW m \in Members, HandlerFail(m) PROVE TypeOK'
  <2>1. cur[m] \in 1..Len(log)
    BY <1>0, <1>7 DEF HandlerFail
  <2>2. faults' \in Nat /\ sink' \in [Doc -> Nat] /\ applied' \subseteq Offset
    BY <1>7, <2>1, FailedWrite, Len(log) \in Nat, Zenon
  <2>3. /\ attempt' \in [Members -> 1..maxHandlerAttempts]
        /\ pc' \in [Members -> Working \cup {"down", "poll"}]
    BY <1>7, FailedAttempt, Zenon
  <2>4. UNCHANGED <<group, pos, cur, lim, handled, dead, stolen>>
    BY <1>7 DEF HandlerFail
  <2> QED
    BY <2>2, <2>3, <2>4, SMTT(30) DEF group
<1>8. ASSUME NEW m \in Members, QuarantineOk(m) PROVE TypeOK'
  <2>1. cur[m] \in 1..Len(log)
    BY <1>0, <1>8 DEF QuarantineOk
  <2> QED
    BY <1>8, <2>1, Zenon DEF QuarantineOk, group
<1>9. ASSUME NEW m \in Members, QuarantineFail(m) PROVE TypeOK'
  BY <1>9, SMTT(30) DEF QuarantineFail, Fault, group, history
<1>10. ASSUME NEW m \in Members, CommitOk(m) PROVE TypeOK'
  <2>1. cur[m] \in 1..Len(log)
    BY <1>0, <1>10 DEF CommitOk
  <2>2. /\ committed' \in 0..Len(log)
        /\ UNCHANGED <<log, owner, pos, lim, sink, faults, history>>
    BY <1>10, <2>1 DEF CommitOk, NextRecord
  <2>3. /\ pc' \in [Members -> Working \cup {"down", "poll"}]
        /\ cur' \in [Members -> Nat]
        /\ attempt' \in [Members -> 1..maxHandlerAttempts]
    BY <1>10, NextRecordType, Zenon DEF CommitOk
  <2> QED
    BY <2>2, <2>3, Zenon DEF history
<1>11. ASSUME NEW m \in Members, CommitFail(m) PROVE TypeOK'
  BY <1>11, NextRecordType, SMTT(30) DEF CommitFail, NextRecord, Fault, history
<1>12. ASSUME NEW m \in Members, Stop(m) PROVE TypeOK'
  BY <1>12, SMTT(30) DEF Stop, Fault, group, history
<1>13. ASSUME NEW m \in Members, Start(m) PROVE TypeOK'
  BY <1>13, SMTT(30) DEF Start, group, history
<1>14. CASE UNCHANGED vars
  BY <1>14 DEF vars, group, member, history
<1> QED
  BY <1>1, <1>2, <1>3, <1>4, <1>5, <1>6, <1>7, <1>8, <1>9, <1>10, <1>11, <1>12,
     <1>13, <1>14, Zenon DEF Next, Run, processRecord

\* The next record is settled only by a member that works on it.
LEMMA SettledStep ==
  ASSUME IInv, [Next]_vars
  PROVE  \/ settled' = settled
         \/ \E m \in Members : pc[m] \in Working /\ settled' = settled \cup {cur[m]}
<1> USE DEF settled, Working
<1>1. ASSUME NEW m \in Members, HandlerOk(m) \/ QuarantineOk(m)
      PROVE  pc[m] \in Working /\ settled' = settled \cup {cur[m]}
  BY <1>1 DEF HandlerOk, QuarantineOk
<1>2. ASSUME \A m \in Members : ~HandlerOk(m) /\ ~QuarantineOk(m)
      PROVE  handled' = handled /\ dead' = dead
  BY <1>2 DEF Next, Run, processRecord, Produce, Expire, Rebalance, Poll, Reject,
     HandlerFail, QuarantineFail, CommitOk, CommitFail, NextRecord, Stop, Start,
     vars, history
<1> QED
  BY <1>1, <1>2

LEMMA NoGapStep == IInv /\ [Next]_vars => NoGap' /\ settled \subseteq settled'
<1> SUFFICES ASSUME IInv, [Next]_vars PROVE NoGap' /\ settled \subseteq settled'
  OBVIOUS
<1>1. CASE settled' = settled
  BY <1>1 DEF IInv, NoGap
<1>2. ASSUME NEW m \in Members, pc[m] \in Working, settled' = settled \cup {cur[m]}
      PROVE  NoGap' /\ settled \subseteq settled'
  <2>1. cur[m] \in Nat /\ \A p \in 1..(cur[m] - 1) : p \in settled
    BY <1>2 DEF IInv, TypeOK, BatchInv
  <2>2. PICK n \in Nat : settled = 1..n
    BY DEF IInv, NoGap
  <2>3. cur[m] <= n + 1 /\ 1 <= cur[m]
    <3>1. 1 <= cur[m]
      BY <1>2 DEF IInv, BatchInv
    <3>2. CASE cur[m] > n + 1
      <4>1. n + 1 \in 1..(cur[m] - 1)
        BY <2>1, <3>2
      <4> QED
        BY <2>1, <2>2, <4>1
    <3> QED
      BY <2>1, <3>1, <3>2
  <2>4. settled' = 1..n \/ settled' = 1..(n + 1)
    BY <1>2, <2>1, <2>2, <2>3
  <2> QED
    BY <1>2, <2>4 DEF NoGap
<1> QED
  BY <1>1, <1>2, SettledStep

\* What members at work leave behind them, kept by every step.
LEMMA BatchStep == IInv /\ [Next]_vars => BatchInv'
<1> SUFFICES ASSUME IInv, [Next]_vars PROVE BatchInv'
  OBVIOUS
<1>0. /\ settled \subseteq settled' /\ Len(log) \in Nat
      /\ pc \in [Members -> Working \cup {"down", "poll"}]
      /\ pos \in [Members -> Nat \ {0}]
      /\ cur \in [Members -> Nat] /\ lim \in [Members -> Nat]
  <2>1. settled \subseteq settled'
    BY NoGapStep
  <2> QED
    BY <2>1 DEF IInv, TypeOK
<1> USE DEF IInv, BatchInv, Working
<1>1. CASE Produce
  BY <1>0, <1>1 DEF Produce, member
<1>2. CASE Expire
  BY <1>0, <1>2 DEF Expire, member
<1>3. ASSUME NEW m \in Members, Rebalance(m) PROVE BatchInv'
  BY <1>0, <1>3 DEF Rebalance
<1>4. ASSUME NEW m \in Members, Poll(m) PROVE BatchInv'
  BY <1>0, <1>4 DEF Poll, group, FetchInv, history, settled
<1>5. ASSUME NEW m \in Members, Reject(m) PROVE BatchInv'
  BY <1>0, <1>5 DEF Reject, group
<1>6. ASSUME NEW m \in Members, HandlerOk(m) PROVE BatchInv'
  BY <1>0, <1>6 DEF HandlerOk, group, settled
<1>7. ASSUME NEW m \in Members, HandlerFail(m) PROVE BatchInv'
  BY <1>0, <1>7 DEF HandlerFail, group
<1>8. ASSUME NEW m \in Members, QuarantineOk(m) PROVE BatchInv'
  BY <1>0, <1>8 DEF QuarantineOk, group, settled
<1>9. ASSUME NEW m \in Members, QuarantineFail(m) PROVE BatchInv'
  BY <1>0, <1>9 DEF QuarantineFail, group
<1>10. ASSUME NEW m \in Members, CommitOk(m) PROVE BatchInv'
  BY <1>0, <1>10 DEF CommitOk, NextRecord
<1>11. ASSUME NEW m \in Members, CommitFail(m) PROVE BatchInv'
  BY <1>0, <1>11 DEF CommitFail, NextRecord
<1>12. ASSUME NEW m \in Members, Stop(m) PROVE BatchInv'
  BY <1>0, <1>12 DEF Stop, group
<1>13. ASSUME NEW m \in Members, Start(m) PROVE BatchInv'
  BY <1>0, <1>13 DEF Start, group
<1>14. CASE UNCHANGED vars
  BY <1>0, <1>14 DEF vars, group, member
<1> QED
  BY <1>1, <1>2, <1>3, <1>4, <1>5, <1>6, <1>7, <1>8,
     <1>9, <1>10, <1>11, <1>12, <1>13, <1>14
  DEF Next, Run, processRecord

\* Where the owner fetches next, and what is committed, kept by every step.
LEMMA FetchStep == IInv /\ [Next]_vars => FetchInv' /\ CommitInv'
<1> SUFFICES ASSUME IInv, [Next]_vars
             PROVE  FetchInv' /\ CommitInv'
  OBVIOUS
<1>0. /\ settled \subseteq settled' /\ committed \in Nat /\ Len(log) \in Nat
      /\ pc \in [Members -> Working \cup {"down", "poll"}]
      /\ pos \in [Members -> Nat \ {0}]
      /\ cur \in [Members -> Nat] /\ lim \in [Members -> Nat]
      /\ \A p \in 1..committed : p \in settled
  <2>1. settled \subseteq settled' /\ committed \in Nat
    BY NoGapStep DEF IInv, TypeOK
  <2>2. \A p \in 1..committed : p \in settled
    BY <2>1 DEF IInv, CommitInv, NoGap
  <2> QED
    BY <2>1, <2>2 DEF IInv, TypeOK
<1> USE ConsumerAssumption DEF IInv, FetchInv, CommitInv, Working
<1>1. CASE Produce
  BY <1>0, <1>1 DEF Produce, member
<1>2. CASE Expire
  BY <1>0, <1>2 DEF Expire, member
<1>3. ASSUME NEW m \in Members, Rebalance(m) PROVE FetchInv' /\ CommitInv'
  BY <1>0, <1>3 DEF Rebalance
<1>4. ASSUME NEW m \in Members, Poll(m) PROVE FetchInv' /\ CommitInv'
  BY <1>0, <1>4 DEF Poll, group
<1>5. ASSUME NEW m \in Members, Reject(m) PROVE FetchInv' /\ CommitInv'
  BY <1>0, <1>5 DEF Reject, group
<1>6. ASSUME NEW m \in Members, HandlerOk(m) PROVE FetchInv' /\ CommitInv'
  BY <1>0, <1>6 DEF HandlerOk, group
<1>7. ASSUME NEW m \in Members, HandlerFail(m) PROVE FetchInv' /\ CommitInv'
  BY <1>0, <1>7 DEF HandlerFail, group
<1>8. ASSUME NEW m \in Members, QuarantineOk(m) PROVE FetchInv' /\ CommitInv'
  BY <1>0, <1>8 DEF QuarantineOk, group
<1>9. ASSUME NEW m \in Members, QuarantineFail(m) PROVE FetchInv' /\ CommitInv'
  BY <1>0, <1>9 DEF QuarantineFail, group
<1>10. ASSUME NEW m \in Members, CommitOk(m) PROVE FetchInv' /\ CommitInv'
  BY <1>0, <1>10 DEF CommitOk, NextRecord, BatchInv
<1>11. ASSUME NEW m \in Members, CommitFail(m) PROVE FetchInv' /\ CommitInv'
  BY <1>0, <1>11 DEF CommitFail, NextRecord, BatchInv
<1>12. ASSUME NEW m \in Members, Stop(m) PROVE FetchInv' /\ CommitInv'
  BY <1>0, <1>12 DEF Stop, group
<1>13. ASSUME NEW m \in Members, Start(m) PROVE FetchInv' /\ CommitInv'
  BY <1>0, <1>13 DEF Start, group
<1>14. CASE UNCHANGED vars
  BY <1>0, <1>14 DEF vars, group, member
<1> QED
  BY <1>1, <1>2, <1>3, <1>4, <1>5, <1>6, <1>7, <1>8,
     <1>9, <1>10, <1>11, <1>12, <1>13, <1>14
  DEF Next, Run, processRecord

LEMMA IInvStep == IInv /\ [Next]_vars => IInv'
  BY TypeStep, NoGapStep, BatchStep, FetchStep DEF IInv

LEMMA Inductive == Spec => []IInv
  BY InitIInv, IInvStep, PTL DEF Spec

\* The variables of the consumer group always have their types.
THEOREM TypeCorrect == Spec => []TypeOK
  BY Inductive, PTL DEF IInv

\* No offset is ever committed past a record that was neither handled nor
\* quarantined, for any number of members, crashes and rebalances (Run).
THEOREM CommitSafe == Spec => []AtLeastOnce
<1>1. IInv => AtLeastOnce
  BY DEF IInv, TypeOK, CommitInv, NoGap, AtLeastOnce
<1> QED
  BY Inductive, <1>1, PTL

-----------------------------------------------------------------------------
(***************************************************************************)
(* Order.  As long as no working member lost the partition, the group has  *)
(* one frontier: the first record that the current owner, or the next one  *)
(* to be assigned, has not yet taken through its handler.  Redelivery      *)
(* moves the frontier back; below it the sink is newest.                   *)
(***************************************************************************)
Frontier ==
    IF owner \in Members /\ pc[owner] = "commit" THEN cur[owner] + 1
    ELSE IF owner \in Members /\ pc[owner] \in Working THEN cur[owner]
    ELSE IF owner \in Members /\ pc[owner] = "poll" THEN pos[owner]
    ELSE committed + 1

OrderInv ==
    ~stolen =>
        /\ \A m \in Members : pc[m] \in Working => owner = m /\ pos[m] = lim[m] + 1
        /\ committed < Frontier
        /\ \A o \in applied \ dead : o < Frontier => sink[DocOf[log[o]]] >= o

LEMMA InitOrder == Init => OrderInv
  BY ConsumerAssumption DEF Init, OrderInv, Frontier, Working

LEMMA OrderStep == IInv /\ OrderInv /\ [Next]_vars => OrderInv'
<1> SUFFICES ASSUME IInv, OrderInv, [Next]_vars, ~stolen' PROVE OrderInv'
  BY DEF OrderInv
<1>0. /\ log \in Seq(Record) /\ committed \in Nat /\ Len(log) \in Nat
      /\ owner \in Members \cup {Nobody}
      /\ pc \in [Members -> Working \cup {"down", "poll"}]
      /\ pos \in [Members -> Nat \ {0}]
      /\ cur \in [Members -> Nat] /\ lim \in [Members -> Nat]
      /\ sink \in [Doc -> Nat]
      /\ applied \subseteq 1..Len(log)
  BY DEF IInv, TypeOK, Offset
<1>1. ~stolen
  BY Zenon DEF Next, Run, processRecord, Produce, Expire, Rebalance, Poll, Reject,
     HandlerOk, HandlerFail, QuarantineOk, QuarantineFail, CommitOk, CommitFail,
     NextRecord, Stop, Start, vars, history
<1>2. \A m \in Members : pc[m] \in Working =>
          1 <= cur[m] /\ cur[m] <= lim[m] /\ lim[m] <= Len(log)
  BY DEF IInv, BatchInv
<1>3. \A o \in 1..Len(log) : DocOf[log[o]] \in Doc
  BY <1>0, ConsumerAssumption
<1> USE <1>0, <1>1, <1>2, <1>3, ConsumerAssumption DEF OrderInv, Frontier, Working
<1>4. CASE Produce
  BY <1>4 DEF Produce, member, history
<1>5. CASE Expire
  BY <1>5 DEF Expire, member, history
<1>6. ASSUME NEW m \in Members, Rebalance(m) PROVE OrderInv'
  <2>1. owner \in Members => pc[owner] \notin Working
    BY <1>6, Zenon DEF Rebalance
  <2>2. \A n \in Members : pc[n] \notin Working
    BY <2>1
  <2>3. committed + 1 <= Frontier
    OBVIOUS
  <2>4. /\ owner' = m /\ pos' = [pos EXCEPT ![m] = committed + 1] /\ pc[m] = "poll"
        /\ UNCHANGED <<log, committed, pc, cur, lim, sink, dead, applied>>
    BY <1>6, <2>2 DEF Rebalance
  <2>5. Frontier' = committed + 1
    BY <2>4
  <2> QED
    BY <2>2, <2>3, <2>4, <2>5, SMTT(30)
<1>7. ASSUME NEW m \in Members, Poll(m) PROVE OrderInv'
  BY <1>7, SMTT(30) DEF Poll, group, history
<1>8. ASSUME NEW m \in Members, Reject(m) PROVE OrderInv'
  BY <1>8 DEF Reject, group, history
<1>9. ASSUME NEW m \in Members, HandlerOk(m) PROVE OrderInv'
  BY <1>9, SMTT(30) DEF HandlerOk, WriteSink, group
<1>10. ASSUME NEW m \in Members, HandlerFail(m) PROVE OrderInv'
  <2>1. owner = m /\ pc[m] = "handle" /\ Frontier = cur[m]
    BY <1>10 DEF HandlerFail
  <2>2. /\ pc' = pc \/ pc' = [pc EXCEPT ![m] = "quarantine"]
        /\ UNCHANGED <<log, committed, owner, pos, cur, lim, dead>>
    BY <1>10 DEF HandlerFail, group
  <2>3. \/ /\ sink' = [sink EXCEPT ![DocOf[log[cur[m]]]] = cur[m]]
           /\ applied' = applied \cup {cur[m]}
        \/ sink' = sink /\ applied' = applied
    BY <1>10 DEF HandlerFail, WriteSink
  <2>4. Frontier' = cur[m]
    BY <2>1, <2>2
  <2>5. ASSUME NEW o \in applied' \ dead', o < cur[m]
        PROVE  sink'[DocOf[log[o]]] >= o
    <3> HIDE DEF OrderInv, Frontier, Working
    <3>1. cur[m] \in Nat /\ o # cur[m]
      BY <2>5
    <3>2. o \in applied \ dead
      BY <2>2, <2>3, <3>1
    <3>3. o \in Nat /\ DocOf[log[o]] \in Doc
      BY <3>2
    <3>4. sink[DocOf[log[o]]] >= o
      BY <2>1, <2>5, <3>2 DEF OrderInv
    <3>5. CASE sink' = sink
      BY <3>4, <3>5
    <3>6. CASE sink' = [sink EXCEPT ![DocOf[log[cur[m]]]] = cur[m]]
      <4>1. sink'[DocOf[log[o]]] \in {cur[m], sink[DocOf[log[o]]]}
        BY <3>3, <3>6
      <4> QED
        BY <2>5, <3>1, <3>3, <3>4, <4>1
    <3> QED
      BY <2>3, <3>5, <3>6
  <2>6. \A n \in Members :
          pc'[n] \in Working => owner' = n /\ pos'[n] = lim'[n] + 1
    BY <2>1, <2>2
  <2>7. committed' < Frontier'
    BY <2>1, <2>2, <2>4
  <2> QED
    BY <2>2, <2>4, <2>5, <2>6, <2>7, SMTT(30)
<1>11. ASSUME NEW m \in Members, QuarantineOk(m) PROVE OrderInv'
  BY <1>11 DEF QuarantineOk, group
<1>12. ASSUME NEW m \in Members, QuarantineFail(m) PROVE OrderInv'
  BY <1>12 DEF QuarantineFail, group, history
<1>13. ASSUME NEW m \in Members, CommitOk(m) PROVE OrderInv'
  BY <1>13 DEF CommitOk, NextRecord, history
<1>14. ASSUME NEW m \in Members, CommitFail(m) PROVE OrderInv'
  BY <1>14 DEF CommitFail, NextRecord, history
<1>15. ASSUME NEW m \in Members, Stop(m) PROVE OrderInv'
  BY <1>15, SMTT(30) DEF Stop, group, history
<1>16. ASSUME NEW m \in Members, Start(m) PROVE OrderInv'
  BY <1>16 DEF Start, group, history
<1>17. CASE UNCHANGED vars
  BY <1>17 DEF vars, group, member, history
<1> QED
  BY <1>4, <1>5, <1>6, <1>7, <1>8, <1>9, <1>10, <1>11,
     <1>12, <1>13, <1>14, <1>15, <1>16, <1>17, ZenonT(30)
  DEF Next, Run, processRecord

\* Without a rebalance in the middle of a batch, redelivery never leaves an
\* older version of a document over a newer one in the sink (Run, commit).
THEOREM OrderSafe == Spec => []OrderUnlessStolen
<1>1. IInv /\ OrderInv => OrderUnlessStolen
  BY DEF IInv, TypeOK, OrderInv, OrderUnlessStolen, NewestWins, Drained, Frontier,
     Working, Offset
<1> QED
  BY Inductive, InitOrder, OrderStep, <1>1, PTL DEF Spec

-----------------------------------------------------------------------------
(* Refinement of Delivery: the number of settled records is its `high'. *)

\* A prefix of the naturals is counted by the last of its elements.
LEMMA PrefixCount ==
  ASSUME NEW S, \E n \in Nat : S = 1..n
  PROVE  Cardinality(S) \in Nat /\ S = 1..Cardinality(S)
<1>1. PICK n \in Nat : S = 1..n
  OBVIOUS
<1>2. Cardinality(1..n) = n
  BY FS_Interval
<1> QED
  BY <1>1, <1>2

LEMMA AbstractInit == Init => Abstract!Init
<1> SUFFICES ASSUME Init PROVE Abstract!Init
  OBVIOUS
<1>1. settled = {}
  BY DEF Init, settled
<1>2. Cardinality(settled) = 0
  BY <1>1, FS_EmptySet
<1> QED
  BY <1>2 DEF Init, Abstract!Init

LEMMA AbstractStep == IInv /\ IInv' /\ [Next]_vars => [Abstract!Next]_Abstract!vars
<1> SUFFICES ASSUME IInv, IInv', [Next]_vars PROVE [Abstract!Next]_(Abstract!vars)
  OBVIOUS
<1> DEFINE high == Cardinality(settled)
<1>1. high \in Nat /\ settled = 1..high
  BY PrefixCount DEF IInv, NoGap
<1>2. high' \in Nat /\ settled' = 1..high'
  BY PrefixCount DEF IInv, NoGap
<1> USE DEF Abstract!Next, Abstract!vars
<1>3. CASE Produce
  BY <1>3 DEF Produce, history, settled, Abstract!Append1
<1>4. ASSUME NEW m \in Members, CommitOk(m) PROVE Abstract!Commit
  <2>1. cur[m] \in settled /\ settled' = settled
    BY <1>4 DEF IInv, BatchInv, Working, CommitOk, NextRecord, history, settled
  <2> QED
    BY <1>1, <1>4, <2>1 DEF CommitOk, NextRecord, Abstract!Commit
<1>5. ASSUME NEW m \in Members, HandlerOk(m) \/ QuarantineOk(m)
      PROVE  Abstract!Settle \/ UNCHANGED Abstract!vars
  <2>1. log' = log /\ committed' = committed
    BY <1>5 DEF HandlerOk, QuarantineOk, group
  <2>2. settled' = settled \cup {cur[m]} /\ pc[m] \in Working
    BY <1>5 DEF HandlerOk, QuarantineOk, settled, Working
  <2>3. /\ cur[m] \in Nat /\ 1 <= cur[m] /\ cur[m] <= Len(log) /\ Len(log) \in Nat
        /\ \A p \in 1..(cur[m] - 1) : p \in settled
    <3>1. cur[m] \in Nat /\ lim[m] \in Nat /\ Len(log) \in Nat
      BY DEF IInv, TypeOK
    <3> QED
      BY <2>2, <3>1 DEF IInv, BatchInv
  <2>4. CASE cur[m] \in settled
    BY <2>1, <2>2, <2>4
  <2>5. CASE cur[m] \notin settled
    <3>1. cur[m] = high + 1
      <4>1. cur[m] > high
        BY <1>1, <2>3, <2>5
      <4>2. CASE cur[m] > high + 1
        <5>1. high + 1 \in 1..(cur[m] - 1)
          BY <1>1, <2>3, <4>2
        <5>2. high + 1 \in settled
          BY <2>3, <5>1
        <5> QED
          BY <1>1, <5>2
      <4> QED
        BY <1>1, <2>3, <4>1, <4>2
    <3>2. settled' = 1..(high + 1)
      BY <1>1, <2>2, <3>1
    <3>3. Cardinality(1..(high + 1)) = high + 1
      BY <1>1, FS_Interval
    <3>4. high' = high + 1 /\ high < Len(log)
      BY <1>1, <2>3, <3>1, <3>2, <3>3
    <3> QED
      BY <2>1, <3>4 DEF Abstract!Settle
  <2> QED
    BY <2>4, <2>5
<1>6. ASSUME ~Produce,
             \A m \in Members : ~CommitOk(m) /\ ~HandlerOk(m) /\ ~QuarantineOk(m)
      PROVE  UNCHANGED Abstract!vars
  BY <1>6, Zenon DEF Next, Run, processRecord, Expire, Rebalance, Poll, Reject,
     HandlerFail, QuarantineFail, CommitFail, NextRecord, Stop, Start,
     vars, group, history, settled
<1> QED
  BY <1>3, <1>4, <1>5, <1>6

\* The consumer group implements abstract at-least-once delivery: settled one
\* after the other in log order, committed only within the settled prefix.
THEOREM RefinesDelivery == Spec => ImplementsDelivery
<1>1. Spec => []IInv
  BY Inductive
<1> QED
  BY <1>1, AbstractInit, AbstractStep, PTL
  DEF Spec, ImplementsDelivery, Abstract!Spec
=============================================================================
