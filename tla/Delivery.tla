------------------------------ MODULE Delivery ------------------------------
(***************************************************************************)
(* What platform/kafkautil promises of one partition, with the processes   *)
(* that keep the promise left out: records are settled (handled, or        *)
(* quarantined) one after the other in log order, none is ever unsettled,  *)
(* and the committed offset may move back but never beyond the settled     *)
(* prefix.                                                                 *)
(***************************************************************************)
EXTENDS Integers, Sequences

CONSTANT Record

VARIABLES log,        \* the records of the partition
          high,       \* the records settled so far: offsets 1..high
          committed   \* the committed offset

vars == <<log, high, committed>>

Init == log = <<>> /\ high = 0 /\ committed = 0

Append1 ==
    /\ \E r \in Record : log' = Append(log, r)
    /\ UNCHANGED <<high, committed>>

Settle ==
    /\ high < Len(log) /\ high' = high + 1
    /\ UNCHANGED <<log, committed>>

Commit ==
    /\ committed' \in 1..high
    /\ UNCHANGED <<log, high>>

Next == Append1 \/ Settle \/ Commit

Spec == Init /\ [][Next]_vars
=============================================================================
