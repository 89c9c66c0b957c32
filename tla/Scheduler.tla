----------------------------- MODULE Scheduler ------------------------------
(***************************************************************************)
(* The connector hub's scheduler (hub/scheduler.go): a reconcile loop that *)
(* aligns one worker goroutine per ACTIVE instance with the listing of the *)
(* control plane, and the worker goroutines, which take a slot of the      *)
(* hub-wide semaphore for each sync pass.                                  *)
(*                                                                         *)
(* A cancelled worker may still be in a pass: it is kept in `draining'     *)
(* until its goroutine has exited, and no replacement starts before that.  *)
(* A worker is named by its instance and by how many of that instance were *)
(* started before it.                                                      *)
(***************************************************************************)
EXTENDS Integers, FiniteSets, FiniteSetTheorems, WellFoundedInduction, TLAPS

CONSTANTS
    Instance,             \* instance ids; the cap keeps the lowest ones
    TenantOf,             \* the tenant of an instance
    maxInstancesPerTenant,\* cap on instances per tenant; 0 disables it
    maxConcurrentSyncs,   \* slots of the semaphore
    MaxStarts,            \* bound: workers ever started for an instance
    MaxChanges,           \* bound: status changes in the control plane
    MaxFailures           \* bound: failed listings

ASSUME SchedulerAssumption ==
    /\ Instance \subseteq Nat /\ IsFiniteSet(Instance)
    /\ maxInstancesPerTenant \in Nat /\ maxConcurrentSyncs \in Nat \ {0}
    /\ MaxStarts \in Nat /\ MaxChanges \in Nat /\ MaxFailures \in Nat

\* The two owners of instances that TLC is given for TenantOf.
MCOneTenant  == [i \in Instance |-> "t"]
MCTwoTenants == [i \in Instance |-> IF i = 3 THEN "u" ELSE "t"]

Worker == Instance \X (1..MaxStarts)
None   == 0

VARIABLES
    active,      \* the control plane: instances with status ACTIVE
    changes,     \* status changes so far
    failed,      \* listings that failed so far
    ctxDone,     \* the hub's context is cancelled
    loop,        \* the reconcile loop: "tick", "apply", "wait", "returned"
    desired,     \* the instances reconcile wants to run, from its listing
    workers,     \* workers[i]: the active worker of i, or None
    draining,    \* draining[i]: a cancelled worker of i, or None
    started,     \* started[i]: workers of i started so far
    pc,          \* pc[w]: "new", "sleep", "acquire", "sync", "done", "gone"
    cancelled,   \* workers whose context was cancelled
    wake,        \* workers with a wake-up in their channel
    sem,         \* slots of the semaphore in use
    wg           \* the counter of the WaitGroup of the worker goroutines

plane == <<active, changes>>
maps  == <<workers, draining, started, cancelled>>
vars  == <<plane, failed, ctxDone, loop, desired, maps, pc, wake, sem, wg>>

Live       == {w \in Worker : pc[w] \in {"sleep", "acquire", "sync"}}
Goroutines == {w \in Worker : pc[w] \notin {"new", "gone"}}
Syncing    == {w \in Worker : pc[w] = "sync"}
Done(w)    == ctxDone \/ w \in cancelled         \* <-ctx.Done() of worker w

TypeOK ==
    /\ active \subseteq Instance /\ changes \in 0..MaxChanges
    /\ failed \in 0..MaxFailures
    /\ ctxDone \in BOOLEAN
    /\ loop \in {"tick", "apply", "wait", "returned"}
    /\ desired \subseteq Instance
    /\ workers \in [Instance -> 0..MaxStarts]
    /\ draining \in [Instance -> 0..MaxStarts]
    /\ started \in [Instance -> 0..MaxStarts]
    /\ pc \in [Worker -> {"new", "sleep", "acquire", "sync", "done", "gone"}]
    /\ cancelled \subseteq Worker /\ wake \subseteq Worker
    /\ sem \in 0..maxConcurrentSyncs /\ wg \in Nat

Init ==
    /\ active \in SUBSET Instance /\ changes = 0 /\ failed = 0
    /\ ctxDone = FALSE /\ loop = "tick" /\ desired = {}
    /\ workers = [i \in Instance |-> None]
    /\ draining = [i \in Instance |-> None]
    /\ started = [i \in Instance |-> 0]
    /\ pc = [w \in Worker |-> "new"]
    /\ cancelled = {} /\ wake = {} /\ sem = 0 /\ wg = 0

-----------------------------------------------------------------------------
\* A user pauses, resumes, adds or removes an instance.
SetStatus(i) ==
    /\ changes < MaxChanges /\ changes' = changes + 1
    /\ active' = IF i \in active THEN active \ {i} ELSE active \cup {i}
    /\ UNCHANGED <<failed, ctxDone, loop, desired, maps, pc, wake, sem, wg>>

\* The hub is told to shut down.
Shutdown ==
    /\ ~ctxDone /\ ctxDone' = TRUE
    /\ UNCHANGED <<plane, failed, loop, desired, maps, pc, wake, sem, wg>>

\* Mutant: one instance more than the cap is kept.
capPlusOne(S) ==
    {i \in S : Cardinality({j \in S : TenantOf[j] = TenantOf[i] /\ j < i})
                 <= maxInstancesPerTenant}

\* Per tenant the instances with the lowest ids stay, up to the cap.
applyTenantCap(S) ==
    IF maxInstancesPerTenant = 0 THEN S
    ELSE {i \in S : Cardinality({j \in S : TenantOf[j] = TenantOf[i] /\ j < i})
                      < maxInstancesPerTenant}

\* The first half of reconcile: the listing, without the lock.
List ==
    /\ loop = "tick" /\ ~ctxDone
    /\ desired' = applyTenantCap(active)
    /\ loop' = "apply"
    /\ UNCHANGED <<plane, failed, ctxDone, maps, pc, wake, sem, wg>>

\* A failed listing keeps the current workers.
ListFails ==
    /\ loop = "tick" /\ failed < MaxFailures /\ failed' = failed + 1
    /\ UNCHANGED <<plane, ctxDone, loop, desired, maps, pc, wake, sem, wg>>

\* Mutant: nothing is ever reaped.
NotReaped == draining

\* draining after the workers that have exited are reaped.
Reaped == [i \in Instance |->
             IF draining[i] # None /\ pc[<<i, draining[i]>>] \in {"done", "gone"}
             THEN None ELSE draining[i]]

\* The instances that get a worker now, and those that lose theirs.
Spawned == {i \in desired : workers[i] = None /\ Reaped[i] = None}
Dropped == {i \in Instance \ desired : workers[i] # None}

\* Mutant: one wg.Add for all the goroutines of a reconcile.
AddedOnce(S) == IF S = {} THEN 0 ELSE 1

\* What wg.Add adds up to, one call for each goroutine started.
Added(S) == Cardinality(S)

\* Reconcile, under the lock, starting a worker for the instances of S.
Align(S) ==
    /\ \A i \in S : started[i] < MaxStarts
    /\ started' = [i \in Instance |-> IF i \in S THEN started[i] + 1 ELSE started[i]]
    /\ workers' = [i \in Instance |-> IF i \in S THEN started[i] + 1
                                      ELSE IF i \in Dropped THEN None
                                      ELSE workers[i]]
    /\ draining' = [i \in Instance |-> IF i \in Dropped THEN workers[i] ELSE Reaped[i]]
    /\ cancelled' = cancelled \cup {<<i, workers[i]>> : i \in Dropped}
    /\ pc' = [w \in Worker |-> IF w[1] \in S /\ w[2] = started[w[1]] + 1
                               THEN "acquire" ELSE pc[w]]
    /\ wg' = wg + Added(S)

\* Mutant: a replacement does not wait for the worker that drains.
ReconcileEager ==
    /\ loop = "apply" /\ loop' = "tick"
    /\ Align({i \in desired : workers[i] = None})
    /\ UNCHANGED <<plane, failed, ctxDone, desired, wake, sem>>

Reconcile ==
    /\ loop = "apply" /\ loop' = "tick"
    /\ Align(Spawned)
    /\ UNCHANGED <<plane, failed, ctxDone, desired, wake, sem>>

\* Mutant: the shutdown waits for draining to be reaped, which nobody does now.
stopAllReaped ==
    /\ loop = "tick" /\ ctxDone /\ \A i \in Instance : draining[i] = None
    /\ cancelled' = cancelled \cup
         {w \in Worker : w[2] \in {workers[w[1]], draining[w[1]]}}
    /\ workers' = [i \in Instance |-> None]
    /\ draining' = [i \in Instance |-> None]
    /\ loop' = "wait"
    /\ UNCHANGED <<plane, failed, ctxDone, desired, started, pc, wake, sem, wg>>

\* Run, when its context is cancelled: stopAll, then wait for every worker.
stopAll ==
    /\ loop = "tick" /\ ctxDone
    /\ cancelled' = cancelled \cup
         {w \in Worker : w[2] \in {workers[w[1]], draining[w[1]]}}
    /\ workers' = [i \in Instance |-> None]
    /\ draining' = [i \in Instance |-> None]
    /\ loop' = "wait"
    /\ UNCHANGED <<plane, failed, ctxDone, desired, started, pc, wake, sem, wg>>

\* wg.Wait returns: every goroutine that was added has called wg.Done.
Return ==
    /\ loop = "wait" /\ wg = 0
    /\ loop' = "returned"
    /\ UNCHANGED <<plane, failed, ctxDone, desired, maps, pc, wake, sem, wg>>

\* A webhook asks for a pass; one request fits the worker's channel.
trigger(i) ==
    /\ workers[i] # None
    /\ wake' = wake \cup {<<i, workers[i]>>}
    /\ UNCHANGED <<plane, failed, ctxDone, loop, desired, maps, pc, sem, wg>>

-----------------------------------------------------------------------------
(* runWorker *)

Exit(w) ==
    /\ pc[w] \in {"sleep", "acquire"} /\ Done(w)
    /\ pc' = [pc EXCEPT ![w] = "done"]
    /\ UNCHANGED <<plane, failed, ctxDone, loop, desired, maps, wake, sem, wg>>

Timer(w) ==
    /\ pc[w] = "sleep"
    /\ pc' = [pc EXCEPT ![w] = "acquire"]
    /\ UNCHANGED <<plane, failed, ctxDone, loop, desired, maps, wake, sem, wg>>

Woken(w) ==
    /\ pc[w] = "sleep" /\ w \in wake
    /\ wake' = wake \ {w}
    /\ pc' = [pc EXCEPT ![w] = "acquire"]
    /\ UNCHANGED <<plane, failed, ctxDone, loop, desired, maps, sem, wg>>

\* The select may prefer a free slot to a cancelled context.
Acquire(w) ==
    /\ pc[w] = "acquire" /\ sem < maxConcurrentSyncs
    /\ sem' = sem + 1
    /\ pc' = [pc EXCEPT ![w] = "sync"]
    /\ UNCHANGED <<plane, failed, ctxDone, loop, desired, maps, wake, wg>>

\* Mutant: a worker that finds its context cancelled keeps its slot.
SyncDoneLeaks(w) ==
    /\ pc[w] = "sync"
    /\ sem' = IF Done(w) THEN sem ELSE sem - 1
    /\ pc' = [pc EXCEPT ![w] = IF Done(w) THEN "done" ELSE "sleep"]
    /\ UNCHANGED <<plane, failed, ctxDone, loop, desired, maps, wake, wg>>

\* syncOnce returns; success and failure differ in the delay only.
SyncDone(w) ==
    /\ pc[w] = "sync"
    /\ sem' = sem - 1
    /\ pc' = [pc EXCEPT ![w] = IF Done(w) THEN "done" ELSE "sleep"]
    /\ UNCHANGED <<plane, failed, ctxDone, loop, desired, maps, wake, wg>>

\* The deferred calls of a worker: done is closed first, which lets reconcile
\* reap it, and wg.Done follows.
Leave(w) ==
    /\ pc[w] = "done"
    /\ pc' = [pc EXCEPT ![w] = "gone"]
    /\ wg' = wg - 1
    /\ UNCHANGED <<plane, failed, ctxDone, loop, desired, maps, wake, sem>>

runWorker(w) ==
    Exit(w) \/ Timer(w) \/ Woken(w) \/ Acquire(w) \/ SyncDone(w) \/ Leave(w)

Run == List \/ ListFails \/ Reconcile \/ stopAll \/ Return

Next ==
    \/ Run \/ Shutdown
    \/ \E i \in Instance : SetStatus(i) \/ trigger(i)
    \/ \E w \in Worker : runWorker(w)

\* The loop ticks and sees its context; goroutines run, timers fire, a pass ends,
\* and the waiting senders of a channel are served in turn.
Fairness ==
    /\ WF_vars(List) /\ WF_vars(Reconcile) /\ WF_vars(stopAll) /\ WF_vars(Return)
    /\ \A w \in Worker :
         /\ WF_vars(Exit(w) \/ Timer(w) \/ Woken(w))
         /\ SF_vars(Acquire(w)) /\ WF_vars(SyncDone(w)) /\ WF_vars(Leave(w))

Spec == Init /\ [][Next]_vars
FairSpec == Spec /\ Fairness

-----------------------------------------------------------------------------
(* Properties *)

\* "two sync passes can never run concurrently for one instance across a
\* pause/resume or remove/re-add cycle" (scheduler.draining).
OnePassPerInstance ==
    \A v, w \in Syncing : v[1] = w[1] => v = w

\* Every path out of a pass gives its slot back, so the semaphore counts the
\* passes that run: it is neither exceeded nor slowly used up by cancellations.
SlotsAccounted == sem = Cardinality(Syncing)

\* The workers the scheduler keeps never exceed a tenant's cap, whatever is
\* paused, resumed or removed between two listings (applyTenantCap).
CapOnWorkers ==
    maxInstancesPerTenant > 0 =>
        \A i \in Instance :
            Cardinality({j \in Instance : TenantOf[j] = TenantOf[i] /\ workers[j] # None})
                <= maxInstancesPerTenant

\* Run "returns only after every worker goroutine has drained".  It waits for a
\* counter, not for the goroutines: the calls of wg.Add and wg.Done must match,
\* also for a worker that reconcile has already reaped and forgotten, and none
\* may start once the counter is waited for (Run, reconcile, runWorker).
ReturnsDrained == loop = "returned" => Goroutines = {}

\* An instance that stays ACTIVE and within its tenant's cap is synced again
\* and again, also when it was paused and resumed, and with fewer slots than
\* instances.
ActiveKeepsSyncing ==
    \A i \in Instance :
        <>[](~ctxDone /\ i \in applyTenantCap(active))
            => []<>(\E w \in Syncing : w[1] = i)

\* The worker of an instance that stays paused or removed exits for good.
PausedStops ==
    \A i \in Instance : <>[](i \notin active) => <>[](\A w \in Live : w[1] # i)

\* The scheduler follows the status of an instance: while it stays ACTIVE and
\* within the cap it keeps syncing, and once it stays paused or removed its worker
\* exits for good (Run, reconcile, runWorker).
StatusFollowed == ActiveKeepsSyncing /\ PausedStops

\* A shutdown completes, whatever reconcile and the workers are doing.
ShutdownCompletes == ctxDone ~> loop = "returned"

-----------------------------------------------------------------------------
(* Proofs, for any set of instances, any cap, any number of slots and any    *)
(* number of status changes.                                                 *)
(*                                                                           *)
(* OnePassPerInstance speaks of workers in a pass; a worker enters one from  *)
(* its sleep, so the invariant speaks of every live goroutine.  It is        *)
(* inductive once each of them is known to be in one of the two maps, and no *)
(* instance to be in both.  What Run waits for is a counter, so the invariant *)
(* says that it counts the goroutines (WorkersCounted).                        *)

Alive == {"sleep", "acquire", "sync"}

\* A worker that was not started yet has not run.
Fresh == \A w \in Worker : pc[w] # "new" => w[2] <= started[w[1]]

\* Until stopAll, a live goroutine is in one of the maps.
Tracked ==
    loop \in {"tick", "apply"} =>
        \A w \in Worker : pc[w] \in Alive => w[2] \in {workers[w[1]], draining[w[1]]}

\* An instance with a worker has none that drains.
Exclusive == \A i \in Instance : workers[i] # None => draining[i] = None

\* An instance has at most one live goroutine.
OneGoroutine ==
    \A v, w \in Worker : pc[v] \in Alive /\ pc[w] \in Alive /\ v[1] = w[1] => v = w

\* The counter of the WaitGroup is the number of goroutines that run.
WorkersCounted == wg = Cardinality(Goroutines)

IInv == /\ TypeOK /\ SlotsAccounted /\ WorkersCounted /\ ReturnsDrained
        /\ Fresh /\ Tracked /\ Exclusive /\ OneGoroutine

LEMMA FiniteWorkers == IsFiniteSet(Worker)
<1>1. IsFiniteSet(1..MaxStarts)
  BY FS_Interval, SchedulerAssumption
<1> QED
  BY <1>1, FS_Product, SchedulerAssumption, Zenon DEF Worker

LEMMA WorkerPair ==
  ASSUME NEW w \in Worker
  PROVE  w[1] \in Instance /\ w[2] \in 1..MaxStarts /\ w = <<w[1], w[2]>>
BY DEF Worker

LEMMA InitIInv == Init => IInv
<1> SUFFICES ASSUME Init PROVE IInv
  OBVIOUS
<1>1. ctxDone \in BOOLEAN
  BY Zenon DEF Init
<1>2. TypeOK
  BY <1>1, SchedulerAssumption DEF Init, TypeOK, None
<1>3. /\ Syncing = {} /\ Goroutines = {} /\ pc = [w \in Worker |-> "new"]
      /\ loop = "tick" /\ sem = 0 /\ wg = 0
  BY Zenon DEF Init, Syncing, Goroutines
<1>4. SlotsAccounted /\ WorkersCounted /\ ReturnsDrained
  BY <1>3, FS_EmptySet, Zenon DEF SlotsAccounted, WorkersCounted, ReturnsDrained
<1>5. Fresh /\ Tracked /\ OneGoroutine
  BY <1>3, Zenon DEF Fresh, Tracked, OneGoroutine, Alive
<1>6. Exclusive
  BY Zenon DEF Init, Exclusive
<1> QED
  BY <1>2, <1>4, <1>5, <1>6, Zenon DEF IInv

\* A step of the loop or of the environment that starts no worker and touches
\* no map keeps what is known of the workers.
LEMMA SameWorkers ==
  ASSUME IInv, UNCHANGED <<maps, pc, sem, wg>>,
         loop' = loop \/ {loop, loop'} \subseteq {"tick", "apply"}
  PROVE  /\ SlotsAccounted' /\ WorkersCounted' /\ ReturnsDrained'
         /\ Fresh' /\ Tracked' /\ Exclusive' /\ OneGoroutine'
<1> USE DEF IInv, maps
<1>1. Syncing' = Syncing /\ Goroutines' = Goroutines
  BY Zenon DEF Syncing, Goroutines
<1>2. SlotsAccounted' /\ WorkersCounted' /\ ReturnsDrained'
  BY <1>1, Zenon DEF SlotsAccounted, WorkersCounted, ReturnsDrained
<1>3. Fresh' /\ Exclusive' /\ OneGoroutine'
  BY Zenon DEF Fresh, Exclusive, OneGoroutine
<1>4. Tracked'
  BY Zenon DEF Tracked
<1> QED
  BY <1>2, <1>3, <1>4, Zenon

\* A step of worker w between live states, or to its exit: it is counted still.
LEMMA WorkerMoves ==
  ASSUME IInv, NEW w \in Worker, NEW s \in Alive \cup {"done"}, pc[w] \in Alive,
         pc' = [pc EXCEPT ![w] = s], UNCHANGED <<maps, loop, wg>>
  PROVE  /\ pc' \in [Worker -> {"new", "sleep", "acquire", "sync", "done", "gone"}]
         /\ WorkersCounted' /\ ReturnsDrained'
         /\ Fresh' /\ Tracked' /\ Exclusive' /\ OneGoroutine'
<1> USE DEF Alive
<1>1. pc \in [Worker -> {"new", "sleep", "acquire", "sync", "done", "gone"}]
  BY Zenon DEF IInv, TypeOK
<1>2. \A v \in Worker : pc'[v] = IF v = w THEN s ELSE pc[v]
  BY <1>1, Zenon
<1>3. \A v \in Worker : pc'[v] \in Alive => pc[v] \in Alive
  BY <1>2, Zenon
<1>4. WorkersCounted' /\ ReturnsDrained'
  <2>1. s \notin {"new", "gone"} /\ pc[w] \notin {"new", "gone"}
    BY Zenon
  <2>2. Goroutines' = Goroutines
    BY <1>2, <2>1, Zenon DEF Goroutines
  <2> QED
    BY <2>2, Zenon DEF IInv, WorkersCounted, ReturnsDrained
<1>5. Fresh' /\ Exclusive'
  BY <1>2, Zenon DEF IInv, Fresh, Exclusive, maps
<1>6. Tracked' /\ OneGoroutine'
  BY <1>3, Zenon DEF IInv, Tracked, OneGoroutine, maps
<1> QED
  BY <1>1, <1>4, <1>5, <1>6, Zenon

\* A worker that does not enter or leave a pass keeps the number of passes.
LEMMA NoPassChange ==
  ASSUME SlotsAccounted, pc \in [Worker -> {"new", "sleep", "acquire", "sync", "done", "gone"}],
         NEW w \in Worker, NEW s, s # "sync", pc[w] # "sync",
         pc' = [pc EXCEPT ![w] = s], sem' = sem
  PROVE  SlotsAccounted'
<1>1. Syncing' = Syncing
  BY Zenon DEF Syncing
<1> QED
  BY <1>1, Zenon DEF SlotsAccounted

LEMMA PassBegins ==
  ASSUME SlotsAccounted, pc \in [Worker -> {"new", "sleep", "acquire", "sync", "done", "gone"}],
         NEW w \in Worker, pc[w] # "sync",
         pc' = [pc EXCEPT ![w] = "sync"], sem' = sem + 1
  PROVE  SlotsAccounted'
<1>1. Syncing' = Syncing \cup {w} /\ w \notin Syncing
  BY Zenon DEF Syncing
<1>2. IsFiniteSet(Syncing)
  BY FiniteWorkers, FS_Subset, Zenon DEF Syncing
<1>3. Cardinality(Syncing \cup {w}) = Cardinality(Syncing) + 1
  BY <1>1, <1>2, FS_AddElement, Zenon
<1> QED
  BY <1>1, <1>3, Zenon DEF SlotsAccounted

LEMMA PassEnds ==
  ASSUME SlotsAccounted, pc \in [Worker -> {"new", "sleep", "acquire", "sync", "done", "gone"}],
         NEW w \in Worker, pc[w] = "sync", NEW s, s # "sync",
         pc' = [pc EXCEPT ![w] = s], sem' = sem - 1
  PROVE  SlotsAccounted' /\ sem' \in Nat
<1>1. Syncing' = Syncing \ {w} /\ w \in Syncing
  BY Zenon DEF Syncing
<1>2. IsFiniteSet(Syncing)
  BY FiniteWorkers, FS_Subset, Zenon DEF Syncing
<1>3. Cardinality(Syncing \ {w}) = Cardinality(Syncing) - 1
  BY <1>1, <1>2, FS_RemoveElement, SMTT(30)
<1>4. IsFiniteSet(Syncing \ {w})
  BY <1>2, FS_RemoveElement, Zenon
<1>5. Cardinality(Syncing \ {w}) \in Nat
  BY <1>4, FS_CardinalityType, Zenon
<1> QED
  BY <1>1, <1>3, <1>5, Zenon DEF SlotsAccounted

LEMMA FiniteGoroutines == IsFiniteSet(Goroutines)
BY FiniteWorkers, FS_Subset, Zenon DEF Goroutines

\* The goroutine's last step takes it and one unit of the counter away.
LEMMA LeaveIInv ==
  ASSUME IInv, NEW w \in Worker, Leave(w)
  PROVE  IInv'
<1>1. pc \in [Worker -> {"new", "sleep", "acquire", "sync", "done", "gone"}] /\ SlotsAccounted
  BY Zenon DEF IInv, TypeOK
<1>2. \A v \in Worker : pc'[v] = IF v = w THEN "gone" ELSE pc[v]
  BY <1>1, Zenon DEF Leave
<1>3. Goroutines' = Goroutines \ {w} /\ w \in Goroutines
  BY <1>2, Zenon DEF Goroutines, Leave
<1>4. IsFiniteSet(Goroutines \ {w}) /\ Cardinality(Goroutines \ {w}) = Cardinality(Goroutines) - 1
  BY <1>3, FiniteGoroutines, FS_RemoveElement
<1>5. WorkersCounted'
  BY <1>3, <1>4, Zenon DEF IInv, WorkersCounted, Leave
<1>6. wg' \in Nat
  BY <1>3, <1>4, <1>5, FS_CardinalityType, Zenon DEF WorkersCounted
<1>7. SlotsAccounted'
  BY <1>1, NoPassChange, Zenon DEF Leave
<1>8. ReturnsDrained'
  BY <1>3, Zenon DEF IInv, ReturnsDrained, Leave
<1>9. \A v \in Worker : pc'[v] \in Alive => pc[v] \in Alive
  BY <1>2, Zenon DEF Alive
<1>10. Fresh' /\ Exclusive'
  BY <1>2, Zenon DEF IInv, Fresh, Exclusive, Leave, maps
<1>11. Tracked' /\ OneGoroutine'
  BY <1>9, Zenon DEF IInv, Tracked, OneGoroutine, Leave, maps
<1>12. ctxDone' \in BOOLEAN
  BY Zenon DEF IInv, TypeOK, Leave
<1>13. pc' \in [Worker -> {"new", "sleep", "acquire", "sync", "done", "gone"}]
  BY <1>1, Zenon DEF Leave
<1>14. TypeOK'
  BY <1>6, <1>12, <1>13, Zenon DEF IInv, TypeOK, Leave, plane, maps
<1> QED
  BY <1>5, <1>7, <1>8, <1>10, <1>11, <1>14, Zenon DEF IInv

LEMMA RunWorkerIInv ==
  ASSUME IInv, NEW w \in Worker, runWorker(w)
  PROVE  IInv'
<1>1. pc \in [Worker -> {"new", "sleep", "acquire", "sync", "done", "gone"}] /\ SlotsAccounted
  BY Zenon DEF IInv, TypeOK
<1>2. sem \in 0..maxConcurrentSyncs /\ wake \subseteq Worker
  BY Zenon DEF IInv, TypeOK
<1>3. ASSUME NEW s \in Alive \cup {"done"}, pc[w] \in Alive, pc' = [pc EXCEPT ![w] = s],
             UNCHANGED <<plane, failed, ctxDone, loop, desired, maps, wg>>,
             wake' \subseteq Worker, sem' \in 0..maxConcurrentSyncs, SlotsAccounted'
      PROVE  IInv'
  <2>1. /\ pc' \in [Worker -> {"new", "sleep", "acquire", "sync", "done", "gone"}]
        /\ WorkersCounted' /\ ReturnsDrained'
        /\ Fresh' /\ Tracked' /\ Exclusive' /\ OneGoroutine'
    BY <1>3, WorkerMoves, Zenon
  <2>2. ctxDone' \in BOOLEAN
    BY <1>3, Zenon DEF IInv, TypeOK
  <2>3. TypeOK'
    BY <1>3, <2>1, <2>2, Zenon DEF IInv, TypeOK, plane, maps
  <2> QED
    BY <1>3, <2>1, <2>3, Zenon DEF IInv
<1>4. CASE Exit(w)
  <2>1. SlotsAccounted'
    BY <1>1, <1>4, NoPassChange, Zenon DEF Exit
  <2> QED
    BY <1>2, <1>3, <1>4, <2>1, Zenon DEF Exit, Alive
<1>5. CASE Timer(w)
  <2>1. SlotsAccounted'
    BY <1>1, <1>5, NoPassChange, Zenon DEF Timer
  <2> QED
    BY <1>2, <1>3, <1>5, <2>1, Zenon DEF Timer, Alive
<1>6. CASE Woken(w)
  <2>1. SlotsAccounted'
    BY <1>1, <1>6, NoPassChange, Zenon DEF Woken
  <2> QED
    BY <1>2, <1>3, <1>6, <2>1, Zenon DEF Woken, Alive
<1>7. CASE Acquire(w)
  <2>1. SlotsAccounted'
    BY <1>1, <1>7, PassBegins, Zenon DEF Acquire
  <2>2. sem' \in 0..maxConcurrentSyncs
    BY <1>2, <1>7, SchedulerAssumption DEF Acquire
  <2> QED
    BY <1>2, <1>3, <1>7, <2>1, <2>2, Zenon DEF Acquire, Alive
<1>8. CASE SyncDone(w)
  <2>1. PICK s \in {"done", "sleep"} : pc' = [pc EXCEPT ![w] = s]
    BY <1>8, Zenon DEF SyncDone
  <2>2. SlotsAccounted' /\ sem' \in Nat
    BY <1>1, <1>8, <2>1, PassEnds, Zenon DEF SyncDone
  <2>3. sem' \in 0..maxConcurrentSyncs
    BY <1>2, <1>8, <2>2, SchedulerAssumption DEF SyncDone
  <2> QED
    BY <1>2, <1>3, <1>8, <2>1, <2>2, <2>3, Zenon DEF SyncDone, Alive
<1> QED
  BY <1>4, <1>5, <1>6, <1>7, <1>8, LeaveIInv, Zenon DEF runWorker

\* As many pairs as first components.
LEMMA Tagged ==
  ASSUME NEW S, NEW f, IsFiniteSet(S)
  PROVE  /\ IsFiniteSet({<<i, f[i] + 1>> : i \in S})
         /\ Cardinality({<<i, f[i] + 1>> : i \in S}) = Cardinality(S)
<1> DEFINE T == {<<i, f[i] + 1>> : i \in S}
           g == [i \in S |-> <<i, f[i] + 1>>]
<1>1. g \in Surjection(S, T)
  BY Zenon DEF Surjection
<1>2. g \in Injection(S, T)
  <2>1. g \in [S -> T] /\ DOMAIN g = S
    BY Zenon
  <2>2. ASSUME NEW a \in S, NEW b \in S, g[a] = g[b] PROVE a = b
    <3>1. <<a, f[a] + 1>> = <<b, f[b] + 1>>
      BY <2>2, Zenon
    <3> QED
      BY <3>1
  <2> QED
    BY <2>1, <2>2, Zenon DEF Injection, IsInjective
<1>3. ExistsBijection(S, T)
  BY <1>1, <1>2, Zenon DEF ExistsBijection, Bijection
<1> QED
  BY <1>3, FS_Bijection, Zenon

LEMMA Apart ==
  ASSUME NEW S, NEW T, IsFiniteSet(S), IsFiniteSet(T), T \cap S = {}
  PROVE  IsFiniteSet(S \cup T) /\ Cardinality(S \cup T) = Cardinality(S) + Cardinality(T)
<1>1. S \cap T = {}
  BY Zenon
<1>2. Cardinality(S) \in Nat /\ Cardinality(T) \in Nat
  BY FS_CardinalityType, Zenon
<1>3. Cardinality(S \cap T) = 0
  BY <1>1, FS_EmptySet, Zenon
<1>4. /\ IsFiniteSet(S \cup T)
      /\ Cardinality(S \cup T) = Cardinality(S) + Cardinality(T) - Cardinality(S \cap T)
  BY FS_Union, Zenon
<1> QED
  BY <1>2, <1>3, <1>4

\* Reconcile: the new worker of an instance finds no other goroutine of it alive.
LEMMA ReconcileIInv ==
  ASSUME IInv, Reconcile
  PROVE  IInv'
<1>1. /\ workers \in [Instance -> 0..MaxStarts] /\ draining \in [Instance -> 0..MaxStarts]
      /\ started \in [Instance -> 0..MaxStarts] /\ desired \subseteq Instance
      /\ pc \in [Worker -> {"new", "sleep", "acquire", "sync", "done", "gone"}]
      /\ MaxStarts \in Nat
  BY SchedulerAssumption, Zenon DEF IInv, TypeOK
<1>2. /\ \A i \in Spawned : started[i] < MaxStarts
      /\ started' = [i \in Instance |-> IF i \in Spawned THEN started[i] + 1 ELSE started[i]]
      /\ workers' = [i \in Instance |-> IF i \in Spawned THEN started[i] + 1
                                        ELSE IF i \in Dropped THEN None ELSE workers[i]]
      /\ draining' = [i \in Instance |-> IF i \in Dropped THEN workers[i] ELSE Reaped[i]]
      /\ cancelled' = cancelled \cup {<<i, workers[i]>> : i \in Dropped}
      /\ pc' = [w \in Worker |-> IF w[1] \in Spawned /\ w[2] = started[w[1]] + 1
                                 THEN "acquire" ELSE pc[w]]
      /\ wg' = wg + Cardinality(Spawned)
  BY Zenon DEF Reconcile, Align, Added
<1>3. /\ loop = "apply" /\ loop' = "tick"
      /\ UNCHANGED <<plane, failed, ctxDone, desired, wake, sem>>
  BY Zenon DEF Reconcile
<1>4. /\ Spawned \subseteq Instance /\ Dropped \subseteq Instance
      /\ \A i \in Spawned : i \notin Dropped /\ workers[i] = None /\ Reaped[i] = None
      /\ \A i \in Dropped : workers[i] # None
  BY <1>1, Zenon DEF Spawned, Dropped
<1>5. \A i \in Instance : \/ Reaped[i] = draining[i]
                          \/ Reaped[i] = None /\ pc[<<i, draining[i]>>] \in {"done", "gone"}
  BY Zenon DEF Reaped
<1>6. \A w \in Worker : w[1] \in Spawned => pc[w] \notin Alive
  <2> SUFFICES ASSUME NEW w \in Worker, w[1] \in Spawned, pc[w] \in Alive PROVE FALSE
    OBVIOUS
  <2>1. w[1] \in Instance /\ w[2] \in 1..MaxStarts /\ w = <<w[1], w[2]>>
    BY WorkerPair, Zenon
  <2>2. w[2] \in {workers[w[1]], draining[w[1]]}
    BY <1>3, Zenon DEF IInv, Tracked
  <2>3. w[2] = draining[w[1]] /\ draining[w[1]] # None
    BY <1>1, <1>4, <2>1, <2>2 DEF None
  <2>4. pc[<<w[1], draining[w[1]]>>] \in {"done", "gone"}
    BY <1>4, <1>5, <2>1, <2>3, Zenon
  <2> QED
    BY <2>1, <2>3, <2>4, Zenon DEF Alive
<1>7. \A w \in Worker :
        \/ w[1] \in Spawned /\ w[2] = started[w[1]] + 1 /\ pc[w] = "new" /\ pc'[w] = "acquire"
        \/ pc'[w] = pc[w]
  <2> SUFFICES ASSUME NEW w \in Worker, w[1] \in Spawned, w[2] = started[w[1]] + 1
               PROVE  pc[w] = "new" /\ pc'[w] = "acquire"
    BY <1>2, Zenon
  <2>1. w[1] \in Instance /\ started[w[1]] \in Nat
    BY <1>1, <1>4
  <2> QED
    BY <1>2, <2>1 DEF IInv, Fresh
<1>14. WorkersCounted' /\ wg' \in Nat
  <2>1. Goroutines' = Goroutines \cup {<<i, started[i] + 1>> : i \in Spawned}
    <3>1. \A i \in Spawned : <<i, started[i] + 1>> \in Worker
      BY <1>1, <1>2, <1>4 DEF Worker
    <3>2. \A w \in Worker : w \in {<<i, started[i] + 1>> : i \in Spawned}
                              <=> w[1] \in Spawned /\ w[2] = started[w[1]] + 1
      BY WorkerPair
    <3>3. \A w \in Worker : w \in Goroutines'
                <=> w \in Goroutines \/ (w[1] \in Spawned /\ w[2] = started[w[1]] + 1)
      BY <1>2, <1>7, Zenon DEF Goroutines
    <3> QED
      BY <3>1, <3>2, <3>3, Zenon DEF Goroutines
  <2>2. {<<i, started[i] + 1>> : i \in Spawned} \cap Goroutines = {}
    <3>1. \A i \in Spawned : <<i, started[i] + 1>> \in Worker
      BY <1>1, <1>2, <1>4 DEF Worker
    <3>2. \A i \in Spawned : pc[<<i, started[i] + 1>>] = "new"
      BY <1>1, <1>4, <3>1 DEF IInv, Fresh
    <3> QED
      BY <3>2, Zenon DEF Goroutines
  <2>3. IsFiniteSet(Spawned)
    BY <1>4, FS_Subset, SchedulerAssumption, Zenon
  <2>4. /\ IsFiniteSet({<<i, started[i] + 1>> : i \in Spawned})
        /\ Cardinality({<<i, started[i] + 1>> : i \in Spawned}) = Cardinality(Spawned)
    BY <2>3, Tagged
  <2>5. /\ IsFiniteSet(Goroutines \cup {<<i, started[i] + 1>> : i \in Spawned})
        /\ Cardinality(Goroutines \cup {<<i, started[i] + 1>> : i \in Spawned})
             = Cardinality(Goroutines) + Cardinality(Spawned)
    BY <2>2, <2>3, <2>4, FiniteGoroutines, Apart, Zenon
  <2>6. WorkersCounted'
    BY <1>2, <2>1, <2>5, Zenon DEF IInv, WorkersCounted
  <2> QED
    BY <2>1, <2>5, <2>6, FS_CardinalityType, Zenon DEF WorkersCounted
<1>8. TypeOK'
  <2>1. started' \in [Instance -> 0..MaxStarts]
    BY <1>1, <1>2
  <2>2. workers' \in [Instance -> 0..MaxStarts]
    BY <1>1, <1>2 DEF None
  <2>3. \A i \in Instance : Reaped[i] \in 0..MaxStarts
    BY <1>1 DEF Reaped, None
  <2>4. draining' \in [Instance -> 0..MaxStarts]
    BY <1>1, <1>2, <2>3, Zenon
  <2>5. pc' \in [Worker -> {"new", "sleep", "acquire", "sync", "done", "gone"}]
    BY <1>1, <1>2, Zenon
  <2>6. cancelled' \subseteq Worker
    <3>1. \A i \in Dropped : workers[i] \in 1..MaxStarts
      BY <1>1, <1>4 DEF None
    <3> QED
      BY <1>2, <1>4, <3>1 DEF IInv, TypeOK, Worker
  <2>7. ctxDone' \in BOOLEAN
    BY <1>3, Zenon DEF IInv, TypeOK
  <2> QED
    BY <1>3, <1>14, <2>1, <2>2, <2>4, <2>5, <2>6, <2>7, Zenon DEF IInv, TypeOK, plane
<1>9. SlotsAccounted' /\ ReturnsDrained'
  <2>1. Syncing' = Syncing
    BY <1>7, Zenon DEF Syncing
  <2> QED
    BY <1>3, <2>1, Zenon DEF IInv, SlotsAccounted, ReturnsDrained
<1>10. Fresh'
  <2> SUFFICES ASSUME NEW w \in Worker, pc'[w] # "new" PROVE w[2] <= started'[w[1]]
    BY Zenon DEF Fresh
  <2>1. w[1] \in Instance /\ w[2] \in 1..MaxStarts
    BY WorkerPair, Zenon
  <2>2. started[w[1]] <= started'[w[1]]
    BY <1>1, <1>2, <2>1
  <2>3. started'[w[1]] \in Nat /\ started[w[1]] \in Nat
    BY <1>1, <1>2, <2>1
  <2>4. CASE pc'[w] = pc[w]
    BY <2>1, <2>2, <2>3, <2>4 DEF IInv, Fresh
  <2>5. CASE w[1] \in Spawned /\ w[2] = started[w[1]] + 1
    BY <1>2, <2>1, <2>5
  <2> QED
    BY <1>7, <2>4, <2>5, Zenon
<1>11. Tracked'
  <2> SUFFICES ASSUME NEW w \in Worker, pc'[w] \in Alive
               PROVE  w[2] = workers'[w[1]] \/ w[2] = draining'[w[1]]
    BY Zenon DEF Tracked
  <2>1. w[1] \in Instance /\ w[2] \in 1..MaxStarts /\ w = <<w[1], w[2]>>
    BY WorkerPair, Zenon
  <2>2. CASE w[1] \in Spawned
    BY <1>2, <1>6, <1>7, <2>1, <2>2, Zenon
  <2>3. CASE w[1] \notin Spawned
    <3>1. pc[w] \in Alive
      BY <1>7, <2>3, Zenon
    <3>2. w[2] \in {workers[w[1]], draining[w[1]]}
      BY <1>3, <3>1, Zenon DEF IInv, Tracked
    <3>3. CASE w[1] \in Dropped
      BY <1>2, <1>4, <2>1, <3>2, <3>3, Zenon DEF IInv, Exclusive, None
    <3>4. CASE w[1] \notin Dropped
      <4>1. workers'[w[1]] = workers[w[1]] /\ draining'[w[1]] = Reaped[w[1]]
        BY <1>2, <2>1, <2>3, <3>4, Zenon
      <4>2. w[2] = draining[w[1]] => Reaped[w[1]] = draining[w[1]]
        BY <1>5, <2>1, <3>1, Zenon DEF Alive
      <4> QED
        BY <3>2, <4>1, <4>2, Zenon
    <3> QED
      BY <3>3, <3>4, Zenon
  <2> QED
    BY <2>2, <2>3, Zenon
<1>12. Exclusive'
  <2> SUFFICES ASSUME NEW i \in Instance, workers'[i] # None PROVE draining'[i] = None
    BY Zenon DEF Exclusive
  <2>1. i \notin Dropped
    BY <1>2, <1>4, Zenon
  <2>2. draining'[i] = Reaped[i]
    BY <1>2, <2>1, Zenon
  <2>3. CASE i \in Spawned
    BY <1>4, <2>2, <2>3, Zenon
  <2>4. CASE i \notin Spawned
    <3>1. workers[i] # None
      BY <1>2, <2>1, <2>4, Zenon
    <3> QED
      BY <1>5, <2>2, <3>1, Zenon DEF IInv, Exclusive
  <2> QED
    BY <2>3, <2>4, Zenon
<1>13. OneGoroutine'
  <2> SUFFICES ASSUME NEW v \in Worker, NEW w \in Worker,
                      pc'[v] \in Alive, pc'[w] \in Alive, v[1] = w[1]
               PROVE  v = w
    BY Zenon DEF OneGoroutine
  <2>1. CASE v[1] \in Spawned
    BY <1>6, <1>7, <2>1, WorkerPair
  <2>2. CASE v[1] \notin Spawned
    BY <1>7, <2>2, Zenon DEF IInv, OneGoroutine
  <2> QED
    BY <2>1, <2>2, Zenon
<1> QED
  BY <1>8, <1>9, <1>10, <1>11, <1>12, <1>13, <1>14, Zenon DEF IInv

LEMMA stopAllIInv ==
  ASSUME IInv, stopAll
  PROVE  IInv'
<1>1. Syncing' = Syncing /\ Goroutines' = Goroutines
  BY Zenon DEF stopAll, Syncing, Goroutines
<1>2. ctxDone' \in BOOLEAN
  BY Zenon DEF stopAll, IInv, TypeOK
<1>3. TypeOK'
  <2>1. /\ workers' \in [Instance -> 0..MaxStarts] /\ draining' \in [Instance -> 0..MaxStarts]
        /\ cancelled' \subseteq Worker
    BY SchedulerAssumption DEF stopAll, None, IInv, TypeOK
  <2> QED
    BY <1>2, <2>1, Zenon DEF stopAll, IInv, TypeOK, plane
<1>4. SlotsAccounted' /\ WorkersCounted' /\ ReturnsDrained' /\ Tracked'
  BY <1>1, Zenon DEF stopAll, IInv, SlotsAccounted, WorkersCounted, ReturnsDrained, Tracked
<1>5. Fresh' /\ Exclusive' /\ OneGoroutine'
  BY Zenon DEF stopAll, IInv, Fresh, Exclusive, OneGoroutine
<1> QED
  BY <1>3, <1>4, <1>5, Zenon DEF IInv

LEMMA ReturnIInv ==
  ASSUME IInv, Return
  PROVE  IInv'
<1>1. Syncing' = Syncing /\ Goroutines' = Goroutines
  BY Zenon DEF Return, Syncing, Goroutines
<1>2. ctxDone' \in BOOLEAN
  BY Zenon DEF Return, IInv, TypeOK
<1>3. TypeOK'
  BY <1>2, Zenon DEF Return, IInv, TypeOK, plane, maps
<1>4. SlotsAccounted' /\ WorkersCounted' /\ Tracked'
  BY <1>1, Zenon DEF Return, IInv, SlotsAccounted, WorkersCounted, Tracked
<1>6. ReturnsDrained'
  <2>1. Cardinality(Goroutines) = 0
    BY Zenon DEF Return, IInv, WorkersCounted
  <2> QED
    BY <1>1, <2>1, FiniteGoroutines, FS_EmptySet, Zenon DEF ReturnsDrained
<1>5. Fresh' /\ Exclusive' /\ OneGoroutine'
  BY Zenon DEF Return, IInv, Fresh, Exclusive, OneGoroutine, maps
<1> QED
  BY <1>3, <1>4, <1>5, <1>6, Zenon DEF IInv

LEMMA NextIInv == IInv /\ [Next]_vars => IInv'
<1> SUFFICES ASSUME IInv, [Next]_vars PROVE IInv'
  OBVIOUS
<1>0. ctxDone \in BOOLEAN
  BY Zenon DEF IInv, TypeOK
<1>1. ASSUME UNCHANGED <<maps, pc, sem, wg>>, TypeOK',
             loop' = loop \/ {loop, loop'} \subseteq {"tick", "apply"}
      PROVE  IInv'
  BY <1>1, SameWorkers, Zenon DEF IInv
<1>2. ASSUME NEW i \in Instance, SetStatus(i) PROVE IInv'
  <2>1. ctxDone' \in BOOLEAN
    BY <1>0, <1>2, Zenon DEF SetStatus
  <2>2. TypeOK'
    BY <1>2, <2>1, SchedulerAssumption DEF SetStatus, IInv, TypeOK, maps
  <2> QED
    BY <1>1, <1>2, <2>2, Zenon DEF SetStatus
<1>3. CASE Shutdown
  <2>1. ctxDone' \in BOOLEAN
    BY <1>3, Zenon DEF Shutdown
  <2>2. TypeOK'
    BY <1>3, <2>1, Zenon DEF Shutdown, IInv, TypeOK, plane, maps
  <2> QED
    BY <1>1, <1>3, <2>2, Zenon DEF Shutdown
<1>4. CASE List
  <2>1. ctxDone' \in BOOLEAN
    BY <1>0, <1>4, Zenon DEF List
  <2>2. applyTenantCap(active) \subseteq Instance
    BY Zenon DEF applyTenantCap, IInv, TypeOK
  <2>3. TypeOK'
    BY <1>4, <2>1, <2>2, Zenon DEF List, IInv, TypeOK, plane, maps
  <2> QED
    BY <1>1, <1>4, <2>3, Zenon DEF List
<1>5. CASE ListFails
  <2>1. ctxDone' \in BOOLEAN
    BY <1>0, <1>5, Zenon DEF ListFails
  <2>2. TypeOK'
    BY <1>5, <2>1, SchedulerAssumption DEF ListFails, IInv, TypeOK, plane, maps
  <2> QED
    BY <1>1, <1>5, <2>2, Zenon DEF ListFails
<1>6. ASSUME NEW i \in Instance, trigger(i) PROVE IInv'
  <2>1. ctxDone' \in BOOLEAN
    BY <1>0, <1>6, Zenon DEF trigger
  <2>2. <<i, workers[i]>> \in Worker
    BY <1>6 DEF trigger, IInv, TypeOK, Worker, None
  <2>3. TypeOK'
    BY <1>6, <2>1, <2>2, Zenon DEF trigger, IInv, TypeOK, plane, maps
  <2> QED
    BY <1>1, <1>6, <2>3, Zenon DEF trigger
<1>7. CASE UNCHANGED vars
  <2>1. ctxDone' \in BOOLEAN
    BY <1>0, <1>7, Zenon DEF vars
  <2>2. TypeOK'
    BY <1>7, <2>1, Zenon DEF vars, IInv, TypeOK, plane, maps
  <2> QED
    BY <1>1, <1>7, <2>2, Zenon DEF vars
<1> QED
  BY <1>2, <1>3, <1>4, <1>5, <1>6, <1>7,
     ReconcileIInv, stopAllIInv, ReturnIInv, RunWorkerIInv, Zenon DEF Next, Run

LEMMA Invariance == Spec => []IInv
BY InitIInv, NextIInv, PTL DEF Spec

\* Type correctness of the scheduler; that the semaphore stays within its
\* slots rests on SlotsAccounted.
THEOREM TypeCorrect == Spec => []TypeOK
<1>1. IInv => TypeOK
  BY Zenon DEF IInv
<1> QED
  BY <1>1, Invariance, PTL

\* Two passes of one instance never overlap, across any pauses, resumptions,
\* removals and a shutdown (scheduler.draining, reconcile).
THEOREM NoOverlap == Spec => []OnePassPerInstance
<1>1. IInv => OnePassPerInstance
  BY Zenon DEF IInv, OneGoroutine, OnePassPerInstance, Syncing, Alive
<1> QED
  BY <1>1, Invariance, PTL

\* The semaphore counts the passes that run, whichever way they end (runWorker).
THEOREM SlotsExact == Spec => []SlotsAccounted
<1>1. IInv => SlotsAccounted
  BY Zenon DEF IInv
<1> QED
  BY <1>1, Invariance, PTL

\* Run returns only when no worker goroutine is left, and none starts later: the
\* counter of the WaitGroup that Run waits for is, in every state, the number of
\* goroutines that have started and not left, those reconcile forgot included.
THEOREM DrainedOnReturn == Spec => []ReturnsDrained
<1>1. IInv => ReturnsDrained
  BY Zenon DEF IInv
<1> QED
  BY <1>1, Invariance, PTL
-----------------------------------------------------------------------------
(* The cap.  applyTenantCap counts the instances of the listing below one;   *)
(* that no more than the cap pass follows from looking at the highest.       *)

LEMMA NatMin ==
  ASSUME NEW T \in SUBSET Nat, T # {}
  PROVE  \E m \in T : \A k \in T : m <= k
<1> DEFINE R == OpToRel(<, Nat)
<1>1. IsWellFoundedOn(R, Nat)
  BY NatLessThanWellFounded, Zenon
<1>2. \A k, m \in Nat : k < m => <<k, m>> \in R
  BY Zenon DEF OpToRel
<1> HIDE DEF R
<1>3. PICK m \in T : \A k \in T : ~ (<<k, m>> \in R)
  BY <1>1, WFMin, Zenon
<1>4. \A k \in T : m <= k
  <2> TAKE k \in T
  <2>1. ~(k < m)
    BY <1>2, <1>3, Zenon
  <2> QED
    BY <2>1
<1> QED
  BY <1>4, Zenon

LEMMA NatMax ==
  ASSUME NEW T \in SUBSET Nat, IsFiniteSet(T), T # {}
  PROVE  \E m \in T : \A k \in T : k <= m
<1> DEFINE Above(i) == {k \in T : k > i}
           Counts == {Cardinality(Above(i)) : i \in T}
<1>1. \A i \in T : IsFiniteSet(Above(i)) /\ Cardinality(Above(i)) \in Nat
  <2> TAKE i \in T
  <2>1. Above(i) \in SUBSET T
    OBVIOUS
  <2> QED
    BY <2>1, FS_Subset, FS_CardinalityType, Zenon
<1>2. PICK m \in T : \A k \in T : Cardinality(Above(m)) <= Cardinality(Above(k))
  <2>1. Counts \in SUBSET Nat /\ Counts # {}
    BY <1>1, Zenon
  <2> HIDE DEF Above
  <2>2. PICK c \in Counts : \A d \in Counts : c <= d
    <3> HIDE DEF Counts
    <3> QED
      BY <2>1, NatMin, Zenon
  <2>3. PICK m \in T : c = Cardinality(Above(m))
    OBVIOUS
  <2>4. \A k \in T : Cardinality(Above(k)) \in Counts
    OBVIOUS
  <2> QED
    BY <2>2, <2>3, <2>4, Zenon
<1>3. ASSUME NEW k \in T, k > m PROVE FALSE
  <2>0. k \in Nat /\ m \in Nat /\ \A l \in T : l \in Nat /\ (l > k => l > m)
    BY <1>3
  <2>1. Above(k) \in SUBSET Above(m) /\ k \in Above(m) /\ k \notin Above(k)
    <3>1. k \in Above(m) /\ k \notin Above(k)
      BY <1>3, <2>0
    <3>2. \A l \in Above(k) : l \in Above(m)
      BY <2>0, Zenon
    <3> HIDE DEF Above
    <3> QED
      BY <3>1, <3>2, Zenon
  <2> HIDE DEF Above
  <2>2. Above(k) # Above(m)
    BY <2>1, Zenon
  <2>3. Cardinality(Above(k)) <= Cardinality(Above(m))
        /\ Cardinality(Above(k)) # Cardinality(Above(m))
    BY <1>1, <2>1, <2>2, FS_Subset, Zenon
  <2> QED
    BY <1>1, <1>2, <2>3
<1> QED
  BY <1>3

\* No more instances of a tenant than the cap pass applyTenantCap.
LEMMA CapKept ==
  ASSUME NEW S \in SUBSET Instance, NEW i \in Instance, maxInstancesPerTenant > 0
  PROVE  Cardinality({j \in applyTenantCap(S) : TenantOf[j] = TenantOf[i]})
           <= maxInstancesPerTenant
<1> DEFINE T == {j \in applyTenantCap(S) : TenantOf[j] = TenantOf[i]}
           Below(m) == {j \in S : TenantOf[j] = TenantOf[m] /\ j < m}
<1>1. IsFiniteSet(S)
  BY FS_Subset, SchedulerAssumption, Zenon
<1>2. T \in SUBSET S /\ \A m \in T : Cardinality(Below(m)) < maxInstancesPerTenant
  BY SchedulerAssumption DEF applyTenantCap
<1>3. IsFiniteSet(T) /\ T \in SUBSET Nat
  <2> HIDE DEF T, Below
  <2> QED
    BY <1>1, <1>2, FS_Subset, SchedulerAssumption, Zenon
<1>4. CASE T = {}
  BY <1>4, FS_EmptySet, SchedulerAssumption
<1>5. CASE T # {}
  <2>1. PICK m \in T : \A k \in T : k <= m
    <3> HIDE DEF T
    <3> QED
      BY <1>3, <1>5, NatMax, Zenon
  <2>2. T \ {m} \in SUBSET Below(m)
    <3> SUFFICES ASSUME NEW k \in T, k # m PROVE k \in Below(m)
      OBVIOUS
    <3>1. k \in Nat /\ m \in Nat /\ k \in S
      BY <1>2, <1>3, Zenon
    <3>2. k < m
      BY <2>1, <3>1
    <3> QED
      BY <3>1, <3>2, Zenon
  <2>3. Below(m) \in SUBSET S
    OBVIOUS
  <2> HIDE DEF T, Below
  <2>4. IsFiniteSet(Below(m)) /\ Cardinality(Below(m)) \in Nat
    BY <1>1, <2>3, FS_Subset, FS_CardinalityType, Zenon
  <2>5. Cardinality(T \ {m}) <= Cardinality(Below(m))
    BY <2>2, <2>4, FS_Subset, Zenon
  <2>6. Cardinality(T \ {m}) = Cardinality(T) - 1 /\ Cardinality(T) \in Nat
    BY <1>3, FS_RemoveElement, FS_CardinalityType, Zenon
  <2>7. Cardinality(T) <= maxInstancesPerTenant
    BY <1>2, <2>4, <2>5, <2>6, SchedulerAssumption
  <2> QED
    BY <2>7, Zenon DEF T
<1> QED
  BY <1>4, <1>5, Zenon

\* The instances that reconcile wants are within the cap, too.
CapOnDesired ==
    maxInstancesPerTenant > 0 =>
        \A i \in Instance :
            Cardinality({j \in desired : TenantOf[j] = TenantOf[i]}) <= maxInstancesPerTenant

CapInv == CapOnDesired /\ CapOnWorkers

\* Workers that are all wanted are within the cap.
LEMMA WantedWithinCap ==
  ASSUME desired' \in SUBSET Instance, CapOnDesired',
         \A j \in Instance : workers'[j] # None => j \in desired'
  PROVE  CapOnWorkers'
<1> SUFFICES ASSUME maxInstancesPerTenant > 0, NEW i \in Instance
             PROVE  Cardinality({j \in Instance : TenantOf[j] = TenantOf[i] /\ workers'[j] # None})
                      <= maxInstancesPerTenant
  BY Zenon DEF CapOnWorkers
<1> DEFINE W == {j \in Instance : TenantOf[j] = TenantOf[i] /\ workers'[j] # None}
           D == {j \in desired' : TenantOf[j] = TenantOf[i]}
<1>1. W \in SUBSET D /\ D \in SUBSET Instance
  OBVIOUS
<1>2. Cardinality(D) <= maxInstancesPerTenant
  BY Zenon DEF CapOnDesired
<1> HIDE DEF W, D
<1>3. IsFiniteSet(D) /\ IsFiniteSet(W) /\ Cardinality(W) <= Cardinality(D)
  BY <1>1, FS_Subset, SchedulerAssumption, Zenon
<1>4. Cardinality(W) <= maxInstancesPerTenant
  BY <1>2, <1>3, FS_CardinalityType, SchedulerAssumption
<1> QED
  BY <1>4, Zenon DEF W

LEMMA NextCapInv == IInv /\ CapInv /\ [Next]_vars => CapInv'
<1> SUFFICES ASSUME IInv, CapInv, [Next]_vars PROVE CapInv'
  OBVIOUS
<1>1. ASSUME UNCHANGED <<desired, workers>> PROVE CapInv'
  BY <1>1, Zenon DEF CapInv, CapOnDesired, CapOnWorkers
<1>2. CASE List
  <2>1. desired' = applyTenantCap(active) /\ active \in SUBSET Instance /\ workers' = workers
    BY <1>2, Zenon DEF List, IInv, TypeOK, maps
  <2>2. CapOnDesired'
    BY <2>1, CapKept, Zenon DEF CapOnDesired
  <2> QED
    BY <2>1, <2>2, Zenon DEF CapInv, CapOnWorkers
<1>3. CASE Reconcile
  <2>1. desired' = desired /\ desired \in SUBSET Instance
    BY <1>3, Zenon DEF Reconcile, IInv, TypeOK
  <2>2. CapOnDesired'
    BY <2>1, Zenon DEF CapInv, CapOnDesired
  <2>3. \A j \in Instance : workers'[j] # None => j \in desired'
    BY <1>3, <2>1, Zenon DEF Reconcile, Align, Spawned, Dropped
  <2> QED
    BY <2>1, <2>2, <2>3, WantedWithinCap, Zenon DEF CapInv
<1>4. CASE stopAll
  <2>1. desired' = desired /\ desired \in SUBSET Instance
    BY <1>4, Zenon DEF stopAll, IInv, TypeOK
  <2>2. CapOnDesired'
    BY <2>1, Zenon DEF CapInv, CapOnDesired
  <2>3. \A j \in Instance : workers'[j] = None
    BY <1>4, Zenon DEF stopAll
  <2> QED
    BY <2>1, <2>2, <2>3, WantedWithinCap, Zenon DEF CapInv
<1>5. CASE ListFails \/ Return \/ Shutdown \/ UNCHANGED vars
  BY <1>1, <1>5, Zenon DEF ListFails, Return, Shutdown, vars, maps
<1>6. ASSUME NEW i \in Instance, SetStatus(i) \/ trigger(i) PROVE CapInv'
  BY <1>1, <1>6, Zenon DEF SetStatus, trigger, maps
<1>7. ASSUME NEW w \in Worker, runWorker(w) PROVE CapInv'
  BY <1>1, <1>7, Zenon DEF runWorker, Exit, Timer, Woken, Acquire, SyncDone, Leave, maps
<1> QED
  BY <1>2, <1>3, <1>4, <1>5, <1>6, <1>7, Zenon DEF Next, Run

\* The workers the scheduler keeps never exceed a tenant's cap, whatever is
\* paused, resumed or removed between a listing and its application
\* (applyTenantCap, reconcile).
THEOREM WorkersCapped == Spec => []CapOnWorkers
<1>1. Init => CapInv
  <2> SUFFICES ASSUME Init PROVE CapInv
    OBVIOUS
  <2>1. desired = {} /\ \A j \in Instance : workers[j] = None
    BY Zenon DEF Init
  <2>2. \A i : {j \in desired : TenantOf[j] = TenantOf[i]} = {}
    BY <2>1, Zenon
  <2>3. \A i : {j \in Instance : TenantOf[j] = TenantOf[i] /\ workers[j] # None} = {}
    BY <2>1, Zenon
  <2> QED
    BY <2>2, <2>3, FS_EmptySet, SchedulerAssumption DEF CapInv, CapOnDesired, CapOnWorkers
<1>2. CapInv => CapOnWorkers
  BY Zenon DEF CapInv
<1> QED
  BY <1>1, <1>2, NextCapInv, Invariance, PTL DEF Spec
=============================================================================
