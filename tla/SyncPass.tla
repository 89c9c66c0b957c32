------------------------------ MODULE SyncPass ------------------------------
(***************************************************************************)
(* One sync pass of a connector instance, as the hub sees it               *)
(* (hub/scheduler.go, syncOnce): the sync state kept by the control plane, *)
(* the choice between FullSync and IncrementalSync, checkpoints, expired   *)
(* cursors and failures.  The module of a connector extends this one and   *)
(* supplies what the connector does between these steps.                   *)
(*                                                                         *)
(* Passes of one instance never overlap (Scheduler!OnePassPerInstance), so *)
(* one pass at a time is all there is.  A hub that is stopped or killed in *)
(* a pass is a pass that fails and leaves no trace.                        *)
(***************************************************************************)
EXTENDS Integers

CONSTANTS NoCursor,    \* the empty cursor
          MaxFaults    \* bound: failed calls and interrupted passes

VARIABLES stored,      \* SyncState: cursor and phase
          pass,        \* "idle", or what the connector runs: "full", "incremental"
          runCursor,   \* syncRun.cursor
          faults

hub == <<stored, pass, runCursor, faults>>

Phase == {"NONE", "FULL_SYNC", "INCREMENTAL", "FAILED"}

HubInit ==
    /\ stored = [cursor |-> NoCursor, phase |-> "NONE"]
    /\ pass = "idle" /\ runCursor = NoCursor /\ faults = 0

Fault == faults < MaxFaults /\ faults' = faults + 1

\* The state that writeState stores for this run.
State(c, p) == [cursor |-> c, phase |-> p]

-----------------------------------------------------------------------------
full == stored.cursor = NoCursor /\ stored.phase # "INCREMENTAL"
startPhase == IF full THEN "FULL_SYNC" ELSE "INCREMENTAL"

\* The pass is marked started before any source traffic.
Begin ==
    /\ pass = "idle"
    /\ pass' = IF full THEN "full" ELSE "incremental"
    /\ runCursor' = stored.cursor
    /\ stored' = State(stored.cursor, startPhase)
    /\ UNCHANGED faults

\* The sync state cannot be read or written, or buildConfig fails.
BeginFails ==
    /\ pass = "idle" /\ Fault
    /\ \E p \in {stored.phase, startPhase, "FAILED"} : stored' = State(stored.cursor, p)
    /\ UNCHANGED <<pass, runCursor>>

Checkpoint(c) ==
    /\ runCursor' = c
    /\ stored' = State(c, "FULL_SYNC")
    /\ UNCHANGED <<pass, faults>>

\* The run's cursor is set before the write: recordFailure may still store it.
CheckpointFails(c) ==
    /\ Fault
    /\ stored' \in {stored, State(c, "FULL_SYNC"), State(c, "FAILED")}
    /\ runCursor' = NoCursor /\ pass' = "idle"

\* Mutant: an expired cursor ends the pass like any other error.
ExpiredKept ==
    /\ pass = "incremental"
    /\ stored' = State(runCursor, "FAILED")
    /\ runCursor' = NoCursor /\ pass' = "idle"
    /\ UNCHANGED faults

\* The source no longer replays the cursor: FullSync at once, in this pass.
Expired ==
    /\ pass = "incremental"
    /\ runCursor' = NoCursor
    /\ stored' = State(NoCursor, "FULL_SYNC")
    /\ pass' = "full"
    /\ UNCHANGED faults

\* The connector returns an error.
Failed ==
    /\ pass # "idle"
    /\ stored' \in {stored, State(runCursor, "FAILED")}
    /\ runCursor' = NoCursor /\ pass' = "idle"

\* A call to the source fails, or the hub stops.
Abort == Failed /\ Fault

Complete(c) ==
    /\ stored' = State(c, "INCREMENTAL")
    /\ runCursor' = NoCursor /\ pass' = "idle"
    /\ UNCHANGED faults
=============================================================================
