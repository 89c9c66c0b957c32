------------------------------- MODULE Plugin -------------------------------
(* A connector out of process (connectors/sdk/plugin): the hub's Client is   *)
(* an sdk.Connector whose calls are RPCs, the plugin's server runs the real  *)
(* connector and streams what it emits.  One call and the server's shutdown: *)
(* the connector runs ahead of the hub by what the transport buffers, either *)
(* end may fail, and ListenAndServe ends by GracefulStop, which waits for    *)
(* the call.                                                                 *)
(*                                                                           *)
(* Documents are numbered as the connector emits them; a cursor, in a        *)
(* checkpoint or at the end, is the number of documents it stands behind.    *)
EXTENDS Integers, Sequences

CONSTANTS MaxDocs,  \* bound: documents of a pass
          Window    \* events the transport buffers (flow control)

VARIABLES rpc,       \* "sync" (full or incremental), "webhook" or "validate"
          tenant,    \* is the tenant of the request's config valid?
          conn,      \* the connector: "new", "run", "finish", "over"
          outcome,   \* what it returned
          made,      \* documents it has emitted
          sending,   \* {event} while the connector is in a Send, else {}
          wire,      \* events in the stream
          status,    \* the status the server ended the call with, "none" before
          canceled,  \* the stream's context
          client,    \* the Client's call: "new", "drain", "returned"
          result,    \* what the Client returned
          emitted,   \* documents the hub's Emit accepted
          saved,     \* the last cursor the hub holds
          faulted,   \* history: a callback, the transport or the hub gave up
          ctx, lis, stopper, serve   \* serveOn

vars == <<rpc, tenant, conn, outcome, made, sending, wire, status, canceled, client, result,
          emitted, saved, faulted, ctx, lis, stopper, serve>>
request == <<rpc, tenant>>
shutdown == <<ctx, lis, stopper, serve>>
hub == <<client, result, emitted, saved, faulted>>

Running == conn \in {"run", "finish"}

TypeOK == /\ conn \in {"new", "run", "finish", "over"} /\ made \in 0..MaxDocs
          /\ Len(wire) <= Window /\ saved \in 0..MaxDocs /\ emitted \subseteq 1..MaxDocs
          /\ client \in {"new", "drain", "returned"}
          /\ result \in {"none", "ok", "expired", "unsupported", "error"}

Init == /\ rpc \in {"sync", "webhook", "validate"} /\ tenant \in BOOLEAN
        /\ conn = "new" /\ outcome = "none" /\ made = 0 /\ sending = {} /\ wire = <<>> /\ status = "none"
        /\ canceled = FALSE /\ client = "new" /\ result = "none" /\ emitted = {} /\ saved = 0
        /\ faulted = FALSE
        /\ ctx = "live" /\ lis = "ok" /\ stopper = "waiting" /\ serve = "serving"

-----------------------------------------------------------------------------
(* The server.                                                               *)

\* newSyncSession: the request arrives; configFromProto fails closed on the
\* tenant, a server that is stopping takes no calls.
newSyncSession ==
    /\ client = "new" /\ client' = "drain"
    /\ IF stopper # "waiting" THEN status' = "Unavailable" /\ UNCHANGED conn
       ELSE IF ~tenant THEN status' = "InvalidArgument" /\ UNCHANGED conn
       ELSE conn' = "run" /\ UNCHANGED status
    /\ UNCHANGED <<request, outcome, made, sending, wire, canceled, result, emitted, saved, faulted, shutdown>>

\* stream.Send blocks while the buffer is full, and fails once the stream is
\* canceled.
Send(event) == Len(wire) < Window /\ ~canceled /\ wire' = Append(wire, event)

\* The connector calls Emit with its next document, or Checkpoint ...
Emit == /\ conn = "run" /\ rpc # "validate" /\ sending = {}
        /\ \/ /\ made < MaxDocs /\ made' = made + 1
              /\ sending' = {[kind |-> "document", n |-> made']}
           \/ sending' = {[kind |-> "checkpoint", n |-> made]} /\ UNCHANGED made
        /\ UNCHANGED <<request, conn, outcome, wire, status, canceled, hub, shutdown>>

\* ... and the call returns, or fails and ends the pass.
Sent == /\ conn = "run" /\ sending # {} /\ sending' = {}
        /\ \/ (\E e \in sending : Send(e)) /\ UNCHANGED <<conn, outcome>>
           \/ canceled /\ conn' = "finish" /\ outcome' = "aborted" /\ UNCHANGED wire
        /\ UNCHANGED <<request, made, status, canceled, hub, shutdown>>

\* The connector returns of its own accord.
Outcomes == CASE rpc = "sync"     -> {"ok", "expired", "other"}
              [] rpc = "webhook"  -> {"ok", "expired", "other", "unsupported"}
              [] rpc = "validate" -> {"ok", "other"}

Return == /\ conn = "run" /\ sending = {} /\ conn' = "finish" /\ outcome' \in Outcomes
          /\ UNCHANGED <<request, made, sending, wire, status, canceled, hub, shutdown>>

\* The status for what the connector returned; a canceled stream comes first.
mapSyncError(o) ==
    CASE o = "unsupported" -> "Unimplemented"
      [] o # "unsupported" /\ canceled -> "Canceled"
      [] o = "expired" /\ ~canceled -> "FailedPrecondition"
      [] OTHER -> IF rpc = "validate" THEN "InvalidArgument" ELSE "Internal"

\* finishSync: an error is the status; a success is a Done event, whose Send
\* may block or fail like any other (Validate's answer is the response).
finishSync ==
    /\ conn = "finish" /\ conn' = "over"
    /\ \/ outcome # "ok" /\ status' = mapSyncError(outcome) /\ UNCHANGED wire
       \/ outcome = "ok" /\ Send([kind |-> "done", n |-> made]) /\ status' = "OK"
       \/ outcome = "ok" /\ canceled /\ status' = "Canceled" /\ UNCHANGED wire
    /\ UNCHANGED <<request, outcome, made, sending, canceled, hub, shutdown>>

-----------------------------------------------------------------------------
(* The client.                                                               *)

\* The call returns; its deferred cancel tears the stream down.
Returns(r) == /\ client' = "returned" /\ result' = r /\ wire' = <<>> /\ canceled' = TRUE

\* syncError and webhookError: the sentinels come back, the rest is an error.
syncError(s) == CASE s = "FailedPrecondition" -> "expired"
                  [] s = "Unimplemented" /\ rpc = "webhook" -> "unsupported"
                  [] OTHER -> "error"

\* The cursor the hub holds after an event: a webhook has none to store, its
\* Checkpoint does nothing and its Done is empty.
Held(n) == IF rpc = "webhook" THEN saved ELSE n

\* Mutant: the failure of a callback is logged, and the drain goes on.
drainSyncGoesOn ==
    /\ client = "drain" /\ wire # <<>> /\ wire' = Tail(wire)
    /\ LET e == Head(wire) IN
         \/ e.kind = "document" /\ emitted' = emitted \cup {e.n} /\ UNCHANGED <<client, result, canceled, saved, faulted>>
         \/ e.kind = "checkpoint" /\ saved' = Held(e.n) /\ UNCHANGED <<client, result, canceled, emitted, faulted>>
         \/ e.kind # "done" /\ faulted' = TRUE /\ UNCHANGED <<client, result, canceled, emitted, saved>>
         \/ /\ e.kind = "done" /\ saved' = Held(e.n) /\ client' = "returned" /\ result' = "ok"
            /\ canceled' = TRUE /\ UNCHANGED <<emitted, faulted>>
    /\ UNCHANGED <<request, conn, outcome, made, sending, status, shutdown>>

\* The next event: a document goes to the hub's Emit and a checkpoint to its
\* Checkpoint, whose error ends the call; Done carries the final cursor.  Left out are the end
\* of a stream without Done and an event of no known kind: this server sends
\* neither.
drainSync ==
    /\ client = "drain" /\ wire # <<>>
    /\ LET e == Head(wire) IN
         \/ /\ e.kind = "document" /\ emitted' = emitted \cup {e.n} /\ wire' = Tail(wire)
            /\ UNCHANGED <<client, result, canceled, saved, faulted>>
         \/ /\ e.kind = "checkpoint" /\ saved' = Held(e.n) /\ wire' = Tail(wire)
            /\ UNCHANGED <<client, result, canceled, emitted, faulted>>
         \/ /\ e.kind # "done" /\ Returns("error") /\ faulted' = TRUE
            /\ UNCHANGED <<emitted, saved>>
         \/ e.kind = "done" /\ Returns("ok") /\ saved' = Held(e.n) /\ UNCHANGED <<emitted, faulted>>
    /\ UNCHANGED <<request, conn, outcome, made, sending, status, shutdown>>

\* The stream is drained and the server's status arrives.
EndOfStream ==
    /\ client = "drain" /\ wire = <<>> /\ status \notin {"none", "OK"}
    /\ Returns(syncError(status))
    /\ UNCHANGED <<request, conn, outcome, made, sending, status, emitted, saved, faulted, shutdown>>

\* The transport breaks, or the hub cancels its own context.
Broken ==
    /\ client = "drain" /\ Returns("error") /\ faulted' = TRUE
    /\ UNCHANGED <<request, conn, outcome, made, sending, status, emitted, saved, shutdown>>

-----------------------------------------------------------------------------
(* serveOn.                                                                  *)

call == <<request, conn, outcome, made, sending, wire, status, canceled, hub>>

CancelCtx == ctx' = "canceled" /\ UNCHANGED <<lis, stopper, serve, call>>

\* Accept fails: gs.Serve returns, the calls in progress go on.
ListenerFails == /\ serve = "serving" /\ lis = "ok" /\ lis' = "failed" /\ serve' = "ended"
                 /\ UNCHANGED <<ctx, stopper, call>>

\* stopCtx is done: the caller canceled, or Serve returned and `cancel()' ran.
StopRequested == ctx = "canceled" \/ serve = "ended"

\* GracefulStop: no new calls, and wait for those in progress.
GracefulStop ==
    /\ \/ stopper = "waiting" /\ StopRequested /\ stopper' = "stopping" /\ serve' = "ended"
       \/ stopper = "stopping" /\ ~Running /\ stopper' = "done" /\ UNCHANGED serve
    /\ UNCHANGED <<ctx, lis, call>>

serveOn == /\ serve = "ended" /\ stopper = "done" /\ serve' = "returned"
           /\ UNCHANGED <<ctx, lis, stopper, call>>

Connector == Emit \/ Sent \/ Return
Next == \/ newSyncSession \/ Connector \/ finishSync \/ drainSync \/ EndOfStream \/ Broken
        \/ CancelCtx \/ ListenerFails \/ GracefulStop \/ serveOn

\* A connector's pass is finite: it returns when nothing it sends keeps it.
\* The hub's callbacks answer, and the goroutines of serveOn run.
Fairness == /\ WF_vars(Sent) /\ SF_vars(Return) /\ WF_vars(finishSync)
            /\ WF_vars(drainSync) /\ WF_vars(EndOfStream)
            /\ WF_vars(GracefulStop) /\ WF_vars(serveOn)

Spec == Init /\ [][Next]_vars /\ Fairness

-----------------------------------------------------------------------------
(* Properties.                                                               *)

\* "an Emit/Checkpoint error is terminal", across the transport too: a cursor
\* the hub holds never stands behind a document its Emit did not accept,
\* however far the connector has run ahead.
ResumeSafe == 1..saved \subseteq emitted

\* "the hub treats an out-of-process plugin exactly like a built-in connector":
\* the Client returns what the connector returned, with its sentinels, unless
\* the call was refused or given up; and it never reports a success the
\* connector did not, or one with a document missing or another cursor.
SameOutcome ==
    client = "returned" =>
        /\ result = "ok" => outcome = "ok" /\ emitted = 1..made /\ (rpc # "webhook" => saved = made)
        /\ (conn = "over" /\ ~faulted) => result = IF outcome \in {"ok", "expired", "unsupported"} THEN outcome ELSE "error"

\* ListenAndServe returns only when no pass is running any more.
NothingLeftRunning == serve = "returned" => ~Running

\* A call that ends at the hub ends at the plugin: the connector is not left
\* blocked in a Send that nobody reads.
EndsAtBoth == client = "returned" => ~Running

\* serveOn returns after the caller cancels and after a failing listener, where
\* "the <-done wait would deadlock" without the cancel.
Stops == (ctx = "canceled" \/ lis = "failed") => serve = "returned"
=============================================================================
