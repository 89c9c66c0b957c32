----------------------------- MODULE Lifecycle -----------------------------
(* How the services start and stop.  run opens what the service needs, one   *)
(* thing after the other, with a deferred close for each; starts its servers *)
(* and loops as goroutines; waits for the first of them to end or for a      *)
(* signal; takes them down in an order of its own; and returns, which runs   *)
(* the deferred closes backwards.  Processes that start at the same time     *)
(* share the database schema, the KEK file, the topics and the bucket.       *)
(*                                                                           *)
(* A server has at most one request in flight, a consumer one record and the *)
(* scheduler one pass; what is in flight uses all that its process has       *)
(* opened.  A probe of the health server is over in readyzProbeTimeout, which *)
(* is less than any deadline here, and is left out.                          *)
EXTENDS Integers, Sequences, FiniteSets

CONSTANTS Proc,
          Sites,            \* what is deployed, see site and shared
          Latest,           \* the newest migration of this build
          migrateAttempts,
          MaxFaults         \* bound: failing calls and kills

VARIABLES site,       \* [service: of each process or "none", env, starts: the bound on the starts
                      \* of a process, serves: is what follows the start explored]
          main,       \* where the main goroutine is, and what it will return
          open,       \* what is open
          gor,        \* its goroutines: "none", "new", "up", "down"
          closed,     \* how each was asked to stop: "no", "graceful", "hard"
          busy,       \* those with something in flight
          errCh,      \* results sent and not received: <<goroutine, "nil" or "err">>
          signalled,  \* the context is cancelled
          expired,    \* the deadline of the shutdown has passed
          ready,      \* ingest: the flag of /readyz
          shared,     \* [version, dirty, owner, kek, bucket]
          applied,    \* history: how often each migration was applied
          faults, starts

process == <<main, open, gor, closed, busy, errCh, signalled, expired, ready>>
vars == <<site, process, shared, applied, faults, starts>>

Goroutine == {"http", "grpc", "health", "consumer", "scheduler"}
\* What is closed by a deferred call.
Deferred == {"telemetry", "deps", "cache", "profiles", "pool",
             "purgers", "producer", "seen", "consumer", "cpConn", "schedConn", "fake"}

-----------------------------------------------------------------------------
(* What each service opens and runs, and what it does when a goroutine has   *)
(* ended (failed) and on a signal (stopped).                                 *)

telemetryInit == <<"telemetry">>
EnsureTopics == <<"topics">>
newDeps == <<"deps">>   \* two connections and Redis, closed together
buildPurgers == <<"bucket", "purgers">>
buildDeps == <<"kek", "bucket">>

gatewayRun ==
    [open |-> telemetryInit \o newDeps, serve |-> {"http"},
     failed |-> [g \in {"http"} |-> <<>>],
     stopped |-> << <<"mustShutdown", "http">>, <<"receive", "any">> >>]

queryRun ==
    [open |-> telemetryInit \o <<"cache", "profiles", "listener">>, serve |-> {"grpc", "health"},
     failed |-> [g \in {"grpc", "health"} |->
                   << <<"close", "grpc">>, <<"close", "health">>, <<"discard", "any">> >>],
     stopped |-> << <<"shutdown", "health">>, <<"gracefulStop", "grpc">>, <<"receive", "any">>,
                    <<"receive", "any">> >>]

controlPlaneRun ==
    [open |-> telemetryInit \o <<"schema", "pool", "kek">> \o buildPurgers \o <<"listener">>,
     serve |-> {"grpc", "health"},
     failed |-> [g \in {"grpc", "health"} |->
                   << <<"close", "grpc">>, <<"close", "health">>, <<"discard", "any">> >>],
     stopped |-> << <<"shutdown", "health">>, <<"gracefulStop", "grpc">>, <<"receive", "any">>,
                    <<"receive", "any">> >>]

ingestRun ==
    [open |-> telemetryInit \o EnsureTopics \o <<"producer", "seen", "consumer">>,
     serve |-> {"health", "consumer"},
     failed |-> [g \in {"health", "consumer"} |->
                   << <<"unready", "health">>, <<"close", "consumer">>, <<"close", "health">>,
                      <<"discard", "any">> >>],
     stopped |-> << <<"unready", "health">>, <<"shutdown", "health">>, <<"receive", "any">>,
                    <<"receive", "any">> >>]

\* A result of its own channel for each goroutine.
indexWriterRun ==
    [open |-> telemetryInit \o EnsureTopics \o <<"writer", "consumer", "listener">>,
     serve |-> {"health", "consumer"},
     failed |-> [health |-> <<>>,
                 consumer |-> << <<"mustShutdown", "health">>, <<"receive", "health">> >>],
     stopped |-> << <<"discard", "consumer">>, <<"close", "consumer">>,
                    <<"mustShutdown", "health">>, <<"receive", "health">> >>]

hubRun ==
    [open |-> buildDeps \o telemetryInit \o EnsureTopics \o <<"producer", "cpConn", "schedConn">>,
     serve |-> {"http", "health", "scheduler"},
     failed |-> [g \in {"http", "health"} |->
                   << <<"close", "http">>, <<"close", "health">>, <<"discard", "any">>,
                      <<"cancel", "scheduler">>, <<"wait", "scheduler">> >>],
     stopped |-> << <<"shutdown", "http">>, <<"shutdown", "health">>, <<"drain", "scheduler">>,
                    <<"receive", "any">>, <<"receive", "any">> >>]

fakeGmailRun ==
    [open |-> <<"fake", "listener">>, serve |-> {"http"}, failed |-> [g \in {"http"} |-> <<>>],
     stopped |-> << <<"mustShutdown", "http">>, <<"receive", "any">> >>]

fakeOAuthRun ==
    [open |-> <<"listener">>, serve |-> {"http"}, failed |-> [g \in {"http"} |-> <<>>],
     stopped |-> << <<"mustShutdown", "http">>, <<"receive", "any">> >>]

Program(p) ==
    CASE site.service[p] = "gateway"      -> gatewayRun
      [] site.service[p] = "query"        -> queryRun
      [] site.service[p] = "controlPlane" -> controlPlaneRun
      [] site.service[p] = "ingest"       -> ingestRun
      [] site.service[p] = "indexWriter"  -> indexWriterRun
      [] site.service[p] = "hub"          -> hubRun
      [] site.service[p] = "fakeGmail"    -> fakeGmailRun
      [] site.service[p] = "fakeOAuth"    -> fakeOAuthRun

-----------------------------------------------------------------------------
Down == [at |-> "down", i |-> 0, sub |-> "none", tries |-> 0, key |-> 0, branch |-> "none",
         steps |-> <<>>, result |-> "nil", bad |-> {}]
Idle == [g \in Goroutine |-> "none"]
Unasked == [g \in Goroutine |-> "no"]

TypeOK ==
    /\ \A p \in Proc : /\ main[p].at \in {"down", "start", "select", "teardown", "unwind", "exit"}
                       /\ main[p].result \in {"nil", "err", "killed"}
                       /\ Len(errCh[p]) <= 2 /\ busy[p] \subseteq Goroutine
                       /\ site.service[p] = "none" => main[p] = Down
    /\ shared.version \in 0..Latest /\ faults \in 0..MaxFaults

Init ==
    /\ \E s \in Sites :
          /\ site = [service |-> s.service, env |-> s.env, serves |-> s.serves, starts |-> s.starts]
          /\ shared = [version |-> s.version, dirty |-> FALSE, owner |-> 0, kek |-> 0, bucket |-> s.bucket]
    /\ main = [p \in Proc |-> Down] /\ open = [p \in Proc |-> {}]
    /\ gor = [p \in Proc |-> Idle] /\ closed = [p \in Proc |-> Unasked]
    /\ busy = [p \in Proc |-> {}] /\ errCh = [p \in Proc |-> <<>>]
    /\ signalled = [p \in Proc |-> FALSE] /\ expired = [p \in Proc |-> FALSE]
    /\ ready = [p \in Proc |-> FALSE]
    /\ applied = [v \in 1..Latest |-> IF v <= shared.version THEN 1 ELSE 0]
    /\ faults = 0 /\ starts = [p \in Proc |-> 0]

Fault == faults < MaxFaults /\ faults' = faults + 1

\* main changes as given, and of the process nothing else.
Go(p, m) ==
    /\ main' = [main EXCEPT ![p] = m]
    /\ UNCHANGED <<open, gor, closed, busy, errCh, signalled, expired, ready>>

Return(p, result) == [main[p] EXCEPT !.at = "unwind", !.sub = "none", !.result = result]

-----------------------------------------------------------------------------
(* Starting *)

Launch(p) ==
    /\ main[p].at \in {"down", "exit"} /\ site.service[p] # "none"
    /\ starts[p] < site.starts /\ starts' = [starts EXCEPT ![p] = @ + 1]
    /\ main' = [main EXCEPT ![p] = [Down EXCEPT !.at = "start", !.i = 1]]
    /\ open' = [open EXCEPT ![p] = {}] /\ errCh' = [errCh EXCEPT ![p] = <<>>]
    /\ signalled' = [signalled EXCEPT ![p] = FALSE] /\ expired' = [expired EXCEPT ![p] = FALSE]
    /\ UNCHANGED <<site, gor, closed, busy, ready, shared, applied, faults>>

Opening(p, r) ==
    /\ main[p].at = "start" /\ main[p].i <= Len(Program(p).open)
    /\ Program(p).open[main[p].i] = r

\* The next thing is open; key is the KEK that the process has.
Opened(p, r, key) ==
    /\ open' = [open EXCEPT ![p] = @ \cup {r}]
    /\ main' = [main EXCEPT ![p] = [main[p] EXCEPT !.i = main[p].i + 1, !.sub = "none", !.key = key]]
    /\ UNCHANGED <<gor, closed, busy, errCh, signalled, expired, ready>>

\* Clients dial lazily, topics that exist are left alone.
Open(p) ==
    /\ \E r \in (Deferred \cup {"topics", "listener", "writer"}) \ {"schema", "kek", "bucket"} :
          Opening(p, r) /\ Opened(p, r, main[p].key)
    /\ UNCHANGED <<site, shared, applied, faults, starts>>

OpenFails(p) ==
    /\ main[p].at = "start" /\ main[p].i <= Len(Program(p).open) /\ ~Opening(p, "schema")
    /\ Fault /\ Go(p, Return(p, "err"))
    /\ UNCHANGED <<site, shared, applied, starts>>

ensureBucket(p) ==
    /\ Opening(p, "bucket")
    /\ \/ /\ main[p].sub = "none" /\ UNCHANGED shared
          /\ IF shared.bucket THEN Opened(p, "bucket", main[p].key)
                              ELSE Go(p, [main[p] EXCEPT !.sub = "make"])
       \/ /\ main[p].sub = "make" /\ shared' = [shared EXCEPT !.bucket = TRUE]
          /\ Opened(p, "bucket", main[p].key)
    /\ UNCHANGED <<site, applied, faults, starts>>

\* Mutant: without Vault there is always the file.
SelectKEKAnywhere(p) ==
    /\ Opening(p, "kek") /\ main[p].sub = "none"
    /\ IF site.env = "vault" THEN Opened(p, "kek", -1) ELSE Go(p, [main[p] EXCEPT !.sub = "read"])
    /\ UNCHANGED <<site, shared, applied, faults, starts>>

\* Vault, or in development the file; a production without Vault does not start.
SelectKEK(p) ==
    /\ Opening(p, "kek") /\ main[p].sub = "none"
    /\ CASE site.env = "vault" -> Opened(p, "kek", -1)
         [] site.env = "prod" -> Go(p, Return(p, "err"))
         [] site.env = "dev" -> Go(p, [main[p] EXCEPT !.sub = "read"])
    /\ UNCHANGED <<site, shared, applied, faults, starts>>

\* A key that no other process generates.
freshKey(p) == starts[p] + (IF p = 1 THEN 0 ELSE site.starts)

\* The temporary file is linked into place, unless another process was faster:
\* then that one's key is read.
loadOrCreateKEKFile(p) ==
    /\ Opening(p, "kek")
    /\ \/ /\ main[p].sub = "read" /\ UNCHANGED shared
          /\ IF shared.kek # 0 THEN Opened(p, "kek", shared.kek)
                               ELSE Go(p, [main[p] EXCEPT !.sub = "link"])
       \/ /\ main[p].sub = "link" /\ shared.kek = 0
          /\ shared' = [shared EXCEPT !.kek = freshKey(p)]
          /\ Opened(p, "kek", freshKey(p))
       \/ /\ main[p].sub = "link" /\ shared.kek # 0
          /\ UNCHANGED shared /\ Opened(p, "kek", shared.kek)
    /\ UNCHANGED <<site, applied, faults, starts>>

\* An attempt has failed: another one after a pause, but not after the last.
AttemptFails(p) ==
    Go(p, IF main[p].tries + 1 < migrateAttempts
          THEN [main[p] EXCEPT !.sub = "backoff", !.tries = @ + 1]
          ELSE Return(p, "err"))

\* The loop of attempts, in which a cancelled context ends it.
runMigrations(p) ==
    /\ Opening(p, "schema")
    /\ \/ /\ main[p].sub \in {"none", "backoff"} /\ signalled[p] /\ Go(p, Return(p, "err"))
       \/ /\ main[p].sub = "backoff" /\ ~signalled[p] /\ Go(p, [main[p] EXCEPT !.sub = "none"])
       \/ /\ main[p].sub = "none" /\ ~signalled[p] /\ Go(p, [main[p] EXCEPT !.sub = "connect"])
    /\ UNCHANGED <<site, shared, applied, faults, starts>>

\* The database cannot be reached.
connectFails(p) ==
    /\ Opening(p, "schema") /\ main[p].sub = "connect" /\ Fault /\ AttemptFails(p)
    /\ UNCHANGED <<site, shared, applied, starts>>

\* Up (golang-migrate): under an advisory lock, each missing migration is marked
\* dirty, run, and marked clean.  A dirty schema is refused.
Up(p) ==
    /\ Opening(p, "schema")
    /\ \/ /\ main[p].sub = "connect" /\ shared.owner = 0
          /\ shared' = [shared EXCEPT !.owner = p] /\ Go(p, [main[p] EXCEPT !.sub = "up"])
          /\ UNCHANGED applied
       \/ /\ main[p].sub = "up" /\ shared.dirty
          /\ shared' = [shared EXCEPT !.owner = 0] /\ AttemptFails(p) /\ UNCHANGED applied
       \/ /\ main[p].sub = "up" /\ ~shared.dirty /\ shared.version = Latest
          /\ shared' = [shared EXCEPT !.owner = 0] /\ Opened(p, "schema", main[p].key)
          /\ UNCHANGED applied
       \/ /\ main[p].sub = "up" /\ ~shared.dirty /\ shared.version < Latest
          /\ shared' = [shared EXCEPT !.version = @ + 1, !.dirty = TRUE]
          /\ Go(p, [main[p] EXCEPT !.sub = "apply"]) /\ UNCHANGED applied
       \/ /\ main[p].sub = "apply"
          /\ shared' = [shared EXCEPT !.dirty = FALSE]
          /\ applied' = [applied EXCEPT ![shared.version] = @ + 1]
          /\ Go(p, [main[p] EXCEPT !.sub = "up"])
    /\ UNCHANGED <<site, faults, starts>>

UpFails(p) ==
    /\ Opening(p, "schema") /\ main[p].sub = "apply" /\ Fault
    /\ shared' = [shared EXCEPT !.owner = 0] /\ AttemptFails(p)
    /\ UNCHANGED <<site, applied, starts>>

\* The goroutines are started.
Started(p) ==
    /\ main[p].at = "start" /\ main[p].i = Len(Program(p).open) + 1
    /\ main' = [main EXCEPT ![p].at = "select"]
    /\ gor' = [gor EXCEPT ![p] = [g \in Goroutine |-> IF g \in Program(p).serve THEN "new" ELSE "none"]]
    /\ UNCHANGED <<site, open, closed, busy, errCh, signalled, expired, ready, shared, applied,
                   faults, starts>>

-----------------------------------------------------------------------------
(* The goroutines *)

Sends(p, g, r) ==
    errCh' = IF g = "scheduler" THEN errCh ELSE [errCh EXCEPT ![p] = Append(@, <<g, r>>)]

\* A server that was asked to stop before it served returns at once.
Serve(p, g) ==
    /\ gor[p][g] = "new" /\ (site.serves \/ main[p].at # "select")
    /\ IF closed[p][g] = "no" THEN gor' = [gor EXCEPT ![p][g] = "up"] /\ UNCHANGED errCh
                              ELSE gor' = [gor EXCEPT ![p][g] = "down"] /\ Sends(p, g, "nil")
    /\ ready' = IF site.service[p] = "ingest" /\ g = "consumer" THEN [ready EXCEPT ![p] = TRUE] ELSE ready
    /\ UNCHANGED <<site, main, open, closed, busy, signalled, expired, shared, applied, faults, starts>>

\* The port is taken, accepting fails, or a record can be neither handled nor
\* quarantined.
ServeFails(p, g) ==
    /\ gor[p][g] = "up" /\ closed[p][g] = "no" /\ g # "scheduler"
    /\ g = "consumer" => ~signalled[p]
    /\ Fault
    /\ gor' = [gor EXCEPT ![p][g] = "down"] /\ Sends(p, g, "err")
    /\ busy' = IF g = "consumer" THEN [busy EXCEPT ![p] = @ \ {g}] ELSE busy
    /\ main' = IF signalled[p] THEN main ELSE [main EXCEPT ![p].bad = @ \cup {g}]
    /\ UNCHANGED <<site, open, closed, signalled, expired, ready, shared, applied, starts>>

\* An HTTP server returns when its listener is closed, a gRPC server also waits
\* for its calls unless it is stopped hard; the loops finish what is in flight.
Ends(p, g) ==
    /\ gor[p][g] = "up"
    /\ CASE g \in {"http", "health"} -> closed[p][g] # "no"
         [] g = "grpc" -> closed[p][g] = "hard" \/ (closed[p][g] = "graceful" /\ g \notin busy[p])
         [] g \in {"consumer", "scheduler"} -> (signalled[p] \/ closed[p][g] # "no") /\ g \notin busy[p]
    /\ gor' = [gor EXCEPT ![p][g] = "down"] /\ Sends(p, g, "nil")
    /\ UNCHANGED <<site, main, open, closed, busy, signalled, expired, ready, shared, applied,
                   faults, starts>>

\* A request, a record or a pass.
Accept(p, g) ==
    /\ gor[p][g] = "up" /\ closed[p][g] = "no" /\ g \notin busy[p] /\ g # "health"
    /\ g \in {"consumer", "scheduler"} => ~signalled[p]
    /\ busy' = [busy EXCEPT ![p] = @ \cup {g}]
    /\ UNCHANGED <<site, main, open, gor, closed, errCh, signalled, expired, ready, shared, applied,
                   faults, starts>>

Finish(p, g) ==
    /\ g \in busy[p] /\ busy' = [busy EXCEPT ![p] = @ \ {g}]
    /\ UNCHANGED <<site, main, open, gor, closed, errCh, signalled, expired, ready, shared, applied,
                   faults, starts>>

\* What a probe is answered.  /readyz of ingest goes by its flag; that of the others
\* asks a service behind it, which answers.
healthz(p) ==
    LET g == IF "health" \in Program(p).serve THEN "health" ELSE "http"
    IN  gor[p][g] = "up" /\ closed[p][g] = "no"
readyz(p) == healthz(p) /\ (site.service[p] = "ingest" => ready[p])

-----------------------------------------------------------------------------
(* Stopping *)

Signal(p) ==
    /\ main[p].at \notin {"down", "exit"} /\ ~signalled[p]
    /\ site.serves \/ (Opening(p, "schema") /\ main[p].sub \in {"none", "backoff"})
    /\ signalled' = [signalled EXCEPT ![p] = TRUE]
    /\ UNCHANGED <<site, main, open, gor, closed, busy, errCh, expired, ready, shared, applied,
                   faults, starts>>

\* The positions of errCh that a receive may take: a channel is first in first out.
Receivable(p, of) ==
    {i \in DOMAIN errCh[p] : IF of = "any" THEN i = 1 ELSE errCh[p][i][1] = of}
Without(s, i) == SubSeq(s, 1, i - 1) \o SubSeq(s, i + 1, Len(s))

\* A result and the signal may both be there: select takes either.
Select(p) ==
    /\ main[p].at = "select"
    /\ \/ \E i \in IF site.service[p] = "indexWriter" THEN DOMAIN errCh[p] ELSE Receivable(p, "any") :
             /\ main' = [main EXCEPT ![p] = [@ EXCEPT !.at = "teardown", !.branch = "failed",
                             !.steps = Program(p).failed[errCh[p][i][1]], !.result = errCh[p][i][2]]]
             /\ errCh' = [errCh EXCEPT ![p] = Without(@, i)]
       \/ /\ signalled[p] /\ UNCHANGED errCh
          /\ main' = [main EXCEPT ![p] = [@ EXCEPT !.at = "teardown", !.branch = "stopped",
                                                   !.steps = Program(p).stopped]]
    /\ UNCHANGED <<site, open, gor, closed, busy, signalled, expired, ready, shared, applied,
                   faults, starts>>

Doing(p) == main[p].steps[1][1]
Of(p) == main[p].steps[1][2]
InStep(p, kinds) == main[p].at = "teardown" /\ main[p].steps # <<>> /\ Doing(p) \in kinds
Next1(p) == [main[p] EXCEPT !.steps = Tail(@), !.sub = "none"]

\* Shutdown and gracefulStop let in nothing new at once, and wait for what is in
\* flight or for the deadline.
Ask(p) ==
    /\ InStep(p, {"shutdown", "mustShutdown", "gracefulStop"}) /\ main[p].sub = "none"
    /\ closed' = [closed EXCEPT ![p][Of(p)] = "graceful"]
    /\ main' = [main EXCEPT ![p].sub = "asked"]
    /\ UNCHANGED <<site, open, gor, busy, errCh, signalled, expired, ready, shared, applied,
                   faults, starts>>

Shutdown(p) ==
    /\ InStep(p, {"shutdown", "mustShutdown"}) /\ main[p].sub = "asked"
    /\ \/ Of(p) \notin busy[p] /\ Go(p, Next1(p))
       \/ Of(p) \in busy[p] /\ expired[p] /\ Doing(p) = "shutdown" /\ Go(p, Next1(p))
       \/ Of(p) \in busy[p] /\ expired[p] /\ Doing(p) = "mustShutdown" /\ Go(p, Return(p, "err"))
    /\ UNCHANGED <<site, shared, applied, faults, starts>>

gracefulStop(p) ==
    /\ InStep(p, {"gracefulStop"}) /\ main[p].sub = "asked"
    /\ \/ Of(p) \notin busy[p] /\ UNCHANGED closed
       \/ Of(p) \in busy[p] /\ expired[p] /\ closed' = [closed EXCEPT ![p][Of(p)] = "hard"]
    /\ main' = [main EXCEPT ![p] = Next1(p)]
    /\ UNCHANGED <<site, open, gor, busy, errCh, signalled, expired, ready, shared, applied,
                   faults, starts>>

Close(p) ==
    /\ InStep(p, {"close"})
    /\ closed' = [closed EXCEPT ![p][Of(p)] = "hard"]
    /\ main' = [main EXCEPT ![p] = Next1(p)]
    /\ UNCHANGED <<site, open, gor, busy, errCh, signalled, expired, ready, shared, applied,
                   faults, starts>>

Receive(p) ==
    /\ InStep(p, {"receive", "discard"})
    /\ \E i \in Receivable(p, Of(p)) :
          /\ errCh' = [errCh EXCEPT ![p] = Without(@, i)]
          /\ main' = [main EXCEPT ![p] =
                        IF Doing(p) = "receive" /\ @.result = "nil"
                        THEN [Next1(p) EXCEPT !.result = errCh[p][i][2]] ELSE Next1(p)]
    /\ UNCHANGED <<site, open, gor, closed, busy, signalled, expired, ready, shared, applied,
                   faults, starts>>

\* stop(), ready.Store(false), and waiting for schedDone.
OtherStep(p) ==
    /\ \/ InStep(p, {"cancel"}) /\ signalled' = [signalled EXCEPT ![p] = TRUE] /\ UNCHANGED ready
       \/ InStep(p, {"unready"}) /\ ready' = [ready EXCEPT ![p] = FALSE] /\ UNCHANGED signalled
       \/ /\ InStep(p, {"wait", "drain"})
          /\ gor[p][Of(p)] = "down" \/ (Doing(p) = "drain" /\ expired[p])
          /\ UNCHANGED <<ready, signalled>>
    /\ main' = [main EXCEPT ![p] = Next1(p)]
    /\ UNCHANGED <<site, open, gor, closed, busy, errCh, expired, shared, applied, faults, starts>>

\* The deadline runs while a step waits for it.
Expire(p) ==
    /\ ~expired[p]
    /\ \/ InStep(p, {"shutdown", "mustShutdown", "gracefulStop"}) /\ main[p].sub = "asked"
       \/ InStep(p, {"drain"})
    /\ expired' = [expired EXCEPT ![p] = TRUE]
    /\ UNCHANGED <<site, main, open, gor, closed, busy, errCh, signalled, ready, shared, applied,
                   faults, starts>>

TornDown(p) ==
    /\ main[p].at = "teardown" /\ main[p].steps = <<>> /\ Go(p, Return(p, main[p].result))
    /\ UNCHANGED <<site, shared, applied, faults, starts>>

\* The process is gone, with its goroutines and its session at the database.
Gone(p, result) ==
    /\ main' = [main EXCEPT ![p] = [@ EXCEPT !.at = "exit", !.result = result, !.steps = <<>>, !.key = 0]]
    /\ gor' = [gor EXCEPT ![p] = Idle] /\ closed' = [closed EXCEPT ![p] = Unasked]
    /\ busy' = [busy EXCEPT ![p] = {}] /\ ready' = [ready EXCEPT ![p] = FALSE]
    /\ shared' = IF shared.owner = p THEN [shared EXCEPT !.owner = 0] ELSE shared

\* The deferred closes, the last first; then main exits.
Unwind(p) ==
    /\ main[p].at = "unwind"
    /\ \/ /\ open[p] \cap Deferred # {}
          /\ LET opens == Program(p).open
                 last == CHOOSE i \in DOMAIN opens :
                            /\ opens[i] \in open[p] \cap Deferred
                            /\ \A j \in DOMAIN opens : opens[j] \in open[p] \cap Deferred => j <= i
             IN  /\ open' = [open EXCEPT ![p] = @ \ {opens[last]}]
                 /\ closed' = IF opens[last] = "consumer"
                              THEN [closed EXCEPT ![p]["consumer"] = "hard"] ELSE closed
          /\ UNCHANGED <<main, gor, busy, ready, shared>>
       \/ /\ open[p] \cap Deferred = {} /\ Gone(p, main[p].result) /\ UNCHANGED open
    /\ UNCHANGED <<site, errCh, signalled, expired, applied, faults, starts>>

Kill(p) ==
    /\ main[p].at \notin {"down", "exit"} /\ (site.serves \/ main[p].at = "start") /\ Fault
    /\ Gone(p, "killed")
    /\ UNCHANGED <<site, open, errCh, signalled, expired, applied, starts>>

-----------------------------------------------------------------------------
Main(p) ==
    \/ Open(p) \/ ensureBucket(p) \/ SelectKEK(p) \/ loadOrCreateKEKFile(p) \/ runMigrations(p)
    \/ Up(p) \/ Started(p) \/ Select(p) \/ Ask(p) \/ Shutdown(p) \/ gracefulStop(p) \/ Close(p)
    \/ Receive(p) \/ OtherStep(p) \/ TornDown(p) \/ Unwind(p)

Step(p) ==
    \/ Launch(p) \/ Main(p) \/ OpenFails(p) \/ connectFails(p) \/ UpFails(p)
    \/ Signal(p) \/ Expire(p) \/ Kill(p)
    \/ \E g \in Goroutine : Serve(p, g) \/ ServeFails(p, g) \/ Ends(p, g) \/ Accept(p, g) \/ Finish(p, g)

Next == \E p \in Proc : Step(p)
Spec == Init /\ [][Next]_vars

-----------------------------------------------------------------------------
(* Properties *)

\* After a signal nothing is closed under a request, a record or a pass in
\* flight; and however ingest and the hub come down, no record and no pass goes on
\* when the producer is closed.  Excepted are those that outlast the deadline, and
\* what the other loops and all servers have in flight when a server has failed: also
\* the hub closes the producer under an upload (httpSrv.Close waits for no handler).
DrainedBeforeClose ==
    \A p \in Proc : main[p].at = "unwind" /\ ~expired[p] =>
        /\ main[p].branch = "stopped" => busy[p] = {}
        /\ site.service[p] \in {"ingest", "hub"} => busy[p] \cap {"consumer", "scheduler"} = {}

\* A server or loop that failed by itself makes run return an error, also when the
\* signal comes at the same time.  The index-writer only logs an error of its
\* consumer if the signal is served first.
ExitTells ==
    \A p \in Proc : main[p].at = "exit" /\ main[p].result = "nil" =>
        main[p].bad \subseteq (IF site.service[p] = "indexWriter" THEN {"consumer"} ELSE {})

\* However many replicas start at once, and wherever one dies: every migration is
\* applied at most once, and a control plane that serves has them all ("Idempotent:
\* an up-to-date schema is a no-op").
SchemaOnce ==
    /\ \A v \in 1..Latest : applied[v] <= 1
    /\ \A p \in Proc : site.service[p] = "controlPlane" /\ main[p].at = "select" =>
          shared.version = Latest /\ ~shared.dirty /\ \A v \in 1..Latest : applied[v] = 1

\* "concurrent creators converge on a single key", so that DEKs wrapped by the
\* control plane or the hub can be unwrapped by the other; and only development
\* has a key file.
OneKEK ==
    /\ \A p \in Proc : main[p].key # 0 => main[p].key = IF site.env = "vault" THEN -1 ELSE shared.kek
    /\ shared.kek # 0 => site.env = "dev"

\* Processes that start side by side do not make each other fail: without a fault
\* a process returns only when it is told to, or for want of Vault.
StartsBesideOthers ==
    faults = 0 => \A p \in Proc : main[p].at \in {"unwind", "exit"} =>
        signalled[p] \/ (site.env = "prod" /\ "kek" \notin open[p])

\* Before ingest, query and the control plane wait for what is in flight they have
\* stopped answering that they are ready.
DrainingIsTold ==
    \A p \in Proc : /\ site.service[p] \in {"ingest", "query", "controlPlane"}
                    /\ main[p].branch = "stopped" /\ InStep(p, {"gracefulStop", "receive"})
                    => ~readyz(p)

\* No process waits for something that nobody will do: a receive has its sender,
\* a wait its goroutine, the lock its owner.
NoneStuck ==
    \A p \in Proc :
        \/ main[p].at \in {"down", "exit", "select"} \/ busy[p] # {} \/ shared.owner \notin {0, p}
        \/ ENABLED Main(p) \/ \E g \in Goroutine : ENABLED Serve(p, g) \/ ENABLED Ends(p, g)
=============================================================================
