---------------------------- MODULE ServiceProofs ----------------------------
(* Theorems about the services: the erasure of a tenant, the plugin protocol *)
(* of out-of-process connectors.                                             *)
EXTENDS Erasure, Sequences, TLAPS

-----------------------------------------------------------------------------
(* What an undisturbed cascade has emptied by the time it is at each step:   *)
(* RerunErases speaks of the end only and is not inductive.                  *)

Progress ==
    /\ report = "verified" => step = "idle"
    /\ alone =>
         /\ step \in {"purge", "vespa", "blobs", "redis", "verify"} => "dek" \notin held
         /\ step \in {"vespa", "blobs", "redis", "verify"} =>
               instance = "none" /\ "token" \notin held
         /\ step \in {"blobs", "redis", "verify"} => "index" \notin held
         /\ step \in {"redis", "verify"} => "blob" \notin held
         /\ step = "verify" /\ ~redisFailed => "cache" \notin held
         /\ report = "verified" => Erased

LEMMA InitProgress == Init => Progress
BY DEF Init, Progress

\* A step that writes nothing of the tenant, and leaves the cascade where it is.
LEMMA QuietProgress ==
  ASSUME Progress, UNCHANGED <<cascade, alone, instance>>, held' \subseteq held
  PROVE  Progress'
BY DEF Progress, cascade, Erased

LEMMA CascadeProgress ==
  ASSUME Progress, CascadeStep \/ PurgeRedisFails \/ CascadeFails
  PROVE  Progress'
<1>1. CASE SuspendConnectors
  BY <1>1 DEF SuspendConnectors, Progress, At, Rest
<1>2. CASE ShredDEK
  BY <1>2 DEF ShredDEK, Progress, At, Rest
<1>3. CASE PurgeTenant
  BY <1>3 DEF PurgeTenant, Progress, At, Rest
<1>4. CASE PurgeGroup
  BY <1>4 DEF PurgeGroup, Progress, At, Rest
<1>5. CASE DeletePrefix
  BY <1>5 DEF DeletePrefix, Progress, At, Rest
<1>6. CASE PurgeRedis
  BY <1>6 DEF PurgeRedis, Progress, At, Rest
<1>7. CASE Verify
  <2>1. report' = "verified" => ~redisFailed
    BY <1>7 DEF Verify
  <2>2. (alone /\ report' = "verified") => Erased
    BY <1>7, <2>1 DEF Verify, Progress, At, Erased, Purged
  <2> QED
    BY <1>7, <2>2 DEF Verify, Progress, At, Rest, Erased
<1>8. CASE PurgeRedisFails
  BY <1>8 DEF PurgeRedisFails, Progress, At
<1>9. CASE CascadeFails
  BY <1>9 DEF CascadeFails, Progress
<1> QED
  BY <1>1, <1>2, <1>3, <1>4, <1>5, <1>6, <1>7, <1>8, <1>9 DEF CascadeStep

LEMMA NextProgress == Progress /\ [Next]_vars => Progress'
<1> SUFFICES ASSUME Progress, [Next]_vars PROVE Progress'
  OBVIOUS
<1>1. CASE Writers /\ alone' = FALSE /\ UNCHANGED cascade
  BY <1>1 DEF Progress, cascade
<1>2. CASE (Reconcile \/ SeenExpires) /\ UNCHANGED <<cascade, alone>>
  BY <1>2, QuietProgress DEF Reconcile, SeenExpires
<1>3. CASE DeleteTenant
  BY <1>3 DEF DeleteTenant, Progress
<1>4. CASE UNCHANGED vars
  BY <1>4, QuietProgress DEF vars, cascade
<1> QED
  BY <1>1, <1>2, <1>3, <1>4, CascadeProgress DEF Next, Others

\* A cascade that began in a drained system, was not overlapped by a writer and
\* answers verified_empty has emptied every store it purges, after any number of
\* failed attempts, requests and records in flight (cascadeDelete).
THEOREM VerifiedIsErased == Spec => []RerunErases
<1>1. Progress => RerunErases
  BY DEF Progress, RerunErases
<1> QED
  BY <1>1, InitProgress, NextProgress, PTL DEF Spec
-----------------------------------------------------------------------------
(* The plugin protocol.                                                      *)

CONSTANTS MaxDocs, Window

VARIABLES rpc, tenant, conn, outcome, made, sending, wire, status, canceled, client, result,
          emitted, saved, faulted, ctx, lis, stopper, serve

P == INSTANCE Plugin

(* Proofs.  A call that is not torn down has lost nothing: every document    *)
(* the connector has made is at the hub, in the stream or in the Send, and   *)
(* before a cursor in the stream come the documents it stands behind         *)
(* (Stream).  Once the call has returned only a failed one can still have a  *)
(* connector at work (Ends).  No assumption on MaxDocs or Window is needed.  *)

Event == [kind : {"document", "checkpoint", "done"}, n : Nat]
Document(k) == [kind |-> "document", n |-> k]

Typed ==
    /\ rpc \in {"sync", "webhook", "validate"} /\ canceled \in BOOLEAN /\ faulted \in BOOLEAN
    /\ conn \in {"new", "run", "finish", "over"} /\ client \in {"new", "drain", "returned"}
    /\ outcome \in {"none", "ok", "expired", "other", "unsupported", "aborted"}
    /\ result \in {"none", "ok", "expired", "unsupported", "error"}
    /\ made \in Nat /\ saved \in Nat
    /\ sending \in SUBSET Event /\ wire \in Seq(Event)

\* A call is torn down when the Client returns; the connector is in a Send only
\* while it runs, and before it runs it has sent nothing.
Phases ==
    /\ canceled <=> client = "returned"
    /\ conn # "run" => sending = {}
    /\ client = "new" => conn = "new" /\ status = "none"
    /\ conn = "new" => wire = <<>>

\* The documents are the ones that were made, a Send is of the last one or of a
\* cursor behind it, and Done is of a connector that is over.
Numbered ==
    /\ emitted \subseteq 1..made /\ saved <= made
    /\ \A i \in DOMAIN wire :
         /\ wire[i].n <= made /\ (wire[i].kind = "document" => wire[i].n >= 1)
         /\ wire[i].kind = "done" => conn = "over" /\ outcome = "ok" /\ wire[i].n = made
    /\ \A e \in sending : sending = {e} /\ e.n = made /\ e.kind # "done" /\ (e.kind = "document" => e.n >= 1)

\* A document that is at the hub or in the stream, or in front of event i there.
Underway(k) == k \in emitted \/ \E j \in DOMAIN wire : wire[j] = Document(k)
Behind(i, k) == k \in emitted \/ \E j \in DOMAIN wire : j < i /\ wire[j] = Document(k)

Stream == ~canceled =>
    /\ \A i \in DOMAIN wire : wire[i].kind # "document" => \A k \in 1..wire[i].n : Behind(i, k)
    /\ \A k \in 1..made : Underway(k) \/ Document(k) \in sending

\* Only a call that is refused or over has a status, and unless it was torn down
\* that is the status of its outcome.
Answered ==
    /\ status # "none" => conn \in {"new", "over"}
    /\ outcome = "unsupported" => rpc = "webhook"
    /\ conn = "over" /\ ~canceled =>
         status = IF outcome = "ok" THEN "OK" ELSE P!mapSyncError(outcome)

\* A call that ended by itself ended a pass that is over, or was refused.
Ends == /\ client = "returned" /\ ~faulted => conn \in {"new", "over"}
        /\ result = "ok" => conn = "over"

Stopping == /\ serve = "returned" => stopper = "done"
            /\ stopper = "done" => ~P!Running
            /\ stopper \in {"waiting", "stopping", "done"}

PluginInv == /\ Typed /\ Phases /\ Numbered /\ Stream /\ Answered /\ Ends /\ Stopping
        /\ P!ResumeSafe /\ P!SameOutcome

LEMMA AppendEvent ==
  ASSUME NEW w \in Seq(Event), NEW e \in Event
  PROVE  /\ Append(w, e) \in Seq(Event) /\ Len(Append(w, e)) = Len(w) + 1
         /\ DOMAIN Append(w, e) = 1..(Len(w) + 1) /\ DOMAIN w = 1..Len(w) /\ Len(w) \in Nat
         /\ \A i \in 1..Len(w) : Append(w, e)[i] = w[i]
         /\ Append(w, e)[Len(w) + 1] = e
OBVIOUS

LEMMA TailEvents ==
  ASSUME NEW w \in Seq(Event), w # <<>>
  PROVE  /\ Tail(w) \in Seq(Event) /\ Head(w) = w[1] /\ Head(w) \in Event
         /\ Len(w) \in Nat \ {0} /\ DOMAIN w = 1..Len(w) /\ Len(Tail(w)) = Len(w) - 1
         /\ DOMAIN Tail(w) = 1..(Len(w) - 1)
         /\ \A i \in 1..(Len(w) - 1) : Tail(w)[i] = w[i + 1]
OBVIOUS

LEMMA InitPluginInv == P!Init => PluginInv
<1> SUFFICES ASSUME P!Init PROVE PluginInv
  OBVIOUS
<1>1. Typed
  <2>1. canceled \in BOOLEAN /\ faulted \in BOOLEAN
    BY Zenon DEF P!Init
  <2>2. sending \in SUBSET Event /\ wire \in Seq(Event)
    BY DEF P!Init
  <2>3. made \in Nat /\ saved \in Nat
    BY DEF P!Init
  <2> QED
    BY <2>1, <2>2, <2>3 DEF P!Init, Typed
<1>2. Phases
  BY DEF P!Init, Phases
<1>3. Numbered /\ Stream /\ P!ResumeSafe
  BY DEF P!Init, Numbered, Stream, P!ResumeSafe
<1>4. Answered /\ Ends /\ Stopping /\ P!SameOutcome
  BY DEF P!Init, Answered, Ends, Stopping, P!SameOutcome, P!Running
<1> QED
  BY <1>1, <1>2, <1>3, <1>4 DEF PluginInv

\* The steps of serveOn.
LEMMA ShutdownSteps ==
  ASSUME PluginInv, UNCHANGED P!call, P!CancelCtx \/ P!ListenerFails \/ P!GracefulStop \/ P!serveOn \/ UNCHANGED P!vars
  PROVE  PluginInv'
<1> USE DEF P!call, P!request, P!hub
<1>1. (Typed /\ Phases /\ Numbered /\ Stream)'
  BY DEF PluginInv, Typed, Phases, Numbered, Stream, Behind, Underway
<1>2. (Answered /\ Ends /\ P!ResumeSafe /\ P!SameOutcome)'
  BY DEF PluginInv, Answered, Ends, P!ResumeSafe, P!SameOutcome, P!mapSyncError
<1>3. Stopping'
  BY DEF PluginInv, Stopping, P!Running, P!CancelCtx, P!ListenerFails, P!GracefulStop, P!serveOn, P!vars
<1> QED
  BY <1>1, <1>2, <1>3 DEF PluginInv

LEMMA RequestArrives ==
  ASSUME PluginInv, P!newSyncSession
  PROVE  PluginInv'
<1> USE DEF P!newSyncSession, P!request, P!shutdown
<1>1. Typed' /\ Phases'
  BY DEF PluginInv, Typed, Phases
<1>2. Numbered' /\ Stream' /\ P!ResumeSafe'
  BY DEF PluginInv, Typed, Phases, Numbered, Stream, Behind, Underway, P!ResumeSafe
<1>3. Answered' /\ Ends' /\ P!SameOutcome'
  BY DEF PluginInv, Phases, Answered, Ends, P!SameOutcome
<1>4. Stopping'
  BY DEF PluginInv, Phases, Stopping, P!Running
<1> QED
  BY <1>1, <1>2, <1>3, <1>4 DEF PluginInv

LEMMA Emits ==
  ASSUME PluginInv, P!Emit
  PROVE  PluginInv'
<1> USE DEF P!request, P!hub, P!shutdown
<1>1. /\ conn = "run" /\ sending = {}
      /\ UNCHANGED <<rpc, tenant, conn, outcome, wire, status, canceled, client, result, emitted, saved, faulted>>
      /\ UNCHANGED P!shutdown
  BY DEF P!Emit
<1>2. \/ made' = made + 1 /\ sending' = {Document(made + 1)}
      \/ made' = made /\ sending' = {[kind |-> "checkpoint", n |-> made]}
  BY DEF P!Emit, Document
<1>3. made \in Nat /\ made' \in Nat /\ made <= made' /\ wire \in Seq(Event) /\ saved \in Nat
  <2>1. made \in Nat /\ wire \in Seq(Event) /\ saved \in Nat
    BY DEF PluginInv, Typed
  <2> QED
    BY <1>2, <2>1
<1>4. Typed'
  <2>1. sending' \in SUBSET Event
    BY <1>2, <1>3 DEF Event, Document
  <2> QED
    BY <1>1, <1>3, <2>1 DEF PluginInv, Typed
<1>5. Phases'
  BY <1>1 DEF PluginInv, Phases
<1>6. Numbered'
  <2>1. (emitted \subseteq 1..made /\ saved <= made)'
    BY <1>1, <1>3 DEF PluginInv, Numbered
  <2>5. \A i \in DOMAIN wire : wire[i] \in Event
    BY <1>3
  <2>2. \A i \in DOMAIN wire : wire[i].n \in Nat
    BY <2>5 DEF Event
  <2>3. (\A i \in DOMAIN wire :
           /\ wire[i].n <= made /\ (wire[i].kind = "document" => wire[i].n >= 1)
           /\ wire[i].kind = "done" => conn = "over" /\ outcome = "ok" /\ wire[i].n = made)'
    BY <1>1, <1>3, <2>2 DEF PluginInv, Numbered
  <2>4. (\A e \in sending : sending = {e} /\ e.n = made /\ e.kind # "done" /\ (e.kind = "document" => e.n >= 1))'
    BY <1>2, <1>3 DEF Document
  <2> QED
    BY <2>1, <2>3, <2>4 DEF Numbered
<1>7. Stream'
  <2> SUFFICES ASSUME ~canceled
               PROVE  (/\ \A i \in DOMAIN wire : wire[i].kind # "document" => \A k \in 1..wire[i].n : Behind(i, k)
                       /\ \A k \in 1..made : Underway(k) \/ Document(k) \in sending)'
    BY <1>1 DEF Stream
  <2>1. \A i, k : Behind(i, k)' <=> Behind(i, k)
    BY <1>1 DEF Behind
  <2>5. \A k : Underway(k)' <=> Underway(k)
    BY <1>1 DEF Underway
  <2>2. \A i \in DOMAIN wire : wire[i].kind # "document" => \A k \in 1..wire[i].n : Behind(i, k)
    BY DEF PluginInv, Stream
  <2>3. \A k \in 1..made : Underway(k)
    BY <1>1 DEF PluginInv, Stream
  <2>4. \A k \in 1..made' : k \in 1..made \/ Document(k) \in sending'
    BY <1>2, <1>3
  <2> QED
    BY <1>1, <2>1, <2>2, <2>3, <2>4, <2>5
<1>8. Answered' /\ Ends'
  BY <1>1 DEF PluginInv, Phases, Answered, Ends, P!mapSyncError
<1>9. Stopping' /\ P!ResumeSafe' /\ P!SameOutcome'
  BY <1>1 DEF PluginInv, Ends, Phases, Stopping, P!Running, P!ResumeSafe, P!SameOutcome
<1> QED
  BY <1>4, <1>5, <1>6, <1>7, <1>8, <1>9 DEF PluginInv

\* A Send adds to the stream what the connector was sending, or the Done event.
LEMMA SendKeepsStream ==
  ASSUME Typed, Stream, ~canceled, NEW e \in Event, e.n = made, sending \subseteq {e},
         wire' = Append(wire, e), UNCHANGED <<made, emitted, canceled>>
  PROVE  Stream'
<1> DEFINE n == Len(wire)
<1>1. /\ wire \in Seq(Event) /\ n \in Nat /\ DOMAIN wire = 1..n /\ made \in Nat
      /\ DOMAIN wire' = 1..(n + 1) /\ Len(wire') = n + 1
      /\ \A i \in 1..n : wire'[i] = wire[i]
      /\ wire'[n + 1] = e
  BY AppendEvent DEF Typed
<1> HIDE DEF n
<1>2. \A i \in 1..(n + 1), k \in Nat : Behind(i, k) => Behind(i, k)'
  BY <1>1 DEF Behind
<1>3. /\ \A i \in 1..n : wire[i].kind # "document" => \A k \in 1..wire[i].n : Behind(i, k)
      /\ \A k \in 1..made : Underway(k) \/ Document(k) = e
  BY <1>1 DEF Stream
<1>8. \A i \in 1..n : wire[i] \in Event /\ wire[i].n \in Nat
  <2>1. \A i \in 1..n : wire[i] \in Event
    BY <1>1
  <2> QED
    BY <2>1 DEF Event
<1>4. ASSUME NEW i \in 1..(n + 1), wire'[i].kind # "document", NEW k \in 1..wire'[i].n
      PROVE  Behind(i, k)'
  <2>1. CASE i \in 1..n
    <3>1. Behind(i, k) /\ k \in Nat
      BY <1>1, <1>3, <1>4, <1>8, <2>1
    <3> QED
      BY <1>2, <3>1
  <2>2. CASE i = n + 1
    <3>1. Underway(k) /\ k \in Nat
      BY <1>1, <1>3, <1>4, <2>2 DEF Document
    <3>2. Behind(n + 1, k)
      BY <1>1, <3>1 DEF Underway, Behind
    <3> QED
      BY <1>1, <1>2, <2>2, <3>1, <3>2
  <2> QED
    BY <1>1, <2>1, <2>2
<1>5. ASSUME NEW k \in 1..made
      PROVE  Underway(k)'
  <2>1. CASE Underway(k)
    BY <1>1, <2>1 DEF Underway
  <2>2. CASE Document(k) = e
    <3>1. n + 1 \in DOMAIN wire' /\ wire'[n + 1] = Document(k)
      BY <1>1, <2>2
    <3> QED
      BY <3>1 DEF Underway, Document
  <2> QED
    BY <1>3, <2>1, <2>2
<1>6. (\A i \in DOMAIN wire : wire[i].kind # "document" => \A k \in 1..wire[i].n : Behind(i, k))'
  BY <1>1, <1>4
<1>7. (\A k \in 1..made : Underway(k))'
  BY <1>5
<1> QED
  BY <1>6, <1>7 DEF Stream

LEMMA SendKeepsNumbers ==
  ASSUME Typed, Numbered, NEW e \in Event, e.n = made, e.kind = "document" => e.n >= 1,
         e.kind = "done" => conn' = "over" /\ outcome' = "ok",
         conn # "over",
         wire' = Append(wire, e), sending' = {}, UNCHANGED <<made, emitted, saved>>
  PROVE  Numbered'
<1> DEFINE n == Len(wire)
<1>1. /\ wire \in Seq(Event) /\ n \in Nat /\ DOMAIN wire = 1..n /\ made \in Nat
      /\ DOMAIN wire' = 1..(n + 1)
      /\ \A i \in 1..n : wire'[i] = wire[i]
      /\ wire'[n + 1] = e
  BY AppendEvent DEF Typed
<1> HIDE DEF n
<1>2. ASSUME NEW i \in 1..(n + 1)
      PROVE  /\ wire'[i].n <= made' /\ (wire'[i].kind = "document" => wire'[i].n >= 1)
             /\ wire'[i].kind = "done" => conn' = "over" /\ outcome' = "ok" /\ wire'[i].n = made'
  <2>1. CASE i \in 1..n
    BY <1>1, <2>1 DEF Numbered
  <2>2. CASE i = n + 1
    BY <1>1, <2>2
  <2> QED
    BY <1>1, <2>1, <2>2
<1> QED
  BY <1>1, <1>2 DEF Numbered

LEMMA Sends ==
  ASSUME PluginInv, P!Sent
  PROVE  PluginInv'
<1> USE DEF P!request, P!hub, P!shutdown
<1>1. /\ conn = "run" /\ sending # {} /\ sending' = {}
      /\ UNCHANGED <<rpc, tenant, made, status, canceled, client, result, emitted, saved, faulted>>
      /\ UNCHANGED P!shutdown
  BY DEF P!Sent
<1>2. CASE (\E e \in sending : P!Send(e)) /\ UNCHANGED <<conn, outcome>>
  <2>1. PICK e \in sending : P!Send(e)
    BY <1>2
  <2>2. /\ e \in Event /\ e.n = made /\ sending = {e} /\ e.kind # "done" /\ (e.kind = "document" => e.n >= 1)
        /\ ~canceled /\ wire' = Append(wire, e)
    BY <2>1 DEF PluginInv, Typed, Numbered, P!Send
  <2>3. Stream'
    BY <1>1, <2>2, SendKeepsStream DEF PluginInv
  <2>4. Numbered'
    BY <1>1, <1>2, <2>2, SendKeepsNumbers DEF PluginInv
  <2>5. Typed' /\ Phases'
    <3>1. wire' \in Seq(Event)
      BY <2>2, AppendEvent DEF PluginInv, Typed
    <3> QED
      BY <1>1, <1>2, <3>1 DEF PluginInv, Typed, Phases
  <2>6. Answered' /\ Ends'
    BY <1>1, <1>2 DEF PluginInv, Answered, Ends
  <2>7. Stopping' /\ P!ResumeSafe' /\ P!SameOutcome'
    BY <1>1, <1>2 DEF PluginInv, Stopping, P!Running, P!ResumeSafe, P!SameOutcome
  <2> QED
    BY <2>3, <2>4, <2>5, <2>6, <2>7 DEF PluginInv
<1>3. CASE canceled /\ conn' = "finish" /\ outcome' = "aborted" /\ UNCHANGED wire
  <2>1. Typed' /\ Phases' /\ Stream'
    BY <1>1, <1>3 DEF PluginInv, Typed, Phases, Stream
  <2>2. Numbered'
    BY <1>1, <1>3 DEF PluginInv, Numbered
  <2>3. Answered' /\ Ends'
    BY <1>1, <1>3 DEF PluginInv, Answered, Ends
  <2>4. Stopping' /\ P!ResumeSafe' /\ P!SameOutcome'
    BY <1>1, <1>3 DEF PluginInv, Ends, Stopping, P!Running, P!ResumeSafe, P!SameOutcome
  <2> QED
    BY <2>1, <2>2, <2>3, <2>4 DEF PluginInv
<1> QED
  BY <1>2, <1>3 DEF P!Sent

LEMMA ConnectorReturns ==
  ASSUME PluginInv, P!Return
  PROVE  PluginInv'
<1> USE DEF P!request, P!hub, P!shutdown
<1>1. /\ conn = "run" /\ sending = {} /\ conn' = "finish" /\ outcome' \in P!Outcomes
      /\ UNCHANGED <<rpc, tenant, made, sending, wire, status, canceled, client, result, emitted, saved, faulted>>
      /\ UNCHANGED P!shutdown
  BY DEF P!Return
<1>2. /\ outcome' \in {"ok", "expired", "other", "unsupported"}
      /\ outcome' = "unsupported" => rpc = "webhook"
  BY <1>1 DEF PluginInv, Typed, P!Outcomes
<1>3. Typed' /\ Phases'
  BY <1>1, <1>2 DEF PluginInv, Typed, Phases
<1>4. Stream'
  BY <1>1 DEF PluginInv, Stream, Behind, Underway
<1>5. Numbered'
  BY <1>1 DEF PluginInv, Numbered
<1>6. Answered' /\ Ends'
  BY <1>1, <1>2 DEF PluginInv, Answered, Ends
<1>7. Stopping' /\ P!ResumeSafe' /\ P!SameOutcome'
  BY <1>1 DEF PluginInv, Ends, Stopping, P!Running, P!ResumeSafe, P!SameOutcome
<1> QED
  BY <1>3, <1>4, <1>5, <1>6, <1>7 DEF PluginInv

LEMMA Finishes ==
  ASSUME PluginInv, P!finishSync
  PROVE  PluginInv'
<1> USE DEF P!request, P!hub, P!shutdown
<1>1. /\ conn = "finish" /\ conn' = "over" /\ sending = {}
      /\ UNCHANGED <<rpc, tenant, outcome, made, sending, canceled, client, result, emitted, saved, faulted>>
      /\ UNCHANGED P!shutdown
  BY DEF P!finishSync, PluginInv, Phases
<1>2. Ends' /\ Stopping' /\ P!ResumeSafe'
  BY <1>1 DEF PluginInv, Ends, Stopping, P!Running, P!ResumeSafe
<1>3. P!SameOutcome'
  BY <1>1 DEF PluginInv, Ends, P!SameOutcome
<1>4. CASE outcome = "ok" /\ P!Send([kind |-> "done", n |-> made]) /\ status' = "OK"
  <2> DEFINE e == [kind |-> "done", n |-> made]
  <2>1. e \in Event /\ e.n = made /\ e.kind = "done" /\ ~canceled /\ wire' = Append(wire, e)
    BY <1>4 DEF PluginInv, Typed, Event, P!Send
  <2> HIDE DEF e
  <2>2. Stream'
    BY <1>1, <2>1, SendKeepsStream DEF PluginInv
  <2>3. Numbered'
    BY <1>1, <1>4, <2>1, SendKeepsNumbers DEF PluginInv
  <2>4. Typed' /\ Phases'
    <3>1. wire' \in Seq(Event)
      BY <2>1, AppendEvent DEF PluginInv, Typed
    <3> QED
      BY <1>1, <3>1 DEF PluginInv, Typed, Phases
  <2>5. Answered'
    BY <1>1, <1>4 DEF PluginInv, Answered
  <2> QED
    BY <1>2, <1>3, <2>2, <2>3, <2>4, <2>5 DEF PluginInv
<1>5. CASE /\ UNCHANGED wire
           /\ \/ outcome # "ok" /\ status' = P!mapSyncError(outcome)
              \/ outcome = "ok" /\ canceled
  <2>1. Typed' /\ Phases'
    BY <1>1, <1>5 DEF PluginInv, Typed, Phases
  <2>2. Stream'
    BY <1>1, <1>5 DEF PluginInv, Stream, Behind, Underway
  <2>3. Numbered'
    BY <1>1, <1>5 DEF PluginInv, Numbered
  <2>4. Answered'
    BY <1>1, <1>5 DEF PluginInv, Answered, P!mapSyncError
  <2> QED
    BY <1>2, <1>3, <2>1, <2>2, <2>3, <2>4 DEF PluginInv
<1> QED
  BY <1>4, <1>5 DEF P!finishSync

\* The hub takes the first event of the stream.
LEMMA DrainKeepsStream ==
  ASSUME Typed, Stream, ~canceled, wire # <<>>, wire' = Tail(wire), emitted \subseteq emitted',
         \A k \in Nat : wire[1] = Document(k) => k \in emitted',
         UNCHANGED <<made, sending, canceled>>
  PROVE  Stream'
<1> DEFINE n == Len(wire)
<1>1. /\ wire \in Seq(Event) /\ n \in Nat \ {0} /\ DOMAIN wire = 1..n /\ made \in Nat
      /\ DOMAIN wire' = 1..(n - 1) /\ Len(wire') = n - 1
      /\ \A i \in 1..(n - 1) : wire'[i] = wire[i + 1]
  BY TailEvents DEF Typed
<1> HIDE DEF n
<1>2. \A i \in 1..n : wire[i] \in Event /\ wire[i].n \in Nat
  <2>1. \A i \in 1..n : wire[i] \in Event
    BY <1>1
  <2> QED
    BY <2>1 DEF Event
<1>3. ASSUME NEW j \in 1..n, NEW k \in Nat, wire[j] = Document(k)
      PROVE  k \in emitted' \/ (j - 1 \in 1..(n - 1) /\ wire'[j - 1] = Document(k))
  <2>1. CASE j = 1
    BY <1>3, <2>1
  <2>2. CASE j > 1
    <3>1. j - 1 \in 1..(n - 1) /\ (j - 1) + 1 = j
      BY <1>1, <2>2
    <3> QED
      BY <1>1, <1>3, <3>1
  <2> QED
    BY <1>1, <2>1, <2>2
<1>4. ASSUME NEW i \in 1..(n - 1), wire'[i].kind # "document", NEW k \in 1..wire'[i].n
      PROVE  Behind(i, k)'
  <2>1. i + 1 \in 1..n /\ wire'[i] = wire[i + 1]
    BY <1>1
  <2>2. Behind(i + 1, k) /\ k \in Nat
    BY <1>1, <1>2, <1>4, <2>1 DEF Stream
  <2>3. CASE k \in emitted
    BY <2>3 DEF Behind
  <2>4. ASSUME NEW j \in 1..n, j < i + 1, wire[j] = Document(k)
        PROVE  Behind(i, k)'
    <3>1. k \in emitted' \/ (j - 1 \in 1..(n - 1) /\ wire'[j - 1] = Document(k))
      BY <1>3, <2>2, <2>4, Zenon
    <3>2. j - 1 < i
      BY <1>1, <2>4
    <3> QED
      BY <1>1, <3>1, <3>2, Zenon DEF Behind, Document
  <2> QED
    BY <1>1, <2>2, <2>3, <2>4 DEF Behind
<1>5. ASSUME NEW k \in 1..made, Document(k) \notin sending
      PROVE  Underway(k)'
  <2>1. Underway(k) /\ k \in Nat
    BY <1>1, <1>5 DEF Stream
  <2>2. CASE k \in emitted
    BY <2>2 DEF Underway
  <2>3. ASSUME NEW j \in 1..n, wire[j] = Document(k)
        PROVE  Underway(k)'
    <3>1. k \in emitted' \/ (j - 1 \in DOMAIN wire' /\ wire'[j - 1] = Document(k))
      BY <1>1, <1>3, <2>1, <2>3
    <3> QED
      BY <3>1, Zenon DEF Underway, Document
  <2> QED
    BY <1>1, <2>1, <2>2, <2>3 DEF Underway
<1>6. (\A i \in DOMAIN wire : wire[i].kind # "document" => \A k \in 1..wire[i].n : Behind(i, k))'
  BY <1>1, <1>4
<1>7. (\A k \in 1..made : Underway(k) \/ Document(k) \in sending)'
  BY <1>5, Zenon DEF Document
<1> QED
  BY <1>6, <1>7 DEF Stream

\* A call that returns has torn its stream down.
LEMMA TearsDown ==
  ASSUME PluginInv, client = "drain", NEW r \in {"ok", "expired", "unsupported", "error"}, P!Returns(r),
         saved' \in Nat, saved' <= made, faulted' \in BOOLEAN,
         UNCHANGED <<rpc, conn, outcome, made, sending, status, emitted, P!shutdown>>
  PROVE  Typed' /\ Phases' /\ Numbered' /\ Stream' /\ Answered' /\ Stopping'
<1> USE DEF P!shutdown, P!Returns
<1>1. Typed'
  BY DEF PluginInv, Typed
<1>2. Phases'
  BY DEF PluginInv, Phases
<1>3. Numbered'
  BY DEF PluginInv, Numbered
<1>4. Stream' /\ Answered' /\ Stopping'
  BY DEF PluginInv, Stream, Answered, Stopping, P!Running
<1> QED
  BY <1>1, <1>2, <1>3, <1>4

LEMMA Drains ==
  ASSUME PluginInv, P!drainSync
  PROVE  PluginInv'
<1> USE DEF P!request
<1> DEFINE e == Head(wire)
<1>1. /\ client = "drain" /\ wire # <<>> /\ ~canceled
      /\ UNCHANGED <<rpc, tenant, conn, outcome, made, sending, status>> /\ UNCHANGED P!shutdown
  BY DEF P!drainSync, PluginInv, Phases
<1>2. /\ e \in Event /\ e = wire[1] /\ 1 \in DOMAIN wire /\ e.n \in Nat /\ e.n <= made /\ made \in Nat
      /\ (e.kind = "document" => e.n >= 1)
      /\ Tail(wire) \in Seq(Event)
      /\ \A i \in DOMAIN Tail(wire) : i + 1 \in DOMAIN wire /\ Tail(wire)[i] = wire[i + 1]
  <2>1. wire \in Seq(Event) /\ made \in Nat
    BY DEF PluginInv, Typed
  <2>2. /\ Tail(wire) \in Seq(Event) /\ e = wire[1] /\ e \in Event
        /\ Len(wire) \in Nat \ {0} /\ DOMAIN wire = 1..Len(wire)
        /\ DOMAIN Tail(wire) = 1..(Len(wire) - 1)
        /\ \A i \in 1..(Len(wire) - 1) : Tail(wire)[i] = wire[i + 1]
    BY <1>1, <2>1, TailEvents
  <2>3. 1 \in DOMAIN wire /\ \A i \in DOMAIN Tail(wire) : i + 1 \in DOMAIN wire /\ Tail(wire)[i] = wire[i + 1]
    BY <2>2
  <2>4. e.n \in Nat
    BY <2>2 DEF Event
  <2> HIDE DEF e
  <2>5. e.n <= made /\ (e.kind = "document" => e.n >= 1)
    BY <2>2, <2>3 DEF PluginInv, Numbered
  <2> QED
    BY <2>1, <2>2, <2>3, <2>4, <2>5
<1>3. e.kind # "document" => \A k \in 1..e.n : k \in emitted
  BY <1>1, <1>2 DEF PluginInv, Stream, Behind
<1> HIDE DEF e
<1>8. e.kind # "document" =>
        P!Held(e.n) \in Nat /\ P!Held(e.n) <= made /\ \A k \in 1..P!Held(e.n) : k \in emitted
  <2>1. CASE rpc = "webhook"
    BY <2>1 DEF PluginInv, Typed, Numbered, P!ResumeSafe, P!Held
  <2>2. CASE rpc # "webhook"
    BY <1>2, <1>3, <2>2 DEF P!Held
  <2> QED
    BY <2>1, <2>2
<1>4. CASE /\ e.kind = "document" /\ emitted' = emitted \cup {e.n} /\ wire' = Tail(wire)
           /\ UNCHANGED <<client, result, canceled, saved, faulted>>
  <2>1. Stream'
    <3>1. \A k \in Nat : wire[1] = Document(k) => k \in emitted'
      BY <1>2, <1>4 DEF Document
    <3> QED
      BY <1>1, <1>4, <3>1, DrainKeepsStream DEF PluginInv
  <2>2. Typed' /\ Phases'
    BY <1>1, <1>2, <1>4 DEF PluginInv, Typed, Phases
  <2>3. Numbered'
    <3>1. (emitted \subseteq 1..made /\ saved <= made)'
      <4>1. e.n \in 1..made
        BY <1>2, <1>4
      <4>2. emitted \subseteq 1..made /\ saved <= made
        BY DEF PluginInv, Numbered
      <4> QED
        BY <1>1, <1>4, <4>1, <4>2, Zenon
    <3>2. (\A i \in DOMAIN wire :
             /\ wire[i].n <= made /\ (wire[i].kind = "document" => wire[i].n >= 1)
             /\ wire[i].kind = "done" => conn = "over" /\ outcome = "ok" /\ wire[i].n = made)'
      <4> SUFFICES ASSUME NEW i \in DOMAIN Tail(wire)
                   PROVE  /\ Tail(wire)[i].n <= made /\ (Tail(wire)[i].kind = "document" => Tail(wire)[i].n >= 1)
                          /\ Tail(wire)[i].kind = "done" => conn = "over" /\ outcome = "ok" /\ Tail(wire)[i].n = made
        BY <1>1, <1>4
      <4>1. i + 1 \in DOMAIN wire /\ Tail(wire)[i] = wire[i + 1]
        BY <1>2
      <4> QED
        BY <4>1 DEF PluginInv, Numbered
    <3> QED
      BY <1>1, <3>1, <3>2 DEF PluginInv, Numbered
  <2>4. Answered' /\ Ends' /\ P!SameOutcome'
    BY <1>1, <1>4 DEF PluginInv, Answered, Ends, P!SameOutcome, P!mapSyncError
  <2>5. Stopping' /\ P!ResumeSafe'
    BY <1>1, <1>4 DEF PluginInv, Stopping, P!Running, P!ResumeSafe, P!shutdown
  <2> QED
    BY <2>1, <2>2, <2>3, <2>4, <2>5 DEF PluginInv
<1>5. CASE /\ e.kind = "checkpoint" /\ saved' = P!Held(e.n) /\ wire' = Tail(wire)
           /\ UNCHANGED <<client, result, canceled, emitted, faulted>>
  <2>1. Stream'
    <3>1. \A k \in Nat : wire[1] = Document(k) => k \in emitted'
      BY <1>2, <1>5 DEF Document
    <3> QED
      BY <1>1, <1>5, <3>1, DrainKeepsStream DEF PluginInv
  <2>2. Typed' /\ Phases'
    BY <1>1, <1>2, <1>5, <1>8 DEF PluginInv, Typed, Phases
  <2>3. Numbered'
    BY <1>1, <1>2, <1>5, <1>8 DEF PluginInv, Numbered
  <2>4. Answered' /\ Ends' /\ P!SameOutcome'
    BY <1>1, <1>5 DEF PluginInv, Answered, Ends, P!SameOutcome, P!mapSyncError
  <2>5. Stopping' /\ P!ResumeSafe'
    BY <1>1, <1>5, <1>8 DEF PluginInv, Stopping, P!Running, P!ResumeSafe, P!shutdown
  <2> QED
    BY <2>1, <2>2, <2>3, <2>4, <2>5 DEF PluginInv
<1>6. CASE e.kind # "done" /\ P!Returns("error") /\ faulted' = TRUE /\ UNCHANGED <<emitted, saved>>
  <2>1. Typed' /\ Phases' /\ Numbered' /\ Stream' /\ Answered' /\ Stopping'
    BY <1>1, <1>6, TearsDown DEF PluginInv, Typed, Numbered
  <2>2. Ends' /\ P!ResumeSafe' /\ P!SameOutcome'
    BY <1>1, <1>6 DEF PluginInv, Ends, P!ResumeSafe, P!SameOutcome, P!Returns
  <2> QED
    BY <2>1, <2>2 DEF PluginInv
<1>7. CASE e.kind = "done" /\ P!Returns("ok") /\ saved' = P!Held(e.n) /\ UNCHANGED <<emitted, faulted>>
  <2>1. conn = "over" /\ outcome = "ok" /\ e.n = made
    BY <1>2, <1>7 DEF PluginInv, Numbered
  <2>2. Typed' /\ Phases' /\ Numbered' /\ Stream' /\ Answered' /\ Stopping'
    BY <1>1, <1>2, <1>7, <1>8, TearsDown DEF PluginInv, Typed
  <2>3. emitted' = 1..made' /\ (rpc # "webhook" => saved' = made')
    BY <1>1, <1>2, <1>3, <1>7, <2>1, Zenon DEF PluginInv, Numbered, P!Held
  <2>4. Ends' /\ P!ResumeSafe' /\ P!SameOutcome'
    BY <1>1, <1>7, <1>8, <2>1, <2>3 DEF PluginInv, Ends, P!ResumeSafe, P!SameOutcome, P!Returns
  <2> QED
    BY <2>2, <2>4 DEF PluginInv
<1> QED
  BY <1>4, <1>5, <1>6, <1>7, Zenon DEF P!drainSync, e

LEMMA Ended ==
  ASSUME PluginInv, P!EndOfStream
  PROVE  PluginInv'
<1> USE DEF P!request
<1>1. /\ client = "drain" /\ ~canceled /\ status \notin {"none", "OK"} /\ P!Returns(P!syncError(status))
      /\ UNCHANGED <<rpc, conn, outcome, made, sending, status, emitted, saved, faulted>> /\ UNCHANGED P!shutdown
  BY DEF P!EndOfStream, PluginInv, Phases
<1>2. P!syncError(status) \in {"expired", "unsupported", "error"}
  BY DEF P!syncError
<1>3. Typed' /\ Phases' /\ Numbered' /\ Stream' /\ Answered' /\ Stopping'
  BY <1>1, <1>2, TearsDown DEF PluginInv, Typed, Numbered
<1>4. conn = "over" => P!syncError(status) = IF outcome \in {"ok", "expired", "unsupported"} THEN outcome ELSE "error"
  BY <1>1 DEF PluginInv, Typed, Answered, P!mapSyncError, P!syncError
<1>5. Ends'
  <2>1. conn # "new" => conn = "over"
    BY <1>1 DEF PluginInv, Answered
  <2> QED
    BY <1>1, <1>2, <2>1 DEF Ends, P!Returns
<1>6. P!ResumeSafe'
  BY <1>1 DEF PluginInv, P!ResumeSafe
<1>7. P!SameOutcome'
  BY <1>1, <1>2, <1>4 DEF P!SameOutcome, P!Returns
<1> QED
  BY <1>3, <1>5, <1>6, <1>7 DEF PluginInv

LEMMA Breaks ==
  ASSUME PluginInv, P!Broken
  PROVE  PluginInv'
<1> USE DEF P!request
<1>1. /\ client = "drain" /\ P!Returns("error") /\ faulted' = TRUE
      /\ UNCHANGED <<rpc, conn, outcome, made, sending, status, emitted, saved>> /\ UNCHANGED P!shutdown
  BY DEF P!Broken
<1>2. Typed' /\ Phases' /\ Numbered' /\ Stream' /\ Answered' /\ Stopping'
  BY <1>1, TearsDown DEF PluginInv, Typed, Numbered
<1>3. Ends' /\ P!ResumeSafe' /\ P!SameOutcome'
  BY <1>1 DEF PluginInv, Ends, P!ResumeSafe, P!SameOutcome, P!Returns
<1> QED
  BY <1>2, <1>3 DEF PluginInv

LEMMA AlwaysPluginInv == P!Spec => []PluginInv
<1>1. PluginInv /\ [P!Next]_P!vars => PluginInv'
  <2> SUFFICES ASSUME PluginInv, [P!Next]_P!vars PROVE PluginInv'
    OBVIOUS
  <2>1. CASE P!newSyncSession
    BY <2>1, RequestArrives
  <2>2. CASE P!Connector
    BY <2>2, Emits, Sends, ConnectorReturns DEF P!Connector
  <2>3. CASE P!finishSync
    BY <2>3, Finishes
  <2>4. CASE P!drainSync
    BY <2>4, Drains
  <2>5. CASE P!EndOfStream
    BY <2>5, Ended
  <2>6. CASE P!Broken
    BY <2>6, Breaks
  <2>7. CASE P!CancelCtx \/ P!ListenerFails \/ P!GracefulStop \/ P!serveOn
    <3>1. UNCHANGED P!call
      BY <2>7 DEF P!CancelCtx, P!ListenerFails, P!GracefulStop, P!serveOn
    <3> QED
      BY <2>7, <3>1, ShutdownSteps
  <2>8. CASE UNCHANGED P!vars
    <3>1. UNCHANGED P!call
      BY <2>8 DEF P!vars, P!call, P!request, P!hub
    <3> QED
      BY <2>8, <3>1, ShutdownSteps
  <2> QED
    BY <2>1, <2>2, <2>3, <2>4, <2>5, <2>6, <2>7, <2>8 DEF P!Next
<1> QED
  BY <1>1, InitPluginInv, PTL DEF P!Spec

\* "an Emit/Checkpoint error is terminal", for passes and buffers of any size:
\* wherever the call breaks off, a cursor the hub holds never stands behind a
\* document its Emit did not accept.
THEOREM ResumesSafely == P!Spec => []P!ResumeSafe
<1>1. PluginInv => P!ResumeSafe
  BY DEF PluginInv
<1> QED
  BY <1>1, AlwaysPluginInv, PTL

\* "the hub treats an out-of-process plugin exactly like a built-in connector":
\* drainSync returns the connector's own outcome unless the call was refused or
\* given up, and a success only with every document accepted and the final cursor.
THEOREM OutcomeKept == P!Spec => []P!SameOutcome
<1>1. PluginInv => P!SameOutcome
  BY DEF PluginInv
<1> QED
  BY <1>1, AlwaysPluginInv, PTL

\* serveOn returns only when the connector of every call it took has returned.
THEOREM LeavesNothingRunning == P!Spec => []P!NothingLeftRunning
<1>1. PluginInv => P!NothingLeftRunning
  BY DEF PluginInv, Stopping, P!NothingLeftRunning
<1> QED
  BY <1>1, AlwaysPluginInv, PTL
=============================================================================
