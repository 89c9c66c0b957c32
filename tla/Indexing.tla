------------------------------ MODULE Indexing ------------------------------
(* The sync state of a tenant's connector instances, which three parties     *)
(* write: the hub's passes (syncOnce), the gateway's re-index, and the       *)
(* deletion of an instance; and the gateway's reading of it, with the count  *)
(* of searchable documents, for the Indexing card (index.go, connectors.go). *)
(*                                                                           *)
(* Instance i has the document i at its source, and -i once it is added; 0   *)
(* is an upload.  An emission travels through the pipeline to the index in   *)
(* its own time, in order.                                                   *)
EXTENDS Integers, Sequences, SequencesExt, FiniteSets, FiniteSetsExt

CONSTANTS Instance,
          MaxEmits,     \* bound: documents emitted
          MaxEvents     \* bound: changes at the sources, requests to create, to re-index
                        \* and to delete, uploads and webhooks, failing calls

VARIABLES row,       \* instance -> {} before and after its time, or {[cursor, phase, docs]}
          life,      \* instance -> "unborn", "new" (since the status request listed), "old"
          pass,      \* instance -> the worker's pass: [at, cursor, docs, full, sent]
          changed,   \* documents that are new or changed since they were last emitted
          pipe,      \* the emissions on their way, documents
          indexed,   \* the documents that are searchable
          status,    \* the status request: [at, todo, indexed, extra, out]
          emits, events,
          counted,   \* history: documents that are counted in the docs of a row
          owed,      \* history: re-indexed, no full sync begun since
          raced,     \* history: re-indexed while a pass was under way
          reset      \* history: some counter was reset or an instance deleted

vars == <<row, life, pass, changed, pipe, indexed, status, emits, events, counted, owed, raced, reset>>

Phase == {"PENDING", "FULL_SYNC", "INCREMENTAL", "FAILED"}
Unspecified == [phase |-> "UNSPECIFIED", docs |-> 0]
Fresh == [cursor |-> 0, phase |-> "PENDING", docs |-> 0]
NoPass == [at |-> "idle", cursor |-> 0, docs |-> 0, full |-> FALSE, sent |-> {}]

\* extra: the documents of the count that no row had counted when it was taken.
NoStatus == [at |-> "idle", todo |-> {}, indexed |-> 0, extra |-> 0, out |-> <<>>]

TypeOK == /\ \A i \in Instance : \A r \in row[i] :
                r.cursor \in 0..1 /\ r.phase \in Phase /\ r.docs \in 0..MaxEmits
          /\ \A i \in Instance : /\ pass[i].at \in {"idle", "mark", "full", "incremental", "sent"}
                                  /\ life[i] = "unborn" => row[i] = {}
          /\ Len(pipe) <= MaxEmits
          /\ status.at \in {"idle", "list", "get", "done", "failed"}

\* One instance is there, the others are yet to be created.
Init == /\ row = [i \in Instance |-> IF i = 1 THEN {Fresh} ELSE {}]
        /\ life = [i \in Instance |-> IF i = 1 THEN "old" ELSE "unborn"]
        /\ pass = [i \in Instance |-> NoPass]
        /\ changed = {} /\ pipe = <<>> /\ indexed = {} /\ status = NoStatus
        /\ emits = 0 /\ events = 0
        /\ counted = {} /\ owed = {} /\ raced = {} /\ reset = FALSE

Shown(r) == [phase |-> r.phase, docs |-> r.docs]

\* SetSyncState of an instance that is still there.
Write(i, r) == /\ row[i] # {} /\ row' = [row EXCEPT ![i] = {r}]

Event == events < MaxEvents /\ events' = events + 1
Still == <<indexed, status, raced, reset, life>>

-----------------------------------------------------------------------------
(* A pass of the hub.                                                        *)

\* GetSyncState; without the instance the pass fails, and its worker is
\* stopped when the scheduler next lists the instances.
getSyncState(i) ==
    /\ pass[i].at = "idle"
    /\ \E r \in row[i] :
          pass' = [pass EXCEPT ![i] = [NoPass EXCEPT !.at = "mark", !.cursor = r.cursor, !.docs = r.docs,
                                                     !.full = r.cursor = 0 /\ r.phase # "INCREMENTAL"]]
    /\ UNCHANGED <<row, changed, pipe, emits, owed, events, counted, Still>>

State(i, phase) ==
    [cursor |-> pass[i].cursor, phase |-> phase, docs |-> pass[i].docs + Cardinality(pass[i].sent)]

\* Mark the pass started.  A full sync that begins meets what a re-index asked.
markStarted(i) ==
    /\ pass[i].at = "mark"
    /\ LET full == pass[i].full
       IN  /\ Write(i, State(i, IF full THEN "FULL_SYNC" ELSE "INCREMENTAL"))
           /\ pass' = [pass EXCEPT ![i].at = IF full THEN "full" ELSE "incremental", ![i].full = FALSE]
           /\ owed' = IF full THEN owed \ {i} ELSE owed
    /\ UNCHANGED <<changed, pipe, emits, events, counted, Still>>

\* ErrCursorExpired.
cursorExpired(i) ==
    /\ pass[i].at = "incremental" /\ Event
    /\ pass' = [pass EXCEPT ![i].at = "full", ![i].cursor = 0]
    /\ Write(i, [State(i, "FULL_SYNC") EXCEPT !.cursor = 0])
    /\ owed' = owed \ {i}
    /\ UNCHANGED <<changed, pipe, emits, counted, Still>>

\* The documents of an instance that are at its source.
Source(i) == {i} \cup {d \in {-i} : d \in changed \cup ToSet(pipe) \cup indexed}

Emit(docs) == /\ emits + Cardinality(docs) <= MaxEmits /\ emits' = emits + Cardinality(docs)
              /\ pipe' = pipe \o SetToSeq(docs) /\ changed' = changed \ docs

\* The connector emits what there is, or what has changed.
emit(i) ==
    /\ pass[i].at \in {"full", "incremental"}
    /\ LET due == IF pass[i].at = "full" THEN Source(i) ELSE changed \cap {i, -i}
       IN  /\ due # {} /\ Emit(due)
           /\ pass' = [pass EXCEPT ![i].at = "sent", ![i].sent = due, ![i].full = pass[i].at = "full"]
    /\ UNCHANGED <<row, owed, events, counted, Still>>

\* A connector may store the cursor of a full sync that goes on.
checkpoint(i) ==
    /\ pass[i].at = "sent" /\ pass[i].full
    /\ Write(i, [State(i, "FULL_SYNC") EXCEPT !.cursor = 1])
    /\ counted' = counted \cup pass[i].sent
    /\ pass' = [pass EXCEPT ![i].cursor = 1, ![i].full = FALSE]
    /\ UNCHANGED <<changed, pipe, emits, owed, events, Still>>

\* The pass ends with a new cursor and a completed state.
finish(i) ==
    /\ pass[i].at = "sent" \/ (pass[i].at = "incremental" /\ changed \cap {i, -i} = {})
    /\ Write(i, [State(i, "INCREMENTAL") EXCEPT !.cursor = 1])
    /\ counted' = counted \cup pass[i].sent
    /\ pass' = [pass EXCEPT ![i] = NoPass]
    /\ UNCHANGED <<changed, pipe, emits, owed, events, Still>>

\* recordFailure, before or after the documents were emitted; it may fail, and
\* so may the write of a completed state.
recordFailure(i) ==
    /\ pass[i].at # "idle" /\ Event
    /\ \/ Write(i, State(i, "FAILED")) /\ counted' = counted \cup pass[i].sent
       \/ UNCHANGED <<row, counted>>
    /\ pass' = [pass EXCEPT ![i] = NoPass]
    /\ UNCHANGED <<changed, pipe, emits, owed, Still>>

\* A pass of an instance that is gone fails in its next write.
passFails(i) ==
    /\ row[i] = {} /\ pass[i].at # "idle" /\ pass' = [pass EXCEPT ![i] = NoPass]
    /\ UNCHANGED <<row, changed, pipe, emits, owed, events, counted, Still>>

-----------------------------------------------------------------------------
(* What goes on around it.                                                   *)

\* A document is changed or added at the source.
Change(i) ==
    /\ Event /\ \E d \in {i, -i} : d \notin changed /\ changed' = changed \cup {d}
    /\ UNCHANGED <<row, pass, pipe, emits, owed, counted, Still>>

\* Emissions that no pass counts: an upload, or a document of an instance that
\* a source announced.
handleUpload ==
    /\ Event /\ Emit({0})
    /\ UNCHANGED <<row, pass, owed, counted, Still>>

handleWebhook(i) ==
    /\ row[i] # {} /\ Event /\ Emit({-i})
    /\ UNCHANGED <<row, pass, owed, counted, Still>>

Index ==
    /\ pipe # <<>> /\ pipe' = Tail(pipe) /\ indexed' = indexed \cup {Head(pipe)}
    /\ UNCHANGED <<row, pass, changed, emits, status, owed, raced, reset, events, counted, life>>

-----------------------------------------------------------------------------
(* The gateway.                                                              *)

\* Mutant: the phase is left as it is.
handleReindexConnectorPhase(i) ==
    /\ Event
    /\ \E r \in row[i] : Write(i, [r EXCEPT !.cursor = 0, !.docs = 0])
    /\ owed' = owed \cup {i} /\ reset' = TRUE
    /\ raced' = IF pass[i].at = "idle" THEN raced \ {i} ELSE raced \cup {i}
    /\ UNCHANGED <<pass, changed, pipe, emits, indexed, status, counted, life>>

handleReindexConnector(i) ==
    /\ Event /\ Write(i, Fresh)
    /\ owed' = owed \cup {i} /\ reset' = TRUE
    /\ raced' = IF pass[i].at = "idle" THEN raced \ {i} ELSE raced \cup {i}
    /\ UNCHANGED <<pass, changed, pipe, emits, indexed, status, counted, life>>

handleDeleteConnector(i) ==
    /\ Event
    /\ row[i] # {} /\ row' = [row EXCEPT ![i] = {}]
    /\ owed' = owed \ {i} /\ reset' = TRUE
    /\ UNCHANGED <<pass, changed, pipe, emits, indexed, status, raced, counted, life>>

handleCreateConnector(i) ==
    /\ life[i] = "unborn" /\ Event /\ row' = [row EXCEPT ![i] = {Fresh}]
    /\ life' = [life EXCEPT ![i] = IF status.at \in {"idle", "list"} THEN "old" ELSE "new"]
    /\ UNCHANGED <<pass, changed, pipe, emits, indexed, status, owed, raced, reset, counted>>

Rest == <<row, pass, changed, pipe, emits, indexed, owed, raced, reset, counted, life>>

\* The count of the query service, -1 when that fails.
count ==
    /\ status.at = "idle"
    /\ \/ /\ status' = [NoStatus EXCEPT !.at = "list", !.indexed = Cardinality(indexed),
                                         !.extra = Cardinality(indexed \ counted)]
          /\ UNCHANGED events
       \/ Event /\ status' = [NoStatus EXCEPT !.at = "list", !.indexed = -1]
    /\ UNCHANGED Rest

ListConnectorInstances ==
    /\ status.at = "list"
    /\ status' = [status EXCEPT !.at = "get", !.todo = {i \in Instance : row[i] # {}}]
    /\ UNCHANGED <<Rest, events>>

With(i, shown) ==
    [status EXCEPT !.todo = @ \ {i},
                   !.out = [j \in DOMAIN @ \cup {i} |-> IF j = i THEN shown ELSE @[j]]]

\* One instance after the other; one that vanished since the listing is shown
\* without a phase.
GetSyncState(i) ==
    /\ status.at = "get" /\ status.todo # {} /\ i = Min(status.todo)
    /\ status' = With(i, IF row[i] = {} THEN Unspecified ELSE Shown(CHOOSE r \in row[i] : TRUE))
    /\ UNCHANGED <<Rest, events>>

upstreamError ==
    /\ status.at \in {"list", "get"} /\ Event
    /\ status' = [NoStatus EXCEPT !.at = "failed"]
    /\ UNCHANGED Rest

answer == /\ status.at = "get" /\ status.todo = {} /\ status' = [status EXCEPT !.at = "done"]
          /\ UNCHANGED <<Rest, events>>

Emitted == FoldSet(LAMBDA i, n : n + status.out[i].docs, 0, DOMAIN status.out)
Backlog == IF status.indexed >= 0 /\ Emitted > status.indexed THEN Emitted - status.indexed ELSE 0

\* Mutant: only the backfills.
SyncingPhases == \E i \in DOMAIN status.out : status.out[i].phase \in {"PENDING", "FULL_SYNC"}

Syncing == \/ \E i \in DOMAIN status.out : status.out[i].phase \in {"PENDING", "FULL_SYNC"}
           \/ Backlog > 0

handleIndexStatus == \/ count \/ ListConnectorInstances \/ (\E i \in Instance : GetSyncState(i))
                     \/ upstreamError \/ answer

Pass(i) == \/ getSyncState(i) \/ markStarted(i) \/ emit(i) \/ finish(i) \/ passFails(i)

Next == \/ \E i \in Instance : \/ Pass(i) \/ checkpoint(i) \/ cursorExpired(i) \/ recordFailure(i) \/ Change(i)
                              \/ handleWebhook(i) \/ handleCreateConnector(i)
                              \/ handleReindexConnector(i) \/ handleDeleteConnector(i)
        \/ handleUpload \/ Index \/ handleIndexStatus

\* The worker of an instance passes again and again.
Spec == Init /\ [][Next]_vars /\ \A i \in Instance : WF_vars(Pass(i))

-----------------------------------------------------------------------------
(* Properties.                                                               *)

\* Every instance that the tenant has when the Indexing card is answered is on
\* it, although the states are read one by one while others are deleted; not one
\* that was created after the listing (index.go:55).
StatusComplete ==
    status.at = "done" => \A i \in Instance :
        (row[i] # {} /\ life[i] = "old") => i \in DOMAIN status.out

\* When the card no longer says that the tenant is syncing, the documents of
\* completed passes are searchable, but for as many as the count had documents
\* that no pass had counted: "The gap is the pipeline backlog" only of what the
\* passes emitted, while the count is of uploads (http.go:142), of what webhooks
\* emitted (http.go:91) and of passes under way, too.  Nothing is said after a
\* re-index, which starts the count again, or a deletion; nor when the count is not
\* known.
SettledIsSearchable ==
    (status.at = "done" /\ ~Syncing /\ status.indexed >= 0 /\ ~reset) =>
        Cardinality({i \in DOMAIN status.out : status.out[i].phase = "INCREMENTAL"} \ indexed) <= status.extra

\* "Re-index resets a connector's sync cursor so the scheduler re-runs a FULL
\* sync": nothing is owed when a full sync began after every answer, or the
\* instance was deleted.  A re-index during a pass is excepted: the pass writes
\* its cursor over it.
NoneOwed == owed \subseteq raced
=============================================================================
