------------------------------ MODULE Uploads -------------------------------
(* Files pushed by a user or by the iMessage agent: the agent's runs over    *)
(* chat.db (run.go, state.go, main.go), the gateway's and the hub's upload   *)
(* handlers, the upload connector (HandleUpload), and the tenant-prefixed    *)
(* blob store with the prefix deletion of the erasure cascade.               *)
(*                                                                           *)
(* A message is its ROWID, 1, 2, ...; a transcript is the set of the         *)
(* messages rendered, and its size the number of them.  A file a user sends  *)
(* has no messages.  A content stands for its own digest: the blob key, the  *)
(* doc_id and the version_etag are all made from it.                         *)
EXTENDS Integers, Sequences, SequencesExt, FiniteSets, FiniteSetsExt

CONSTANTS Agent,             \* runs of the agent that may overlap
          Chat,
          MaxRow,            \* bound: messages in chat.db
          maxUploadBytes, maxBodyTextBytes,
          MaxFaults          \* bound: failed calls, crashes, lost answers, erasures

VARIABLES db,                \* ROWID -> chat
          saved,             \* state.json: the high-water ROWID
          run,               \* agent -> its run
          up,                \* client -> its upload in flight
          blobs,             \* what the bucket holds
          docs,              \* the documents emitted
          skipped,           \* history: rows an operator's --since left out, or
                             \* that were there when the tenant was erased
          faults

vars == <<db, saved, run, up, blobs, docs, skipped, faults>>

Web == "web"
Client == Agent \cup {Web}
\* Names are sequences: the agent's tenant, and one whose name begins with its name.
Mine == <<"t">>
Tenant == {Mine, <<"t", "-other">>}

Row == 1..MaxRow
File == {0}
MediaType == {"octet-stream", "text", "image"}
SentType == MediaType \cup {"unsafe"}

NoRun == [on |-> FALSE, dry |-> FALSE, since |-> 0, left |-> <<>>, high |-> 0]
NoUpload == [at |-> "idle", tenant |-> Mine, content |-> {}, type |-> "octet-stream", purged |-> FALSE]

TypeOK == /\ db \in Seq(Chat) /\ Len(db) <= MaxRow
          /\ saved \in 0..Len(db)
          /\ \A a \in Agent : run[a].left \in Seq(SUBSET (1..Len(db))) /\ run[a].high \in 0..Len(db)
          /\ \A c \in Client : up[c].at \in {"idle", "hub", "emit", "accepted", "failed"}
          /\ \A b \in blobs : b.tenant \in Tenant /\ b.type \in MediaType
          /\ \A d \in docs : /\ Cardinality(d.content) <= maxUploadBytes
                             /\ d.body \subseteq d.content /\ Cardinality(d.body) <= maxBodyTextBytes
          /\ faults \in 0..MaxFaults

Init == /\ db = <<>> /\ saved = 0 /\ skipped = {} /\ faults = 0
        /\ run = [a \in Agent |-> NoRun] /\ up = [c \in Client |-> NoUpload]
        /\ blobs = {} /\ docs = {}

-----------------------------------------------------------------------------
(* The agent.                                                                *)

NewMessage(chat) == /\ Len(db) < MaxRow /\ db' = Append(db, chat)
                    /\ UNCHANGED <<saved, run, up, blobs, docs, skipped, faults>>

\* chatQuery: the rows above since; groupByChat: by chat, first seen first.
ReadSince(since) == {r \in 1..Len(db) : r > since}
groupByChat(rows) ==
    LET firsts == {r \in rows : \A q \in rows : db[q] = db[r] => r <= q}
        order == SetToSortSeq(firsts, <)
    IN  [i \in DOMAIN order |-> {r \in rows : db[r] = db[order[i]]}]

\* realMain up to the read: --since wins over the state file; a dry run
\* renders and prints.
runSync(a, since, dry) ==
    /\ ~run[a].on /\ ReadSince(since) # {}
    /\ run' = [run EXCEPT ![a] = [on |-> TRUE, dry |-> dry, since |-> since,
                                  left |-> IF dry THEN <<>> ELSE groupByChat(ReadSince(since)), high |-> 0]]
    /\ skipped' = IF dry THEN skipped ELSE skipped \cup {r \in 1..Len(db) : saved < r /\ r <= since}
    /\ UNCHANGED <<db, saved, up, blobs, docs, faults>>

\* The client posts the next transcript.
Upload(a) ==
    /\ run[a].on /\ run[a].left # <<>> /\ up[a].at = "idle"
    /\ up' = [up EXCEPT ![a] = [NoUpload EXCEPT !.content = Head(run[a].left),
                 !.at = IF Cardinality(Head(run[a].left)) > maxUploadBytes THEN "failed" ELSE "hub"]]
    /\ UNCHANGED <<db, saved, run, blobs, docs, skipped, faults>>

Uploaded(a) ==
    /\ up[a].at = "accepted" /\ up' = [up EXCEPT ![a] = NoUpload]
    /\ run' = [run EXCEPT ![a].left = Tail(@), ![a].high = Max({@, Max(up[a].content)})]
    /\ UNCHANGED <<db, saved, blobs, docs, skipped, faults>>

\* Mutant: the high-water of what was uploaded is saved after a failure too.
UploadFailedSaves(a) ==
    /\ up[a].at = "failed" /\ up' = [up EXCEPT ![a] = NoUpload]
    /\ run' = [run EXCEPT ![a] = NoRun]
    /\ saved' = IF run[a].high > run[a].since THEN run[a].high ELSE saved
    /\ UNCHANGED <<db, blobs, docs, skipped, faults>>

\* The first failure ends the run with an error; main saves nothing.
UploadFailed(a) ==
    /\ up[a].at = "failed" /\ up' = [up EXCEPT ![a] = NoUpload]
    /\ run' = [run EXCEPT ![a] = NoRun]
    /\ UNCHANGED <<db, saved, blobs, docs, skipped, faults>>

advanceHighWater(since, uploaded) == IF uploaded > since THEN uploaded ELSE since

\* After a clean pass the state file is replaced, if the mark moved.
saveState(a) ==
    /\ run[a].on /\ run[a].left = <<>> /\ up[a].at = "idle"
    /\ run' = [run EXCEPT ![a] = NoRun]
    /\ saved' = IF run[a].dry \/ run[a].high <= run[a].since THEN saved
                ELSE advanceHighWater(run[a].since, run[a].high)
    /\ UNCHANGED <<db, up, blobs, docs, skipped, faults>>

-----------------------------------------------------------------------------
(* The gateway, the hub and the blob store.                                  *)

\* A user sends a file; the hub classifies it by the media type of its part.
handleUpload(t, type) ==
    /\ up[Web].at = "idle"
    /\ up' = [up EXCEPT ![Web] = [NoUpload EXCEPT !.at = "hub", !.tenant = t, !.content = File, !.type = type]]
    /\ UNCHANGED <<db, saved, run, blobs, docs, skipped, faults>>

\* A type that a browser would run, or that does not parse, is stored as
\* octet-stream.
sanitizeContentType(c) == IF up[c].type \in MediaType THEN up[c].type ELSE "octet-stream"
classifyDocType(type) == IF type = "image" THEN "IMAGE" ELSE "FILE"
\* By the type, or by the extension: transcripts are named .txt.
isTextual(c) == c # Web \/ sanitizeContentType(c) = "text"

\* The key of an original, "<tenant>/upload/<sha256>", and the prefix of a tenant's.
Key(b) == b.tenant \o <<"/", "upload", "/", b.content>>
TenantPrefix(t) == Append(t, "/")

\* HandleUpload's Put.
Put(c) ==
    /\ up[c].at = "hub" /\ up' = [up EXCEPT ![c].at = "emit", ![c].type = sanitizeContentType(c)]
    /\ blobs' = {b \in blobs : b.tenant # up[c].tenant \/ b.content # up[c].content}
                \cup {[tenant |-> up[c].tenant, content |-> up[c].content, type |-> sanitizeContentType(c)]}
    /\ UNCHANGED <<db, saved, run, docs, skipped, faults>>

\* The body is the beginning of the text.
truncateUTF8(content) == {x \in content : Cardinality({y \in content : y <= x}) <= maxBodyTextBytes}

document(c) == [tenant |-> up[c].tenant, content |-> up[c].content,
                body |-> IF isTextual(c) THEN truncateUTF8(up[c].content) ELSE {},
                kind |-> classifyDocType(sanitizeContentType(c)), purged |-> up[c].purged]

\* The document enters the pipeline, and the client has its 202.
Emit(c) ==
    /\ up[c].at = "emit" /\ up' = [up EXCEPT ![c].at = "accepted"]
    /\ docs' = docs \cup {document(c)}
    /\ UNCHANGED <<db, saved, run, blobs, skipped, faults>>

Fault == faults < MaxFaults /\ faults' = faults + 1

\* A step of the upload fails, or its answer is lost after the document was
\* emitted.
UploadFails(c) ==
    /\ Fault /\ up[c].at \in {"hub", "emit", "accepted"}
    /\ up' = [up EXCEPT ![c] = [NoUpload EXCEPT !.at = "failed"]]
    /\ UNCHANGED <<db, saved, run, blobs, docs, skipped>>

\* The agent is killed, or cannot save; the hub goes on with its request.
Crash(a) ==
    /\ Fault /\ run[a].on /\ run' = [run EXCEPT ![a] = NoRun]
    /\ up' = [up EXCEPT ![a] = NoUpload]
    /\ docs' \in {docs} \cup IF up[a].at = "emit" THEN {docs \cup {document(a)}} ELSE {}
    /\ UNCHANGED <<db, saved, blobs, skipped>>

\* The erasure cascade of a tenant: DeletePrefix removes what is listed under its
\* prefix, and its documents go too.
DeletePrefix(t) ==
    /\ Fault /\ blobs # {}
    /\ blobs' = {b \in blobs : ~IsPrefix(TenantPrefix(t), Key(b))}
    /\ docs' = {d \in docs : d.tenant # t}
    /\ up' = [c \in Client |-> IF up[c].tenant = t /\ up[c].at \in {"emit", "accepted"} THEN [up[c] EXCEPT !.purged = TRUE] ELSE up[c]]
    /\ skipped' = IF t = Mine THEN 1..Len(db) ELSE skipped
    /\ UNCHANGED <<db, saved, run>>

AgentNext(a) == \/ \E since \in {saved, 0, 1}, dry \in BOOLEAN : since <= Len(db) /\ runSync(a, since, dry)
                \/ Upload(a) \/ Uploaded(a) \/ UploadFailed(a) \/ saveState(a) \/ Crash(a)
Next == \/ \E chat \in Chat : NewMessage(chat)
        \/ \E a \in Agent : AgentNext(a)
        \/ \E t \in Tenant, type \in SentType : handleUpload(t, type)
        \/ \E c \in Client : Put(c) \/ Emit(c) \/ UploadFails(c)
        \/ \E t \in Tenant : DeletePrefix(t)
Spec == Init /\ [][Next]_vars

-----------------------------------------------------------------------------
(* Properties.                                                               *)

\* No message is passed over: one at or below the saved mark is in the body of
\* an emitted transcript, whatever failed or crashed ("the next run retries the
\* unsent chats").  Rows an operator skipped with --since are excepted, those there
\* at an erasure, and what lies past the body limit of a long transcript, which is
\* only in the stored original.
AgentMissesNothing ==
    \A r \in 1..saved : r \in skipped \/
        \E d \in docs : d.tenant = Mine /\ r \in IF Cardinality(d.body) < maxBodyTextBytes THEN d.body ELSE d.content

\* Every document that was emitted has its original in the store, also while
\* a tenant whose name begins the same is erased ("a sibling whose name merely
\* shares a prefix").  An upload that had stored its original when its own
\* tenant was erased, and is emitted after, is excepted.
OriginalKept == \A d \in docs : d.purged \/ \E b \in blobs : b.tenant = d.tenant /\ b.content = d.content

\* A client that has its 202 has its document in the pipeline.
AcceptedIsEmitted ==
    \A c \in Client : up[c].at = "accepted" =>
        \/ up[c].purged
        \/ \E d \in docs : d.tenant = up[c].tenant /\ d.content = up[c].content
=============================================================================
