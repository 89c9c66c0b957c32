---------------------------- MODULE WhatsAppSync ----------------------------
(***************************************************************************)
(* The WhatsApp export connector (connectors/whatsapp-export): a text file *)
(* that the user uploads again as the chat grows.  A pass fetches and      *)
(* parses all of it; the cursor is a hash of the messages seen, and an     *)
(* incremental pass emits what follows them, or starts over when they are  *)
(* not a prefix of the export any more.                                    *)
(*                                                                         *)
(* The file is external: a sequence of lines, `more' for a line without a  *)
(* timestamp header, an element of Item (timestamp, sender, text) for one  *)
(* with it.  Here `indexed' is the set of documents in the index.          *)
(***************************************************************************)
EXTENDS FeedPass

CONSTANT maxExport   \* bound of the code: lines that are read of a longer file

more == 0
Line == Item \cup {more}

ExportInit ==
    /\ HubInit
    /\ remote = <<>> /\ clock = 0 /\ floor = 0 /\ events = {}
    /\ at = "start" /\ base = NoCursor /\ token = NoCursor /\ work = <<>>
    /\ indexed = {} /\ seen = {} /\ owed = 0 /\ orphans = {} /\ excused = {}

-----------------------------------------------------------------------------
(* The export *)

Exported(lines) ==
    /\ clock < MaxChanges /\ clock' = clock + 1 /\ remote' = lines
    /\ UNCHANGED <<hub, floor, events, conn, index>>

\* The chat goes on; or an export without a line, or with another in its place.
Grow == \E l \in Line : Exported(Append(remote, l))
Rewrite == \E k \in DOMAIN remote :
    \/ Exported(RemoveAt(remote, k))
    \/ \E l \in Line : Exported(ReplaceAt(remote, k, l))

-----------------------------------------------------------------------------
(* Parsing *)

\* A header starts a message; any other line continues the message it follows,
\* and lines in front of the first header are dropped.
parseLine(msgs, l) ==
    IF l # more THEN Append(msgs, [head |-> l, lines |-> 0])
    ELSE IF msgs = <<>> THEN msgs
    ELSE [msgs EXCEPT ![Len(msgs)].lines = @ + 1]

parseExport(lines) == FoldLeft(parseLine, <<>>, lines)

\* fetchExport reads no further than the cap.
fetchExport == parseExport(SubSeq(remote, 1, IF Len(remote) < maxExport THEN Len(remote) ELSE maxExport))

\* assignOccurrences: identical messages before this one.
occurrence(msgs, k) == Cardinality({j \in 1..k - 1 : msgs[j] = msgs[k]})
nativeID(msgs, k) == <<msgs[k], occurrence(msgs, k)>>

makeCursor(msgs) == [count |-> Len(msgs), prefixHash |-> msgs]

TypeOK ==
    /\ stored.phase \in Phase /\ pass \in {"idle", "full", "incremental"}
    /\ remote \in Seq(Line) /\ at \in {"start", "emit", "done"}
    /\ stored.cursor = NoCursor \/ stored.cursor.count = Len(stored.cursor.prefixHash)
    /\ pass = "idle" => at = "start"

-----------------------------------------------------------------------------
\* emitRange from message k on.
EmitFrom(msgs, k) == base' = msgs /\ token' = k /\ at' = "emit" /\ UNCHANGED work

FullSync ==
    /\ pass = "full" /\ at = "start"
    /\ EmitFrom(fetchExport, 1)
    /\ UNCHANGED <<hub, source, index>>

\* The messages that the cursor has seen are still the first of the export.
Prefix(c, msgs) == Len(msgs) >= c.count /\ SubSeq(msgs, 1, c.count) = c.prefixHash

IncrementalSync ==
    /\ pass = "incremental" /\ at = "start"
    /\ LET msgs == fetchExport
       IN  IF ~Prefix(runCursor, msgs) THEN Expired /\ UNCHANGED conn
           ELSE IF Len(msgs) = runCursor.count THEN Complete(runCursor) /\ UNCHANGED conn
           ELSE EmitFrom(msgs, runCursor.count + 1) /\ UNCHANGED hub
    /\ UNCHANGED <<source, index>>

emitRange ==
    /\ at = "emit" /\ token <= Len(base)
    /\ indexed' = indexed \cup {nativeID(base, token)}
    /\ token' = token + 1
    /\ UNCHANGED <<hub, source, at, base, work, seen, owed, orphans, excused>>

\* The one checkpoint of a full sync, and the return.
Finish ==
    /\ at = "emit" /\ token > Len(base)
    /\ IF pass = "full" THEN Save(makeCursor(base), "done") ELSE Return(makeCursor(base))

Done == at = "done" /\ Return(makeCursor(base))

Sync == FullSync \/ IncrementalSync \/ emitRange \/ Finish \/ Done

Turn == (Begin /\ StartPass) \/ Sync
Next == StartPass \/ Interrupted \/ Sync \/ Grow \/ Rewrite
Spec == ExportInit /\ [][Next]_vars

-----------------------------------------------------------------------------
(* Properties *)

Ids(msgs, from) == {nativeID(msgs, k) : k \in from..Len(msgs)}

\* What the next pass emits, with the cursor c.
Ahead(c, msgs) == Ids(msgs, IF Prefix(c, msgs) THEN c.count + 1 ELSE 1)

\* With a cursor stored, each message of the export, within the cap, is indexed
\* or the next pass emits it: an edit, a removal or an insertion in front of the
\* cursor is noticed by the hash, and a message is the same document wherever it
\* stands, its duplicates told apart by their order.
MissesNothing ==
    stored.cursor # NoCursor =>
        Ids(fetchExport, 1) \subseteq indexed \cup Ahead(stored.cursor, fetchExport)

Settled == Ids(fetchExport, 1) \subseteq indexed
=============================================================================
