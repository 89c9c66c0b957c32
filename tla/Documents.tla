------------------------------ MODULE Documents ------------------------------
(***************************************************************************)
(* The canonical Document (platform/proto, connectors/sdk): what ingest    *)
(* normalises and the index holds of it, how every connector maps what it  *)
(* reads to one, and one item of a source on its way to the index.  A      *)
(* message m of mail or chat, and a record r of a calendar, a drive or a   *)
(* tracker, holds what its mapping reads.                                  *)
(*                                                                         *)
(* Texts are a few strings: "" is empty, " " is white space, "<p>" markup  *)
(* without text, "<p>x" the text x in markup.  A body is the sequence of   *)
(* its non-empty paragraphs.  Times and version tags are the number of the *)
(* change that set them, 0 when absent and -1 when they do not parse.  A   *)
(* hash is the value it is taken of, under the name "sha256".              *)
(***************************************************************************)
EXTENDS Integers, Sequences, SequencesExt, FiniteSets, TLC

TrimSpace(s) == IF s = " " THEN "" ELSE s
stripHTML(s) == CASE s \in {" ", "<p>"} -> "" [] s = "<p>x" -> "x" [] OTHER -> s

\* The first text that is not white space.
FirstText(q) == LET t == SelectSeq(q, LAMBDA s : TrimSpace(s) # "")
                IN  IF t = <<>> THEN "" ELSE Head(t)

\* The paragraphs of a body, without the empty ones.
Paragraphs(q) == SelectSeq(q, LAMBDA s : TrimSpace(s) # "")

\* "Empty values are omitted", in every connector's metadata.
Present(md) == [k \in {j \in DOMAIN md : md[j] # ""} |-> md[k]]

-----------------------------------------------------------------------------
(* People: [name, email, handle], any of them empty. *)

Person(name, email, handle) == [name |-> name, email |-> email, handle |-> handle]
Nobody == Person("", "", "")

\* The people of q that have anything to be found by, in the role r.
As(r, q) ==
    LET known == SelectSeq(q, LAMBDA p : p # Nobody)
    IN  [i \in DOMAIN known |-> [who |-> known[i], role |-> r]]

\* Without those whose key was there before.
OncePer(Key(_), q) ==
    LET First(i) == Key(q[i]) # "" => \A j \in 1..i - 1 : Key(q[j]) # Key(q[i])
        firsts == {i \in DOMAIN q : First(i)}
        order == SetToSortSeq(firsts, LAMBDA i, j : i < j)
    IN  [k \in DOMAIN order |-> q[order[k]]]

-----------------------------------------------------------------------------
(* Times, access, identity *)

parseTime(t) == IF t < 0 THEN 0 ELSE t
Times(created, modified) ==
    LET c == parseTime(created) m == parseTime(modified)
    IN  IF c = 0 /\ m = 0 THEN {} ELSE {[created |-> c, modified |-> m]}

NoAcl == {}
Acl(principals, private) == {[principals |-> principals, private |-> private]}

DocID(connector, native) == <<connector, native>>

Doc(id, etag, title, body, people, meta, ts, acl) ==
    [id |-> id, etag |-> etag, deleted |-> FALSE, title |-> title, body |-> body,
     people |-> people, meta |-> meta, ts |-> ts, acl |-> acl]

DeletedDoc(id, etag) ==
    [id |-> id, etag |-> etag, deleted |-> TRUE, title |-> "", body |-> <<>>,
     people |-> <<>>, meta |-> <<>>, ts |-> {}, acl |-> NoAcl]

-----------------------------------------------------------------------------
(* Ingest and the index *)

NoEtag == <<>>

\* ingest: the title is trimmed, and a document without an etag gets the hash
\* of its title and body.
normalizeDocument(d) ==
    [d EXCEPT !.title = TrimSpace(@),
              !.etag = IF @ = NoEtag THEN <<"sha256", TrimSpace(d.title), d.body>> ELSE @]

\* index-writer: RFC 3339, a bare date-time or a date; the rest is no time.
eventEpoch(s) ==
    IF s \in {"2026-06-01T09:00:00Z", "2026-06-01T09:00:00", "2026-06-01"} THEN s ELSE ""

\* index-writer: "Name <email>", with what there is of it.
participantStrings(people) ==
    LET Label(p) == [name |-> IF p.who.name # "" THEN p.who.name ELSE p.who.handle,
                     email |-> p.who.email]
        all == [i \in DOMAIN people |-> Label(people[i])]
    IN  SelectSeq(all, LAMBDA l : l.name # "" \/ l.email # "")

MetaOf(d, k) == IF k \in DOMAIN d.meta THEN d.meta[k] ELSE ""

\* The fields that are fed to the index.
buildFields(d) ==
    [title |-> d.title, body |-> d.body, people |-> participantStrings(d.people),
     meta |-> d.meta, etag |-> d.etag,
     created |-> {t.created : t \in d.ts},
     modified |-> {IF t.modified = 0 THEN t.created ELSE t.modified : t \in d.ts},
     eventStart |-> eventEpoch(MetaOf(d, "start")),
     acl |-> UNION {a.principals : a \in d.acl}]

-----------------------------------------------------------------------------
(* Gmail (connectors/gmail/message.go) *)

\* An address list that does not parse is one person with the raw name.
headerPeople(raw) ==
    CASE raw = "" -> <<>>
      [] raw = "Ann <ann@x>" -> <<Person("Ann", "ann@x", "")>>
      [] OTHER -> <<Person(raw, "", "")>>

gmailParticipants(m) ==
    As("from", headerPeople(m.from)) \o As("to", headerPeople(m.to)) \o As("cc", headerPeople(m.cc))

\* The parts in the order of the walk; data that does not decode is skipped.
partTexts(m, mime) ==
    LET parts == SelectSeq(m.parts, LAMBDA p : p.mime = mime /\ p.data \notin {"", "%"})
    IN  [i \in DOMAIN parts |-> parts[i].data]

\* Plain text when there is any, else HTML without its markup.
extractBody(m) ==
    LET plains == partTexts(m, "text/plain")
        htmls == partTexts(m, "text/html")
    IN  Paragraphs(IF plains # <<>> THEN plains ELSE [i \in DOMAIN htmls |-> stripHTML(htmls[i])])

gmailMetadata(m) ==
    Present([from |-> m.from, to |-> m.to, message_id |-> m.id,
             unread |-> IF "UNREAD" \in m.labels THEN "true" ELSE "",
             important |-> IF "IMPORTANT" \in m.labels THEN "true" ELSE ""])

gmailEtag(m) ==
    IF m.historyId # 0 THEN <<"historyId", m.historyId>> ELSE <<"sha256", extractBody(m)>>

gmailDocument(m) ==
    Doc(DocID("gmail", m.id), gmailEtag(m),
        IF TrimSpace(m.subject) = "" THEN "(no subject)" ELSE m.subject,
        extractBody(m), gmailParticipants(m), gmailMetadata(m), Times(m.internalDate, 0), NoAcl)

\* The history record that tells of the deletion.
gmailTombstone(m) == DeletedDoc(DocID("gmail", m.id), <<"historyId", m.historyId>>)

-----------------------------------------------------------------------------
(* Outlook mail (connectors/outlook-mail/message.go) *)

messageBody(m) ==
    IF m.content # ""
    THEN IF m.contentType = "html" THEN stripHTML(m.content) ELSE TrimSpace(m.content)
    ELSE TrimSpace(m.preview)

outlookMailEtag(m) ==
    CASE m.etag # 0 -> <<"etag", m.etag>>
      [] m.changeKey # 0 -> <<"changeKey", m.changeKey>>
      [] OTHER -> <<"sha256", messageBody(m)>>

outlookMailParticipants(m) == As("sender", m.from) \o As("recipient", m.to) \o As("recipient", m.cc)

outlookMailMetadata(m) ==
    Present([message_id |-> m.id, conversation_id |-> m.conversation, folder |-> m.folder])

outlookMailTimes(m) == Times(m.created, m.lastModified)

outlookMailDocument(m) ==
    Doc(DocID("outlook-mail", m.id), outlookMailEtag(m),
        IF TrimSpace(m.subject) = "" THEN "(no subject)" ELSE m.subject,
        Paragraphs(<<messageBody(m)>>), outlookMailParticipants(m), outlookMailMetadata(m),
        outlookMailTimes(m), NoAcl)

outlookMailTombstone(m) ==
    DeletedDoc(DocID("outlook-mail", m.id),
               CASE m.etag # 0 -> <<"etag", m.etag>>
                 [] m.changeKey # 0 -> <<"changeKey", m.changeKey>>
                 [] OTHER -> <<"deleted">>)

-----------------------------------------------------------------------------
(* Slack (connectors/slack/message.go) *)

slackID(m) == DocID("slack", <<m.channel, m.ts>>)

\* Mutant: an edited message keeps the etag it was posted with.
slackEtagPosted(m) == <<"ts", m.ts>>

slackEtag(m) == IF m.edited # 0 THEN <<"edited", m.edited>> ELSE <<"ts", m.ts>>

\* The first line, or the name of the channel.
slackTitle(m) ==
    LET name == IF m.name # "" THEN "#" \o m.name ELSE m.channel
    IN  IF TrimSpace(m.text) = "" THEN name \o " message" ELSE m.text

author(m) == IF m.user # "" THEN m.user ELSE m.bot
slackParticipants(m) == As("from", <<Person("", "", author(m))>>)

slackMetadata(m) ==
    Present([channel |-> m.channel, channel_name |-> m.name, ts |-> m.ts, user |-> author(m),
             team |-> m.team, permalink |-> IF m.team = "" THEN "" ELSE m.channel \o m.ts])

\* A direct message is private by construction.
channelACL(m) == IF m.isIM THEN NoAcl ELSE Acl(m.members, m.isPrivate)

slackTimes(m) == Times(1, m.edited)

slackDocument(m) ==
    Doc(slackID(m), slackEtag(m), slackTitle(m), Paragraphs(<<m.text>>), slackParticipants(m),
        slackMetadata(m), slackTimes(m), channelACL(m))

slackTombstone(m) ==
    DeletedDoc(slackID(m), IF m.eventTS # 0 THEN <<"event", m.eventTS>> ELSE <<"ts", m.ts>>)

-----------------------------------------------------------------------------
(* Microsoft Teams (connectors/msteams/message.go) *)

teamsID(m) == DocID("msteams", <<m.chat, m.id>>)
teamsBody(m) == TrimSpace(IF m.contentType = "html" THEN stripHTML(m.content) ELSE m.content)

messageEtag(m) ==
    CASE m.etag # 0 -> <<"etag", m.etag>>
      [] m.lastModified # 0 -> <<"lastModified", m.lastModified>>
      [] OTHER -> <<"sha256", teamsBody(m)>>

messageTitle(m) ==
    CASE teamsBody(m) # "" -> teamsBody(m)
      [] TrimSpace(m.topic) # "" -> m.topic \o " message"
      [] m.chatType = "group" -> "Group chat message"
      [] OTHER -> "Chat message"

sender(m) == [i \in DOMAIN m.from |-> [who |-> m.from[i], role |-> "from"]]

\* The author, then the members, everyone once by their user id.
teamsParticipants(m) == OncePer(LAMBDA p : p.who.handle, sender(m) \o As("member", m.members))

teamsMetadata(m) ==
    Present([chat_id |-> m.chat, message_id |-> m.id, chat_type |-> m.chatType,
             importance |-> TrimSpace(m.importance)])

\* A group is shared among its members, if Graph told who they are.
chatACL(m) ==
    LET ids == {m.members[i].handle : i \in DOMAIN m.members} \ {""}
    IN  IF m.chatType = "oneOnOne" \/ ids = {} THEN NoAcl ELSE Acl(ids, TRUE)

teamsTimes(m) == Times(m.created, m.lastModified)

teamsDocument(m) ==
    Doc(teamsID(m), messageEtag(m), messageTitle(m), Paragraphs(<<teamsBody(m)>>),
        teamsParticipants(m), teamsMetadata(m), teamsTimes(m), chatACL(m))

\* A version of the source, or the time at which the connector notices.
teamsTombstone(m) ==
    DeletedDoc(teamsID(m), CASE m.etag # 0 -> <<"etag", m.etag>>
                             [] m.deletedAt # 0 -> <<"deleted", m.deletedAt>>
                             [] OTHER -> <<"now">>)

-----------------------------------------------------------------------------
(* WhatsApp exports (connectors/whatsapp-export/document.go) *)

\* The id and the etag of a line are of what it says, not of where it stands.
whatsAppID(m) == DocID("whatsapp-export", <<m.chat, m.sentAt, m.sender, m.text, m.occurrence>>)
whatsAppEtag(m) == <<"sha256", <<m.sender, m.sentAt, m.text>>>>
whatsAppTitle(m) ==
    CASE TrimSpace(m.text) # "" -> m.text [] m.chat # "" -> m.chat \o " message" [] OTHER -> "message"
whatsAppParticipants(m) ==
    IF m.system THEN <<>> ELSE As("sender", <<Person(m.sender, "", m.sender)>>)
whatsAppMetadata(m) ==
    Present([line_index |-> m.lineIndex, chat_name |-> m.chat, sent_at |-> m.sentAt,
             sender |-> IF m.system THEN "system" ELSE m.sender])

toDocument(m) ==
    Doc(whatsAppID(m), whatsAppEtag(m), whatsAppTitle(m), Paragraphs(<<m.text>>),
        whatsAppParticipants(m), whatsAppMetadata(m), Times(m.time, 0), NoAcl)

-----------------------------------------------------------------------------
(* iMessage (connectors/imessage-agent/internal/imsg/imsg.go) *)

chatLabel(r) == FirstText(<<r.chatName, r.guid, "(unknown chat)">>)
documentTitle(r) ==
    IF TrimSpace(r.text) = "" THEN chatLabel(r) ELSE chatLabel(r) \o ": " \o r.text

participantForHandle(h) ==
    CASE h = "me" -> Person("me", "", "me") [] h = "ann@x" -> Person("", h, "") [] OTHER -> Person("", "", h)

imessageParticipants(r) ==
    LET other == <<participantForHandle(TrimSpace(r.handle))>>
        me == <<participantForHandle("me")>>
    IN  IF r.isFromMe THEN As("from", me) \o As("to", other) ELSE As("from", other) \o As("to", me)

imessageMetadata(r) ==
    Present([chat |-> TrimSpace(r.chatName), chat_guid |-> r.guid, handle |-> TrimSpace(r.handle),
             service |-> r.service, is_from_me |-> IF r.isFromMe THEN "true" ELSE "false"])

\* Seconds or nanoseconds since 2001; both are the same time.
AppleTime(date) == IF date <= 0 THEN 0 ELSE date

RowToDocument(r) ==
    Doc(DocID("imessage", <<r.guid, r.rowID>>), <<"sha256", <<r.text, r.date>>>>, documentTitle(r),
        Paragraphs(<<r.text>>), imessageParticipants(r), imessageMetadata(r),
        Times(AppleTime(r.date), 0), NoAcl)

-----------------------------------------------------------------------------
(* Google Calendar (connectors/gcal/event.go) *)

gcalID(r) == DocID("gcal", <<r.calendar, r.id>>)
eventBody(r) == Paragraphs(<<stripHTML(r.description), r.location>>)

gcalEtag(r) ==
    CASE r.etag # 0 -> <<"etag", r.etag>>
      [] eventBody(r) # <<>> /\ ~r.dead -> <<"sha256", eventBody(r)>>
      [] OTHER -> <<"sha256", <<r.id, r.updated>>>>

gcalParticipants(r) == As("organizer", r.organizer) \o As("attendee", r.attendees)

gcalMetadata(r) ==
    Present([event_id |-> r.id, calendar_id |-> r.calendar, location |-> r.location,
             start |-> r.start, response_status |-> r.response])

eventTimestamps(r) == Times(r.created, r.updated)

gcalDocument(r) ==
    Doc(gcalID(r), gcalEtag(r), IF TrimSpace(r.summary) = "" THEN "(no title)" ELSE r.summary,
        eventBody(r), gcalParticipants(r), gcalMetadata(r), eventTimestamps(r), NoAcl)

gcalTombstone(r) == DeletedDoc(gcalID(r), gcalEtag(r))

-----------------------------------------------------------------------------
(* Outlook calendar (connectors/outlook-cal/event.go) *)

bodyText(r) ==
    LET content == IF r.contentType = "html" THEN stripHTML(r.content) ELSE TrimSpace(r.content)
    IN  Paragraphs(<<IF TrimSpace(r.content) # "" THEN content ELSE r.preview, r.location>>)

outlookCalEtag(r) ==
    CASE r.etag # 0 -> <<"etag", r.etag>>
      [] r.changeKey # 0 -> <<"changeKey", r.changeKey>>
      [] OTHER -> <<"sha256", <<r.subject, bodyText(r)>>>>

\* The time with its zone behind it.
joinDateTime(time, zone) ==
    CASE time = "" -> "" [] zone = "" -> time [] OTHER -> time \o " " \o zone

outlookCalParticipants(r) == As("organizer", r.organizer) \o As("required", r.attendees)

outlookCalMetadata(r) ==
    Present([event_id |-> r.id, location |-> TrimSpace(r.location),
             start |-> joinDateTime(r.start, r.zone), start_timezone |-> r.zone,
             attendee_responses |-> r.response])

outlookCalTimes(r) == Times(r.created, r.lastModified)

outlookCalDocument(r) ==
    Doc(DocID("outlook-cal", r.id), outlookCalEtag(r),
        IF TrimSpace(r.subject) = "" THEN "(no subject)" ELSE r.subject, bodyText(r),
        outlookCalParticipants(r), outlookCalMetadata(r), outlookCalTimes(r), NoAcl)

outlookCalTombstone(r) ==
    DeletedDoc(DocID("outlook-cal", r.id),
               CASE r.etag # 0 -> <<"etag", r.etag>>
                 [] r.changeKey # 0 -> <<"changeKey", r.changeKey>>
                 [] OTHER -> <<"deleted", r.id>>)

-----------------------------------------------------------------------------
(* iCalendar feeds (connectors/ical/event.go) *)

icalID(r) == DocID("ical", <<r.instance, r.uid>>)

\* The block as it is in the feed.
rawBlock(r) == [f \in DOMAIN r \ {"instance", "feedURL"} |-> r[f]]

icalEtag(r) ==
    CASE r.sequence # 0 -> <<"seq", r.sequence>>
      [] r.lastModified # 0 -> <<"mod", r.lastModified>>
      [] OTHER -> <<"sha256", rawBlock(r)>>

\* Of an address that is no mailto: only the common name is left.
actor(p) == [p EXCEPT !.handle = "", !.email = IF @ = "urn:x" THEN "" ELSE @]
actors(q) == [i \in DOMAIN q |-> actor(q[i])]

icalParticipants(r) == As("organizer", actors(r.organizer)) \o As("attendee", actors(r.attendees))

icalMetadata(r) ==
    Present([uid |-> r.uid, location |-> TrimSpace(r.location), dtstart |-> TrimSpace(r.start),
             all_day |-> IF r.start = "2026-06-01" THEN "true" ELSE ""])

icalTimes(r) == Times(r.created, r.lastModified)

icalDocument(r) ==
    Doc(icalID(r), icalEtag(r), IF TrimSpace(r.summary) = "" THEN "(no title)" ELSE r.summary,
        Paragraphs(<<r.description, r.location>>), icalParticipants(r), icalMetadata(r),
        icalTimes(r), NoAcl)

icalTombstone(r) == DeletedDoc(icalID(r), icalEtag(r))
disappearedTombstone(r) == DeletedDoc(icalID(r), <<"sha256", <<"deleted", r.uid>>>>)

-----------------------------------------------------------------------------
(* Google Drive (connectors/gdrive/file.go) *)

md5Checksum(r) == IF r.hasMd5 THEN r.content ELSE ""

gdriveEtag(r) ==
    CASE r.version # 0 -> <<"version", r.version>>
      [] r.modified # 0 \/ r.hasMd5 -> <<"sha256", <<r.modified, md5Checksum(r)>>>>
      [] OTHER -> <<"sha256", r.id>>

gdriveMetadata(r) ==
    Present([file_id |-> r.id, mime_type |-> r.mime, parents |-> r.parents])

owners(r) == As("owner", r.owners)

\* Text is exported or downloaded; the bytes of other files are left alone.
fetchBody(r) == Paragraphs(<<IF r.mime \in {"google-doc", "text"} THEN r.content ELSE "">>)

\* Deleted permissions do not count; those of the owners do not share.
aclFromPermissions(r) ==
    LET live == {p \in r.permissions : ~p.deleted}
        ownerEmails == {r.owners[i].email : i \in DOMAIN r.owners}
        Principal(p) == IF p.type = "domain" THEN "domain:" \o p.to ELSE p.to
        Shares(p) == CASE p.type = "user" -> p.to \notin ownerEmails
                       [] p.type \in {"group", "domain", "anyone"} -> TRUE
                       [] OTHER -> p.to # ""
    IN  Acl({Principal(p) : p \in live} \ {""}, ~\E p \in live : Shares(p))

gdriveTimes(r) == Times(r.created, r.modified)

fileDocument(r) ==
    Doc(DocID("gdrive", r.id), gdriveEtag(r),
        IF TrimSpace(r.name) = "" THEN "(untitled)" ELSE r.name, fetchBody(r), owners(r),
        gdriveMetadata(r), gdriveTimes(r), aclFromPermissions(r))

\* The time of the change, or of the connector's clock.
gdriveTombstone(r) ==
    DeletedDoc(DocID("gdrive", r.id), IF r.changed # 0 THEN <<"time", r.changed>> ELSE <<"now">>)

-----------------------------------------------------------------------------
(* S3 (connectors/s3/object.go) *)

s3ID(r) == DocID("s3", <<r.bucket, r.key>>)

\* The ETag is a digest of the bytes; both contents here have the same size.
s3Etag(r) == IF r.hasEtag THEN <<"etag", r.content>> ELSE <<"sha256", <<r.key, "size">>>>

s3Metadata(r) ==
    Present([key |-> r.key, bucket |-> r.bucket, storage_class |-> r.class,
             content_type |-> IF r.key = "a.txt" THEN "text/plain" ELSE ""])

shouldFetchBody(r) == r.key = "a.txt" /\ r.content # ""

objectDocument(r) ==
    Doc(s3ID(r), s3Etag(r), r.key, IF shouldFetchBody(r) THEN Paragraphs(<<r.content>>) ELSE <<>>,
        <<>>, s3Metadata(r), Times(r.modified, r.modified), NoAcl)

s3Tombstone(r) == DeletedDoc(s3ID(r), <<"deleted", r.modified>>)

-----------------------------------------------------------------------------
(* Jira (connectors/jira/issue.go) *)

jiraID(r) == DocID("jira", r.id)
jiraEtag(r) == IF r.updated = 0 THEN NoEtag ELSE <<"updated", r.updated>>

\* The description, then every comment behind its author's name.
issueBody(r) ==
    LET said == SelectSeq(r.comments, LAMBDA c : c.text # "")
    IN  Paragraphs(<<r.description>> \o [i \in DOMAIN said |-> said[i].author \o said[i].text])

issueMetadata(r) ==
    Present([issue_key |-> r.key, issue_id |-> r.id, status |-> r.status, priority |-> r.priority,
             web_url |-> r.key])

issueParticipants(r) == As("reporter", r.reporter) \o As("assignee", r.assignee)

issueTimestamps(r) == Times(r.created, r.updated)

issueDocument(r) ==
    Doc(jiraID(r), jiraEtag(r), IF r.summary = "" THEN r.key ELSE r.key \o ": " \o r.summary,
        issueBody(r), issueParticipants(r), issueMetadata(r), issueTimestamps(r), NoAcl)

jiraTombstone(r) == DeletedDoc(jiraID(r), IF r.updated # 0 THEN jiraEtag(r) ELSE <<"now">>)

-----------------------------------------------------------------------------
(* Confluence (connectors/confluence/content.go) *)

confluenceEtag(r) == <<"version", r.version>>

\* The author, and the last editor unless that is the same account.
accountKey(p) ==
    IF p.who.handle # "" THEN p.who.handle ELSE p.who.email \o "|" \o p.who.name
confluenceParticipants(r) == OncePer(accountKey, As("author", r.author) \o As("editor", r.editor))

confluenceMetadata(r) ==
    Present([page_id |-> r.id, space_name |-> r.space,
             web_url |-> IF r.webui = "" THEN "" ELSE r.base \o r.webui])

confluenceTimes(r) == Times(r.created, r.when)

contentDocument(r) ==
    Doc(DocID("confluence", r.id), confluenceEtag(r), r.title,
        Paragraphs(<<stripHTML(r.storage)>>), confluenceParticipants(r), confluenceMetadata(r),
        confluenceTimes(r), Acl({}, FALSE))

confluenceTombstone(r) == DeletedDoc(DocID("confluence", r.id), confluenceEtag(r))

-----------------------------------------------------------------------------
(***************************************************************************)
(* One item of a source on its way to the index: it is edited, deleted and *)
(* restored at the source, and now and then its connector maps it and      *)
(* emits it; ingest drops an upsert whose (doc_id, version_etag) it has    *)
(* seen and lets tombstones through, the index-writer feeds the rest.      *)
(*                                                                         *)
(* The source is external.  Which version tags it supplies is chosen once; *)
(* an edit renews the tags that the connector's code takes it to renew.    *)
(***************************************************************************)
CONSTANTS Connectors,   \* the connectors to run
          MaxEdits      \* bound: edits, deletions and restorations

VARIABLES connector,
          supplied,   \* the version tags that the source supplies
          item,       \* the item at the source
          clock,      \* number of the last change
          index,      \* the documents [id, fields] in the index
          seen,       \* the dedupe keys of ingest
          fresh,      \* emitted since its last change
          taken,      \* history: the item as it was when ingest last let it through
          recurred    \* history: dropped under an etag that it had before

vars == <<connector, supplied, item, clock, index, seen, fresh, taken, recurred>>

-----------------------------------------------------------------------------
(* The items *)

Ann == Person("Ann", "ann@x", "u1")
Bob == Person("Bob", "", "u2")
Someone == {<<>>, <<Nobody>>, <<Ann>>}
Crowd == {<<>>, <<Bob, Ann>>}
Text == {"", " ", "x", "y"}
Markup == {"", "<p>", "<p>x", "y"}
Start == {"", "2026-06-01T09:00:00Z", "2026-06-01"}
May(type, to) == [type |-> type, to |-> to, deleted |-> FALSE]

\* The fields that change with the item itself ...
Own == [
    gmail |-> [subject |-> Text, to |-> {"", "Ann <ann@x>", "Ann <ann"},
               labels |-> SUBSET {"UNREAD", "IMPORTANT"},
               parts |-> {<<>>, <<[mime |-> "text/html", data |-> "<p>x"]>>,
                          <<[mime |-> "text/html", data |-> "<p>x"], [mime |-> "text/plain", data |-> "y"]>>,
                          <<[mime |-> "text/plain", data |-> "%"]>>}],
    outlookMail |-> [subject |-> Text, content |-> Markup, contentType |-> {"html", "text"},
                     preview |-> {"", "y"}, from |-> Someone, cc |-> Crowd, folder |-> {"inbox", "archive"}],
    slack |-> [text |-> Text],
    msteams |-> [content |-> Markup, contentType |-> {"html", "text"}, importance |-> {"", "high"}],
    whatsapp |-> [time |-> {0, 1}],
    imessage |-> [text |-> Text, date |-> {0, 1, 2}],
    gcal |-> [summary |-> Text, description |-> Markup, location |-> {"", "z"}, start |-> Start,
              organizer |-> Someone, attendees |-> Crowd, response |-> {"", "accepted"}],
    outlookCal |-> [subject |-> Text, content |-> Markup, contentType |-> {"html", "text"},
                    preview |-> {"", "y"}, location |-> {"", "z"}, start |-> Start, zone |-> {"", "UTC"},
                    organizer |-> Someone, attendees |-> Crowd, response |-> {"", "accepted"}],
    ical |-> [summary |-> Text, description |-> Text, location |-> {"", "z"}, start |-> Start,
              organizer |-> Someone \cup {<<Person("", "urn:x", "")>>}, attendees |-> Crowd],
    gdrive |-> [name |-> Text, content |-> {"", "x", "y"}, mime |-> {"google-doc", "pdf"},
                parents |-> {"", "folder"}, owners |-> Someone,
                permissions |-> {{}, {May("user", "ann@x")}, {May("group", "all@x")},
                                 {May("domain", "x"), [type |-> "user", to |-> "bob@x", deleted |-> TRUE]},
                                 {May("anyone", "anyone")}, {May("robot", "")}}],
    s3 |-> [content |-> {"x", "y"}, class |-> {"", "cold"}],
    jira |-> [key |-> {"A-1", "B-7"}, summary |-> {"", "x"}, description |-> {"", "x", "y"},
              status |-> {"open", "done"}, assignee |-> Someone,
              comments |-> {<<>>, <<[author |-> "Ann: ", text |-> "x"], [author |-> "", text |-> ""]>>}],
    confluence |-> [title |-> Text, storage |-> Markup, editor |-> Someone]]

\* ... and those of the channel, the chat, the space or the feed it is in.
Context == [c \in DOMAIN Own |->
    CASE c = "slack" -> [name |-> {"", "general"}, members |-> {{}, {"u1"}}, isPrivate |-> BOOLEAN]
      [] c = "msteams" -> [topic |-> {"", "plans"}, members |-> Crowd, chatType |-> {"group", "oneOnOne"}]
      [] c = "whatsapp" -> [lineIndex |-> {"1", "2"}]
      [] c = "imessage" -> [chatName |-> {"", "plans"}]
      [] c = "ical" -> [feedURL |-> {"old", "new"}]
      [] c = "confluence" -> [space |-> {"", "Dev"}]
      [] OTHER -> <<>>]

\* What never changes of an item.
Fixed == [c \in DOMAIN Own |->
    CASE c = "gmail" -> [id |-> "1", from |-> "Ann <ann@x>", cc |-> "", internalDate |-> 1]
      [] c = "outlookMail" -> [id |-> "1", conversation |-> "c", to |-> <<Bob>>, created |-> 1]
      [] c = "slack" -> [channel |-> "C", ts |-> "1", user |-> "", bot |-> "b1", team |-> "T", isIM |-> FALSE]
      [] c = "msteams" -> [chat |-> "c", id |-> "1", from |-> <<Ann>>, created |-> 1]
      [] c = "whatsapp" -> [chat |-> "c", sentAt |-> "1", sender |-> "Ann", text |-> "x",
                            occurrence |-> 0, system |-> FALSE]
      [] c = "imessage" -> [guid |-> "g", rowID |-> 1, handle |-> "ann@x", isFromMe |-> TRUE, service |-> "SMS"]
      [] c = "gcal" -> [calendar |-> "c", id |-> "1", created |-> -1]
      [] c = "outlookCal" -> [id |-> "1", created |-> 1]
      [] c = "ical" -> [instance |-> "i", uid |-> "1", created |-> 0]
      [] c = "gdrive" -> [id |-> "1", created |-> 1, hasMd5 |-> TRUE]
      [] c = "s3" -> [bucket |-> "b", key |-> "a.txt", hasEtag |-> TRUE]
      [] c = "jira" -> [id |-> "1", created |-> 1, priority |-> "", reporter |-> <<Ann>>]
      [] c = "confluence" -> [id |-> "1", created |-> 1, author |-> <<Ann>>, base |-> "wiki", webui |-> "/1"]]

\* The version tags of a source, and those that an edit of field f renews.
Tags == [
    gmail |-> {"historyId"}, outlookMail |-> {"etag", "changeKey", "lastModified"},
    slack |-> {"edited", "eventTS"}, msteams |-> {"etag", "lastModified", "deletedAt"},
    whatsapp |-> {}, imessage |-> {}, gcal |-> {"etag", "updated"},
    outlookCal |-> {"etag", "changeKey", "lastModified"}, ical |-> {"sequence", "lastModified"},
    gdrive |-> {"version", "modified", "changed"}, s3 |-> {"modified"}, jira |-> {"updated"},
    confluence |-> {"version", "when"}]

\* Slack marks every edit and Confluence numbers every version.
Needed(c) == CASE c = "slack" -> {"edited"} [] c = "confluence" -> {"version"} [] OTHER -> {}
Supplies(c) == {S \in SUBSET Tags[c] : Needed(c) \subseteq S}

Renewed(f) ==
    CASE f \notin DOMAIN Own[connector] -> {}
      [] connector = "ical" /\ f # "start" -> supplied \ {"sequence"}
      [] connector = "gdrive" /\ f # "content" -> supplied \ {"modified"}
      [] connector = "s3" /\ f # "content" -> {}
      [] OTHER -> supplied \ {"eventTS", "deletedAt"}

RenewedByDeath ==
    CASE connector = "slack" -> supplied \ {"edited"}
      [] connector \in {"ical", "gdrive"} -> supplied \ {"sequence", "modified"}
      [] connector \in {"s3", "confluence"} -> {}
      [] OTHER -> supplied

Stamped(r, tags) == [f \in DOMAIN r |-> IF f \in tags THEN clock' ELSE r[f]]

\* The first item: some value in every field, and the tags that come with it.
First(c, tags) ==
    [f \in Tags[c] |-> IF f \in tags \ {"edited", "eventTS", "deletedAt"} THEN 1 ELSE 0]
    @@ [dead |-> FALSE] @@ Fixed[c]
    @@ [f \in DOMAIN Own[c] |-> CHOOSE v \in Own[c][f] : TRUE]
    @@ [f \in DOMAIN Context[c] |-> CHOOSE v \in Context[c][f] : TRUE]

-----------------------------------------------------------------------------
(* The mappings *)

DocumentOf(r) ==
    CASE connector = "gmail" -> gmailDocument(r)
      [] connector = "outlookMail" -> outlookMailDocument(r)
      [] connector = "slack" -> slackDocument(r)
      [] connector = "msteams" -> teamsDocument(r)
      [] connector = "whatsapp" -> toDocument(r)
      [] connector = "imessage" -> RowToDocument(r)
      [] connector = "gcal" -> gcalDocument(r)
      [] connector = "outlookCal" -> outlookCalDocument(r)
      [] connector = "ical" -> icalDocument(r)
      [] connector = "gdrive" -> fileDocument(r)
      [] connector = "s3" -> objectDocument(r)
      [] connector = "jira" -> issueDocument(r)
      [] connector = "confluence" -> contentDocument(r)

\* A cancelled event of a feed is seen in it, or is gone from it.
TombstonesOf(r) ==
    CASE connector = "gmail" -> {gmailTombstone(r)}
      [] connector = "outlookMail" -> {outlookMailTombstone(r)}
      [] connector = "slack" -> {slackTombstone(r)}
      [] connector = "msteams" -> {teamsTombstone(r)}
      [] connector = "gcal" -> {gcalTombstone(r)}
      [] connector = "outlookCal" -> {outlookCalTombstone(r)}
      [] connector = "ical" -> {icalTombstone(r), disappearedTombstone(r)}
      [] connector = "gdrive" -> {gdriveTombstone(r)}
      [] connector = "s3" -> {s3Tombstone(r)}
      [] connector = "jira" -> {jiraTombstone(r)}
      [] connector = "confluence" -> {confluenceTombstone(r)}

-----------------------------------------------------------------------------
Init ==
    /\ connector \in Connectors
    /\ supplied \in Supplies(connector)
    /\ item = First(connector, supplied) /\ clock = 1
    /\ index = {} /\ seen = {} /\ fresh = FALSE
    /\ taken = item /\ recurred = FALSE

Changes(r) ==
    /\ clock <= MaxEdits /\ clock' = clock + 1
    /\ item' = r /\ fresh' = FALSE
    /\ UNCHANGED <<connector, supplied, index, seen, taken, recurred>>

\* An edit of the item, or of what it is in.
Edit ==
    /\ ~item.dead
    /\ \E fields \in {Own[connector], Context[connector]} : \E f \in DOMAIN fields :
           \E v \in fields[f] \ {item[f]} :
               Changes(Stamped([item EXCEPT ![f] = v], Renewed(f)))

Mortal == DOMAIN Own \ {"whatsapp", "imessage"}
Restorable == {"gcal", "ical", "gdrive", "s3", "jira", "confluence"}

Delete == ~item.dead /\ connector \in Mortal /\ Changes(Stamped([item EXCEPT !.dead = TRUE], RenewedByDeath))
Restore == item.dead /\ connector \in Restorable /\ Changes(Stamped([item EXCEPT !.dead = FALSE], RenewedByDeath))

With(id) == {e \in index : e.id = id}

\* A tombstone passes ingest as it is.
EmitTombstone ==
    \E d \in TombstonesOf(item) :
        /\ index' = index \ With(d.id)
        /\ fresh' = TRUE
        /\ UNCHANGED <<connector, supplied, item, clock, seen, taken, recurred>>

\* Content digests come back with the content, and so do the versions of a
\* feed or a page that was away.
Reusable(etag) ==
    \/ etag[1] = "sha256" \/ connector = "s3"
    \/ connector \in {"ical", "confluence"} /\ index = {}

EmitUpsert ==
    LET d == normalizeDocument(DocumentOf(item))
        key == <<d.id, d.etag>>
        old == With(d.id)
    IN  /\ IF key \in seen
           THEN /\ recurred' = (Reusable(d.etag) /\ \A e \in old : e.fields.etag # d.etag)
                /\ UNCHANGED <<index, seen, taken>>
           ELSE /\ index' = (index \ old) \cup {[id |-> d.id, fields |-> buildFields(d)]}
                /\ seen' = seen \cup {key}
                /\ taken' = item /\ recurred' = FALSE
        /\ fresh' = TRUE
        /\ UNCHANGED <<connector, supplied, item, clock>>

Emit == ~fresh /\ IF item.dead THEN EmitTombstone ELSE EmitUpsert

Next == Edit \/ Delete \/ Restore \/ Emit

Spec == Init /\ [][Next]_vars

-----------------------------------------------------------------------------
(* Properties *)

\* What connectortest.ValidateDocument asks of every document that a connector
\* emits, after ingest has given it an etag if it had none: it can be told from
\* its other versions, has a title but for an untitled page, and metadata
\* without blanks.
TypeOK ==
    /\ connector \in Connectors /\ supplied \subseteq Tags[connector]
    /\ clock \in 1..MaxEdits + 1 /\ fresh \in BOOLEAN /\ recurred \in BOOLEAN
    /\ LET d == normalizeDocument(DocumentOf(item))
       IN  /\ d.etag # NoEtag /\ (d.title # "" \/ connector = "confluence")
           /\ \A k \in DOMAIN d.meta : d.meta[k] # ""

\* The fields whose edits make a new etag, with the tags that the source
\* supplies.
Covered ==
    LET own == DOMAIN Own[connector]
        Has(tags) == \E t \in tags : item[t] # 0
    IN  CASE connector = "gmail" -> IF Has({"historyId"}) THEN own ELSE {"parts"}
          [] connector = "outlookMail" ->
                IF Has({"etag", "changeKey"}) THEN own ELSE {"content", "contentType", "preview"}
          [] connector = "msteams" ->
                IF Has({"etag", "lastModified"}) THEN own ELSE {"content", "contentType"}
          [] connector = "gcal" -> IF Has({"etag"}) THEN own ELSE {"description", "location"}
          [] connector = "outlookCal" ->
                IF Has({"etag", "changeKey"}) THEN own
                ELSE {"subject", "content", "contentType", "preview", "location"}
          [] connector = "ical" -> IF Has({"sequence"}) THEN {"start"} ELSE own
          [] connector = "gdrive" -> IF Has({"version"}) THEN own ELSE {"content"}
          [] connector = "s3" -> {"content"}
          [] connector = "jira" ->
                IF Has({"updated"}) THEN own ELSE {"key", "summary", "description", "comments"}
          [] connector = "whatsapp" -> {}
          [] OTHER -> own

\* Once an item is emitted the index shows it as it is: every connector's etag
\* "changes iff the content changes", so that ingest's dedupe on (doc_id,
\* version_etag) drops nothing that matters.  Excepted are the fields no tag
\* covers (those of a channel, a chat or a space among them), which wait for
\* the next edit of a covered one, and an item that comes back under an etag
\* it had: a digest of content that was restored, a page or event that was
\* away.  These stay as they were until the dedupe key expires and the item is
\* emitted again.
IndexCurrent ==
    LET expected == [f \in DOMAIN item |-> IF f \in Covered THEN item[f] ELSE taken[f]]
        Fields(r) == [buildFields(normalizeDocument(DocumentOf(r))) EXCEPT !.etag = NoEtag]
    IN  (fresh /\ ~item.dead /\ ~recurred) =>
            \A e \in index : [e.fields EXCEPT !.etag = NoEtag] = Fields(expected)

\* An item is one document, whatever becomes of it: a move, a rename, a new
\* address of the feed do not leave another behind, and a tombstone finds it
\* ("the doc_id is derived from the IMMUTABLE numeric issue ID").
OneDocument ==
    /\ Cardinality(index) <= 1
    /\ fresh => (item.dead => index = {}) /\ (index = {} => item.dead \/ recurred)

\* A member of a chat or the author of a page is listed once, in the first of
\* their roles.
EveryoneOnce ==
    connector \in {"msteams", "confluence"} =>
        LET people == DocumentOf(item).people
        IN  \A i, j \in DOMAIN people :
                (i # j /\ people[i].who.handle # "") => people[i].who.handle # people[j].who.handle

\* A Drive file that is captured as private is open to its owners only:
\* "is_private is true when the file is shared with nobody beyond the
\* connecting account".
PrivateIsOwners ==
    connector = "gdrive" =>
        \A a \in DocumentOf(item).acl :
            a.private => a.principals \subseteq {item.owners[i].email : i \in DOMAIN item.owners}

\* A calendar event that has a start is on the schedule of the index: "the
\* query path filters/orders schedule lookups on these".  Excepted are the
\* events of feeds, whose start is not under that name, and those of Outlook
\* that have a time zone, which eventEpoch does not parse.
OnSchedule ==
    \A e \in index :
        (connector = "gcal" \/ (connector = "outlookCal" /\ taken.zone = "")) =>
            e.fields.eventStart = taken.start
=============================================================================
