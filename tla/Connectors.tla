----------------------------- MODULE Connectors -----------------------------
(***************************************************************************)
(* One connector instance in the hub: its connector is looked up in the    *)
(* registry of the hub by the connector id of the instance (syncOnce),     *)
(* which never changes, and every pass of the instance runs that connector *)
(* against its source.  The passes of two instances share no state.        *)
(*                                                                         *)
(* Gmail, S3 and Jira have state of their own; the connectors that follow  *)
(* a feed of their source share that of FeedPass.  Every message is a chat *)
(* of its own in Teams; in Slack all are in one channel, or each in its    *)
(* own.  The source of an instance also has a setting that never changes.  *)
(***************************************************************************)
EXTENDS Integers

CONSTANTS Registry,                                  \* connector ids
          NoCursor, MaxFaults,                       \* SyncPass
          Message, PageSize, MaxHistory, MaxPrunes,  \* GmailSync
          Key, Text, listPageSize, checkpointEvery, MaxPuts,  \* S3Sync
          Issue, pageSize, PerMinute, MaxUpdates,    \* JiraSync
          Item, MaxChanges, MaxFeedFaults,           \* FeedPass; the faults of S3Sync too
          maxExport                                  \* WhatsAppSync

ASSUME ConnectorsAssumption ==
    /\ Message \subseteq Nat \ {0} /\ Key \subseteq Nat \ {0} /\ Issue \subseteq Nat \ {0}
    /\ Item \subseteq Nat \ {0}
    /\ PageSize \in Nat \ {0} /\ pageSize \in Nat \ {0}
    /\ checkpointEvery \in Nat \ {0} /\ listPageSize \in Nat \ {0}
    /\ PerMinute \in Nat \ {0}
    /\ {MaxFaults, MaxHistory, MaxPrunes, MaxPuts, MaxUpdates} \subseteq Nat
    /\ {MaxChanges, MaxFeedFaults, maxExport} \subseteq Nat

VARIABLES base, token, work, orphans,        \* of Gmail and the feeds; S3 pages too
          connector,                         \* the connector of the instance
          setting,   \* the zone of a Jira or Confluence account; whether Slack has channels
          stored, pass, runCursor, faults,   \* the sync pass
          at, indexed, clock,                \* used by whichever connector it is
          mailbox, history, pruned, prunes,
          bucket, puts, keys, maxMod, since, gone, hidden, stray,
          site, start, cursor, startAt, total, page, overlooked,
          remote, floor, events, seen, owed, excused

walk   == <<token, work>>
paged  == <<base, orphans, walk>>
gmail  == <<mailbox, history, pruned, prunes>>
s3     == <<bucket, puts, keys, maxMod, since, gone, hidden, stray>>
jira   == <<site, start, cursor, startAt, total, page, overlooked>>
told   == <<remote, floor, events, owed, excused>>
feed   == <<told, seen>>
common == <<stored, pass, runCursor, faults, at, indexed, clock>>
vars   == <<connector, setting, common, paged, gmail, s3, jira, feed>>

Gmail       == INSTANCE GmailSync
S3          == INSTANCE S3Sync WITH MaxFaults <- MaxFeedFaults
Jira        == INSTANCE JiraSync WITH zone <- setting
GDrive      == INSTANCE GDriveSync WITH MaxFaults <- MaxFeedFaults
GCal        == INSTANCE GCalSync WITH MaxFaults <- MaxFeedFaults
Outlook     == INSTANCE OutlookSync WITH MaxFaults <- MaxFeedFaults
MSTeams     == INSTANCE MSTeamsSync WITH MaxFaults <- MaxFeedFaults, ChatOf <- [i \in Item |-> i]
Slack       == INSTANCE SlackSync WITH MaxFaults <- MaxFeedFaults, ChannelOf <- [i \in Item |-> 1]
SlackApart  == INSTANCE SlackSync WITH MaxFaults <- MaxFeedFaults, ChannelOf <- [i \in Item |-> i]
Confluence  == INSTANCE ConfluenceSync WITH MaxFaults <- MaxFeedFaults, zone <- setting
ICal        == INSTANCE ICalSync WITH MaxFaults <- MaxFeedFaults
WhatsApp    == INSTANCE WhatsAppSync WITH MaxFaults <- MaxFeedFaults

\* The state of a connector that the instance does not use.
NoPages == base = 0 /\ token = 0 /\ work = <<>> /\ orphans = {}
NoGmail ==
    /\ mailbox = NoCursor /\ history = NoCursor /\ pruned = NoCursor /\ prunes = NoCursor
NoS3 ==
    /\ bucket = NoCursor /\ puts = NoCursor
    /\ keys = NoCursor /\ maxMod = NoCursor /\ since = NoCursor
    /\ gone = NoCursor /\ hidden = NoCursor /\ stray = NoCursor
NoJira ==
    /\ site = NoCursor /\ start = NoCursor /\ cursor = NoCursor
    /\ startAt = NoCursor /\ total = NoCursor /\ page = NoCursor
    /\ overlooked = NoCursor
NoTold ==
    /\ remote = NoCursor /\ floor = NoCursor /\ events = NoCursor
    /\ owed = NoCursor /\ excused = NoCursor
NoFeed == NoTold /\ seen = NoCursor

TypeOK ==
    CASE connector = "gmail"           -> Gmail!TypeOK
      [] connector = "s3"              -> S3!TypeOK
      [] connector = "jira"            -> Jira!TypeOK
      [] connector = "gdrive"          -> GDrive!TypeOK
      [] connector = "gcal"            -> GCal!TypeOK
      [] connector = "outlook-mail"    -> Outlook!TypeOK
      [] connector = "outlook-cal"     -> Outlook!TypeOK
      [] connector = "msteams"         -> MSTeams!TypeOK
      [] connector = "slack"           -> IF setting = 0 THEN Slack!TypeOK ELSE SlackApart!TypeOK
      [] connector = "confluence"      -> Confluence!TypeOK
      [] connector = "ical"            -> ICal!TypeOK
      [] connector = "whatsapp-export" -> WhatsApp!TypeOK

Feeds == Registry \ {"gmail", "s3", "jira"}

Init ==
    /\ connector \in Registry
    /\ setting \in CASE connector \in {"jira", "confluence"} -> {-1, 0, 1}
                     [] connector = "slack" -> {0, 1}
                     [] OTHER -> {0}
    /\ \/ connector = "gmail" /\ Gmail!Init /\ clock = 0 /\ NoS3 /\ NoJira /\ NoFeed
       \/ connector = "s3" /\ S3!Init /\ base = 0 /\ orphans = {} /\ NoGmail /\ NoJira /\ NoTold
       \/ connector = "jira" /\ Jira!Init /\ NoPages /\ NoGmail /\ NoS3 /\ NoFeed
       \/ connector = "whatsapp-export" /\ WhatsApp!ExportInit /\ NoGmail /\ NoS3 /\ NoJira
       \/ /\ connector \in Feeds \ {"whatsapp-export"}
          /\ GDrive!FeedInit /\ NoGmail /\ NoS3 /\ NoJira

FeedNext ==
    \/ connector = "gdrive" /\ GDrive!Next
    \/ connector = "gcal" /\ GCal!Next
    \/ connector = "outlook-mail" /\ Outlook!MailNext
    \/ connector = "outlook-cal" /\ Outlook!CalNext
    \/ connector = "msteams" /\ MSTeams!Next
    \/ connector = "slack" /\ setting = 0 /\ Slack!Next
    \/ connector = "slack" /\ setting = 1 /\ SlackApart!Next
    \/ connector = "confluence" /\ Confluence!Next
    \/ connector = "ical" /\ ICal!Next
    \/ connector = "whatsapp-export" /\ WhatsApp!Next

Next ==
    /\ UNCHANGED <<connector, setting>>
    /\ \/ connector = "gmail" /\ Gmail!Next /\ UNCHANGED <<clock, s3, jira, feed>>
       \/ connector = "s3" /\ S3!Next /\ UNCHANGED <<base, orphans, gmail, jira, told>>
       \/ connector = "jira" /\ Jira!Next /\ UNCHANGED <<paged, gmail, s3, feed>>
       \/ FeedNext /\ UNCHANGED <<gmail, s3, jira>>

FeedTurn ==
    \/ connector = "gdrive" /\ GDrive!Turn
    \/ connector = "gcal" /\ GCal!Turn
    \/ connector = "outlook-mail" /\ Outlook!MailTurn
    \/ connector = "outlook-cal" /\ Outlook!CalTurn
    \/ connector = "msteams" /\ MSTeams!Turn
    \/ connector = "slack" /\ setting = 0 /\ Slack!Turn
    \/ connector = "slack" /\ setting = 1 /\ SlackApart!Turn
    \/ connector = "confluence" /\ Confluence!Turn
    \/ connector = "ical" /\ ICal!Turn
    \/ connector = "whatsapp-export" /\ WhatsApp!Turn

Turn ==
    /\ UNCHANGED <<connector, setting>>
    /\ \/ connector = "gmail" /\ Gmail!Turn /\ UNCHANGED <<clock, s3, jira, feed>>
       \/ connector = "s3" /\ S3!Turn /\ UNCHANGED <<base, orphans, gmail, jira, told>>
       \/ connector = "jira" /\ Jira!Turn /\ UNCHANGED <<paged, gmail, s3, feed>>
       \/ FeedTurn /\ UNCHANGED <<gmail, s3, jira>>

Spec == Init /\ [][Next]_vars

\* The scheduler starts pass after pass (Scheduler!ActiveKeepsSyncing), and the
\* source answers.
FairSpec == Spec /\ WF_vars(Turn)

-----------------------------------------------------------------------------
(* Properties *)

\* Whichever connector it is, no change of the source is left behind by the
\* stored cursor: Gmail's and the feeds' items are indexed as they are or ahead of
\* the history id, page, sync or delta token, orphans of a restarted Gmail backfill
\* excepted; a changed S3 object is indexed or above the stored mark, and an indexed
\* one that is gone is in the keyset; a changed Jira issue is indexed or ahead of
\* the cursor, unless a scan has overlooked it; a Slack message below the mark of
\* its channel is indexed or its event is on the way; a Confluence page is indexed
\* or in the minutes to search; an iCal event is indexed or differs from the cursor;
\* and a WhatsApp message is indexed or the next pass emits it.
\* Each connector's property names what it excepts.  Three exceptions are not about
\* races: an S3 object or a Drive file whose body could not be read, and a Slack
\* message whose channel could not be resolved, stay indexed without it; west of
\* UTC a Jira or Confluence search skips the minutes between its bound and what the
\* source reads it as; and an S3 object given bytes it had before is not re-indexed.
NothingMissed ==
    CASE connector = "gmail"           -> Gmail!NothingMissedButOrphans
      [] connector = "s3"              -> S3!ChangesFound /\ S3!DeletionsFound
      [] connector = "jira"            -> Jira!OnlyOverlookedMissed
      [] connector = "gdrive"          -> GDrive!MissesNothing
      [] connector = "gcal"            -> GCal!MissesNothing
      [] connector = "outlook-mail"    -> Outlook!MissesNothing
      [] connector = "outlook-cal"     -> Outlook!MissesNothing
      [] connector = "msteams"         -> MSTeams!MissesNothing
      [] connector = "slack"           -> /\ setting = 0 => Slack!MissesNothing
                                          /\ setting = 1 => SlackApart!MissesNothing
      [] connector = "confluence"      -> Confluence!MissesNothing
      [] connector = "ical"            -> ICal!MissesNothing
      [] connector = "whatsapp-export" -> WhatsApp!MissesNothing

\* When a source settles, what is indexed converges to it through failed calls,
\* interrupted passes, resumed backfills and expired cursors, whichever
\* connector it is, apart from the documents that NothingMissed excepts.
Converges ==
    <>[](CASE connector = "gmail"           -> Gmail!Settled
           [] connector = "s3"              -> S3!Settled
           [] connector = "jira"            -> Jira!Settled
           [] connector = "gdrive"          -> GDrive!Settled
           [] connector = "gcal"            -> GCal!Settled
           [] connector = "outlook-mail"    -> Outlook!Settled
           [] connector = "outlook-cal"     -> Outlook!Settled
           [] connector = "msteams"         -> MSTeams!Settled
           [] connector = "slack"           -> /\ setting = 0 => Slack!Settled
                                               /\ setting = 1 => SlackApart!Settled
           [] connector = "confluence"      -> Confluence!Settled
           [] connector = "ical"            -> ICal!Settled
           [] connector = "whatsapp-export" -> WhatsApp!Settled)
=============================================================================
