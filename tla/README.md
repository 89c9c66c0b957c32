# TLA+ verification of Asker

Asker is a personal search engine: connectors copy a tenant's documents from
mail, chats, calendars, trackers and object stores into a pipeline that indexes
them, and a query path searches them. This directory holds TLA+ models of the
parts of Asker whose correctness depends on interleavings, failures, restarts or
delicate arithmetic, the TLC instances that check them, and TLAPS proofs of the
results that matter most.

Source paths below are relative to the repository root.

## 1. The system

```
 sources ──> connector hub ──docs.raw──> ingest ──docs.chunked──> enrich
 (mail,       (scheduler,                  │ dedupe keys             │
  chat, ...)   sync passes,                v                    docs.enriched
  plugins       emit, upload)            Redis                       │
                  │  ^                                               v
        sync state│  │instances, tokens                        index-writer ──> Vespa
                  v  │                                                            ^
              control plane ── Postgres, tenant DEKs, erasure cascade ────────────┤
                  ^                                                               │
 user ──> gateway ┴── OAuth, limits, recents, preferences ──> Redis <── query ────┘
```

| part | state | what is hard about it |
|---|---|---|
| `platform/kafkautil` | partition log, committed offset, batch in hand | crashes, lost commits, rebalances in the middle of a batch |
| ingest, enrich, index-writer | topics, offsets, dedupe keys, index | redelivery through stages that are not atomic with their commits |
| connector hub | worker and draining maps, semaphore, sync state | pause and resume during a pass; slots; draining |
| connectors, plugins | stored cursor, paging position | a source that changes while it is read; expiry; interrupted passes |
| `platform/crypto` | wrapped DEK in the store, unwrapped DEK per process | first-encrypt races between replicas; erasure racing a call |
| control plane | Postgres rows | transactions of several statements side by side; foreign keys; quotas |
| erasure | all stores of a tenant | everything else keeps writing |
| gateway | limiter keys, OAuth flows, recent searches, Redis copies | several gateways and callbacks at once |
| query | result cache, deadlines, order of hits | parts that fail; copies that are stale; paging |
| document mapping, chunker, scope, ranking | none: functions of their input | boundaries |
| start and shutdown of every service | open resources, goroutines, KEK file, schema, bucket | several services starting at once; draining before closing; the first error |
| `tools/synthgen`, `tools/eval` | checkpoint and target; jobs and scores | resuming exactly; a gate that fails closed |

## 2. Modules

| module | models |
|---|---|
| `Delivery`, `Consumer` | abstract at-least-once delivery, and `platform/kafkautil/consumer.go`, `producer.go`, which implements it |
| `Pipeline` | `services/ingest/handler.go`, `services/enrich/enrich/kafka_worker.py`, `services/index-writer/writer.go` over three topics |
| `Scheduler` | `services/connector-hub/internal/hub/scheduler.go`: reconcile, workers, semaphore |
| `SyncPass` | the same file, `syncOnce`: one pass, its sync state, checkpoints, expiry, failure |
| `GmailSync`, `S3Sync`, `JiraSync` | three connectors with state of their own, on `SyncPass` |
| `FeedPass` | what the connectors of sources with a change feed share, on `SyncPass` |
| `GDriveSync`, `GCalSync`, `OutlookSync` (mail and calendar), `MSTeamsSync`, `SlackSync`, `ConfluenceSync`, `ICalSync`, `WhatsAppSync` | the other connectors, on `FeedPass` |
| `Connectors` | the registry lookup of `syncOnce`: one instance of any of these connectors |
| `Plugin` | `connectors/sdk/plugin`: a connector behind gRPC, and the server's shutdown |
| `Documents` | how every connector maps an item to the canonical document, and an item on its way through dedupe to the index |
| `Uploads` | `connectors/imessage-agent`, `connectors/upload`, the upload handlers and `platform/blob` |
| `Chunker` | `services/ingest/chunker.go` |
| `TenantCipher` | `platform/crypto/cipher.go` and the DEK rows |
| `Store`, `PgStore` | the control plane's store as its in-memory form has it, and `services/control-plane/store_pg.go` over Postgres, which implements it |
| `Erasure` | `services/control-plane/delete.go`, `purge.go` against the hub, the pipeline and user requests |
| `Personalization`, `Recents`, `OAuth`, `PreAuth`, `RateLimit`, `People`, `Indexing` | `services/gateway`: preferences and their copies, recent searches, accounts and tokens, the two limiters, contacts, the Indexing card |
| `QueryScope`, `Ranking`, `Search`, `Preferences` | `services/query` and `platform/personalization`: what a query asks for, the order of hits, a search with its cache and deadline, profile and learned model |
| `FakeGmail` | `tools/fake-gmail`, the mailbox of the development stack |
| `Lifecycle` | `run` of every service, with `platform/crypto`'s choice and creation of the KEK, the migrations and the bucket |
| `Synthgen` | `tools/synthgen`, the generator of the load-test corpus |
| `Eval` | `tools/eval`, the quality gate |
| `MCComponents` | one small instance of each component that shares no state with the others; which ones run is a constant of the run |
| `PgStoreProofs`, `PgStoreTypes`, `PipelineProofs` | theorems about the module they extend; `Consumer`, `Scheduler`, `TenantCipher` and `Chunker` end with their own |
| `ServiceProofs` | theorems about `Erasure`, which it extends, and about `Plugin`, which it instantiates |

Every `.cfg` is one run. A definition that a comment marks as *Mutant* is a
plausible bug in the definition that follows it. Mutants are not reachable from
any specification; each property has one that breaks it, which shows that the
property depends on that code.

### How state and actions correspond to the code

**Consumer.** `log`, `committed` and `owner` are the partition and the group. Per
member, `pc` is the place in `Run`, `cur..lim` the rest of the polled batch,
`attempt` the handler attempt. `Poll`, `Reject`, `HandlerOk`, `HandlerFail`,
`QuarantineOk`, `QuarantineFail`, `CommitOk` and `CommitFail` are the exits of
`Run`, `processRecord`, `quarantine` and `commit`. A failed handler call may have
had its effect. A failed commit is only logged. `Rebalance` does not interrupt the
member that loses the partition, because `BlockRebalanceOnPoll` is not set. `Stop`
is a crash, kill or cancelled context. `sink` is what the handler writes to. A
record of the dead-letter topic itself, which is committed without a second copy
(`consumer.go:187`), is left out: no program of the repository consumes that topic.

**Pipeline.** Per stage and tenant: the committed offset, the position since the
last start, and the place in the handler. Ingest reads the dedupe key (`Seen`, a
read error counts as unseen), produces (`IngestProduce`) and then records the key
(`MarkSeen`, an error is only logged). `AnswerLost` is a produce or feed that was
done and reported as failed. `Crash` goes back to the committed offset.

**Scheduler.** `workers`, `draining`, `started`, `cancelled` are the maps and
contexts of the struct. `List` reads the control plane without the lock and
`Reconcile` applies the listing under it; statuses may change in between. A worker
sleeps, waits for a slot, syncs, exits. `Acquire` is enabled for a cancelled
worker too, since Go's `select` picks any ready case. `wg` is the counter of the
`WaitGroup`: `Align` adds one per goroutine it starts, a worker closes `done` first
(which lets `Reconcile` forget it) and calls `wg.Done` in a later step (`Leave`), and
`Return` waits for the counter, not for the goroutines.

**SyncPass and connectors.** `stored` is the sync state row. `Begin` chooses
`FullSync` or `IncrementalSync`. `CheckpointFails` reflects that the run's cursor
is set before the write, so that `recordFailure` may still store it. `Expired` is
`ErrCursorExpired`, after which the pass goes on as a full sync. `Abort` is any
other error, or the death of the hub. Each connector adds its source as external
actions and its paging as actions between these steps; a cursor is a record of
what its encoding holds. `indexed` is the last version of each document handed to
the pipeline; `seen` are the etags ingest has dropped duplicates by. A Slack
webhook emits while a pass runs, as `handleWebhook` lets it. Where the code emits a
document without what it could not read (an S3 body, a Drive export, a Slack
channel), the model indexes it *bare*: the version is right and the rest is missing.
An S3 listing is read in pages of keys, and an etag is the digest of the object's
bytes. The bound of a Jira or Confluence search is formatted in UTC and read by the
site in the account's zone, which is ahead of UTC, behind it, or neither.

**Plugin.** The connector runs ahead of the hub by what the transport buffers
(`wire`). `drainSync` is one message at the hub; `finishSync`, `EndOfStream` and
`Broken` are the ends of the stream. A webhook is the call that stores no cursor.
`serveOn`, its stopper goroutine and `GracefulStop` are steps of their own. Left out
are a stream that ends without its Done and an event of an unknown kind, which this
server does not produce.

**Documents.** A document is a record of the fields that its connector's mapping
sets, as operators named after the Go functions. An item is edited, deleted,
restored and emitted; ingest drops a (doc_id, version_etag) it
has seen.

**Uploads.** A transcript is the set of messages it renders; a content is its own
digest, from which key, doc_id and etag are made. The agent saves its mark after a
run, the hub stores the original and then emits. Tenant names are sequences, one of
them the beginning of another, so that the prefix under which an erasure deletes
blobs is compared as the store compares it.

**Chunker.** A body is a sequence of bytes of a few kinds. `appendWindowSpans` is
one turn of the loop that cuts windows; `SectionEnd`, `cutPoint` and
`nextWindowStart` are the functions it calls.

**TenantCipher.** `pc` is where an Encrypt or Decrypt is: at `idle`, `load` (the
row), `put` and `reread` (a DEK of its own), `insert` (into the cache) or `use`; each
store operation and each lock section is a step. `ShredDEK` and `Forget` are the erasure's two calls. `Restart` empties a
replica.

**Store, PgStore.** `Store` is one operator per call of the store interface, taken
from `store_mem.go`: the rows and the answer. `PgStore` runs the same calls of
several clients as the statements of `store_pg.go`, READ COMMITTED, with the row
and advisory locks each statement takes, foreign keys with their cascades, unique
keys, rollback, and Postgres breaking a deadlock. `Atomic` states that a call's
effects appear at once and are those of `Store`.

**Erasure.** `step` is the next step of `cascadeDelete`. `held` says which stores
hold anything of the tenant, `topic` how many of its records are in flight.
Requests, the hub and the pipeline are the other processes. Any step but the Redis
purge may fail and end the call.

**Gateway and query.** `Personalization` runs requests against the row of record
and its write-through copies in Redis. `Recents` is a Redis list that several calls
change command by command. `OAuth` has flows with their state and callback,
providers that rotate refresh tokens, and the hub's workers that refresh.
`PreAuth` and `RateLimit` count requests over a clock. `QueryScope`, `Ranking`,
`People` and `Preferences` compute one answer per behaviour from every small input.
`Search` is a search with its services, which answer, fail or do not answer, its
deadline, and the cache shared by callers. `Indexing` is the status card over sync
rows and the pipeline, while passes checkpoint, finish, fail and expire, uploads and
webhooks emit beside them, and instances are created, deleted and re-indexed.

**Lifecycle.** `Program` says for each service what `run` opens, which goroutines
it starts and what it does when one of them ends (`failed`) or on a signal
(`stopped`); the actions run these programs. `errCh` is the channel of that name,
`closed` what Shutdown, Close and GracefulStop have asked for, `busy` what is in
flight. `Unwind` runs the deferred closes. `Up` and `loadOrCreateKEKFile` are the
steps by which processes that start together meet in the database and on the
volume they share.

**Synthgen, Eval.** `Run`, `feedTenant` and `saveCheckpoint` with the workers
between them; a seed is the set of draws it leads to. `Eval` goes from the files
and flags of a run (`main`) through jobs, answers and scores to `evaluateGate`. It
takes the golden file, which the tool reads twice, not to change in between.

**External.** Kafka, Redis, Postgres, MinIO, Vespa, the OAuth providers and the
sources are modelled by how the code uses them, and marked so in `PROJECT.json`.

## 3. Runs

Passing runs, with the number of distinct states TLC reaches.

| run | module | properties | states |
|---|---|---|---|
| `consumer` | `Consumer` | `AtLeastOnce`, `OrderUnlessStolen`, `ImplementsDelivery`, `EveryRecordSettled` | 461 k |
| `scheduler` | `Scheduler` | `OnePassPerInstance`, `SlotsAccounted`, `CapOnWorkers`, `ReturnsDrained` | 2.39 M |
| `scheduler_live` | `Scheduler` | `StatusFollowed`, `ShutdownCompletes` | 31 k |
| `connectors` | `Connectors` | `NothingMissed`, `Converges` | 1.03 M |
| `cipher` | `TenantCipher` | `OnlyStoredKeys`, `SealedReadable`, `ForgottenForGood` | 2.2 M |
| `erasure` | `Erasure` | `RerunErases`, `EventuallyErased` | 876 k |
| `store` | `PgStore` | `QuotaHeld`, `NoOrphans`, `ListingComplete`, `TenantsApart`, `Atomic`, `CallsEnd` | 168 k |
| `algorithms` | `MCComponents` | `TextCovered`, `ScopeHonoured`, `RankingFaithful`, `DocumentsCurrent`, `ContactsComplete`, `PreferencesKept`, `ToolsExact` | 740 k |
| `services` | `MCComponents` | `CopiesSettle`, `TokensUsable`, `RatesKept`, `SourcesKept`, `ServicesOrderly` | 2.1 M |
| `live` | `MCComponents` | `StatusTrue`, `NothingDropped`, `PassesFaithful`, `AnswersHonest`, `WorkEnds` | 1.05 M |

- `consumer`: no offset is committed past a record that was neither handled nor
  quarantined; redelivery never leaves an older write on a newer one; the loop
  implements `Delivery`; every record is eventually settled.
- `scheduler`, `scheduler_live`: one pass per instance at a time, every slot given
  back, the cap on workers, a return only after draining; an active instance keeps
  syncing, a paused one stops, a shutdown completes.
- `connectors`: what a stored cursor has left behind is indexed as it is at the
  source or will be found by the next pass, deletions included; and the index
  converges to the source.
- `cipher`: first encrypts of several replicas end with the stored key; what was
  sealed before an erasure is readable everywhere; a destroyed key that a replica
  has forgotten does not come back.
- `erasure`: an undisturbed re-run that answers verified has emptied every store it
  purges; re-runs converge.
- `store`: quota and foreign keys hold, a paged listing misses no tenant, a call
  touches the rows of its own tenant only, every call is atomic, every call ends.
- `algorithms`: chunks cover the text; a query finds nothing outside what the user
  spelled out and a schedule lookup everything inside; ranking and paging lose and
  repeat nothing; the index shows an item as it is; contacts are merged; preferences
  are kept in range and learning goes in the direction of the feedback; a corpus that
  is resumed is the one an uninterrupted run makes, and the gate passes only a
  candidate that was measured in full and is no worse.
- `services`: copies settle on the row of record; tokens stay usable; limiters keep
  to their rates and refuse nobody else; uploads keep their original and a
  mailbox client converges; services come up beside others and shut down without
  closing what is in use or losing an error.
- `live`: a search answers honestly and in time; the Indexing card is true; the
  pipeline drops nothing; a plugin's pass is resumed safely; and all this work ends.

### Where the code and what it says of itself differ

Each of these runs checks one statement quoted from a comment, and TLC finds a
behaviour that contradicts it.

| run | statement | what happens |
|---|---|---|
| `pipeline_tenants` | `platform/kafkautil/consumer.go:104` never skipped silently | the dedupe key has no tenant: the second tenant's copy of a document is dropped |
| `erasure_dek` | `services/control-plane/delete.go:56` verification re-reads the DEK store | it does not, and a racing token write provisions a new DEK |

### What the passing properties except

Some properties hold with an exception, which a history variable or a condition of
the module names. Each is a behaviour of the code.

- `OrderUnlessStolen` (and `OrderSafe`): a rebalance that takes the partition from a
  member at work, which goes on with its batch. `platform/kafkautil/producer.go:64`
  says a tombstone can never overtake the upsert it revokes.
- `NothingDropped`: index and source agree when etags are fresh, no commit was lost
  and nothing is in the dead letter. A tombstone leaves the dedupe key of the
  version it deletes; after a lost commit an older version is replayed.
- `CapOnWorkers` counts scheduled workers; one that drains comes on top.
- `NothingMissed`, per connector:
  - Gmail: messages deleted in a pruned stretch of the history, or around a backfill
    that starts over, get no tombstone;
  - S3: an object written behind the listing position or in the same instant as the
    high-water mark; an object emitted by a failed pass and deleted before the next;
    an object whose body could not be read stays indexed without it, as no later pass
    reads an unchanged object again; and an object that is given bytes it had before
    is dropped by its dedupe key;
  - Jira: the issue the cursor names, updated again (`connectors/sdk/connector.go:156`
    says every change since the cursor is emitted), an issue that another update
    moves in front of the page offset, and, in an account west of UTC, an issue that
    was updated less than the zone's offset after the cursor: the site reads the
    bound as a later time;
  - Drive, Google Calendar: items deleted before a backfill that an expired cursor
    started over; Outlook mail also messages changed during the backfill behind
    their page; Outlook calendar also events changed before an interrupted backfill
    resumed; Teams also messages changed while their chat was backfilled;
  - Slack: events lost or overtaken, older pages of a channel that vanishes, and a
    message whose channel could not be resolved when its event came, which stays
    without its facets. `connectors/slack/webhook.go:172` says a later sync re-emits
    the complete document, but the etag is the same and ingest drops it. A Drive
    file whose content could not be exported stays without it until it changes;
  - Confluence: pages trashed before a restart, moved below the offset, modified in an
    earlier minute than the newest seen, or, west of UTC, as in Jira;
  - iCal: an event changed back to an old etag, or gone after a failed pass;
  - Drive, Outlook: a checkpoint whose page token lapsed fails every resume.
- `DocumentsCurrent`: content digests that recur within the dedupe keys' 48 hours;
  a page or event restored under the same etag; a channel, chat or space renamed;
  a Jira issue without `updated`.
- `ForgottenForGood`: a key in the hand of a call while `Forget` runs. Other
  replicas keep a destroyed DEK cached (`cipher.go:98`).
- `RerunErases`: a cascade that no writer overlaps, over the stores the cascade
  purges. Ingest's dedupe keys and the hub's own DEK are not among them, although
  `delete.go:48` and `delete.go:169` speak of every store.
- `CopiesSettle`: no failed call, and no commit that overtakes an earlier request's
  write-through. `TokensUsable`: a flow connected during a refresh is overwritten;
  a refreshed token that could not be stored under rotation is lost.
- `Atomic`: the counts of a purge under concurrent writes; a reset that found no
  model keeps one learned meanwhile; a read of preferences is two statements; a
  weight update may fail when a reset deletes the row it has just ensured; token and
  sync-state writes that race a deletion fail as internal errors.
- `ScopeHonoured`: a phrase combined with one explicit bound; a schedule lookup that
  also names a participant.
- `RankingFaithful`: pages past the candidate cap (`services/query/server.go:313`),
  which rank more candidates than the first page did and may repeat or skip a hit;
  equal scores across merged arms; attention pages, which are shorter than their step.
  The arms and the reranker answer every page alike.
- `ContactsComplete`: next to a bad recipient, one with a comma in its quoted name is
  cut in two and lost, although `services/gateway/people.go:228` says one bad recipient
  never discards the rest. An organiser who attends counts twice.
- `PreferencesKept`: entries cut in white space; muted sources, which have no bound in
  number or length, although `platform/personalization/profile.go:131` speaks of
  capped lists. Topics, on which a hit is scored, are never trained, and the other
  people of a click are trained and score no hit that they did not send, although
  `platform/personalization/model.go:118` has the same builder for both.
- `StatusTrue`: the card's count is of uploads, webhooks and passes under way, too, so
  that this many documents of finished passes may still be in the pipeline although
  `services/gateway/index.go:17` calls the gap the backlog; an instance created after the
  listing is not on the card. An instance without a state is UNSPECIFIED there, where
  the comment at `index.go:87` says PENDING. `StatusTrue`, `WorkEnds`: a re-index during a running
  pass is overwritten.
- `ServicesOrderly`: when one of its servers fails, a service closes what its requests
  use. The hub and ingest wait for their passes and records, but the hub, too, closes
  the producer under its uploads and webhooks in flight. What outlasts the shutdown's
  deadline is cut off; the index-writer only logs a consumer's error that a signal
  overtakes.
- `SourcesKept`: a chat of more than 32 MiB blocks every run of the agent.

## 4. Bounds

Every bound is a named constant; the models stop taking new inputs when it is
reached and go on with what is there.

| run | bounds | why they are enough |
|---|---|---|
| `consumer` | two members, four kinds of record, `MaxLog` 2, `MaxFaults` 3 | an order violation needs two records, a stale owner and a redelivery |
| `scheduler` | three instances of two tenants, cap 1, two slots, `MaxStarts` 2, `MaxChanges` 3, `MaxFailures` 1 | a pause, a resume and a second worker while the first drains; a tenant above its cap; a full semaphore |
| `scheduler_live` | two instances, one slot, no cap, `MaxStarts` 2, `MaxChanges` 2, `MaxFailures` 1 | two workers that compete for the last slot |
| `connectors` | two or three items, pages of one item (two keys in S3), `MaxFaults` 2, `MaxHistory` 3, `MaxChanges` 3, `MaxUpdates` 4, `PerMinute` 2, `MaxPuts` 2, `MaxFeedFaults` 1, `checkpointEvery` 2, zones of one minute | every pass has several pages with a checkpoint between them, a change before, behind and at the position, and one that expires |
| `cipher` | two replicas with two calls each, `MaxKeys` 2, `MaxShreds` 2 | two first encrypts race, in one process and across processes, around an erasure and another |
| `erasure` | `MaxInFlight` 2, `MaxRequests` 3, `MaxFaults` 2 | records in two topics, a request before, in and after the cascade |
| `store` | two clients with one call each over a seeded database, two tenants, four ids, quota 2, pages of one | one call on either side of the quota, of a foreign key, of a page and of a deadlock |
| `algorithms` | bodies of 7 bytes with windows of 3 and an overlap of 1; the small sets in `MCComponents`; items with two edits; two workers, three runs and two faults of the generator; two workers of the gate | every window has cut points of every kind and a successor; a run fails within, after and between tenants; answers come in either order |
| `services`, `live` | the constants of the instances in `MCComponents`: two or three callers, clocks of 3 to 6 ticks, one or two failures; each service alone with a failure or a kill, and two that start together | every limit is met and passed, and every race has its two sides |

Some cases stay outside these bounds. `Search` runs four of the sixteen sets of
options of a query server, the default among them; all options together make three
million states of their own. `Uploads` has one agent run at a
time: two that overlap satisfy the same properties, in 3.9 million states. A query has
two tokens, so that `maxClauses` is never reached.

Symmetry is used only in `cipher`, whose properties are invariants. Runs whose
system may come to rest because its inputs are bounded do not check for deadlock:
`consumer`, `scheduler`, `scheduler_live`, `store`, `algorithms`, `services`,
`live`, `pipeline_tenants`. There `EveryRecordSettled`, `ShutdownCompletes`,
`CallsEnd` and `WorkEnds` say that nothing is left waiting.

## 5. Fairness

Failures, crashes, users and sources are never fair. What is fair:

- *Consumer*: `Run` of a member that is up takes its next step, the orchestrator
  restarts a process that stopped, the coordinator gives an orphaned partition away
  and expires a dead member.
- *Scheduler*: the reconcile loop ticks, goroutines run, timers fire, a pass ends.
  `Acquire` is strongly fair, because Go serves the senders of a channel in order.
- *Connectors*: the scheduler runs a pass again (`Turn`).
- *Erasure*: the hub ticks, the consumers consume, requests end, and the operator
  re-runs the cascade as `delete.go:70` asks them to.
- *PgStore*: a statement that waits for no lock runs, and Postgres breaks deadlocks.
- *Search*, *Indexing*, *Pipeline*, *Plugin*: the clock and deadlines, the passes,
  the stages' consumers; in `Plugin` the calls of either side and the goroutines of
  `serveOn`. `Return` is strongly fair: a connector's pass is finite, but each of its
  calls disables the return for a while.

## 6. What is proved

The theorems hold for every value of the constants, within the named assumptions:
`ConsumerAssumption`, `SchedulerAssumption`, `BoundsAreNatural` (`TenantCipher`),
`SeedAssumption` and `IdAssumption` (`PgStore`), `WindowAssumption` (`Chunker`); `Pipeline`, `Plugin`
and `Erasure` need none, apart from a natural bound on the failures in
`PipelineProofs!TypeCorrect`. TLC evaluates the assumptions and has checked the
inductive invariants on the instances of the runs.

| theorem | states | inductive invariant |
|---|---|---|
| `Consumer`: `CommitSafe`, `OrderSafe`, `RefinesDelivery`, `TypeCorrect` | `AtLeastOnce`, `OrderUnlessStolen`, `ImplementsDelivery` | `NoGap`, `BatchInv`, `FetchInv`, `CommitInv`, `OrderInv`: everything below a member's position is settled, also for a member that lost the partition; and until one is robbed the sink shows what the log up to the position leaves |
| `Scheduler`: `NoOverlap`, `SlotsExact`, `DrainedOnReturn`, `WorkersCapped`, `TypeCorrect` | `OnePassPerInstance`, `SlotsAccounted`, `ReturnsDrained`, `CapOnWorkers` | `Fresh`, `Tracked`, `Exclusive`, `OneGoroutine`: every goroutine is in the worker map or draining and at most one of an instance is in either; `WorkersCounted`: the WaitGroup counts the goroutines that have not left; `CapInv`: the listing that is being applied respects the cap |
| `TenantCipher`: `Converges`, `NothingOrphaned`, `NeverRecalled`, `TypeCorrect` | `OnlyStoredKeys`, `SealedReadable`, `ForgottenForGood` | `Held`, `OneKey`, `Fresh`, `Gone`, `Out`: what a call holds at each step against the row it read |
| `PgStoreProofs`: `QuotaAlwaysHeld`, `NeverOrphaned`, `TenantsStayApart`; `PgStoreTypes`: `TypeCorrect` | `QuotaHeld`, `NoOrphans`, `TenantsApart`, and `TypeOK` of `PgStore`, which no run repeats | `IInv`: which locks a call holds at each statement (`Placed`, `Locked`), the room a counted quota leaves (`Room`), and that ids are fresh and owned; `TInv`: a statement locks only what it waited for, a call under way was accepted, and the ids suffice |
| `Chunker`: `EveryByteChunked` | `TextCovered` | the next window begins behind the start of the last chunk, not behind its end, and at most the overlap in front of it |
| `ServiceProofs`: `VerifiedIsErased` | `RerunErases` | `Progress`: while the cascade is alone, every store before its step is empty, and nothing is left that could fill one |
| `PipelineProofs`: `SeenIsProduced`, `NotSkipped`, `NoDataLost`, `TypeCorrect` | `SeenMeansProduced`, `NeverSkippedSilently`, `ZeroDataLoss` of `Pipeline` | `SkipInv`, `DataInv`, described below |
| `ServiceProofs`: `ResumesSafely`, `OutcomeKept`, `LeavesNothingRunning` | `ResumeSafe`, `SameOutcome`, `NothingLeftRunning` of `Plugin` | `Stream`: every document made is at the hub, in the stream or in the Send, and those behind a cursor come before it; `Answered`, `Ends`: the status of a call is its outcome's |

`Pipeline` and `Plugin` are instantiated by `MCComponents`, so the runs check their
invariants as parts of `NothingDropped` and `PassesFaithful`.

*The pipeline's argument.* `SkipInv` says that a dedupe key stands for a document
on docs.chunked and that everything ingest has passed was produced, quarantined, or
dropped for such a key. For the index, note that while no commit is lost a stage's
committed offset is its position, so a crash repeats no more than the record in
hand. `DataInv` then says of every stage, tenant and document that what the stage
has written holds the newest of its input up to its position (`Even`), or, after
a crash or a lost answer, what the record in hand leaves (`Repeated`). An upsert
that ingest drops is a repeat of the record in hand, as etags are fresh. Both
theorems about tenants assume `Apart`: no two tenants emit the same version of the
same document. One tenant satisfies it trivially; the run `pipeline_tenants` shows
that without it the statement is false.

`RefinesDelivery` is a refinement: the initial states of `Consumer` are initial
states of `Delivery`, and every step of it is a step of `Delivery` or a stutter.

## 7. What is only model-checked

- Liveness, which needs ENABLED: `EveryRecordSettled`, `StatusFollowed`,
  `ShutdownCompletes`, `Converges`, `EventuallyErased`, `CallsEnd`, `WorkEnds`.
- What recursion over data computes: `ScopeHonoured`, `RankingFaithful`,
  `ContactsComplete`, `PreferencesKept`, and the document mappings
  (`DocumentsCurrent`), which are evaluated on every small input.
- `Atomic`, the refinement from `PgStore` to `Store`: its mapping reads how far each
  of twenty kinds of call is, and its proof would be a step per statement.
- `ListingComplete`: it rests on the existence of a sorted enumeration of a finite
  set of tenants, an induction over data.
- `NothingMissed`: twelve connectors with their own positions and exceptions.
- `CopiesSettle`, `TokensUsable`, `RatesKept`, `SourcesKept`, `ServicesOrderly`,
  `ToolsExact`, `StatusTrue`, `AnswersHonest`: not proved yet.

## 8. What is not modelled

`PROJECT.json` lists every component with its status. Left out are the web
client, the inference services (CLIP, reranker, local inference: stateless model
servers), `platform/tenancy`, `safehttp`, `telemetry` and `config` (no protocol
state, apart from the start of the telemetry), the interfaces of the connector SDK, generated code and deployment. Inside
modelled parts, the following is abstracted: contents and formats of texts (a few
values each), cryptography (symbolic), what the enrichers add, scores (small
integers), lengths of backoffs and intervals, authorisation and audit of admin
calls, request signing and signature checks. A webhook other than Slack's only
starts a pass, as `Begin` does.
