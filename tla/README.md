# Agent OS plugin: TLA+ verification project

This directory models the Agent OS plugin: how events and task cards travel from a
developer's checkout to the central API and back, how machines and checkouts are
identified on the way, how documents get into the local and the central memory and
are found again, how the database schema is migrated, how the MCP server keeps its
companion processes, and how the code and database graphs are refreshed and queried.
The modules are model-checked with TLC on small instances; the safety properties of
the outbox, card sync, the status follower, the registry, the two memories and the
migration between them, the schema migrations, the companions and the hooks' graph
refresh are also proved with TLAPS for every value of the constants.

## 1. Inventory

### The parts and how they interact

```
 card tools ──emit──▶ outbox.jsonl ──drain worker──▶ POST /v1/events/batch ──▶ ops.events
 hooks      ──emit──▶    (+ cursor, dead letters)         │                        │
 identity files ──▶ machine / repository / session registration                    │
                                                          ▼                        ▼
                                                 registry.* tables        read models (tasks,
                                                                          sessions), recent feed
 card tools ◀──apply── task inbox poller ◀── GET /v1/tasks?since=                   │
 terminal   ◀──print── status --follow   ◀── GET /v1/events/recent ◀────────────────┘
```

| part | state it keeps | operations | hard behaviour | correct when |
|---|---|---|---|---|
| outbox store (`outbox/store.py`, `_fsutil.py`) | append-only JSONL, byte cursor with a generation token, dead letters | append, read_pending, dead_letter, write_cursor | torn appends, concurrent workers, deletion and re-creation | no line behind the cursor is unsettled |
| emission (`outbox/emit.py`) | per-process cache of the identity | emit_event | best effort, stale ids | never blocks a card operation; events carry ids the registry knows |
| drain worker (`outbox/drain.py`) | registration state, the batch in hand | register, drain_batch, heartbeat, run_forever | time-outs with late arrival, retries, crash between dead letter and cursor | each event is settled one way, eventually |
| identity files (`contracts/identity.py`, `outbox/identity.py`) | machine and repository ids on disk | bootstrap, claim, reclaim | concurrent first run, wipe and re-mint | one id per machine and checkout |
| central ingest (`services/api/app.py`, `store.py`) | `ops.events`, `ops.ingest_errors` | ingest_batch | duplicates, concurrent requests, commit before the read models | idempotent by event id |
| central registry | machines, repositories, sessions | upserts, ownership guard, machine binding | natural-key race, re-minted machine | one row per checkout, a registered worker is known |
| task read model | `registry.tasks` with version and rowversion | _materialize_task, list_tasks | out-of-order events, concurrent INSERT, lost materialization | the newest version wins, a change is visible to every cursor |
| card tools (`mcp/card_tools.py`) | SQLite cards | create, update, complete, apply projection | commit, read back and emit are separate steps | only committed states are reported; one card per global id |
| task inbox poller (`mcp/task_inbox.py`) | cursor file per source | poll_once | pages change while they are applied, failure in the middle | nothing behind the cursor is missing |
| status follower (`services/m3_client`) | cursor on the server, walk in progress | walk_new_events, follow loop | growing feed, bursts, restart | no event dropped or printed twice |
| sync and graph companions (`mcp/sync_server.py`, `graph_server.py`) | child processes, pidfile, owner file per port | start, health tick, recover a port, shutdown | check-then-act on pidfile and port, pids used again, killed servers | one drain, no orphan, nothing innocent terminated |
| hook refresh (`scripts/hook_common.py`) | dirty marker, lock file, fingerprint | mark_dirty, refresh_graphify | stale lock, change during a refresh, killed hook | a change is eventually in the graph |
| database graph (`mcp/db_tools/build_db_graph.py`, `mcp/graph_io.py`) | `db_graph.json`, pooled connection | refresh, targeted build | schema changes between reads, two publishers, lost connection | what is published can be read and used |
| graph queries (`mcp/*_graph_tools.py`) | – | paths, subgraph, dependencies, callers, relationships | depth, limits, cycles | the answer is what the definition says |
| local and central memory (`mcp/memory/store.py`, `services/api/memory_store.py`) | documents, chunks, vectors | ingest, query | stale plans, key and hash races, deadlock, failing documents | no text reported as kept is lost; an answer is complete |
| memory ETL (`scripts/memory_etl_sql_server.py`) | – | extract, preview, load | both stores change meanwhile | only adds, loses nothing, preview honest |
| memory core (`memory_core`) | – | linearize, chunk, fuse | cycles, budget and overlap, rank ties | nothing lost, budgets kept |
| migrations (`database/migrate.py`) | `ops.schema_migrations` | apply_pending | concurrent runs, death between statements, edited files | all or nothing, in order |
| credentials (`services/api`) | `registry.credentials` | issue, revoke, resolve | revocation racing a request | a revoked key is refused |
| contracts, installer, viewer, prompts | files | generation, layout | – | – |

`PROJECT.json` lists every part with its status, and under `hazards` the places
where this code is hard to test.

## 2. Modules

| module | what it is |
|---|---|
| `Delivery` | abstract specification: a queued event is settled once, centrally or in the dead letters, and in the end |
| `Outbox` | outbox file, producers, drain workers and batch ingest; implements `Delivery` |
| `OutboxRecreate` | `Outbox` plus deletion and re-creation of the file |
| `CardSync` | source cards → events → `registry.tasks` → pollers → target cards |
| `Follow` | `status --follow` against the growing feed |
| `Registry` | identity files, their cached copies, registration, remapping, machine binding |
| `MemoryDocs` | documents, batches and the plan of an ingest, shared by both stores |
| `LocalMemory`, `CentralMemory` | ingest into the SQLite corpus and into the hub's tables |
| `MemoryEtl` | the migration from one to the other; composes both stores |
| `Conversation`, `Chunking`, `Retrieval` | pure algorithms of the memory core |
| `MemoryCore` | calls that use them: an export, a text, a query against a changing corpus |
| `Migrations` | concurrent runs of the migration tool |
| `Companions` | MCP servers, their drains and graph servers, and the process table |
| `DbCatalog`, `DbGraph` | catalog rows and the graphs built from them; refresh and publication |
| `CodeGraph` | the hooks' dirty marker, fingerprint and lock |
| `GraphTools` | composition of the graph subsystem |
| `GraphQueries`, `GraphSearches` | the searches as operators; what they should answer |
| `OutboxProofs`, `CardSyncProofs`, `FollowProofs`, `RegistryProofs`, `MemoryProofs`, `MigrationsProofs`, `CompanionsProofs`, `GraphProofs` | TLAPS proofs |
| `MC*` | instances for TLC (model values, symmetry sets, samples); values are in the `.cfg` files |

### Outbox

`outbox` is the file as a sequence of chunks, one per append. A whole line ends
with a newline (`nl`); an append cut short leaves a fragment onto which the next
append is glued, and such a line does not parse. `cursor` holds an offset, counted
in chunks, and the generation token, here the first `Sample` chunks themselves
(event ids are unique, so the prefix stands for its hash). `ReadCursor` is
`read_cursor` with both guards. A worker goes offline → ready (`Register`) →
posting (`ReadPending`) → answered (`Serve`, then `Receive`) → resolving
(`WriteDeadLetter` one record at a time) → ready (`WriteCursor`). `TransportFailure`
covers refused connections, errors and time-outs; on a time-out the request stays
in `late` and `ServeLate` may still apply it. `TooLarge` is the 413 answer. An
`OSError` in the middle of settling ends the process, like `Crash`. What the server
stores is `central`, `ingestErrors`; `Rejectable` are the events it rejects.

### CardSync

One source repository and one target. `sourceRow[c]` is the history of committed
statuses of a card, its length the version. An operation commits (`CreateCard`,
`UpdateCard`, `CompleteCard`), reads the row back (`ReadBack`) and emits
(`EmitTaskEvent`) in separate steps, so another writer may lie between them;
`LoseEvents` is a process that dies before it emits, or a disabled outbox. Delivery
is a set (`emitted`): order and repetition are the business of `Outbox`.
`MaterializeUpdate`, `MaterializeMiss` and `MaterializeInsert` are the statements of
`_materialize_task`, interleaved up to `MaxIngests` requests; `SkipMaterialize` is a
materialization that fails or is lost to a crash after the events were committed.
`seq` is the rowversion. A poller fetches a page (`StartPoll`, `NextPage`), applies
it task by task (`ApplyUpdate`, or `ApplyMiss` and `ApplyInsert` as the SELECT and
INSERT of `apply_task_projection`), writes the cursor (`WriteInboxCursor`) or fails
anywhere (`PollFails`). Statuses are mapped with `local_status_to_sync` and back.

### Follow

An event is its `ingest_seq`. `Page(after)` is `recent_events`; `FetchPage` is one
round of `walk_new_events`, with the server free to ingest between two pages.
`WalkEnds`, `NewOnPage` and `NewCursor` are the conditions and the cursor of the
walk. `Start`, `Tick`, `PrintEvent`, `PutSyncCursor`, `PutFails`, `FetchFails` and
`Stop` are the loop of `_run_follow`.

### Registry

One host with checkouts `Roots`. `machineFile` and `repoFile` are the identity files;
`bootstrap_identity` mints what is missing (`_ensure_identity` claims a file
atomically, so this is one step). `WipeMachine` and `WipeRepo` are the user deleting
`~/.agent-os` or a checkout's `.agent-os` (with the outbox in it). Hooks emit with the
ids of the files, an MCP server with the ids it cached. A worker loads the ids once
(`StartDrain`), then registers machine, repository and session, starting over
whenever a request fails or its answer is lost. `upsert_repository` is two steps: up
to the natural-key SELECT (`LookupRepository`), and from the INSERT on
(`InsertRepository`), run by a handler that outlives its client; the INSERT lands, or
loses the natural-key race, or finds the id under a re-minted machine and re-points
the row. `DrainEvent` rewrites the worker's own id to the canonical one and the
server rejects events that are not of the key's machine.

### Memory

Both vector memories decide the fate of a document from rows they read earlier, and
write later. `MemoryDocs` has what they share: `Batches` (the documents of one call),
rows, the classification by id (`Classify`: write, update, remove, leave) and the plan: a
job per document, of which `WorkOf` are the positions that need work and `NextJob` the one
whose turn it is (all writes, then updates, then removals, each in the order of the
batch). A text stands for chunks, vectors and hash together.

`LocalMemory` is one SQLite file under several MCP servers. `IngestDocuments` reads and
plans, `BeginWrites` is the model call and the first statement of the deferred
transaction (which fixes the snapshot unless it is a write), `WriteDocuments` is the
transaction: a stale snapshot fails every savepoint, otherwise any one document may
fail in its own. `CentralMemory` is the hub: `Receive` and `Preload` are the two
SELECTs, then each document is a transaction of its own: `DeleteDocument` locks the row
it replaces, `InsertDocument` commits, `IntegrityError` is a collision of key or hash,
`DeadlockVictim` the choice SQL Server makes when two wait for each other,
`UpdateDocumentMetadata`, `RemoveDocument` and `DocumentFails` the other ends.
`MemoryEtl` composes the two with the migration between them: `Extract` is SQLite's
backup and the first SELECT on the hub, `PreloadByHash` the second, `LoadDocument` one
INSERT per document with the reasons it may fail; `Preview` is what `--dry-run` prints.

### Memory core

`Conversation` is the linearization of an export, one `Visit` per turn of the loop;
`Chunking` cuts texts given as token counts (`Segments`, `Pack`, `Seed` and `Trimmed`
for the overlap, `AddMessage` for conversations); `Retrieval` has the pool sizes,
reciprocal rank fusion and the quota per document. `MemoryCore` drives them: every
export, every text and every query is a behaviour, and a query reads vector list,
full-text list and rows in three statements between which `Ingest` changes the corpus.

### Migrations

A run goes `CheckBootstrap`, `CreateTable`, `DiscoverMigrations` (reads every file),
`GetApplied` (refuses a checksum mismatch) and then `ExecuteBatch` per batch and
`RecordMigration` per migration. `open` are the objects a connection has created and
not committed; a statement on an object that is open elsewhere waits. `Abort` is an
error or a death at any point. Files may be edited at any time (`Edit`).

### Companions

The operating system is a process table: pids that are used again, zombies until their
parent polls them, one process per port, and the signal a child gets when its parent
dies. The drain half has `LookForDrain` and `SpawnDrain` (the pidfile check and the
spawn are two steps), `CheckSyncWorkerHealth`, `PidfileExpires` (twelve hours), the
graph half `LookAtPort`, `ReclaimPort` and `Relocate` (the outcomes of
`_resolve_port_conflict`), `SpawnGraphServer`, `BindPort`, `CheckGraphServerHealth`.
Servers end by `Shutdown` or by `Killed`. The two halves share no state: a behaviour
has one of them (`mode`).

### Graphs

`DbCatalog` has `build_graph`, the targeted build and the lookups of the `db_*` tools as
operators on catalogs. `DbGraph` is the refresh: the TTL, the pooled connection and its
probe, six queries between which `Ddl` changes the schema, and publication through a
temporary file whose name all builders share (`OpenTmp`, `CloseTmp`, `Replace`).
`CodeGraph` is the hooks: `MarkDirty`, then `GitStateChanged`, `NeedsRefresh`,
`AcquireLock` or `BreakLock`, graphify, `ClearDirty`, `SaveFingerprint`, `Unlock`;
`KillHook` leaves the lock and an orphaned graphify behind. `GraphTools` puts the parts
together. `GraphQueries` are the searches with their depth and limits; `GraphSearches`
compares each with a definition that does not search. The searches are recursive, so
they stay out of `GraphTools`, which is proved about.

## 3. Runs

| run | shows | bounds |
|---|---|---|
| `outbox` | `NoLineSkipped`, `SettledOneWay`, `OnlyBadLinesDiscarded`, and `DeliveryImplemented`: `Outbox` implements `Delivery`, liveness included | 3 events (one rejected), 2 workers, batches of 2, one torn append, failure and crash |
| `outbox_recreate_quiet` | `NoLineSkipped` when the file is re-created while no worker holds a batch; `DeadLetteredOnce` for one worker that is never killed | 5 events (one oversized, one rejected), batches of 3 over a server limit of 2, 2 torn appends, 2 failures or re-creations |
| `outbox_recreate_racy` | *violation* of `NoLineSkipped` when the file goes between read and cursor write | 2 events |
| `cards` | `NoInventedState`, `NewestWins`, `CursorCovers`, `VersionsMoveForward`, `Converges` with concurrent requests, lost events and failed polls | 2 cards, 2 writers, 3 versions over all cards, 2 requests at a time, pages of one, one loss, one failed poll |
| `follow_feed` | `NoDrop`, `PrintsForward`, `ShowsEverything` | pages of 2, up to 6 positions, one failure and one restart |
| `registry` | `RegisteredIsKnown`, `EventsUnderTheirCheckout`, `Registers` | 2 checkouts, one worker started twice, 2 machine and 2 repository ids, admin and machine keys, one lost request |
| `memory_stores` | `AnswersTrue`, `RepeatedIngestHeals`, `MigrationFaithful`, `OneSource` | 2 documents, 2 texts, 2 sets of metadata; 2 servers, or 2 API threads and the migration; one fault |
| `memory_core` | `ThreadLinear`, `ChunksSound`, `BestFirst`, `ExactUnlessDisturbed` | every export of 3 nodes, every text of up to 4 of 6 paragraphs, 3 chunks in 2 documents |
| `migrations` | `AllOrNothing`, `RecordedComplete`, `InOrder`, `OwnHistory`, `RunsEnd` | 2 runs, 3 migrations (one without a transaction) of 2 batches, 2 texts of each |
| `companions` | `ChildrenAccounted`, `SoleDrain`, `TerminatesOnlyWedged` | 2 servers, 4 pids, 2 ports |
| `graphs` | `DbGraphSound`, `TargetedExact`, `CodeGraphSound`, `SearchesExact`, `DirtyIsServed` | 2 builders, one schema change, one fault; 2 hooks, 2 edits, one failure and one kill; every graph of 3 nodes and 3 edges, every catalog of 3 tables with 2 keys and 2 dependencies |
| `graph_relationships` | *violation* of `RelationshipsShowKeys`: no adjacent table is ever listed | the same catalogs |

A property of several named parts (`VersionsMoveForward`, `AnswersTrue`,
`MigrationFaithful`, `OneSource`, `ChunksSound`, `BestFirst`, `ExactUnlessDisturbed`,
`ChildrenAccounted`, `DbGraphSound`, `TargetedExact`, `CodeGraphSound`, `SearchesExact`)
is their conjunction; each part stands by itself in the module with what it says. The
type invariants of all modules with proofs are proved; those of `Outbox`, `Registry`
and `Migrations` are not run.

The bounds are the smallest in which the interesting cases meet: a second worker
while the first holds a batch, a batch cut by the window and by the server limit, a
fragment between two lines, a version overtaken by two others, a page that changes
while it is applied, a burst of more than one page, a checkout whose id was minted
twice, two documents that exchange their texts, a run that dies between a batch and its
record while another waits, a pid on record that belongs to somebody else, a lock broken
while its owner's child still writes. What would need more of the same is covered by
the proofs where there are some: one worker in the run of the registry, two servers in
that of the companions, three versions in that of the cards are any number in the
proofs. The limits of `memory_core` and `graphs` are those of the
code scaled down: 4096 candidates, a pool of 50, 5 times `top_k`, a rerank pool of 50,
10 paths, 100 callers become one-digit numbers, so that queries meet them; how the
limits relate to each other is `PoolAssumption`. `Local` in `MemoryEtl` keeps local ingests apart
from traffic on the hub: the two meet only in the snapshot that `Extract` takes, which
is any corpus (`Corpora`) either way.

`CHECK_DEADLOCK FALSE`, in all runs but `memory_core` and `migrations`: the number of
events, edits and faults is bounded, so an instance comes to rest when they are used
up; a program that waits for work is not deadlocked. Liveness is asked for explicitly
instead.

Two runs are violations: each checks what a comment or a doc string says and finds a
behaviour of the code that contradicts it; `findings` quotes the lines.

Some properties are weaker than one would like because the code is. They name the
exception: `SoleDrain` the three events that let two drains run (`overlap`),
`TerminatesOnlyWedged` the reuse of a recorded pid (`excused`), `NothingSwallowed` a
second document of the batch with a text whose first one failed, `RepeatedIngestHeals`
the text that a batch of exchanged documents loses until it is ingested again,
`PublishedWhole` two writers of one temporary file (`raced`), `NothingForgotten` changes
that happen while graphify runs (`missable`), `NewestWins` and `Converges` what was lost
or skipped.

Other disagreements met on the way, found by changing one constant of a run or by
dropping one of those exceptions:

* `Sample` longer than the file: a bad line is dead-lettered twice
  (`outbox/store.py:111` calls the head "stable within one incarnation").
* `Pollers = {q1, q2}`: two cards for one global id, and a target that stays behind an
  update for good.
* `NewestWins` for cards in `skipped` too: with two requests at a time the INSERT of
  the newer version fails on the key and the older one stays.
* `Limit = 1, MaxPages = 2` in `follow_feed`: a walk cut by max_pages drops events,
  against the comment at `services/m3_client/follow.py:44`. A follower started on
  an empty feed never shows the first events.
* `WipeWhileRunning = TRUE`: an event is stored under a repository id the registry does
  not know.
* A piece of an oversized message is over the token budget by its "role:" label
  (`memory_core/chunking.py:8`); `MessagesWithinBudget` allows for it.
* The tools drop the warning of a refresh that failed, which `mcp/graph_io.py:26` says
  the caller surfaces.
* `impact_analysis` lists under `modules_affected` what the symbol uses, not what uses
  it.

Hazards that no property covers and that are not in the list of `PROJECT.json`: a
read window without a newline (`outbox/store.py:280`); an unsynced outbox after a power
cut (`outbox/store.py:151`); `registry.agent_sessions.agent_id` NOT NULL
(`services/api/store.py:606`) and the order of `agent.started` and `agent.finished`
(`:596`, `scripts/hook_common.py:233`); the ownership guard under a re-minted machine
(`services/api/store.py:237`); the reclaim of a half-written identity claim
(`contracts/identity.py:348`); a server that defers to another one's drain for good
(`mcp/sync_server.py:325`); the registry of repositories of the graph UI
(`mcp/graph_server.py:129`); a migration added under a lower number
(`database/migrate.py:553`).

### Fairness

* `Outbox`: weak fairness of each worker's own progress. `run_forever` loops and a
  dead worker is started again by the companion; a failed request is retried, and
  failures are bounded ("failures end").
* `CardSync`: a writer that committed goes on to emit, the server materializes what
  it has committed, pollers keep polling. `Converges` is promised of
  behaviours in which no event is lost and no INSERT of a card's first row fails, and
  for one poller: the code does not guarantee it otherwise.
* `Follow`: the loop goes on and a stopped client is started again.
* `Registry`: `run_forever` retries registration, handlers run to their end. Nothing
  forces events, wipes, key changes or restarts.
* `CodeGraph`: a hook that runs goes on, the harness starts one at every prompt and
  stop, so a session that goes on starts them again; a lock file that stays grows old.
* `Migrations`: a run goes on until it ends, and a statement that can run again and
  again runs in the end (strong fairness of `ExecuteBatch`): SQL Server queues those
  that wait for a lock, so none is overtaken for ever.

## 4. Proofs

Eight modules hold proofs, of every step down to its leaves, from the assumptions that
the specifications make of their constants:

| assumption | says |
|---|---|
| `OutboxAssumption` | finitely many events; a positive batch, server limit, window and sample; bounds that are natural numbers |
| `CardSyncAssumption` | a positive page, number of versions and of requests; bounds on faults that are natural numbers |
| `FollowAssumption` | a positive page and number of pages; a feed that starts with at most as many events as it ends with |
| `RegistryAssumption` | Boolean switches, bounds that are natural numbers |
| `MemoryAssumption` | finitely many documents; `Empty` is no text, `EtlMeta` no metadata of an ingest, of which there are some; a bound on batches that is a natural number |
| `RecreateAssumption` | a Boolean switch |
| `ConversationAssumption` | `None` is no node |
| `ChunkingAssumption` | a positive budget, and an overlap within it; paragraphs have sentences and sentences words, of at least one token each (what is blank is skipped, and every text that is not blank has a token) |
| `PoolAssumption` | limits that are natural numbers, positive factors; `top_k` and the rerank pool are within what the vector index may return |
| `CallAssumption` | finitely many nodes and chunks; chunk ids are numbers, for their order; a label and a bound on paragraphs that are natural numbers |
| `LocalAssumption`, `CentralAssumption`, `EtlAssumption` | bounds on ingests, requests, faults and migrations that are natural numbers |
| `MigrationsAssumption` | numbers of migrations, batches and texts, the last two positive |
| `CompanionsAssumption` | ports are positive numbers, the configured one (1) among them; `None` is no process and no server |
| `CodeGraphAssumption` | `Unknown` is no version; bounds that are natural numbers |
| `DbGraphAssumption` | there is a table; bounds that are natural numbers |

The sets of events, cards, workers, pollers, checkouts, texts, servers, requests' handlers,
processes, hooks, builders, tables and routines and the bounds on faults are arbitrary. What a single theorem assumes beyond that is stated
in it and named below. For each property the tables of `theorems` in `PROJECT.json` give
the theorem that proves it.

### OutboxProofs

| theorem | states |
|---|---|
| `TypeCorrect` | `Spec => []TypeOK` |
| `NoLineEverSkipped` | `Spec => []NoLineSkipped` |
| `AlwaysSettledOneWay` | `Spec => []SettledOneWay` |
| `OnlyBadLinesEverDiscarded` | `Spec => []OnlyBadLinesDiscarded` |
| `OutboxImplementsDelivery` | the initial states and steps of `Outbox` are those of `Delivery`, or leave its state alone |

None of the three properties is inductive. A worker computes the cursor it will write
when it reads a batch, and writes it many steps later, after other workers have read
the same lines, moved the cursor and settled some of them. The invariant `Inv` says
what holds in between:

* `LinesOK`: an event that was never appended, or is oversized, is in no line, and an
  event is in one line;
* `RecordedOK`, `DiscardedOK`: what is recorded centrally (or still may be, by a late
  request) was a line that parses, what is dead-lettered is oversized, glued onto a
  fragment or rejected;
* `CursorOK`: the cursor is the end of a line and every line before it is settled;
* `BatchOK`: what a worker sends parses, what it holds as junk does not, its target
  offset is the end of a line, and an answered batch is stored;
* `BatchCovers`: every line before the offset a worker is about to write is settled or
  still owed by this worker, whatever the cursor was meanwhile.

Settled lines stay settled, so the conjuncts of other workers survive a step; the
offsets are ends of lines, so a line parses the same way in every read. When the
generation token does not match, reading starts over at 0, which re-sends and skips
nothing.

The file only grows in `Outbox`. Two theorems are about `OutboxRecreate`, in which it is
deleted and created again:

| theorem | states |
|---|---|
| `QuietRecreationSkipsNoLine` | `Racy = FALSE` implies `RSpec => []NoLineSkipped` |
| `OneDeadLetterPerLine` | with one worker, `Racy = FALSE`, `MaxCrashes = 0` and `Sample = 1`: `RSpec => []DeadLetteredOnce` |

`Inv` does not survive a deletion: an offset kept from the old file is the end of no line.
`RInv` says instead that the cursor is `Current`, the end of a line of this file with all
lines before it settled, or `Stale`: its token is not the one of this file, nor will
be, so that the next read starts at 0 (`StaleIsReset`). What a worker
holds (`Held`) is owed to this file, because the file does not go away under it. The
hypothesis is needed: without it TLC finds the skipped line (`outbox_recreate_racy`).

For `DeadLetteredOnce`, `Once` says that no line the next read would start with has a dead
letter, but for those that the worker has just written (`Pending`); so a repeated read finds none
of them. What is appended meanwhile must not move that start (`ReadCursorStays`), which
is why the token has to be decided by the first chunk: with a longer sample, a short
file changes its own token as it grows, is read from 0 again and a bad line leaves a second
dead letter. The other hypotheses are needed for the same reason: two workers read a
line twice, and one that is killed while it settles its batch reads it again.

### CardSyncProofs

| theorem | states |
|---|---|
| `CardSyncTypeCorrect` | `Spec => []TypeOK` |
| `NothingInvented` | `Spec => []NoInventedState` |
| `CentralKeepsNewest` | `Spec => []NewestWins` |
| `CentralGoesForward` | `Spec => CentralMovesForward`: a central row never loses a version, and a change moves it past every cursor |
| `CursorCoversApplied` | `Spec => []CursorCovers`, assuming `OnePoller` |
| `VersionsGoForward` | `Spec => VersionsMoveForward`, assuming `OnePoller` |

A status passes through a writer's memory, an event, a request in the middle of its
statements, a central row, a page and a target card, and is mapped twice on the way.
`Typed` says of each of these places that what it holds is a version that was committed
with this status (`Genuine`, `GenuineRow`), and that sequence numbers are not ahead of
`changeSeq`; this is inductive because a committed version is never rewritten. The first
four theorems hold for any number of pollers.

The stored cursor is about one poller. A page is a picture of the table at one moment,
and the table moves under it while it is applied task by task. `Covered` is what a poll
can rely on all the same: no two rows carry the same change (`SeqsApart`); a row of the
page is, or was, the row of its card (`RowsKnown`); every row between the cursor and a
row of the page, that still is where it was, is in the page (`Complete`: the rows that
moved have moved beyond it); and what has been applied of it is in the target, while
what is left is not older than the target (`Applied`). So when a page is finished, and
when the last page is short, what is not beyond the new cursor has arrived.
`OnePoller` is what the code relies on (one poller per installation); with two, TLC finds
a target that stays behind an update for good.

### FollowProofs

| theorem | states |
|---|---|
| `FollowTypeCorrect` | `Spec => []TypeOK` |
| `FollowPrintsForward` | `Spec => []PrintsForward`, assuming `WalksComplete` |
| `FollowDropsNothing` | `Spec => []NoDrop`, assuming `WalksComplete` and `InitialEvents >= 1` |

The client walks backwards from the newest event while the feed grows at the other end.
`Collecting` relates the walk to the feed: what is between the cursor and the top of the
walk has been collected or is older than the last page, and as long as something older
is left, each page so far was full. The last part counts: a full page has `Limit` events,
a feed has at most `MaxSeq`, so a walk of a feed with `MaxSeq <= (MaxPages - 1) * Limit`
(`WalksComplete`) is never cut off. `Phases` says which part of the state is in use in
which part of the loop, and `Behind` that nothing printed or waiting is beyond the
cursor. `Based` is for `NoDrop`: a started client has a cursor. Both hypotheses are needed
and are about the code: a walk cut by max_pages prints the newest events and never the
older ones, and a client started on an empty feed has no baseline and takes the first
events for old ones; TLC finds both (section 3).

### RegistryProofs

| theorem | states |
|---|---|
| `RegistryTypeCorrect` | `Spec => []TypeOK` |
| `RegisteredWorkersAreKnown` | `Spec => []RegisteredIsKnown` |
| `EventsStayWithTheirCheckout` | `Spec => []EventsUnderTheirCheckout`, assuming `WipeWhileRunning = FALSE` |

The difficulty is the re-point: `_update_repo_machine` overwrites machine and path of
a row that other workers have already taken for canonical. It is harmless only because
an id belongs to one checkout for good, and that has to be known of every place an id
can be in: the file, the row, a handler between SELECT and INSERT, a worker. `Inv` is

* `HomeOK`: an id used anywhere is used for one checkout, and is at most the last one
  minted, so that a new id is used nowhere;
* `WorkersOK`: what each step of `_register_once` leaves behind, up to the session;
* `SessionsOK`: two living runs have different sessions, so that no worker overwrites
  the session of another;
* `HandlersOK`: a handler whose client still waits has the client's checkout; a
  handler may outlive its client, and the next run of the worker has another session.

`TypeOK` needs `WorkersOK`: that the id events are rewritten to is an id at all. The
six steps of registration and draining share what they leave alone (`Served`), from
which `HomeOK`, `SessionsOK`, `HandlersOK` and `RowsStay` (a row stays a row of its
checkout) follow once; what each does to the worker that moves is proved step by step.
The third theorem adds `CopiesOK`: the ids held by workers, by the cache and in the
outbox are the one in the file. Its assumption is needed: with `WipeWhileRunning`
TLC finds an event under an id the registry does not know.

### MemoryProofs

| theorem | states |
|---|---|
| `AnswersAreTrue` | `Spec => []AnswersTrue`: every summary accounts for each document once, and the hub swallows no text it reports as kept |
| `MigrationIsFaithful` | `Spec => []MigrationFaithful`: types, nothing lost, the dry run honest |
| `CommitsHaveOneSource` | `Spec => OneSource`, the action property of both stores and the migration |
| `IngestingAgainHeals` | `Spec => []RepeatedIngestHeals`: ingesting a batch again, as often as it has documents, stores all its texts |

The invariant `Inv` has one part per writer. `Requests` says of a request on the hub that
its plan fits its batch (`Fits`), that each of its documents is either still to do or
tallied, once (`TalliedOnce`), and `Kept`: every text it was sent has been stored since it
came, or a document that is still to be written has it, or one that failed or met its
primary key. `Kept` is what makes `NothingSwallowed` inductive: an `IntegrityError` counts
a document as unchanged, and it is so because the row it collided with was stored at that
moment (`Backed`: what is stored while a request runs has been seen by it), or because
the key was taken, which is the case the property excuses. That a document left out of
the plan has its text stored or written by another one of the batch is `LeftAlone`, which
needs the first of the documents with one text (numbers are well-founded, `LeastNat`).
That a commit leaves rows locked by others alone carries `held \subseteq DOMAIN central`.

`Ingests` is the same for the local store, where one commit settles all that is left
(`CommitTallied`, `SavedRows`); that a version is at most the number of documents handed
over needs that every busy server has yet to commit once (`Busy`). `CommitHolds` goes
through the five kinds of job: a document the transaction does not report as failed is in
the store as it was sent, unless the rows the plan was made from have changed.

`Migrating` relates the migration to a hub that changes under it. `EtlCovered` says that
all it has passed was reported as failed, or found by id, or its text has been on the hub.
`Announced` is why the preview is honest: of the documents left, the dry run has named
those that can still be loaded, the first of each text, and of the ones passed exactly
those inserted; an insert takes a text out of what can be loaded, for all later documents
at once. It holds while nobody else writes (`Known`: the migration knows all the hub
has), which also shows that an undisturbed insert cannot collide.

`Spec` keeps the bound named in section 3: local ingests do not run beside hub traffic.

`RepeatedIngestHeals` holds of any rows a hub can have, so `Inv` is needed only for their
type. A document is settled when its row has its text. A pass keeps what is settled
and settles what it writes (`AloneIs`), because no other row has a text that is
written: one that was there would have had it reconciled, and one that the pass has
written before has another text (`WrittenApart`, `WriteStep`). As long as a text of the
batch is missing something is written (`MissingIsWritten`, from `LeftAlone`), so with each
pass one more document at least is settled (`PassAdvances`), or the batch is complete
and stays so, since then nothing is written any more. When all are settled it is complete.
The loops over jobs and passes are taken apart like those of the chunker below.

The same module holds the theorems about `MemoryCore`:

| theorem | states |
|---|---|
| `ConversationsAreThreads` | `CallSpec => []ThreadLinear`: whatever links an export has, the walk ends with a thread |
| `AnswersAreBestFirst` | `CallSpec => []BestFirst`: types, what both searches rank better is fused better, and what is left out of an answer is left out for better ones |
| `QuietAnswersAreExact` | `CallSpec => []ExactUnlessDisturbed`: an undisturbed query gets all it asked for and nothing its filter excludes |
| `ChunksAreSound` | `CallSpec => []ChunksSound`: chunks of prose and of conversations are within the budget (plus a label), in order and complete |

`CallInv` has one part per stage of a call. `WalkInv` is the walk: every node of the chain
is the link of the one before it, no node is there twice, and the walk stands at the
link of the last. A chain without repetition is no longer than there are nodes
(`ChainFits`), which bounds the messages of a thread as well (`MessageInv`).

`QueryInv` says what a query holds between its reads: lists without repetition
(`Candidates`), of ids that passed the filter and as many as the pool admits, unless another call has
changed the corpus (`VectorInv`, `FusedInv`); then rows whose number is at least what was
asked for (`AnsweredInv`). `PoolsSuffice` is the arithmetic behind it: whatever the
arguments, what is asked for fits what is fused, and that fits what each search
returns; it uses how the limits relate to each other (`PoolAssumption`).

The lemmas are about the operators. Sorting is a choice of an order, so one has to exist:
`SortedExists` goes by the least number of ids that could not be sorted and takes away
the last of them (`LastByScore`). Scores are whole numbers because the scale is a multiple
of every denominator (`ScaleExact`); so a better rank is a larger share
(`ShareFollowsRank`) and `Fuses` follows. The loops that keep some of a list, for the rows that still exist and
for the quota, are recursive functions: `GatheringExists` shows that such a
function exists and `Gathering` that it keeps, in order and once, what it took; in
`QuotaKeepsBest` neither the number asked for nor a document's quota is exceeded on the
way, so what was refused was refused with exactly that many better ones kept. These
inductions run over the places of one list, by its least counterexample (`LeastNat`).

Chunks, for any budget, overlap and text, as long as it is and however it has to be cut.
`ChunkInv` says what a call has chunked so far. For a text it is `Packed`: every emitted
chunk is an interval of the segments within the budget (`ChunkOf`), each one goes on
where the one before allows (`Follows`), and the open chunk is never empty, is within
the budget and already follows the last one emitted. A step of the packing keeps it
(`PackStep`) because the seed goes back no further than the chunk it comes from
(`SeedIs`) and trimming it always ends with room for the next segment (`TrimmedIs`,
which needs that no segment is over the budget, `SegmentsAre`). For a conversation it
is `Streamed`: the open chunk holds the last messages and the chunks before hold all
others (`ChunkedInOrder`), which two streams that meet keep together
(`ChunkedAppend`); the pieces of an oversized message are at least one. The loops of the
chunker are folds written as recursive functions: `LoopExists` shows that there is such a
function, `UpTo` is the induction along it, and sums of a list are told from each other
by their running totals (`Sums`, `TokensIs`).

### MigrationsProofs

| theorem | states |
|---|---|
| `MigrationsTypeCorrect` | `Spec => []TypeOK` |
| `MigrationsAllOrNothing` | `Spec => []AllOrNothing` |
| `MigrationsRecordedComplete` | `Spec => []RecordedComplete` |
| `MigrationsInOrder` | `Spec => []InOrder` |
| `MigrationsOwnHistory` | `Spec => []OwnHistory` |

Any number of runs, migrations, batches and texts. The question is why a run may go on
from a snapshot of `schema_migrations` that others have made stale. `Inv` says what a
run that applies something can rely on (`Applying`): every earlier migration is recorded
with the text it read (`History`: a record is never changed once it is there); the
batches it has executed are in the database, and those of a transactional migration are
exactly its uncommitted changes, of a migration nobody has recorded (`Executed`); and
two runs never share an uncommitted object (`OpenApart`). So a rollback removes only
what the run itself built, a second run of the same migration fails instead of building
on the first one's objects, and the record and the objects become permanent together.
The properties themselves are the remaining conjuncts. `TypeOK` needs that a run that
applies something has a migration. The numbers are well-founded (`FirstPending`), which
is all that is needed of the loop over the pending migrations.

### CompanionsProofs

| theorem | states |
|---|---|
| `CompanionsAccounted` | `Spec => []ChildrenAccounted`: types, and no companion without a server that knows it |
| `OneDrain` | `Spec => []SoleDrain` |
| `RecoveryHarmsNoOther` | `Spec => []TerminatesOnlyWedged` |

Servers decide from a pidfile, an owner file and a port, and act in a later step; in
between, processes end and their pids are used again. `Handles` ties the two views of a
child together: a handle is about a child of the server that holds it, dead or alive, and
a living companion is the child its parent has a handle of, so no signal sent through a
handle reaches somebody else. `Vacant` and `OneKind` say that a server that is about to
start something has nothing of that kind. `Named` is what keeps the drain single as long
as the pidfile has not been defeated: it names every drain, and two servers are never
between the check and the spawn at the same time (the step in which a second one gets
there sets `overlap`). `Recorded` is what port recovery relies on before it terminates
the process of the owner file: unless a pid was used again, that process is a graph
server of the port, a dead process or a child, and while a server resolves a conflict no
healthy graph server listens there. `Retirement` says that a server that gave up on its
drain stays up without one.

### GraphProofs

| theorem | states |
|---|---|
| `GraphTypeCorrect` | `Spec => []TypeOK`, of `GraphTools` |
| `CodeGraphIsSound` | `Spec => []CodeGraphSound` |
| `DatabaseGraphIsSound` | `Spec => []DbGraphSound` |
| `TargetedBuildIsExact` | `Spec => []TargetedExact` |

Any number of hooks, builders, tables, routines, schema changes and faults. The
invariant `GraphInv` joins the parts of the two graphs, `CodeInv` and `DbInv`.

Code graph. `NothingForgotten` is about a state at rest. `Fresh` is what has to be known
on the way there: as long as nothing `missable` has happened, the graph is current or
something says that it is not (`Marked`: the dirty marker, an edit whose hook has not
run, a fingerprint that differs, a hook about to mark), the hook that refreshes has read
the current sources, and no graphify is left over from a killed hook. `Locked` is mutual
exclusion: as long as no lock was broken, one hook refreshes, and it has the lock.

Database graph. `PublishedWhole` speaks of a file that two processes replace; what keeps
it whole is `Alone`: until two have written at once, one builder is between opening the
temporary file and renaming it, nobody who does not write has it open, and what it
renames is not torn. `NothingInvented` speaks of a graph whose rows were read in six
steps. `Snapshots` follows them: a build whose schema has not changed holds the tables,
then the columns, that the catalog still has, and at its end rows in which every key and
dependency leads to something read (`Consistent`, which every schema change keeps,
`SchemaChanges`). `Honest` carries that over to the file: its graph is the graph of some
rows, and of consistent ones unless it is marked `ddl`. `GraphBuilt` says what
`build_graph` makes of any rows, which nodes have no type and what their edges are.
`Probed` is the pooled handle: a builder that reads has a live connection, or the loss
was recorded while it read.

Targeted build. `TargetedIsSubset` compares a search that walks with a set of paths.
`DiscoveredWithin` is the loop: after `d` rounds it holds exactly the objects with a path
of length `d`, for the depths 0 to 2 that the property asks for (the tools' defaults are 1
and 2), each by itself instead of by induction. `PartNodes` and `PartEdges` say that
the filtered reads give the nodes and the edges between them, with the attributes of the
full graph. For the answers of the tools, `AroundTable` and `AroundRoutine` show that one
hop (two for a routine, whose columns bring their tables) has all the edges the answer
looks at. The catalogs are those of `Catalogs`: one column a table, any keys and
dependencies.

### Only model-checked

`SearchesExact` (the searches of the graph tools are recursive operators);
`DeadLetteredOnce` beyond its hypotheses; and `DeliveryImplemented`, `Registers`,
`Converges`, `ShowsEverything`, `RunsEnd` and `DirtyIsServed` as far as they are liveness,
which is out of the prover's reach, as are `ENABLED` and what a library fold or a
recursive operator computes for every input. What the chunker's own `Fold` computes is
proved for each loop by itself, by induction along one list, and so are the passes of
`RepeatedIngestHeals`.

## 5. Not modelled, and why

* Session rows from `agent.*` events: with the NOT NULL `agent_id` they are never
  written by the real store (see the hazards). Heartbeats refresh a time stamp.
* Credential revocation and the identity claim protocol (hard link, lock file, stale
  reclaim): left for later; `Registry` takes a claim as atomic.
* The viewer (`mcp/db_tools/app.py`, HTML, Markdown and GraphML outputs), rendering of
  the status board, keyword search, wording of tool answers: layout of files that were
  read.
* Embeddings, the reranker, vector distance and full-text ranking: numeric or external.
  A ranking is any order the store may answer with.
* The in-memory fakes the tests use in place of the stores.
* Windows: the job object and `TerminateProcess`; `Companions` has the Linux coupling
  only (`PR_SET_PDEATHSIG`).
* Power loss: which part of an unsynced outbox survives is a property of the file
  system.
* Contents of cards, events and payloads: abstracted to ids, versions and statuses.
* TLS, environment parsing, back-off durations, logging, installer, contracts
  (declarations and generated schemas), prompts.

## 6. Plan

Done: outbox, delivery, card sync, follower, registry, both memories and the migration
between them, the memory core, schema migrations, companions, graphs; proofs of the
outbox, card sync, the follower, the registry, both memories and the migration between
them, the memory core, the schema migrations, the companions and the graphs.

1. The identity claim refining the atomic claim of `Registry`; issue, revocation and
   resolution of keys.
2. Composition of `Companions` with `Outbox`: a drain is running while a server lives.
