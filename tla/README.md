# TLA+ verification of inkentry

inkentry indexes a repository and keeps its "memory": entries (decisions,
constraints, conventions, ...) that are stored locally, carried by git notes and
shared through a team server. Most of the code is sequential; what is hard lies
where processes, machines and background workers meet. This directory models
those places in TLA+, checks them with TLC on small instances, and proves the
main results with TLAPS for all instances.

| module | what it is |
|---|---|
| `NotesCarrier` | the git-notes carrier: clones, lock, append, import, merge, publish |
| `NotesLog` | what the carrier promises: a grow-only shared log |
| `NotesCarrier_proofs` | theorems: no lost append, merges are unions, the log is implemented |
| `LocalMemory` | the local store of a clone: what reads import from the notes, local commands, reconcile |
| `LocalMemory_proofs` | theorems: true markers, fetched lines are read, archives stick |
| `MemorySync` | machines that sync and force-push against a team server |
| `MemorySync_proofs`, `MemorySyncPush_proofs` | theorems: ids and stamps stay true; what a push and a sync are promised |
| `Relay` | the local relay, composed with `MemorySync`: background push and pull |
| `Relay_proofs` | theorems: the cursor forgets nothing and never goes back |
| `VectorRepair` | the server's repair of entries stored without a vector |
| `VectorRepair_proofs` | theorems: no orphan vector, no lost wake-up |
| `IndexRun` | `inkentry index`: lock, walk, embedding, hand-over to a background process |
| `IndexRun_proofs` | theorems: one writer, vectors and the owed pass |
| `LocalServer` | starting, stopping and finding the local daemon |
| `LocalServer_proofs` | theorems: no daemon is lost, no stranger is trusted |
| `MC...` | instances, symmetry and fairness for TLC |

Run a model with `tlc -config carrier_race.cfg MCNotesCarrier` (each cfg belongs
to the MC module of its component), a proof with `tlapm NotesCarrier_proofs.tla`.
`PROJECT.json` maps every definition to the lines it models and lists runs,
mutants, findings, hazards and theorems.

## 1. Inventory

### Components with shared state

**Git notes carrier** (`inkentry-core/src/storage/git_notes/{mod,lock,publish}.rs`).
*State*: `refs/notes/inkentry` in each clone, the tracking ref a fetch writes, the
same ref on the remote, a lock file in the git common dir. *Operations*:
`append_to_git_notes`, `append_state_update`, `append_edges`, `append_anchor_record`
(one line, read-modify-write), `append_new_to_git_notes` (import of what is not yet
carried), `merge_tracking_notes` (run by readers), `publish_notes` (fetch, merge,
push, up to three times, from the pre-push hook). *Interaction*: any number of
processes in a clone share the lock; clones meet only at the remote. *Hard*: the
read-modify-write of a note body, merges in between, lost push races, filesystems
without locks, git commands that fail, processes that die. *Correct when* no
acknowledged line is lost, a merge is a union, what is shared was serialized, an
import does not duplicate an entity, and a line is in the end shared.

**Sync client** (`inkentry-cli/.../memory/sync`, `inkentry-core/src/storage/memory/sync.rs`,
`storage/remote`). *State*: the local rows with their `remote_id`; the cursor is
derived (`MAX(remote_id)`). *Operations*: `sync_round` (pull, push, confirmation
pull; the first sync pushes first), `plumbing push [--force] [--include-archived]`,
stamping. *Interaction*: HTTP to the team server, whose other clients act between
any two requests. *Hard*: a cursor that own pushes move past foreign entries, lost
answers, an interrupted push, a server that lost its database. *Correct when* a
sync that succeeds has everything, a stamp names the right entry, and a re-push
recovers.

**Server memory store and routes** (`inkentry-server/src/db.rs`, `handlers/`).
*State*: rows with a row id, an exported id (`sync_id`) and an `external_id`, their
vectors, the project's dimension; one database lock. *Operations*: single write,
batch write, since, archive, supersede, delete. *Correct when* ids stay with their
entries and the unique indexes never turn a legal client into an error.

**Server vector repair** (`inkentry-server/src/repair.rs`, `main.rs`, `lib.rs`).
*State*: the rows that lack a vector, `RepairSignal` (one permit), `EmbedderSlot`,
the sweep's cursor and page. *Operations*: writes raise the signal, the worker
wakes, reads a page under the lock, embeds without it, writes back under it.
*Hard*: everything that happens during the embedding, wake-ups raised too early or
by nobody, restarts, texts the embedder refuses. *Correct when* no vector outlives
its row, no row is forgotten, and the worker parks.

**Local relay and outbox** (`inkentry-server/src/relay`, `relay_handlers.rs`,
`handlers/sync.rs`, `cli/cmd/memory/outbox.rs`). *State*: a session with a cursor of
its own, a buffer of push results and one of pulled entries, both capped; detached
push tasks; a pull loop behind the server's event stream. *Operations*: register
(push and seed), poll, acknowledge, catch up, retire. *Interaction*: commands of the
same machine come and go between any two of its steps; the store and the server are
those of the sync client. *Hard*: entries that do not fit, acknowledgements that are
late or lost, a cursor taken from a store that has moved on. *Correct when* the cursor
passes no entry that is neither buffered nor stored, and the outbox drains.

**Index runs** (`cli/cmd/index`, `inkentry-core/src/storage/db.rs`, `chunks.rs`,
`files.rs`). *State*: `index.db` (file hashes, chunks, vectors, graph edges, an "owed"
flag), the run lock with its pid file, the embedder. *Operations*: walk, store,
summarise, embed, refine, hand over, clean up; every SQL statement commits by itself.
*Interaction*: foreground runs, commit hooks and background continuations compete for
the lock; a parent gives it up before its child can take it. *Hard*: a crash between
two statements, the hand-over gap, an embedder that goes away. *Correct when* one
process writes at a time, no vector is orphaned, no chunk is forgotten, and repeated
runs end with an index of the tree.

**Local daemon** (`cli/cmd/server.rs`, `capability/probe.rs`). *State*: four files
(pid, port, database path, instance id), a start lock, processes and ports.
*Operations*: `server start`, `stop`, the auto-start of `init`, discovery.
*Interaction*: any command may look for the daemon while another replaces it; pids
and ports are shared with every other program. *Hard*: files written one by one, a
stop without the lock, hung daemons, reused pids. *Correct when* no daemon is
orphaned, work goes only to a daemon of this directory, and a server can be had.

**Local store and the read path** (`cli/cmd/memory/{reconcile,add,archive,supersede}.rs`,
`storage/memory/{notes,edges,import,import_state}.rs`, `git_notes/{fold,refs}.rs`).
*State*: the rows of `memory.db`, their supersede links and edges, and two OIDs that say
which notes were merged and imported last. *Operations*: every read compares the OIDs,
merges and imports; `init` does so unasked; `add`, `archive` and `supersede` write the store
and then append to the carrier; `reconcile` copies a `server.db`. *Interaction*: any of
them between any two steps of the others, through the store and the ref. *Hard*: a marker
that claims more than was imported, a skipped merge, a snapshot that is stale when it is
used. *Correct when* what was fetched is read, an archive sticks, and a marker is true.

### Components left out

Searching and ranking (floating point), parsers and chunker (text), the native
embedder (a foreign library), LLM routes and authentication (stateless), rate
limiter (wall-clock), dump import and export, dedupe, harvest, login, hooks,
status, migrations (sequential, one process, one database). `PROJECT.json` lists
each with its reason.

### Hazards

`PROJECT.json` lists them at their lines. The ones the models are built around:

- two processes between reading and writing one note, and a merge in between;
- the decision "not carried yet" taken before the write;
- a marker that moves without its import, and an import that finds rows it did not expect;
- a publish whose fetch fails or is overtaken, and an append between merge and push;
- a cursor that jumps over an entry, and a count that hides the gap;
- an answer lost after the server stored the batch; a batch that fails half-way;
- a server without its database, restored by machines that hold old ids;
- rows that change while their page is being embedded; a signal nobody raises;
- a relay buffer without room, and an acknowledgement that crosses a catch-up;
- a run that dies between a file's hash and its chunks, or between a chunk's selection
  and its flag; the gap in which the run lock belongs to nobody;
- a daemon started while another command is still cleaning up after the last one.

## 2. The git-notes carrier

A note body is the set of its lines; a notes ref points at a commit, with its
ancestors and its tree. One git command is one step. `work`, `track` and `remote`
are the refs, `lock[c]` the lock file of a clone, `pc`/`job`/`buf` a process's
position, command and the body it has read, `acked` (history) the lines whose
append returned Ok.

| code | actions |
|---|---|
| `lock_notes`, `writer_lock` | `LockAcquired`, `LockContended`, `LockUnusable` |
| `append_*` | `StartAppend`, `ReadBody`, `ReadBodyFails`, `WriteBody` |
| `append_new_to_git_notes` | `StartImport`, `ReadCarried`, `ReadCarriedFails`, then as above |
| `merge_tracking_notes` | `StartMerge`, `Merge`, `MergeSkipped` |
| `publish_notes` | `StartPublish`, `PublishFetch`, (lock, merge), `PublishPush` |
| a git command that fails, a process that dies | `Abort` |
| the user's `git fetch` | `UserFetch` |

git's own merge is external but modelled by what it does: three-way against a best
common ancestor, per annotated object, with `cat_sort_uniq` where both sides
changed. That is *not* a union in general: a side that removed a line wins over one
that left it alone. That it is a union here is a theorem (`HistoryGrows` makes it
one).

Runs:

- `carrier_race`: two processes in one clone and one in another append, import, publish,
  diverge and merge, with reads that fail and death at any step. `NoLostAppend`,
  `ReadIsCurrent`, `HistoryGrows`, `ImportAddsOnlyNew`, and `ImplementsLog`: every step is a
  step of `NotesLog` or invisible to it.
- `carrier_live`: three clones, one on a filesystem without locks, with merges by readers
  and a second attempt to publish. `OnlySerializedIsShared`, and `EventuallyShared` for the
  first clone.

Bounds. `MaxCommits` is 3: two divergent commits and their merge, or one that both
clones have and two on top of it. Two lines suffice for one to
erase the other. `MaxAttempts` is 1 or 2 (the code has 3): the properties do not
count attempts, and 2 already reaches a retry after a lost race. The theorems hold
for every value of these constants.

Fairness (`PublishFairness`, of one process only): a running command goes on; publish
is run again at every `git push`; and each git step of it succeeds sometimes when
tried again and again (strong fairness). Nothing is assumed of the others, who may
win any finite number of races.

### The local store (`LocalMemory`)

One clone. A line is what the import reads of it (entity, archived or not, successor,
related entity), a ref the set of its lines and its OID that set: `track` and `work`;
`merged` says whether HEAD reaches the commits of all of them. `rows`, `succ`, `edges` and
`marks` are the store, `rd` the read under way, `rc` the reconcile, `out` the lines that a
local command has still to append. Appends and merges are atomic here: `NotesCarrier` has
their steps.

| code | actions |
|---|---|
| `refresh_read_path_from_git_notes` | `Begin`, `ReadMarker`, `Merge`, `MergeSkipped`, (the import), `Mark`, `Return` |
| `import_notes` of `init` | `BeginInit`, then merge and import without markers |
| `import_git_notes_into_memory` | `List`, `ListFails`, `ReadOid`, `ReadExisting`, `ReadCarried`, `ReadCarriedFails`, `Import`, `ImportFails` |
| `memory add`, `archive`, `supersede` | `LocalAdd`, `LocalAddSuperseding`, `LocalArchive`, `LocalSupersede`; `Append`, `AppendFails` |
| `reconcile_project` | `ReconcileStart`, `ReconcileImport`, `ReconcileLink`, `ReconcileDone`, `ReconcileEnds` |
| git and other processes | `Fetch`, `HeadMoves`, `OtherMerge`, `Crash` |

What may go wrong in a behaviour is chosen at its start (`exposed`): nothing, a notes lock
that may be taken, a git that may fail, a HEAD that lags behind the notes, other processes
that merge, or a reconcile; crashes, failing imports and local commands always happen.
A property that the code does not keep under one of them says so (section 9).

Runs:

- `memory`: `MarkerIsTrue`: what is on the ref whose OID the store records as imported is in
  the store. `FetchedIsRead`: a read that could merge and import returns a store with all
  that the last fetch before it brought, edges included. `ArchiveSticks`: no row is lost or
  un-archived. `ReconcileCompletes`: a reconcile that returns has brought every entry, and
  linked or reported each archived one.
- `memory_skipped` (violation): `docs/memory.md` and two comments promise that after a merge
  skipped for the notes lock the next read folds the entries in. The read records the
  tracking OID as merged whatever became of the merge, so the next reads do not try.

Bounds. Two entities, which supersede each other in opposite directions on the carrier and
in the `server.db`; two lines to fetch, of which one lies outside HEAD's history in the
behaviours about HEAD; one local command, on either entity. That gives a local entry the
carrier also has, an entity with an active and an archived line, and an edge whose other
end is missing. With two local commands there are 8.4 million states for one of the
entities, and the properties hold as well.

Fairness (`ReadFairness`, of `memory_skipped`): memory is read again and again, and each
step of a read is in the end taken, not killed or failed every time (strong fairness). The
counterexample skips one merge and then reads on for ever.

## 3. Memory sync

`srv[i]` is the server row of id *i* (ids are minted in growing order), `loc[c][e]`
machine *c*'s row of entity *e*, `ses[c]` the command it runs. The content of an
entry is its entity id, as in the store's unique index; its uuid, sent as
`external_id`, is `<<c, e>>`. A request is one server step because the handlers hold
the database lock; every local statement is a step of its own.

| code | actions |
|---|---|
| `sync_round` | `StartSync`, `PullPage`, `ApplyEntry`, `PageDone`, `TakeRows`, the push, `PushDone`, `Return` |
| `pull_and_apply_since` | `Behind` (the total signal) and the re-pull in `PageDone` |
| `push_local_reporting` | `TakeRows`, `PushAnswered`, `Stamp`, `Tombstone` |
| `push_memory_batch` | `PushAnswered`, with `Missing`, `Collides`, `Assignments`, `Insert` |
| lost answer, lost or shed request, failure, crash | `PushUnanswered`, `PushUnsent`, `Fail` |
| other callers of the server | `TeamAdd`, `TeamRestore` (another machine's force push), `ServerArchive` |
| ADR-092's lost database | `ServerReset` |

Runs:

- `sync_live`: one machine that adds, archives and tombstones, teammates who write, faults
  of every kind, pages of one entry and chunks of two. A finished sync has every entry
  that was there when it began (`CaughtUp`); no re-push is refused (`RepushIsAccepted`);
  every local entry is in the end stamped, unless it is archived first (`EventuallyPushed`).
- `sync_identity`: archiving, server-side archiving, a lost database and other machines
  that restore it at the same time, all commands. `StampIsTrue`, `IdsKeepEntity`, and
  `RestoreComplete`: a force push that succeeds has put every entry back under its id.
- `sync_rearchived` (violation): a comment says a re-push after archiving creates a
  fresh row. The unique index covers archived rows too, so the INSERT fails, the whole
  request with it, and the client stops at that chunk in every later sync.

`CaughtUp` and `RestoreComplete` are about a command during which nothing was added
locally and the server kept its database (`disturbed`): a local entry that is not
pushed yet counts in the comparison of totals, and a row that is gone cannot be
pulled. `due` (history) is what was on the server when the command began.

Bounds. One machine is modelled in its steps and the others by what they do to the
server. `MaxId` leaves the machine an id for every entry plus two for teammates (`Room`); a
database is lost while that reserve is still there, that is after at most two ids. Two entries give every order of two ids around a cursor; a page
of one makes every page full, so that each drain needs a follow-up request.

Fairness (`SyncFairness`): every machine keeps being synced, a command goes on, and
after some point requests are answered. Before it, faults are arbitrary.

## 4. The local relay

`Relay` EXTENDS `MemorySync`: the stores (`loc`) and the server (`srv`) are the same
variables (a foreground `sync` may run beside it; the run leaves it out). `rl` is the session with its pull
loop, `tasks` the detached push tasks, `cli[c]` the command that uses the relay.
`skipped` (history) are the entries a seed took the cursor past.

| code | actions |
|---|---|
| `nudge_after_write`, `push_and_start_pull_task` | `NudgeRows`, `Register`, `RegisterLost` |
| `RelaySession::push` | `TaskSent`, `TaskAnswered`, `TaskFails` |
| `run_pull_loop`, `catch_up`, `stream_once` | `CatchUpFetch`, `CatchUpBuffer`, `CatchUpFails`, `Connect`, `ReadFrame`, `StreamEnds` |
| `poll_and_apply`, `RelaySession::poll`, `ack` | `Poll`, `ApplyResult`, `ApplyPulled`, `ApplyFails`, `Ack`, `CommandEnds` |
| `retire_if_idle`, the daemon's end | `Retire`, `DaemonStops` |

Run `relay`: one store, one teammate, room for one buffered item, one entry per nudge,
lost requests, answers, acknowledgements, frames and sessions. `CursorCovers`: whatever
lies at or before the cursor is buffered, stored locally, on its way, or was skipped by a
seed. `CursorGrows`: within a session the cursor never goes back. `OutboxDrains`: the
outbox empties again and again by the relay alone.

Bounds. A buffer of one and a nudge of one make every second item overflow; three ids
leave one for the teammate. Fairness (`RelayFairness`, in `MCRelay`): users keep running
commands and some registrations get through; tasks, commands and the loop go on; after
some point neither faults nor retirement undo progress (a fault whose effect is that of
an ordinary step is not excluded, hence `RelayFault => Progress`).

## 5. Vector repair

`row`, `vec`, `sup` and `dim` are the tables, `sig` the permit of `RepairSignal`,
`slot` the embedder, `req[q]` a write in flight, `wk` the worker. A text is one the
embedder takes or one it refuses ("poison"). A batch stands for one of its entries.
`dropped` (history) marks rows that a request or sweep which failed half-way left
without a vector; the next sweep clears it.

| code | actions |
|---|---|
| `embed_for_storage` | `Embed` (before the lock) |
| `add_note`, `push_memory_batch` | `AddNote`; `PushEntry`, `SkipEntry`, `Raise`, `BatchFails`; `Refuse` |
| `archive_note`, `supersede_note`, `delete_note` | `ArchiveNote`, `SupersedeNote`, `DeleteNote`, `DeleteFails` |
| `run_repair_worker`, `repair_missing_embeddings` | `Wake`, `ReadPage`, `EmbedPage`, `StopNotReady`, `StopSaturated`, `WritePage`, `SweepFails` |
| load task, restart | `SetReady`, `RaiseReady`, `SetUnavailable`, `Restart` |

Run `repair`: one request in flight at a time (any number in the theorems), both
routes, archive, supersede and delete, failing batches and sweeps, saturation, one
restart. `NoOrphanVector`: no vector outlives its row. `Owed`: as long as a repairable
row lacks its vector, a signal, a request or a sweep is on its way to it.
`EventuallyEmbedded`: such a row gets its vector once the model loads, unless a request
or sweep that failed half-way dropped it (`dropped`). `WorkerParks`: with no more
requests the worker comes to rest.

Bounds. Two rows with pages of two: a poison row beside a good one, a row behind and one
before the cursor, a last page that is full. An idle server may stop (no request, worker
parked), so this run does not check for deadlock.

Fairness (`RepairFairness`): loading ends one way or the other; the worker and the
requests go on; and the requests do not hold every permit each time a sweep comes to
the same page (strong fairness of `EmbedPage` at each cursor), which is what the
5 s debounce and the bounded admission are for.

## 6. Index runs

`disk` is the tree: a file has a version, which stands for its content and hash. `hash`,
`edges`, `owed`, `chunks` and `vectors` are tables of `index.db`; `lock` and `pidFile`
the run lock; `proc[p]` a process from its start to its exit; `watch[p]` whether its
parent still waits to see it take the lock. Each SQL statement, lock operation and
request is a step. `torn` and `stray` are history: files a crash left with chunks that
are not theirs, and that a run went on without the lock after a failed spawn.

| code | actions |
|---|---|
| `run_lock.rs`, `index` | `Start`, `TryAcquire`, `WritePid`, `PidLost`, `Exit` |
| `parse_phase.rs` | `Collect`, `ReadFile`, `DropVectors`, `DropChunks`, `StoreEdges`, `StoreChunk`, `StaleFile`, `DropRow`, `EndParse` |
| summaries and post phases | `Summarise`, `Post`, `Refine`, `RefineFails`, `RefineDone` |
| `continuation.rs` | `Decide`, `Spawn`, `SpawnFails`, `Unwatched`, `Confirmed`, `ConfirmTimeout` |
| `embed_phase.rs` | `WaitEmbedder`, `EmbedOk`, `EmbedDone`, `EmbedOverBudget`, `EmbedUnreachable`, `EmbedBusy`, `EmbedRefused` |
| the tree, an upgrade, the embedder, a crash | `Edit`, `Upgrade`, `EmbedderUp`, `EmbedderDown`, `Crash` |

Runs:

- `index`: two processes, a source file with a named chunk and two title-less ones, a
  document, plain, `--force` and `--detach-embed` runs, one change of the tree, one crash
  or failed request. `OneWriter`; `VectorsBelong`: no orphan vector; `RefinedVectors`: an
  unflagged vector of a title-less chunk is of its present text; `OwedUntilDone`: the
  owed graph pass is retired only by a walk that saw every file; `HandoverIsTrue`: a
  confirmed hand-over is one; `CatchesUp`: repeated plain runs end with an index of the
  tree and a vector for each chunk.
- `index_torn` (violation): `docs/commands.md` promises recovery without `--force` from a
  run interrupted after a file's hash was recorded. A file that was indexed before keeps
  its old chunks under the new hash, `file_has_chunks` is true, and every later plain run
  skips it.

Bounds. Two processes are a parent with its child, a parent with a rival, and a rival in
the gap of the hand-over when the parent has gone. One file with three kinds of chunk
and one with none cover each branch of the embed queue, and `MaxBatch` 2 splits three
chunks over two batches. `MaxConnect` and `MaxBusy` are 1: a retry that succeeds and one
that does not. With three slots and without the temporal properties the same model has
4.6 million states and the invariants hold as well.

Fairness: a process is scheduled, a loading embedder becomes ready in the end, and plain
runs, one for each commit, do not find the lock held every time (strong fairness of
`StartPlain`). Nothing is assumed of hand-overs: a chain of `--detach-embed` runs may lose
each gap to the next, and then it is a plain run that embeds.

## 7. The local daemon

`os` is the process table (a daemon of ours, another inkentry-server, any other program;
starting, serving, hung, or stuck beyond SIGKILL), `file` the state files, `lock` the
start lock, `cmd[c]` a running command. A database stands for its instance id, which the
server keeps in it. `lost` and `adopted` are history.

| code | actions |
|---|---|
| `cmd_start`, `ensure_server_running`, `cmd_stop` | `BeginStart`, `BeginEnsure`, `BeginStop`, `ReadPid` |
| `classify_running_server`, `terminate_and_wait` | `Classify`, `ClassifySlow`, `Ps`, `Terminate` |
| `cleanup_state_files` | `Clean`, file by file |
| `find_available_port`, `spawn_daemon_unix`, the writes | `Bind`, `Spawn`, `Record`, file by file |
| `wait_for_health`, `record_instance_id` | `AwaitHealth`, `TimedOutEarly`, `SaveId` |
| `probe_recorded_server`, `untrusted_responder` | `BeginFind`, `FindPort`, `FindProbe`, `FindPid`, `FindId`, `FindDone` |
| the daemon, other programs, a command that dies | `Listen`, `Crash`, `Hang`, `Arrive`, `Leave`, `Abort` |

Run `server`: two commands at once, one stop, one fault. `Tracked`: a running daemon is
the recorded one or about to be recorded, apart from four ways the code does lose one
(section 9). `TrustedIsOurs`: discovery, whose four looks at port, responder, pid and id
happen at four moments, trusts no stranger, unless a start has recorded a stranger's id.
`EventuallyServed`: once stops and faults are over the recorded port is answered from
some point on. What `ps` says of a live pid is a choice at every call (`NamedAnswers`).

Bounds. Four pids and ports: at most three of each are used up by what one stop, one fault
and unrecognised daemons leave behind, so a start is never refused only because the model
has too few (with three, TLC finds a start that is: a stop whose removals straddle two starts
costs two daemons). The two slots may both start; only one of them also stops and looks,
which loses no case because the slots are alike. With two faults, three pids and ports and
without `EventuallyServed` there are 20.9 million states and the invariants hold. `OneFresh`
lets one pid or port that nothing remembers stand for all of them.

Fairness: a running command goes on, a daemon gets to its bind within the 30 s of
`wait_for_health` unless that is a fault (`TimedOutEarly`), and somebody keeps asking for
a server. Without the second, each start may kill the daemon the one before it started.

## 8. What is proved

The theorems hold for every value of the constants: any number of clones, processes,
machines, entries, rows, pids, faults and attempts. The only assumptions are those the
modules state about their constants, types mostly (`CarrierAssumption`,
`RepairAssumption`, `MemoryAssumption`, `SyncAssumption`, `RelayAssumption`, and
`ConstantsOK` of `IndexRun` and `LocalServer`); TLC evaluates them in every run. Four
theorems also restrict what else happens (`"remove" \notin Events` and the like), because
the property is false otherwise; section 9 says how. Each invariant below was checked by
TLC on an instance before it was proved, and each proof has a lemma for every action.

**Carrier** (`NotesCarrier_proofs`). `Invariance` proves the inductive invariant
`IInv`: typing; ancestors exist (`AncestorsExist`); a process in the guarded section
holds the lock and only a clone that can lock gets to a merge or push
(`GuardedStages`); `ReadIsCurrent`; `HistoryGrows`; `NoLostAppend`; and the origin of
every line that a locking clone can receive (`Provenance`). The argument: a write-back
under the lock only adds lines, because the body is current; so every commit of a
locking clone keeps its ancestors' lines; so the merge base's notes are contained in
both sides, and the three-way merge is their union; so merging loses nothing and what
is pushed contains what it replaces. `NoLostAppend` alone is not inductive: the merge
needs `HistoryGrows`, which needs `ReadIsCurrent`, which needs `GuardedStages`.
From it: `TypeCorrect`, `NoAppendIsLost`, `HistoryOnlyGrows`, `ReadsAreCurrent`,
`SharedWasSerialized`, and `CarrierImplementsLog`, that the carrier implements
`NotesLog` under the mapping of `Log`. `ImportsAddOnlyNew` needs one more invariant,
`ImportsFresh`: the records an import has kept stay uncarried up to its write, because
whoever else moves that clone's ref would have to hold the lock (`OthersKeepNotes`).

**Repair** (`VectorRepair_proofs`). `Invariance` proves typing; row ids beyond the last
are free (`Fresh`); what a sweep carries from its read to its write (`SweepInv`: the page
lies at or before the cursor, its rows exist, and each row of it that is not poison is
in `got` when the write-back begins); `NoOrphanVector`; `Owed`. `SweepInv` is what makes
`Owed` inductive at the write-back, where the page is emptied: its rows have a vector,
are poison, or are no longer active. From it: `TypeCorrect`, `VectorsHaveRows`,
`NoLostWakeup`.

**Local store** (`LocalMemory_proofs`). `IInv` is typing; an `out` line is backed by its row
and edge (`OutOK`); what a read in flight has listed, recorded and carried (`CarrierOK`,
when git works and nobody else merges); what a fetch brought and the read has not yet merged
(`FetchOK`); and which rows and links a reconcile still owes (`ReconcileOK`). The argument
for the marker: whatever reaches the working ref while an import is under way comes from a
local command, which wrote the store first; so a line of the OID to be recorded was listed
or is backed. From it: `TypeCorrect`, `MarkerStaysTrue`, `FetchedIsHeld`,
`ReconcileBringsAll`, `ArchivesStick`.

**Sync** (`MemorySync_proofs`). `IInv` is typing; exactly the ids minted so far have had a
row (`Minted`); a pushed row holds the entry of its uuid (`ExtIsTrue`); pages and answers in
flight pair true ids and entries (`CarriedIsTrue`); `StampIsTrue`. The argument: an id that
names an entry names it for ever (a deleted or lost row keeps its identity as a history, and a
supplied id comes from a stamp, a page or an answer), so what a command carries to its store
is still true when it gets there. From it: `TypeCorrect`, `StampsAreTrue`,
`IdsKeepTheirEntity`. `MemorySyncPush_proofs` adds `PInv`: what a push holds at each stage
(`StageOK`), that what it carries is stored (`CarriedStored`), which entries a force push
has already restored (`Restoring`), and that a stamped entry whose pushed row is stored has
its id stored (`HeldIsStored`). From it: `RepushNeverRefused` (while nobody archives on the
server) and `ForcePushRestores` (while nobody deletes there). `CInv` adds what a sync that may
still return Ok owes its store (`Unseen`): a row of `due` whose entry the store lacks is ahead
of the drain (`Drained`), or the total it has read tells of it (`Counted`). The second is a
count: every active entry of the store is stamped, each with an active row of its own
(`StampIsActive`), and no row of those the server counted goes away; so a store that lacks one
of them has fewer active entries than the total, and the round pulls again from 0. A page that
leaves a row out is full, so its drain goes on. From it: `SyncCatchesUp`, under `Promised`:
no "remove", no "reset", and "tombstone" only with one machine. Each of the three is needed
(section 9).

**Relay** (`Relay_proofs`). `RInv` is `IInv` of the sync, and: stamps and offers are on rows;
the cursor is behind the newest id and a request in flight behind the cursor; buffers hold
true pairs and respect the cap; what an acknowledgement names was stored by its command;
`Covers`. `CursorCovers` alone is not inductive at the buffering of a page: `Covers` also says
that the page in hand leaves out nothing up to its last id that the relay does not know.
Steps of the stores and the server are summed up in one lemma for all of them (`Guarantee`:
stores lose nothing, ids keep their entries, new ids lie beyond the cursor), so the relay's
proof does not repeat the sync's. From it: `RelayTypeCorrect`, `CursorCoversAll` (without
"restore" among the events), `CursorNeverBack`, `RelayStampsAreTrue`.

**Index** (`IndexRun_proofs`). `IInv` is typing; who holds the lock at which stage (`LockOK`);
what a walk has written so far (`HashOK`); what a run has read of the rows is still so
(`DataOK`); no graph edge without a file row (`EdgesOK`); nobody has confirmed a hand-over
that is waited for (`WatchOK`); `VectorsBelong`; `RefinedVectors`. The last two need
`DataOK`, which needs `LockOK`: the queue holds the present texts because nobody else writes
the rows. From it: `TypeCorrect`, `WritersAreAlone`, `NoOrphanVectors`,
`RefinedVectorsAreCurrent`, `OwedPassIsKept`, `HandoversAreTrue`.

**Daemon** (`LocalServer_proofs`). `IInv` is typing; where each command can be and with what
(`StageOK`); the record that a starting command found dead or removed stays no daemon's, but
for those in `lost`, until its own is written (`RecordOK`, `Loose`), which is what the start
lock gives although a stop takes none; nothing is assumed of `ps`, and what a wrong answer
costs is in `lost` from the moment the record goes; only our daemons answer with an id of ours (`AnswerOK`, `IdsOK`); `Tracked`. From
it: `TypeCorrect`, `DaemonsAreTracked`, `OnlyOursIsTrusted`.

Only model-checked: liveness (`EventuallyShared`, `EventuallyPushed`, `OutboxDrains`,
`EventuallyEmbedded`, `WorkerParks`, `CatchesUp`, `EventuallyServed`), which is out of the
prover's reach. Every invariant and action property that a passing run checks is stated by
one of the theorems above.

## 9. Observed without a run of its own

Carrier and sync:

- `noted_commits` answers an empty list when `git notes list` fails (`git_notes/mod.rs:869`),
  and an import then writes a record of an entity the ref carries. With "list" among the
  faults of `carrier_race`, `ImportAddsOnlyNew` fails.
- When the confirmation pull of a sync fails, the message promises that re-running retries
  the pull (`round.rs:59`). The re-run starts behind the ids the push has stamped; the
  missing entry is found only if the server's total exceeds the local count. An entry that
  is archived on the server but active locally makes them equal: `CaughtUp` fails with
  "remove" among the events of `sync_live` and either "fault" or the command "push", which
  stamps and never pulls.
- Stamps that a lost database left behind count as active entries too: with "reset",
  "fault" and three entries, `CaughtUp` fails.
- So does a row that another machine deletes. A sync of one machine pushes an entry, its
  confirmation pull fails, and an earlier row stays unpulled behind the stamp; a second
  machine archives and tombstones the pushed entry. The next sync counts one entry on
  either side. `CaughtUp` fails with two machines, "fault", "archive" and "tombstone".
- Two machines that restore a lost server: an id the first has stored makes the second's
  INSERT fail, and the whole request with it (`PushAnswered`).
- A push whose answer is lost leaves its entry without a `remote_id`; archived before the
  next round, it is not tombstoned (`push/mod.rs:212`).
- `RepushIsAccepted` needs that nobody archives on the server (`sync_rearchived`), and
  `RestoreComplete` that nobody deletes there: another machine's tombstone may delete a row
  between its restore and the end of the force push.
- Behind a lost database, another machine may put a row back under its old id, which lies
  behind a relay session's cursor: no catch-up fetches it. With "reset" and "restore" among
  the events of `relay`, `CursorCovers` fails; a foreground sync's total finds the row.
- Every registration seeds the relay's cursor with the store's `MAX(remote_id)`
  (`relay/mod.rs:311`), which own pushes move past entries nobody has fetched. The relay
  has no total to notice it by; a foreground sync finds them. `skipped`.

Local store:

- `docs/memory.md:62` says archiving travels. The import drops every entity the store
  already holds (`reconcile.rs:605`), so an entry archived by a teammate stays active in a
  store that has it; only the `supersedes` edge arrives.
- The import lists the notes and then reads the OID it will record (`reconcile.rs:575`). A
  merge by another process in between makes the marker cover lines that were never
  imported: with "others", `MarkerIsTrue` fails.
- `noted_commits` answers an empty list when git fails, and the marker advances: with
  "list", `MarkerIsTrue` fails. The same follows from `GIT_NOTES_IMPORT_LIMIT`
  (`reconcile.rs:554`) with more than 500 entries.
- Only notes on commits that HEAD reaches are listed ("invisible until merged",
  `git_notes/mod.rs:860`). After a fetch and a read, a pull moves HEAD and neither ref, so
  the next read imports nothing: with "head", `MarkerIsTrue` fails.
- `reconcile` links its rows after the import has committed (`reconcile.rs:367`): a process
  that dies in between leaves them unlinked, and the next reconcile finds them present.
- `reconcile` and a local `add` of the same content: the row stays active and gets a
  `superseded_by` all the same.
- `memory add --supersedes X` with the content of X: the store does nothing ("never made to
  supersede itself", `edges.rs:28`), but `add.rs:375` appends an archived line for X that
  names X as its own successor. `LocalAddSuperseding`.

Repair:

- `add_note` registers a write without a vector with dimension 0 (`notes.rs:289`), which
  `upsert_project` refuses once the project's dimension is set (`db.rs:341`), although
  `repair.rs:3` says such a write never fails. `Refuse`.
- A batch that fails after storing an entry without a vector returns before raising the
  signal (`batch.rs:284`), so the entry waits for the next raise. `BatchFails`.
- `delete_note` removes the vector, and then the foreign key of `superseded_by` refuses
  the row (`db.rs:1080`): the row stays without its vector, and nothing is raised.
  `DeleteFails`.
- A sweep that fails is logged and not asked for again (`repair.rs:125`). `SweepFails`.

Index:

- A named chunk that was embedded before it had a summary gets one later by
  `update_chunk_summary`, which sets no re-embed flag (`chunks.rs:326`): its vector stays
  that of the old text. `RefinedVectors` is therefore about title-less chunks.
- A spawn that fails sends the run on without the lock it has given up
  (`index/mod.rs:273`). `stray`.
- Documents and PDFs are skipped by their hash alone (`parse_phase.rs:318`): one a crash
  left without chunks stays so until it changes. `torn`.
- A tree without files returns before the clean-up (`parse_phase.rs:77`). `EmptyTree`.

Daemon:

- The four ways to lose a daemon: the command dies between the spawn and the write of
  `server.pid`; a stop, which takes no lock, removes a record newer than the one it acted
  on; ensure goes on after a daemon that survived SIGKILL, where start refuses; a daemon
  that is silent or slower than 500 ms, or whose `server.port` a stop has removed, is
  Foreign when `process_matches_server` does not recognise it, and start and ensure clear
  its record. It does not where `ps` is missing or fails (`server.rs:163`), or where the
  path given with `--bin` lacks the string; `server.rs:185` calls the check deliberately
  weak. After each, the next ensure runs a second server on the same database.
- A recorded pid is Healthy when anything answers on the recorded port, so with both the
  pid and the port reused stop signals a stranger, which the comment at `server.rs:200`
  rules out. So does any command that finds the reused pid's arguments to contain
  `inkentry-server`.
- A start whose health wait times out records no id; ensure and start then find the
  daemon Healthy, and discovery refuses it until a stop and start.

## 10. Abstractions and limits

- A crash in the carrier ends the git command in flight. A `git notes add` that survives
  its parent, which has lost the lock, is not modelled.
- `ensure_notes_rewrite_ref` (git config), the copying of notes on rebase, and reads that
  do not merge are left out.
- Local store: tags, files, embeddings and the order in time of lines are left out, so of
  several successors any may be the one the fold takes; one read at a time, with other
  processes as merges. A ref's OID is its lines: a commit that changes none is not told
  apart. The git-notes backend as the primary store and cloud_first are not modelled.
- Sync: anchors, `relates_to` edges and vectors ride along; embedding of pulled rows
  is not modelled; an older server without totals is not either.
- Relay: one session; the registry's cap and the resolution of targets are left out. A
  frame of the event stream is a wake-up that may be missing: `memory_stream` compares
  `created_at` at one-second resolution, 50 rows at a time.
- Repair: one project; a batch is one entry; admission is a choice, not a counter.
- Index: parse errors, the parse recount, the rebuild marker, the chunker stamp, worker
  status files, graph ranks and conventions are left out; a summary is null, empty or
  set; the order within a band of the queue and the length of a batch are arbitrary. A failed
  extraction of edges, a warning in the code, is left out: `OwedUntilDone` is about files
  seen. A foreground run that finds the lock held leaves no trace and is not a step.
- Daemon: the Unix build (elsewhere the start lock is a no-op and `Tracked` does not
  hold); a state file is written in one step; the recorded port is read and probed in
  one; every process may be signalled. A daemon hangs only after its bind. The unverified
  probe of the default port, when nothing is recorded, is outside `TrustedIsOurs`, and so is
  a server that somebody started by hand on a database of this directory: a stranger has no
  id of ours. `EventuallyServed` says that the port is answered, not by whom.

Not modelled, and why: dedupe, dump import and export, harvest, hooks,
status, migrations, configuration and login are sequential code of one process over one
store; parsers, chunker, ranking, search and the embedder are computation over text and
floating point; authentication, address and content checks, LLM routes and server reads
keep no state; the rate limiter and the admission lanes are counters under one mutex,
which `VectorRepair` and `IndexRun` meet as a request that may be refused. They are most
of the code's lines, and TLC would be checking a transliteration.

## 11. Plan

Done: carrier, log, refinement; the local store; sync and relay; repair; index runs; the
daemon's life; and the proofs of the safety properties of all of them.

Next: the steps that are merged into one in `LocalMemory` (appends, merges) as a composition
with `NotesCarrier`, whose promises (`NoLostAppend`, `HistoryGrows`) it relies on.
