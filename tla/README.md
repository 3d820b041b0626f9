# A TLA+ model of the devstack daemon

devstack starts the services of a project ("stack"), watches their health and
indexes their logs. One daemon per devstack home serves HTTP requests on a
Unix socket; every request handler, health monitor, readiness task, watcher
and ingestion job is a tokio task of its own, and several daemons share one
file of port reservations.
These modules model the daemon's state and every
step that changes it where tasks or processes meet, model-check small
instances with TLC, and prove every safety property a passing run checks for
any instance with TLAPS: those of the port registry, the map of units, the run
lifecycle, watchers, capture proxies, manifests, tasks, agent messages, globals,
sources, the ingestion, tailing and reading of logs and the plan of a stack.
Paths below are relative to `src/src/`.

## Inventory

| component | state | operations | meets | what makes it correct |
|---|---|---|---|---|
| port registry (`port.rs`) | one JSON file per machine: port -> owner, pid | allocate, reserve, release, stale cleanup | all daemons of the machine, under `flock` | a port has one owner; a grant keeps its entry; a refused allocation leaves nothing |
| log ingestion (`infra/logs/index`) | Tantivy index, cursors in memory and in a state file | ingest, mark current, evict, delete run | jobs of queries, tailing and backfill, the shims that write | no line twice, none lost, numbers follow the file |
| run commands (`app/commands/runs.rs`, `stores/runs.rs`) | run records with service records | up, refresh, down, kill, purge | each other, monitors, restarts, queries | stopped means stopped; run state follows its services |
| readiness and health monitor (`app/launch/readiness.rs`) | one task per Ready service, handle with a stop flag | probe, degrade, restart with backoff, give up | run commands, which replace the records it works on | one live monitor per Ready service, none without a record |
| restart (`app/commands/restart.rs`) | none of its own | restart by user, watcher, monitor | all of the above | |
| status (`app/queries/status.rs`, `app/commands/reconcile.rs`) | none of its own | derive states from units and write them back | all of the above | must not undo what happened since its snapshot |
| garbage collection (`app/commands/gc.rs`) | none of its own | drop old stopped runs | run commands, monitors | |
| service manager and shim (`systemd.rs`, `shim.rs`) | `LocalSystemd`: map of units, child processes, unit file; a shim per service | start, restart, stop, kill, status, reaper | all callers at once, crash and restart | a process has one holder, a stopped unit has no process |
| manifests and bootstrap (`app/runtime.rs`, `daemon/bootstrap.rs`, `persistence/`) | one manifest per run and global, daemon state | persist, restore, port sync | crash and restart | what is on disk suffices to go on |
| globals (`app/commands/ensure_globals.rs`, `stores/globals.rs`) | global service records, their manifests and units | find or start, restart by the watcher, restore | concurrent ups, crashes | the port a stack is told is the one that is served |
| tasks (`app/commands/tasks.rs`, `stores/tasks.rs`, `services/tasks/`) | executions, history file, hashes | start, finish, skip when unchanged | concurrent requests, edits | a task runs once at a time and ends; up to date means built |
| watching (`watch.rs`, `app/launch/watch.rs`, `app/commands/watch.rs`) | watcher task per service, pause flag, hash | change, pause, resume, stop | launches, downs, edits | no watcher outlives its record; no edit is forgotten |
| log tailing, events (`daemon/log_tailing.rs`, `daemon/event_bus.rs`, `daemon/handlers/events.rs`) | one tail task per run with a subscriber count, broadcast channel | retain, release, read, send | clients that lag or leave, writers, truncation | one tail per run; a client gets line after line |
| sources (`sources.rs`, `daemon/source_ingest.rs`, `daemon/handlers/sources.rs`) | ledger of registered files, file of index states | add, remove, query, backfill, start-up | each other, crashes | Current means indexed; removed means forgotten |
| API capture (`services/api_capture.rs`) | proxy per service, bounded queue to its log writer | start, stop, forward, record | launches, downs, clients that leave | no proxy behind the record's back; every event logged once or counted as dropped |
| agent sessions (`stores/agent_sessions.rs`, `agent/`) | queues of messages, terminal proxy | share, poll, type | deaths of agent, proxy and daemon | a message is delivered once and in order; the proxy returns |
| log queries (`infra/logs/index/query.rs`, `cli/commands/logs.rs`, `agent/auto_share.rs`) | facet cache, cursors of readers | first page, following pages, facets | ingestion, each other | no line twice or left out; cached facets are fresh |
| configuration and plan (`config/`) | none | load, validate, order, restrict | | dependencies come first; a cycle is refused |
| CLI, HTTP surface, dashboard | none shared | formatting and transport | the daemon | |

The hard behaviours are the interleavings of commands with the tasks they
leave behind (monitor, readiness task, backoff), snapshots that are written
back later (status, refresh, down), two-phase updates (index, then cursors;
documents, then cursors; truncate, then write), and the deaths of daemons.
`PROJECT.json` lists them as hazards, each at its line.

## Modules

**PortRegistry** — `registry` is the file; `proc` the life of each daemon
process (`exiting` is a process whose lock is already free while `kill(pid, 0)`
still succeeds); `held` what each daemon believes it was granted; `inherited`
the part of it granted on a predecessor's entry; `unsynced` what the boot has
still to reserve. Every transaction runs under `flock` and is one action. An
operation that fails writes nothing. Processes bind and unbind ports freely.

**LogIngest** — one job at a time holds `ingest_gate`; its reads, index
commit and cursor update are separate steps, so errors and crashes fall
between them, and `mark_sources_current`, which does not take the gate, as
well. Offsets count half lines, which distinguishes terminated from
unterminated last lines; blank lines (`Blank`, which names them in each
contents of a file) are passed over without a number. `dropped` and `purged`
record the lines the code leaves out on purpose, `slipped` the files that were
truncated and had grown past the cursor before they were read. A cursor's `gen`,
which the code does not have, is the contents its offset speaks of; `Gone`
stands for those of a run whose documents were deleted and whose cursors stayed
in the state file, since it could not be written. That write may fail in each
of the three places that make it. Of a commit that fails, the deletions stay
queued and come with the next one (`CommitFails`, `delete_run`).

**RunLifecycle** — one run of one project and stack, its service records,
units, health handles (`Handles`: one value per handle that may exist at
once), monitor and readiness tasks, and one program counter per command in
flight. A lock-protected closure (`with_run_mut`) is one step; every `await`
is a step boundary. The service manager is one step per call. `kill` takes
the steps of `down` without the purge. `Serial` makes `up`, `down` and `gc`
exclude each other, which the code does not: it separates what holds for
overlapping commands from what holds only for a client that waits for each
answer. Thresholds (`FailureThreshold`, `RestartLimit`) are the code's 3 and
3 where the run asks about them, smaller elsewhere. The data a launch
computes (ports, environment, watch hashes) is a choice of outcome.

**LocalSystemd** — the service manager of machines without systemd. `units`
is the map under the lock, `registry` the file it is written to, `call` the
call each caller is in between the locks (reap, spawn, insert), `shim` and
`service` the two processes of a group: the group that units name holds the
shim alone, which runs the service in a group of its own and passes SIGTERM on
once it has installed its handlers. `lost` and `stopped` are history: groups
spawned but not recorded when the daemon died, and units whose stop has
returned. `Exclusive` makes calls on one unit exclude each other, which the
manager leaves to its callers and they do not do either: like `Serial` it
separates what holds anyway from what holds without overlap. A written file
replaces the old one by a rename, so a write is one step with the change of
the map.

**Watchers** — `wrec` is the watch-related part of a record, `wh` the flags
of a handle with the loop of its task, `wcall` where a call of
`sync_service_auto_restart_watcher` (or its twin for globals) is between its
two locks. The hash covers the times of the files, so the hash of a version of
the watched files is the version. `missed` marks the edits the code does not
promise to act on: no watcher, a pause, an error.

**ApiCapture** — the record's side (`srec`, `pcall`) has the same two locks; a
`proxy` is a server task, a bounded queue and a log writer; a `req` goes
through forwarding, streaming and the three ways a response stream can end. An
upgraded connection and an upstream that fails are ends of their own. A body
is a number of bytes that arrive in pieces.

**Manifests** — a record is a version; a persist copies it under the lock and
writes it without: create `manifest.tmp`, write, rename. Files have inodes, so
that a second writer can truncate what the first is about to rename. A restart
keeps what `run_manifest_is_restorable` accepts.

**LogTails** — `log_tails` is the registry's entry of the run, `tail` a task
with its cursor, `client` a handler of `GET /v1/events` with its receiver.
Lengths count half lines, and a line is known by the generation of the file and
its number in it. A notification is a flag: another read of an
unchanged file does nothing. The abort comes after the lock, as in the code,
so a new tail may start before the old one ends.

**Globals** — `grec`, `gman` and `gunit` are record, manifest and unit of a
global; `gcall` is where a call of `ensure_globals` stands, `grest` where the
watcher's restart does. The daemon's boot runs the same code, on one global
after another in whatever order the directory gives; an up takes them in the
order of their names, which are their ranks here. A manifest is written in one
step here and in three in Manifests.

**Sources** — a registration of a name is a generation. `ledger` is the
registry, `sfile` the file of index states, which is read and written in two
steps without a lock, `sjob` the handlers, backfills and the start-up job.
`Expired` says which registrations have only lines older than the retention:
their documents are none. A handler that replaces a source counts as replacing
until the status Queued is saved, so a crash between the deletion of the old
documents and that save is part of `mixed`.

**LogQuery** — one log whose lines have timestamps of their own; a reader asks,
waits for the ingest under the gate, and takes a page. `follow` is
`logs --follow`, `share` the auto-share monitor, `facetCache` the cache that a
commit clears.

**TaskRunner** — `taskRec` is the task store, `job` where each runner is,
`history` the file that is read and rewritten without a lock, `watchHash` the
stored hashes. The init and post_init phases are run by one worker.

**AgentSessions** and **AgentMailbox** — the session store, the share
requests, the poll task with the reply under way (`hand`), the channel, the
writer and the terminal. AgentMailbox is the abstract specification: an inbox
per agent from which messages are typed in order, lost only by an
interruption, and none kept waiting for ever. `DeliversAsMailbox` is the
refinement: the inbox is the channel, the reply and the queue of the session,
one after the other.

**StackPlan** — the loops of `topo_sort` and `filter_to`, one step per turn,
with names as their ranks in the alphabet. The reference definitions
(`WaitsForItself`, `StartsAfterDeps`, `Suffices`) do not mention the loops.

The `MC*` modules give the constants their values. MCServices (Watchers,
ApiCapture, Manifests, LogTails), MCShared (Globals, Sources, LogQuery,
StackPlan) and MCWorkers (TaskRunner, AgentSessions) each check several
components that share no state: a behaviour picks one of them at the start
(`part`) and leaves the others in one initial state. The reachable states are
the disjoint union of those of the components, so an invariant of the run is
one of each of them, and nothing is lost but combinations of components that
cannot influence each other. Operators whose comment begins "Faulty variant"
are deliberate mistakes, used to confirm that a property notices them; no
specification uses them.

## Runs

| run | instance | shows |
|---|---|---|
| `ports` | 2 ports, 2 homes, 3 daemons (one a successor), 3 owners | exclusivity, backing entry, no orphan entry, stability |
| `ingest` | 1 file, 2 lines (1 blank before the truncation), 1 truncation, chunks of any size | no duplicate, no loss, numbers follow the file |
| `ingest_two_runs` | 2 files of 2 runs, retention cutoffs | no line behind a cursor vanishes, but by its eviction or the `delete_run` of its own run |
| `run_overlap` | 1 service, any 3 commands at once | no stray monitor, every recorded handle watched, a stopped run revived by status queries only |
| `run_stack` | 2 services, 4 commands, `Serial` | run state follows the services, a stopped run has no process |
| `run_monitor_ends` | 1 service, fairness | a monitor told to stop ends |
| `units` | 2 units (1 kept after its exit), 2 callers, 3 process groups, `Exclusive` | one holder per group, the file suffices to restore, no live shim is forgotten, a stop is final |
| `services` | a service and a global, 2 watchers, 2 callers, 3 versions; 2 proxies, 2 requests, a queue of 1, a body limit of 2 and bodies up to 3; 1 run, 2 persisters, 4 changes, 1 restart; 2 clients, 2 tails, 4 half lines (2 after the truncation), 1 truncation, a channel of 2 | no stray watcher and no edit forgotten; no stray proxy and every event accounted for; a torn manifest only by overlap and no stopped run restored; one tail per run and no gap in the live log |
| `shared` | 2 globals (1 with a fixed port), 2 ups and the boot, 2 faults; 2 sources, 2 generations (the second of one and the first of the other expired), 2 jobs and the start-up job, 1 crash; 3 lines, pages of 1, 2 facet queries, rate limit 2; all stacks of up to 3 services with up to 2 dependencies each, up to 2 targets | the shared port is served; Current means indexed and removed means forgotten; the follower misses nothing, later errors are announced, facets are fresh; the plan agrees with its definition |
| `workers` | 1 task, 2 requests and the phase worker, 1 edit; 1 agent, 2 messages, 1 restart | duplicates only by race, up to date means built, the last verdict is shown, a started task ends; delivery as AgentMailbox, the proxy returns |

Two ports suffice for a conflict and for a refusal in the middle of an
allocation; three daemons for a predecessor, its successor and a stranger.
Two lines give a batch boundary between them and, once the file is truncated,
an old and a new line of the same number; more lines are covered by the proof. Three
commands give an up, a down and a third that meets what they left. Two
callers give overlapping calls on the two units (on one unit, only the proof
covers the overlap), and three groups a process, its replacement and one more
to confuse them with. Two callers or persisters are what every check-then-act
window of the records takes; a queue of one and two requests fill it; a body
of three with a limit of two crosses it inside a chunk. Four half lines are
two lines, the second of which can be read half, before a truncation and one
after it; again the proof covers more. Three
services make a cycle with a service outside it, and two dependencies one that
is listed twice. Agents share only the list that a share request searches, so
one agent is checked; its two messages can be split by a restart.

Counters are capped by named bounds (`Max...`). Ports, handles, process
groups, callers, clients and proxies are interchangeable, hence the symmetry
sets; the runs with a liveness property use none. MCServices gives the
interchangeable members of its four components the same values
(`SharedSymmetry`), so that one permutation moves all of them. Where
`CHECK_DEADLOCK FALSE` stands, a client may stop sending commands, or the
computation ends.

Properties name what the code does not promise; the exceptions are ghosts or
conjuncts, and each is reachable:

- `RecordedHandleIsWatched`: the handle of a monitor that gave up at the
  restart limit stays in the record (`gave_up`). A readiness result that comes
  later makes the service Ready, and `mark_service_ready` starts no monitor,
  though ARCHITECTURE.md:58 says that a Ready service gets one.
- `RevivedOnlyByStatus`: `reconcile_run` assigns the derived state without the
  Stopped check of `recompute_run_state`, so a status query can turn a stopped
  run into a running one with `stopped_at` set.
- `SharedPortIsServed`: two ups, or an up and a crash, that meet between the
  look at a global's manifest and its write (`graced`) may leave a record with
  a port the unit does not serve.
- `CurrentIsIndexed`, `RemovedIsForgotten`: an add or a removal that met
  another job of the name (`mixed`), and an entry of the state file overwritten
  with an older copy (`lostUpdate`).
- `LaterErrorsAreAnnounced`: an error on the very first line of a log is never
  announced, since the cursor 0 of an empty log means that line has been seen;
  README.md:119 makes no exception.
- `FacetsAreFresh`: a query may insert what it computed before the last commit
  (`staleInsert`). `TornOnlyByOverlap`, `DownSurvivesRestart`: two persists of
  one run that meet. `DuplicateOnlyByRace`: two requests that both checked
  first. `NoStrayProxy`, `NoStrayWatcher`: handles of a record that was dropped.
- `LiveLogIsGapless`: a client that lagged, two tails that overlapped, a file
  truncated and regrown past the cursor between two reads. Lines truncated away
  before the tail read them are no gap: a client goes on at the first line of
  the new contents.
- `NoDuplicateLines`: a file truncated and regrown past the cursor (`slipped`).
  Without the exception TLC finds a line indexed twice: the index is committed
  and the cursors moved, but the state file is not written; the daemon dies, the
  file is truncated and grows past the saved cursor, whose next batch then
  numbers lines behind those of the first one. The other two properties of
  LogIngest speak of cursors of the present contents only.

Fairness. `Fairness` of RunLifecycle: weak fairness of the steps of monitor,
readiness task, restart, launch and down. tokio polls a woken task
eventually, and every wait in them is a timer or a call with a timeout.
`TaskFairness`: weak fairness of each worker, whose waits are the exit of the
command it runs; a command that never ends is outside of it. `AgentFairness`:
the tasks of a proxy, the daemon's answer to a poll, and `TerminalCloses`,
which says that the descendants of the wrapped process close the terminal some
day; without it `run_proxy` waits for its reader as long as they keep it open.
What users, clients and crashes do is never fair.

### Disagreements

Two runs show a state the documentation excludes. Each has a finding in
`PROJECT.json` that quotes the text.

| run | what happens |
|---|---|
| `orphan_after_down` | a `down` that overlaps an `up` misses the unit whose record is not stored yet |
| `kill_orphans_service` | SIGKILL reaches the shim's group only; the service, in its own group, lives on. A stop does the same when the shim needs more than 3 s |

Others came up and have no run of their own: the exceptions above; a status
query that writes Degraded first takes away the Ready state the monitor wants
to see before it restarts (ARCHITECTURE.md:62-64). Without `Exclusive`,
`StopIsFinal` and `LiveShimIsHeld` fail: a stop between a restart's removal
and insertion of the unit finds nothing and returns, and the unit comes back.
`write_registry` truncates the shared file before it writes it, so a daemon
killed in between empties it for all daemons; the model takes a write to
complete. And a failed init task is recorded without ending the launch
(`record_failed_init_service`), so dependents start, although the README says
that they wait.

## Proofs

`PortRegistry_proofs` proves, for any sets of ports, owners, homes and
processes, that `Spec` implies `TypeOK`, `HeldIsReserved`,
`NoOrphanReservation` and `HeldExclusively` always, and `EntryIsStable`. The
assumptions are that every owner and process belongs to one home
(`HomeAssumption`) and that `NoEntry` is not an entry.

`HeldIsReserved` alone is not inductive. A release removes the entry of its
owner whichever process wrote it, and a boot is granted its owner's entry; to
know that neither touches another running daemon's claim one needs that an
owner's claims live in one home (`ClaimsOfRunningDaemons`,
`EntriesOfStartedDaemons`) and that a home has one running daemon
(`OneDaemonPerHome`, from the lock). That cleanup spares the entry needs that
claims belong to running processes. `IInv` conjoins these;
`HeldExclusively` follows from `HeldIsReserved`, since one port has one entry.

Claims granted on a predecessor's entry are exempt: `reserve_specific_port`
leaves that entry's pid as it is, so the entry goes when the predecessor has
been reaped. Process ids are taken not to be reused.

`LocalSystemd_proofs` proves, for any sets of units, callers and process
groups, that `Spec` implies `OneHolder` and `UnitsAreRestorable` always, with
`Exclusive` or without. `OneHolder` alone is not inductive: a restarted daemon
rebuilds the map from the file, so one needs that the file mirrors the map
(`RegistryIsCurrent`), and `spawn_child` hands out a group that was never
created, so one needs that held groups were (`HeldGroupsAreBorn`).
`UnitsAreRestorable` follows from the first. Where `Exclusive` holds it also
proves `StopIsFinal` and `LiveShimIsHeld`. They need, beyond `IInv`, that the
unit a call works on is out of the map and no other call works on it
(`CallsExclude`), that a call which will put its unit back was not overtaken by
a stop (`StartIsNotStopped`), and that a process being reaped has had its signal
(`ReapedAreSignalled`), so that a crash of the daemon in the middle of a call
forgets only a process that is ending. Assumed: a process group id is used
once, and a write of the file succeeds.

`LogTails_proofs` proves, for any finite set of clients, that `TailSpec` implies
`TailIsShared` always. The count of references alone is not inductive, because
the last client aborts its task after it has dropped the lock; `TailInv` adds
that a task is started once (`StartedOnce`), so that the task about to be
aborted is never the one that is registered by then.
`LiveLogIsGapless` needs `LiveInv`, which follows a line from the tail to the
client: in what the client has got and what stands in its receiver each line
follows the one before (`Gapless`, `ReceiverInv`); what the tail has read and
not yet sent goes on after the last of them, or, if it holds nothing, its cursor
does (`GoesOn`, `OutInv`); and a tail that was told of nothing since its last
read has no complete line before it (`CursorInv`). Line numbers are those of one
contents of the file: counted on through a truncation, the lines truncated away
before the tail read them would be gaps.
It also proves the three invariants of LogQuery for any log, readers, page
length and rate limit, the last two positive as the code's constants are. The
lemma everything rests on is that a page is the interval of line numbers after
the cursor (`PageIsInterval`), and so, as a list, counts up from it. `QueryInv`
then says that the follower's cursor is the last line it printed
(`FollowInv`); that each error from the monitor's start up to its cursor was
announced, and that what a complete poll covered lies below the cursor
(`ShareInv`); and that one reader at a time is between its commit and the
clearing of the cache (`GateInv`), without which a clear could come before the
commit it is for.

`RunLifecycle_proofs` proves, for any services, handles, commands and limits,
that `Spec` implies `TypeOK`, `NoStrayMonitor` and `RecordedHandleIsWatched`
always, and `RevivedOnlyByStatus`. Neither of the two monitor invariants is
inductive: `WatchInv` adds that two records never hold the same handle, without
which stopping the monitor of one service could set the flag that the monitor
of another listens to. `RunStateFollowsServices` is proved where
`"status" \notin Commands`, since a status query writes back what it derived
from an older snapshot, and `StoppedRunHasNoProcess` under `Serial` as well,
since the run `orphan_after_down` shows it false when a down overlaps an up.
`SerialInv` says that every process belongs to a record or to the service being
launched, that a down past its listing knows every process there is, and that a
run that is not alive has none. `CurrentIsTodo` uses that the ranks of services
are well-founded.

`Services_proofs` is about three components. Watchers (`WatchInv`): a handle
belongs to the key it was born for, in the record and in the hands of a call,
and a watcher that is about to decide has hashed the latest files or has been
told of a later edit. ApiCapture (`CaptureInv`): a request is logged at most
once, a proxy that has drained has no request left, and the requests whose
events a proxy could not queue are as many as it has counted; the last is a
cardinality per proxy, so that no sum over proxies is needed. Manifests
(`ManifestInv`): no two runs share a file, a writer that met no other has the
temporary file for itself, and once a down is on disk, the record is stopped
and so is the copy of every writer that is alone.

`Workers_proofs` proves the three invariants of TaskRunner for any requests,
tasks, runs and edits. `TaskInv` orders the stamps of an execution after its
steps, says that a stored hash is of no later version than the present one, and
that an execution whose append met no other is in the history file and in every
copy from which the file may be written again. `TaskAssumption` keeps requests
apart from the executions of phases, which are pairs of numbers.
It also proves that `AgentSpec` implements the safety part of AgentMailbox: the
inbox is the channel, then the reply under way, then the queue of a live
session, and each step is a step of the mailbox or leaves the inbox alone. That
needs that a session that is gone has no queue, that a poll task which waits
holds no reply, and that whoever lost something counts as interrupted
(`DeliveryInv`).

`Shared_proofs` proves the two invariants of Sources and that of Globals.
`SourceInv` speaks of each name that is not mixed: a job that replaces its
registration is alone on it and all others work on the generation of the ledger
(`NameInv`); the documents are those of that generation or the job that will
index them has not recorded Current yet (`IndexInv`); and of a removed name
nothing is left but what its own removal has still to clear (`RemovedInv`).
`BootInv` is about the start-up loop. `GlobalInv` speaks of each global on
which no two calls met: record, manifest, unit and call name one port, and a
record or unit that no manifest shows belongs to the one call that is about to
write it. The manifest is the meeting point: without it a later up would
allocate a second port.
It also proves, for any finite set of names and any lengths of the
lists of dependencies and targets, that `PlanSpec` implies
`PlanMatchesReference` and `FilteredPlanIsLeast` always. The inductive
invariant `PlanInv` says of the sort that a degree is the number of listed
dependencies not yet placed, where a dependent the inner loop has still to
come to counts the current service as not placed (`DegreesCount`), and that no
set of services that wait for each other has a member in the order
(`OrderGrows`); when the queue runs dry, the services not placed are such a
set. Of the filter it says that what is found and what is queued lies within
every sufficient set (`FilterGrows`), so that the result is the least one. The
lemmas `PushBack`, `PopFront`, `PushAll` and `MissingCounts` are about
sequences and cardinalities.

`LogIngest_proofs` proves, for any sources, runs, blank lines and bounds, that
`Spec` implies `NoDuplicateLines`, `NoLineLost` and `SeqFollowsFile` always,
and `LinesStayIndexed`.
None of the invariants is inductive, since each speaks of the index and the cursors as
they are, and a job works on both at different times. `IngestInv` rests on two
ideas. The first is the index as the batch in hand will leave it (`Batch`): what
the cursors in memory and in the state file have behind them is in the index
(`Covered`) and numbered in the order of the file (`Ordered`); the same holds of
the job's own cursors and `Batch`. The second is that the cursors lag (`Lags`):
the state file behind the memory, the memory behind the job. Hence what the
batch deletes and adds has numbers that neither has behind it (`Spared`), and a
job that is cut off before its commit, or whose deletions alone are published,
leaves the index right for the cursors that go on; after the commit they are
behind the index, and the next job deletes from their number on before it adds
the lines again. `Spared` is also why a line that a search found behind the
cursor stays while others are read again (`DocumentStays`). `Unique` of `Batch` is what makes that no duplicate. A cursor of
other contents (`Speaks`) promises nothing, which is where `slipped` comes in.
The lemma `Numbering` counts the lines of a chunk: their numbers increase and
stay below the cursor's next one. Assumed: `Blank` consists of lines, and
`NoUpdate`, `NoSource` are neither updates nor sources.

Only model-checked are the liveness properties (`StoppedMonitorEnds`,
`StartedTaskEnds`, `ProxyReturns`, and the fairness part of
`DeliversAsMailbox`), which are out of the prover's reach; TLC checks them under
the fairness above. That a run in which components share a module is the union
of theirs is argued, not proved.

## Not modelled

`RealSystemd`, which hands each call to systemd; `LocalSystemd::cleanup_registry`;
gc of globals; the store of the dashboard's navigation, one cell under a lock;
schema migration and compaction of the index, the counting of facets and
full-text search, which are Tantivy's; the probes of a readiness check, whose
outcome is a choice; manifest migration; the checks of single configuration
fields. The HTTP surface, diagnosis, the CLI and the dashboard keep no state
the daemon depends on.

In what is modelled: the bytes of a line (a line that is not UTF-8 moves the
ingestion cursor wrongly), cancellation of a handler whose client disconnects
in the middle of an `up` (`app/commands/runs.rs:1029`), errors of `stop_unit`,
ports that a failed launch does not give back (`app/commands/runs.rs:302`),
half-written registry files, a restarted daemon's missing health monitors, a
log file that is removed while it is tailed, and read errors of a tail.

## Plan

1. An abstract service manager (a set of running units) that LocalSystemd
   implements under `Exclusive` and RunLifecycle uses.
2. `LaunchPorts`: port bookkeeping of up, refresh and down over PortRegistry,
   with handlers that are cancelled.
3. `LineIndex`: the abstract specification of LogIngest (a set of lines that
   grows and is evicted) and the refinement, for which `IngestInv` is the
   invariant.
