# A verification development of the Space Agent runtime

TLA+ modules that model the stateful core of this repository, the TLC
configurations that check them on small instances, and proofs of their safety
for every instance, checked by TLAPS.

Contents: [the system](#the-system), [modules](#modules), [runs](#runs),
[fairness](#fairness), [proofs](#proofs), [where the code and its documents
part](#where-the-code-and-its-documents-part), [not modelled](#not-modelled),
[plan](#plan).

## The system

`node space serve` runs one process, or a cluster: a primary that owns the
authoritative state and workers that answer HTTP from a replica of it.
`node space supervise` runs such a server behind a proxy and replaces it when
its Git branch moves. The browser runs the agent: it talks to a language model,
executes the code of the replies and keeps the conversation.

| Component | State | Operations | Hard behaviour | What makes it correct |
|---|---|---|---|---|
| State system (`server/runtime/state_system.js`) | version, entries by area, delta log, locks, version waiters | commitEntries, getDeltaSince, applyDelta, applySnapshot, acquireLock, releaseLock, waitForVersion | bounded log, flattening, gaps, lock expiry | delta replay is exact; one holder per lock, no wait without end |
| Watchdog (`server/lib/file_watch/watchdog.js`) | indexes derived from files, operation queues, timers | refresh, reconcile, applyProjectPathChanges, on-demand loads, applySnapshot, start | operations queued by priority, scans that awaits interrupt, commits emitted now or later | the replicated entries follow the files; no scan takes them back |
| Lazy shards (`file_index_store.js`, `state_shards.js`) | L2 shards with versions, stale marks | load, apply, invalidate | a load racing a write, a marker racing an answer | equal versions mean equal files; a worker sees its own writes |
| Cluster (`server/runtime/cluster.js`, `ipc.js`, `worker_entry.js`) | pending requests, boot phases, worker numbers | fork, WORKER_READY, broadcast, pull, exit | messages in flight, crashes, boot racing commits | every worker shows one state of one history and only moves forward |
| Request fencing (`server/router/router.js`, `state-version.js`, `fetch-proxy.js`) | version floor per tab and cookie | wait, serve, answer 503, retry | a worker behind the floor | a tab never reads older state than it has seen |
| Jobs (`server/jobs/`) | schedule, running job, named lock, the user and path indexes it reads | run, reschedule, delete guests | a runner in every process, late lock releases, guests that change during a run | jobs keep running an interval apart; only inactive or oversized guests are deleted |
| Git history (`lib/customware/git_history.js`, `lib/git/native_handler.js`) | pending commits with debounce, a work queue per repository | schedule, flush, commit, rollback, revert, preview | changes during commits and rollbacks, failing Git, exits, worker reports | every change is committed soon; a rollback loses nothing |
| Supervisor (`commands/lib/supervisor/supervisor.js`, `child_process.js`) | active child and target, draining children, loop flags | start, update check, promote, drain, fall back, restart, stop | five concurrent activities and processes that die at any time | the proxied child is usable; no process is lost; the service comes back |
| Onscreen agent (`_core/onscreen_agent/store.js`) | history, queued follow-ups, busy and stop flags, request controller | submit, queue, stop, compact, rerun, clear; the send loop | user events at every await of the loop, aborts, retries | the panel is busy exactly while something runs; follow-ups go out in order |
| Authentication (`server/lib/auth/`) | users, `logins.json`, challenges | login, session issue and revocation | read-modify-write by several processes | no session is lost or resurrected |
| Rate limiter, quotas | sliding windows, size cache | check, invalidate | per-process caches | limits hold |
| The rest of the browser application, API handlers, proxy streaming | no shared server state of their own | | | |

How they interact: an HTTP worker writes files and asks the primary, over IPC,
to commit the changed paths; the primary's watchdog re-reads them, commits the
difference to the state system, broadcasts the delta, and schedules a Git commit
of the changed roots. Workers apply deltas to their replica, or pull a delta or
a snapshot when one does not fit; the files of a user (an L2 shard) come only on
demand, and a replicated marker tells a worker that its copy is old. The job
runners take locks from the state system and read the indexes. Each response
carries the replica's version, and a browser tab sends the highest one it has
seen with its next request. The supervisor only knows that a child prints its
address, answers `/api/health`, and may exit.

## Modules

| Module | What it is |
|---|---|
| `StateSystem` | The replicated half of the state system as operators: change sets, commit, log, `getDeltaSince`, the outcomes of `applyDelta`. |
| `ClusterSync` | State machine of one primary and its workers, with the IPC between them. |
| `VersionedStore` | What the cluster promises: one history of states and, per serving worker, a view that is exactly one of them and moves forward. |
| `MCClusterSync` | `ClusterSync` for TLC: symmetry of workers, keys and values. |
| `LazyShards` | The L2 shards over the same channels: an instance of `StateSystem` whose entries are the shard markers. |
| `StateLocks` | The named locks of the state system, their queues and expiries. |
| `MaintenanceJobs` | The job runners and guest clean-ups over `StateLocks` and the indexes. |
| `MCMaintenanceJobs` | `MaintenanceJobs` for TLC: the callers and locks of an instance. |
| `GitHistory` | The debounced commits, rollbacks and reverts of owner roots. |
| `Supervisor` | State machine of the supervisor and its serve processes. |
| `OnscreenAgent` | The send loop of the onscreen agent and what its user can do meanwhile. |
| `ClusterSyncProofs`, `LazyShardsProofs`, `StateLocksProofs`, `MaintenanceJobsProofs`, `GitHistoryProofs`, `SupervisorProofs`, `OnscreenAgentProofs` | Theorems about these modules. |
| `SequenceLemmas` | Facts about queues that the proofs share. |

Operators whose comment starts with `mutant:` or `Bug:` are defect variants of
the definition that follows them: what a plausible bug would make of it. Nothing
uses them; they are put in the place of the original to see that the properties
notice.

### State and actions of `ClusterSync`

The entries of all replicated areas are one function from keys to values with
`Absent` for a missing entry. A delta is an update between two versions; a
snapshot is the update from a version to itself that holds every key.

* Primary: `version`, `entries`, `deltaLog` are the state system's variables.
  `history` is a ghost: the entries at every version. `unpublished` holds the
  commits whose promise has not continued yet: `commitProjectPaths` commits in
  the watchdog's queue with `emit: false`, and broadcasts and answers only when
  `handleWorkerMessage` goes on.
* Worker: `phase` is how far `startClusterWorker` has come, `initial` its
  bootstrap snapshot, `replicaVersion` and `replica` its state system.
* IPC: `inbox[w]` and `requests[w]` are the two FIFO directions of the channel.
  An answer settles a promise whose continuation runs after the other messages
  of the same read, so a broadcast may overtake answers; nothing else overtakes.

| Action | Code |
|---|---|
| `CommitAndBroadcast`, `CommitAndBroadcastSnapshot` | a watch event, the reconcile, or a refresh commits and emits |
| `CommitOnDemand` | an on-demand load finds changed files |
| `CommitProjectPaths`, `Publish` | a worker's write, committed and later broadcast and answered |
| `PrimaryReceive` | WORKER_READY, getDeltaSince, getSnapshot |
| `ReceiveBootstrap`, `DropBroadcast`, `CreateWatchdog`, `StartCheck`, `StartApply` | the worker's start |
| `ReceiveDelta`, `ReceiveSnapshot`, `ReceiveSyncDelta`, `SyncFails` | `handlePrimaryMessage`, `applyPrimarySyncPayload`, `syncWatchdogFromPrimary` |
| `FenceSync` | `stateSync.waitForVersion` finds the replica behind |
| `WorkerExit` | a process ends; the primary forks its successor |

`Publish` takes the oldest unpublished commit, or a `commitProjectPaths` ahead
of older on-demand loads: its continuation passes through one promise fewer, so
that when both settle in one turn the commit goes out first.

### State and actions of `LazyShards`

`disk` has each user's files, a file being the number of the edit that wrote it
(0: no file). The primary's `index` is the authoritative shard of each user with
its version from `shardCounter`; `markers` is the replicated area
`file_index_meta`. `queue` and `running` are the watchdog's operation queue and
the operation that is scanning; `joined` the callers that share one load
(`fileIndexShardLoadPromises`). `shards[w]` are a worker's copies with their
stale marks, and `confirmed` is a ghost: the version of the worker's last write
that was answered.

| Action | Code |
|---|---|
| `StartOperation`, `FinishLoad`, `FinishRefresh` | the operation queue by priority: path changes at once, loads and refreshes as a scan and what becomes of it |
| `Reconcile` | the reconcile timer queues a refresh |
| `PrimaryReceive`, `Publish` | `handleWorkerMessage`: calls queued or answered from the index, results broadcast and answered |
| `WorkerReceive` | broadcasts, answers, gaps, snapshots, with the shards and invalidations they carry |
| `EnsureUserFileIndex`, `EnsureUserAuthState`, `FencePull`, `Write` | a worker's calls; `Write` changes a file and reports the path |
| `EditOutside` | a file changes without a report |

### State and actions of `StateLocks` and `MaintenanceJobs`

A deadline is the time left to it, and `Tick` (in the jobs, `TimePasses`) takes
one unit off all of them. `call[c]` is the one call a caller has under way:
waiting, answered (the promise is settled, its continuation to come), holding,
or orphaned, when its process ended and its waiter stays behind. A runner takes
`job_run:<job>` in its own process's table. `disk` is what the guests'
directories are, `known` and `indexed` what the process's user and path indexes
say, `dirty` what has changed and is not committed yet.

| Action | Code |
|---|---|
| `Acquire`, `WaitTimesOut`, `HearAnswer`, `Release`, `Exit` | `acquireLock`, the waiter's timer, its continuation, `releaseLock`, a process end |
| `RunJob`, `LockRefused`, `Begin` | `runJob` up to the lock, its refusal, `run()` up to the first deletion |
| `DeleteGuest`, `DeleteSettles`, `RunEnds`, `RunThrows` | the clean-ups' loop; the finally block reschedules and releases |
| `Visit`, `LoadShard`, `Change`, `Commit`, `Replicate` | a guest comes, its shard is loaded, its files change, the change reaches the indexes, first the committing process's and later the others' |

### State and actions of `GitHistory`

A root's files are one content, numbered by the change that wrote it. `saved`
holds the contents that some ref reaches; `pending` is `pendingCommits` with the
time to go and the time waited; `queue[p][o]` is the native handler's queue of
process `p` for the repository of `o`. Two ghosts follow each root's changes:
`unsaved` has those made since the content HEAD holds, and `missed` those of
them that no commit was to come for when they were made or when theirs failed or
its process ended. A request remembers in `asked` how many changes there were.

| Action | Code |
|---|---|
| `Edit`, `Report` | a change is recorded in the process, or reported by a worker and scheduled at the primary |
| `HistoryTick`, `TimerFires` | the debounce timer |
| `Ask` | rollback, revert or preview: flush, then the work is queued |
| `Stage`, `CommitStaged`, `CommitFails` | `commitAll`: add and status, then commit |
| `Reset`, `Revert`, `RequestEnds`, `RequestFails` | `rollbackToCommit`, `revertCommit`, and the release of the suppression |
| `Exit` | the server, or a worker, ends |

### State and actions of `Supervisor`

`main`, `updater`, `restarter`, the drains, `stopWait` and `stopper` are the
promises in progress; stop() waits for its children, then for the proxy, whose
close ends when the last client is gone; an action runs from one `await` to the next. `proc`, `owner`,
`revision`, `stopping`, `signalled` describe the serve processes: `owner` is who
waits for a child to start (or, for a surplus restart, to stop). `draining` is
`drainingChildren`; `abandoned` are drains whose record was taken back, which
end without effect. The health of a start is an input: it succeeds or fails. A
dead child answers no health check. Drains end at any moment, which stands for
every history of the proxied streams.

### State and actions of `OnscreenAgent`

`phase` is the await the series is in: preparing the request, compacting,
preparing again, loading the local model, streaming, processing an aborted or a
whole reply, executing, saving. `pending` is the message the next request is
for, `latest` the last message of the history, `queued` the follow-ups, `sent` a
ghost: the submissions in the order they entered the history. Boundaries
(`turn-boundary.js`) are the operators `BoundaryAction` and `AfterResponse`.
What the model answers, whether code runs and whether a compaction works are
inputs. A click on compact checks the flag and then refreshes the prompt
(`CompactClick`, `CompactRefreshed`); anything may start meanwhile. `submitMessage`
and `handleClearClick` are one action each: once a page has sent a message, what
they await before their last assignment is settled. The first message's
`processOnscreenAgentMessage` looks its extensions up with a fetch; the model
begins after that.

## Runs

| Run | Instance | States | Result |
|---|---|---|---|
| `replica_faults` | 1 worker, 1 key, 1 value, log of 1, 3 commits, 1 exit | 284,646 | passes: types, `ReplicaSound`, `ServingVersionMonotone`, `EveryWorkerServes`, `FencedCatchUp` |
| `replica_exact` | 2 workers, 2 keys, 1 value, log of 2, 2 commits while all serve, 1 exit | 2,018,020 | passes: `ReplayExact`, `ReplicaComplete`, `ImplementsStore` |
| `boot_loses_snapshot` | 1 worker, 3 commits, also during boot | | `ReplicaComplete` violated |
| `shards` | 1 worker with 3 calls, 1 user, 2 files (1 read by authentication), 2 edits, log of 2 | 2,417,836 | passes: types, `VersionNamesFiles`, `CommittedVersionKept`, `IndexMovesForward` |
| `stale_shard` | 2 workers with 1 call each, 1 file, 2 edits | | `StaleShardKnown` violated |
| `jobs_on_owner` | 1 process, 1 job, 2 guests, 1 other lock caller | 74,306 | passes: types, `MutualExclusion`, `WaitersQueued`, `NoCatchUpBurst`, `JobsGoOn`, `EveryWaitEnds` |
| `jobs_in_workers` | the primary and 1 worker, both jobs, 1 guest | | `TrackedGuestKept` violated |
| `history` | 2 roots, 1 worker, 2 requests, 2 edits, 1 fault; single process and cluster | 567,893 | passes: types, `NothingForgotten`, `WaitIsBounded`, `RollbackKeepsEdits`, `RootsReachHistory` |
| `stop_loses_commits` | 1 root, 2 edits, 1 exit; single process | | `StopFlushes` violated |
| `supervisor` | 4 serve processes, 1 push | 332,360 | passes: types, `ActiveIsUsable`, `NoOrphan`, `RestartGoesOn`, `UpdateChecksGoOn`, `StopReachesProxy` |
| `lost_restart` | 4 serve processes, 1 push | | `ServiceRecovers` violated |
| `agent_loop` | 4 submissions, 2 retries | 35,041 | passes: types, `PanelBusyForOne`, `SubmissionsInOrder`, `FollowUpSeesOutput`, `StopEnds`, `FollowUpTaken` |

What the properties say:

* `ReplayExact`: what `getDeltaSince` answers turns the state of the asked
  version into the current one, and it refuses only replicas further behind
  than the log reaches.
* `ReplicaSound`: a replica is never ahead and never holds an entry the primary
  did not hold at the replica's version; at worst one is missing.
* `ReplicaComplete`: nor is one missing. True as long as nothing is committed
  while a worker starts, which is why `replica_exact` sets `CommitDuringBoot` to
  FALSE; without that restriction it is what `boot_loses_snapshot` refutes.
* `ServingVersionMonotone`: a serving worker's version never goes back.
* `ImplementsStore`: the cluster refines `VersionedStore`.
* `EveryWorkerServes`, `FencedCatchUp`: every fork gets to serve; workers reach
  the newest version as long as clients keep asking for it. Broadcasts alone do
  not suffice: a dropped broadcast or a failed pull is repaired only by a later
  message or request.
* `VersionNamesFiles`: a copy with the primary's version has the primary's
  files, so that answering its owner "unchanged" is right: over tombstones,
  partly loaded shards, and copies that outlive a deletion.
* `CommittedVersionKept`: a worker answered with the version its commit made never
  takes an older copy for current, whatever payloads are reordered, repeated or
  skipped. Two kinds of write do not count: one that something else had indexed
  when its commit ran, so that it made no version, and one committed while an
  answer with the older copy was unsent.
* `IndexMovesForward`: no scan that began before a write puts the older content
  back into the primary's index.
* `MutualExclusion`, `WaitersQueued`, `EveryWaitEnds`: a late release, an expiry
  and a hand-over never give a lock to two callers; every waiter is queued once;
  every wait ends, although an expiry wakes nobody.
* `TrackedGuestKept`: no clean-up deletes a guest with recent, small files in
  the primary's index. The runner of the process that owns the index looks at it
  before each deletion; `jobs_in_workers` refutes it of the others.
* `NoCatchUpBurst`, `JobsGoOn`: runs begin an interval apart and go on after
  failures and refused locks.
* `NothingForgotten`, `RootsReachHistory`: what a root holds is committed, or a
  commit or a report is to come and gets there, except for a change made while a
  rollback has the history suppressed, a failed commit, and a stopped server.
* `StopFlushes`: a server that stops has made the commits it had planned. Refuted
  by `stop_loses_commits`.
* `WaitIsBounded`: a root that keeps changing is committed all the same.
* `RollbackKeepsEdits`: a rollback overwrites no change that was made before it
  was asked for and is in no commit, unless no commit was to come for it
  (`missed`). Only in a single process: see below.
* `ActiveIsUsable`, `NoOrphan`: until stop(), the proxied child runs and nobody
  drains or stops it; every process is accounted for, one that comes up after
  stop() included.
* `RestartGoesOn`, `UpdateChecksGoOn`, `StopReachesProxy`: restarts continue until
  some child serves, an update attempt ends, stop() gets past its children and
  then resolves unless clients hold the proxy open.
* `PanelBusyForOne`: a series or a rerun keeps `isSending` set and is alone, over
  compactions that begin before it, restore the flag under it or end after it.
* `SubmissionsInOrder`, `FollowUpSeesOutput`, `FollowUpTaken`: follow-ups enter
  the conversation in order and once, never before the output of the code they
  follow, and are taken while their series lasts.
* `StopEnds`: a stop ends what is running or a follow-up takes
  its place, even of an agent that answers every output with more code.

Why the bounds are enough. With a log of one a replica is current, one behind (a
delta), or further behind (a snapshot); the third commit is the one that makes a
snapshot late, since only a replica two behind asks for one. Soundness of each
key is independent of the others, so `replica_faults` has one; in
`replica_exact` two keys let an update touch one entry, both or neither. One
value besides `Absent` distinguishes writes, rewrites and deletions.
`MaxInbox` bounds what a commit may add to, not what a worker may be sent in
answer.

`shards`: shards of different users share only the counter and the channels, so
one user is enough; three calls let a load, a write and a second load overlap,
which an answer that overtakes another needs, and two edits make an old and a
new content that differ from no file.

`jobs_on_owner`: two guests are what a run must have to see one change while it
awaits the other's deletion; one other caller makes every race with a runner for
a lock; an interval of two and a cutoff of one separate early, in time and late.
Three tokens are one more than there are callers, so a stale one can exist.

`history`: two roots show that one repository's queue does not hold up another;
two requests overlap (a rollback meets a flush, a preview or another rollback);
two edits make a change before and one during a commit; one fault is one failed
command or one exit. The five times are the smallest that keep the code's order
of thresholds and debounces.

`supervisor`: four serve processes allow an active, a draining, a replacement
and a restarted child at once; starts are unbounded, because an exited child's
slot is used again. Only the branch's revisions are counted.

`agent_loop`: one submission starts a series, two wait and a fourth starts the
next series; two retries are the code's number. Requests, replies and executions
are not bounded. One click on compact is under way at a time.

`stop_loses_commits`: one root with one change pending is all it takes.

Deadlock is not checked where a system may rest: a cluster without commits
left, a history without changes left, a stopped supervisor, a panel whose
submissions are used up, shards without calls and edits left. The jobs never
rest, and their runs check it.

## Fairness

`ClusterSync`: messages are delivered, settled promises continue, the boot goes
on and a worker whose boot pull failed exits (`worker_entry.js`). Commits, other
exits and fenced requests are never forced, except that `FencedCatchUp` assumes
clients that keep asking (`FencedSpec`).

`MaintenanceJobs`: time passes and timers fire, a job's steps and a file's
commit follow, a waiting caller hears its answer. Other callers are
never forced to release a lock, and guests come and change as they like.

`GitHistory`: timers run, reports are answered, Git commands end one way or the
other. Changes, requests, failures and exits are never forced.

`Supervisor`: timers fire, signalled processes exit, starts end one way or the
other. Strong fairness is assumed twice: a start that is tried for ever succeeds
once, and the backoff's timer fires although `Child` bounds the processes that
exist at a time. Crashes, pushes and stop() are never forced, nor do the proxy's
clients ever have to leave.

`OnscreenAgent`: requests, executions, saves, reruns and compactions end one way
or the other. The user is never forced to do anything.

`LazyShards` states safety only and assumes none.

## Proofs

`ClusterSyncProofs` proves, for every set of workers, keys and values, every
retention and every bound:

* `TypeCorrect` (`TypeOK`), `ReplayIsExact` (`ReplayExact`), `ReplicasAreSound`
  (`ReplicaSound`), `VersionsGoForward` (`ServingVersionMonotone`);
* if nothing is committed while a worker starts (`CommitDuringBoot = FALSE`),
  `ReplicasAreComplete` (`ReplicaComplete`) and `ClusterImplementsStore`
  (`ImplementsStore`, the refinement of `VersionedStore`).

The inductive invariant is `Inv == TypeOK /\ LogOK /\ Flight /\ ReplicasOK`.
`ReplicaSound` alone is not inductive: what a replica will hold is decided by
messages already under way. `LogOK` says the log is the contiguous tail of the
history and each delta turns one version into the next. `Flight` says the same
of every delta, answer and snapshot in an inbox or waiting to be published, and
that requests ask from versions that exist. `ReplicasOK` adds to `ReplicaSound`
what the initial snapshot is worth. The argument: commits append to the history
and never change it, so updates in flight stay sound; applying a sound update
that fits to a sound replica gives a sound replica.

The last two theorems add `Exact`: a worker that is starting is at the current
version throughout (`StartsCurrent`), and one that serves shows a state of the
history exactly (`ShowsExactly`). Their condition is not for the proof's sake:
`boot_loses_snapshot` refutes `ReplicaComplete` without it. It excludes the one
window in which `start()` skips its snapshot; exits, forks, commits while the
workers serve, and messages under way are as free as elsewhere. The refinement
maps each step to a commit, a worker's move to a state of the history, a start,
an exit, or a stutter.

`LazyShardsProofs` proves, for every number of workers, users, files, edits,
calls and every retention:

* `ShardsTyped` (`ShardTypeOK`), `CopyOfVersionIsCurrent` (`VersionNamesFiles`),
  `CommittedVersionStays` (`CommittedVersionKept`), `IndexNeverGoesBack`
  (`IndexMovesForward`).

The inductive invariant is `ShardIInv == \E H : Kept(H)`. `H` is the history of
the markers committed so far: the state keeps only their tail, the log, but what
a delta or snapshot tells (`Tells`), and which marker a confirmed write has
(`Owed`), refer to all of them. A new marker extends `H`; every other step keeps
it. Under `H`, `IndexOK` and `ContentsOK` say that what is on disk is as new as
what a scan under way has read, and that as new as the index; `CopiesOK` that
every copy is the primary's shard or an older one (`Dated`) and that a confirmed
write is neither undone by the copy (`Safe`) nor by a message on its way
(`NotUndone`); `ChannelsOK` and `OrderOK` the same of the messages and of the
order in which they can arrive. The hard case is a confirmation that waits for
a pull: its worker is safe only once its replica has reached the marker, and the
pulled delta must tell it so.

`StateLocksProofs` proves `MutualExclusion` and `WaitersQueued` of the lock
table alone, and `MaintenanceJobsProofs` of the jobs, whose steps are steps of
the table or leave it alone, for every number of callers, locks and tokens:

* `JobTypeCorrect` (`JobTypeOK`), `JobsLockExclusive` (`MutualExclusion`),
  `JobsWaitersQueued` (`WaitersQueued`), `RunsKeepInterval` (`NoCatchUpBurst`).

`LockIInv` adds `Owned` (who validly holds a lock has its current token and as
much time as the table) and `Distinct` (no two calls have one token): a holder
whose time is up may still release, and only the token tells it apart from the
next. `RunsKeepInterval` adds `FullInterval`: a runner that waits for its timer
has waited an interval, or will have when the timer fires.

`GitHistoryProofs` proves, for every set of roots, workers and requests and all
thresholds in the code's order:

* `HistoryTypeCorrect` (`HistoryTypeOK`), `CommitsAreNotPutOff`
  (`WaitIsBounded`), `ChangesAreRemembered` (`NothingForgotten`),
  `RollbacksKeepEdits` (`RollbackKeepsEdits`).

`HistoryIInv` makes `NothingForgotten` inductive. A rollback's target is a
committed content (`TargetsSaved`), for that is what the root holds afterwards;
contents are numbered in the order of the changes (`Numbered`), and what a root
holds is committed or among its `unsaved` changes, the latest of them (`Kept`). A
change during a commit is covered by the entry it makes while the commit runs,
which the commit's end must leave alone.

`RollbacksKeepEdits` rests on `RollbackIInv`, which adds, for a server of a single
process, what the work of each root is (`Sound`): only its first task has started
and a request has one task (`Shaped`); each unsaved change is missed, or a pending
or queued commit will hold it (`Minded`, `WillSave`); and a request that waits for
its flush finds what it was asked with staged, so that the rollback it queues
afterwards finds only later changes, or has every commit ahead of it (`Waiting`).
Only the primary has work (`Alone`). Then nothing is left but the missed and the
later changes when the rollback comes to the head of the queue. A failing commit
turns what it did not save into missed changes, and another request's reset
leaves the changes it overwrote among `unsaved`: neither ends the claim of a
request that waits.

`SupervisorProofs` proves, for every number of processes and pushes:

* `SupervisorTypes` (`TypeOK`), `ActiveStaysUsable` (`ActiveIsUsable`),
  `NothingOrphaned` (`NoOrphan`).

The inductive invariant `IInv` adds to them who owns what: nothing else runs
during the first start (`StartFirst`), nobody waits for an active or draining
child (`ActiveOK`, `DrainOK`), a child has one drain record, and a child that is
still being started has not been signalled (`OwnerOK`). Without the last, a
promoted child could already have been told to exit.

`OnscreenAgentProofs` proves, for every number of submissions and retries:

* `AgentTypeCorrect` (`AgentTypeOK`), `PanelIsBusyForOne` (`PanelBusyForOne`),
  `ConversationInOrder` (`SubmissionsInOrder`), `FollowUpsSeeOutput`
  (`FollowUpSeesOutput`).

`AgentIInv` adds `CompactionOwner` (a compaction finds the panel busy, or nothing
begins before its end, so restoring the flag is right), `QueueAhead` (what waits is in
order and later than all that was sent) and `PendingAhead` (so is the message
about to be sent). `FollowUpsSeeOutput` adds `ReplyInHand`: which reply the series
holds in each phase, so that the queue is looked at only before or after its code.

Assumptions: `StateAssumption`, `ClusterAssumption`, `ShardAssumption`,
`LockAssumption`, `JobAssumption`, `HistoryAssumption`, `SupervisorAssumption`
and `AgentAssumption`, which TLC evaluates on every run of their modules.

Every type invariant, safety invariant and action property of a passing run has a
theorem. Only model-checked are the liveness properties, which are outside this
prover's reach, as is ENABLED: `EveryWorkerServes`, `FencedCatchUp`,
`RestartGoesOn`, `UpdateChecksGoOn`, `StopReachesProxy`, `StopEnds`, `JobsGoOn`,
`EveryWaitEnds`, `RootsReachHistory` and `FollowUpTaken`.

## Where the code and its documents part

* `boot_loses_snapshot`: `createWatchdog` takes the initial snapshot's version,
  not its entries; `start()` skips the snapshot if a delta moved the replica
  meanwhile (`watchdog.js:1828`). A commit in that window leaves a worker that
  serves without the rest of the state.
* `lost_restart`: a child promoted during a crash restart may crash while the
  restart still stops its own, surplus child (`supervisor.js:216`, `247`); the
  crash is then not restarted.
* `jobs_in_workers`: every cluster worker starts a job runner (`app.js:272`),
  which `jobs-and-maintenance.md:41-42` excludes. A worker's index has only the
  shards it loaded, so its clean-up deletes guests that are active elsewhere.
* `stale_shard`: a marker that finds no copy, or is overtaken, leaves no trace,
  and `applyShard` clears the stale mark whatever version it brings
  (`file_index_store.js:154`, `520`): a worker then takes an older copy for
  current, which `api/files.md:113` says it cannot.
* `stop_loses_commits`: `serve` drops the object whose `close()` flushes the
  pending commits (`serve.js:60`, `app.js:293`), and no signal handler calls it, so
  the supervisor's SIGTERM (`child_process.js:156`) loses them;
  `customware-layers-and-paths.md:79` says shutdown flushes them. `GitHistory`
  counts those changes among `missed`.

Observed while modelling, without a document that says otherwise or without a
run of their own:

* A broadcast that arrives between a fenced request's pull and its answer turns
  the answer into a version gap, which nothing catches (`cluster.js:431`): the
  request gets a 500, where `request-flow-and-pages.md:136` says it waits or gets a
  retryable 503. `FencedCatchUp` says that later requests repair the replica.
* A child that is being started, or whose backoff runs, when stop() is called
  comes up after it and keeps the supervisor's process alive.
* The exceptions in `CommittedVersionKept`: at the primary the answer to a write
  can overtake an unsent load of the same shard, and the writer goes back to the
  older copy; and a write that a reconcile or a load indexed first is answered
  without a version, so that an older answer already sent is taken for current.
* A worker's rollback is not serialized with the primary's commits of the same
  root, and its flush finds nothing (`git_history.js:778`);
  `customware-layers-and-paths.md:77` says Git work of a root never overlaps.
  `RollbackKeepsEdits` is therefore stated for a single process.
* A guest whose deletion throws ends the run, and the guests after it wait for a
  next run that meets it first again (`guest_cleanup_inactive.js:33`).
* A submission made between a click on compact and the start of the compaction
  (`store.js:5579`) can leave the panel busy with nothing running. A follow-up that comes before the
  first request replaces the message of its series (`store.js:5793`), and a
  series that fails leaves its queue (`store.js:5966`).

## Not modelled

* Request fencing in the browser tab and the router, `logins.json` and login
  challenges, the rate limiter, the quota's size cache: see the plan. Version
  waiters appear only as the pull they cause. Primary-only entries (login
  challenges) never reach a replica.
* Watchdog: file-system watchers and the debounce of their events; L0 and L1
  shards, which are entries of `ClusterSync`. Cluster start-up and close.
* `LazyShards`: workers start and exit in `ClusterSync` only; a pull that fails;
  a caller that joins the load of a user's authentication files. Every
  authentication file counts as changed at each load, which is the case of a
  file rewritten within the resolution of its time.
* Jobs: `isEnabled`, discovery, start and stop; directories of guests that come
  back after a deletion.
* Git history: listing and diffs, the flush of `close()` and of the short-lived
  user and group commands; the isomorphic backend.
* Onscreen agent: the extension lookup of a page's first message, during
  which a second submission could start a second series (`store.js:6013`), two
  clicks on compact at once, page reloads and the persistence of the history,
  settings, attachments, panel layout. The admin agent's loop is a simpler copy.
* API handlers, permission checks and path resolution, proxy streaming, Git
  clones and releases: wrappers, sequential functions and I/O.
* The rest of the browser application: most of the repository's implementation
  lines are user-interface stores, page extraction, module loading and a bundled
  model runtime (`webllm`), whose state is what one page shows. Their outcomes
  reach the modules as inputs. The definitions stand for a few per cent of all
  lines: those in which several activities meet over one state.

## Plan

Done: `StateSystem`, `ClusterSync`, `VersionedStore`, `Supervisor`,
`StateLocks`, `MaintenanceJobs`, `LazyShards`, `GitHistory`, `OnscreenAgent`,
and the proofs of their safety. Next, in this order:

1. `FencedRequests`: tabs with version floors against workers that are views of
   `VersionedStore` and servers that are replaced or fallen back to. Reads are
   monotonic per tab; a write is seen by its writer; a fenced request is served
   in the end. Abstract specification: a session-consistent register.
2. `Sessions`: `logins.json` between processes, challenges.
