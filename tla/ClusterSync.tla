---------------------------- MODULE ClusterSync ----------------------------
(***************************************************************************)
(* Replication of the state system from the cluster primary to its worker  *)
(* processes (cluster.js, and the watchdog calls it makes).                *)
(*                                                                         *)
(* The primary commits one watchdog operation at a time.  An operation it  *)
(* started itself broadcasts its delta as it commits; a commitProjectPaths *)
(* operation is committed first and broadcast later, when the promise its  *)
(* requester waits on continues.  Every worker has one FIFO IPC channel    *)
(* from the primary (inbox) and one to it (requests).  A response only     *)
(* settles a promise, whose continuation runs after the messages that came *)
(* in the same read: a broadcast may overtake responses, nothing else.     *)
(*                                                                         *)
(* A worker process goes through the phases of startClusterWorker:         *)
(*   forked    WORKER_READY sent, no snapshot yet                          *)
(*   resolved  snapshot received, watchdog not created yet                 *)
(*   created   replica watchdog created, first syncWatchdogFromPrimary     *)
(*   synced    building the auth service and the HTTP server               *)
(*   starting  inside watchdog.start(), configuring the index handlers     *)
(*   serving   started and listening                                       *)
(* and is forked again when it exits.                                      *)
(***************************************************************************)
EXTENDS StateSystem, SequencesExt

CONSTANTS
    Worker,            \* worker numbers
    NoWorker,          \* the requester of a commit whose process has exited
    CommitDuringBoot,  \* FALSE: the primary commits only while every worker serves
    MaxVersion,        \* bound on commits
    MaxInbox,          \* bound on the IPC backlog a commit may add to
    MaxExits           \* bound on worker exits

ASSUME ClusterAssumption ==
    /\ NoWorker \notin Worker
    /\ CommitDuringBoot \in BOOLEAN
    /\ MaxVersion \in Nat
    /\ MaxInbox \in Nat
    /\ MaxExits \in Nat

VARIABLES
    \* Primary
    version,      \* replicatedVersion
    entries,      \* replicated entries
    deltaLog,     \* deltaLog
    unpublished,  \* commits whose requester has not been answered yet, oldest first
    history,      \* history[v]: the entries the primary had at version v (ghost)
    \* Workers
    phase,        \* progress of startClusterWorker
    initial,      \* initialSnapshot
    replicaVersion,
    replica,      \* entries of the replica state system
    \* IPC and processes
    inbox,        \* primary to worker
    requests,     \* worker to primary
    exits         \* worker exits so far

primaryVars == <<version, entries, deltaLog, unpublished, history>>
workerVars == <<phase, initial, replicaVersion, replica>>
vars == <<primaryVars, workerVars, inbox, requests, exits>>

Phase == {"forked", "resolved", "created", "synced", "starting", "serving"}

\* Who waits for a syncWatchdogFromPrimary: the worker's start, a message that
\* hit a version gap, or a request fenced at a later version.
Why == {"boot", "gap", "fence"}

Message ==
    [type : {"STATE_DELTA", "STATE_SNAPSHOT", "SYNC_DELTA", "SYNC_SNAPSHOT", "COMMITTED"},
     why : Why \cup {"none"},
     update : Update]

Request ==
    [op : {"WORKER_READY", "getDeltaSince", "getSnapshot"},
     why : Why \cup {"none"},
     from : Nat]

Commit == [update : Update, worker : Worker \cup {NoWorker}, broadcast : BOOLEAN]

Broadcasted(type, update) == [type |-> type, why |-> "none", update |-> update]
Answer(type, why, update) == [type |-> type, why |-> why, update |-> update]
Committed(update) == [type |-> "COMMITTED", why |-> "none", update |-> update]
Ready == [op |-> "WORKER_READY", why |-> "none", from |-> 0]
\* mutant: asks from the version before the replica's.
SyncRequestEarlier(why, from) == [op |-> "getDeltaSince", why |-> why, from |-> from - 1]
SyncRequest(why, from) == [op |-> "getDeltaSince", why |-> why, from |-> from]
SnapshotRequest(why) == [op |-> "getSnapshot", why |-> why, from |-> 0]

TypeOK ==
    /\ version \in Nat
    /\ entries \in Entries
    /\ deltaLog \in Seq(Update)
    /\ unpublished \in Seq(Commit)
    /\ history \in [0 .. version -> Entries]
    /\ phase \in [Worker -> Phase]
    /\ initial \in [Worker -> Update]
    /\ replicaVersion \in [Worker -> Nat]
    /\ replica \in [Worker -> Entries]
    /\ inbox \in [Worker -> Seq(Message)]
    /\ requests \in [Worker -> Seq(Request)]
    /\ exits \in Nat

\* The watchdog object exists: messages from the primary are applied.
HasWatchdog(w) == phase[w] \in {"created", "synced", "starting", "serving"}
Serving(w) == phase[w] = "serving"

Init ==
    /\ version = 0
    /\ entries \in Entries
    /\ deltaLog = <<>>
    /\ unpublished = <<>>
    /\ history = [v \in {0} |-> entries]
    /\ phase = [w \in Worker |-> "forked"]
    /\ initial = [w \in Worker |-> NoDelta]
    /\ replicaVersion = [w \in Worker |-> 0]
    /\ replica = [w \in Worker |-> Empty]
    /\ inbox = [w \in Worker |-> <<>>]
    /\ requests = [w \in Worker |-> <<Ready>>]
    /\ exits = 0

-----------------------------------------------------------------------------
(* The primary.                                                            *)

CanCommit ==
    /\ version < MaxVersion
    /\ CommitDuringBoot \/ \A w \in Worker : Serving(w)
    /\ \A w \in Worker : Len(inbox[w]) < MaxInbox

ToAll(message) == inbox' = [w \in Worker |-> Append(inbox[w], message)]

\* commitEntries with changes that have an effect: one version, one delta.
NewDelta(changes) ==
    [from |-> version, to |-> version + 1, changes |-> Effective(entries, changes)]

CommitChanges(changes) ==
    LET new == Overlay(entries, changes)
    IN /\ DOMAIN Effective(entries, changes) # {}
       /\ version' = version + 1
       /\ entries' = new
       /\ deltaLog' = Trim(Append(deltaLog, NewDelta(changes)))
       /\ history' = [v \in 0 .. version + 1 |-> IF v = version + 1 THEN new ELSE history[v]]

\* A watched file changed, or the reconcile found a difference: the operation
\* emits its delta as it commits.
CommitAndBroadcast ==
    \E changes \in Changes :
        /\ CanCommit
        /\ CommitChanges(changes)
        /\ ToAll(Broadcasted("STATE_DELTA", NewDelta(changes)))
        /\ UNCHANGED <<unpublished, workerVars, requests, exits>>

\* The watch configuration changed: the refresh emits a snapshot instead.
CommitAndBroadcastSnapshot ==
    \E changes \in Changes :
        /\ CanCommit
        /\ CommitChanges(changes)
        /\ ToAll(Broadcasted("STATE_SNAPSHOT", Snapshot(version + 1, Overlay(entries, changes))))
        /\ UNCHANGED <<unpublished, workerVars, requests, exits>>

\* ensureUserAuthStateLoaded or ensureFileIndexShardLoaded found changed files:
\* the delta is broadcast at once and answered to the requester later.
CommitOnDemand(w) ==
    \E changes \in Changes :
        /\ CanCommit
        /\ Serving(w)
        /\ CommitChanges(changes)
        /\ ToAll(Broadcasted("STATE_DELTA", NewDelta(changes)))
        /\ unpublished' = Append(unpublished,
               [update |-> NewDelta(changes), worker |-> w, broadcast |-> FALSE])
        /\ UNCHANGED <<workerVars, requests, exits>>

\* commitProjectPaths: committed inside the operation queue with emit: false.
CommitProjectPaths(w) ==
    \E changes \in Changes :
        /\ CanCommit
        /\ Serving(w)
        /\ CommitChanges(changes)
        /\ unpublished' = Append(unpublished,
               [update |-> NewDelta(changes), worker |-> w, broadcast |-> TRUE])
        /\ UNCHANGED <<workerVars, inbox, requests, exits>>

\* The promise of an unanswered commit continues: handleWorkerMessage broadcasts
\* if the commit did not, then answers the requester.  The oldest continues first,
\* but commitProjectPaths has fewer promises to pass through than the loads before it.
Publish ==
    /\ \E i \in DOMAIN unpublished :
          /\ i > 1 => unpublished[i].broadcast
          /\ \A j \in 1 .. (i - 1) : ~unpublished[j].broadcast
          /\ LET commit == unpublished[i]
                 sent(w) == IF commit.broadcast
                            THEN Append(inbox[w], Broadcasted("STATE_DELTA", commit.update))
                            ELSE inbox[w]
             IN inbox' = [w \in Worker |->
                    IF w = commit.worker
                    THEN Append(sent(w), Committed(commit.update))
                    ELSE sent(w)]
          /\ unpublished' = RemoveAt(unpublished, i)
    /\ UNCHANGED <<version, entries, deltaLog, history, workerVars, requests, exits>>

\* handleWorkerMessage for the three requests that read the state system.
PrimaryAnswers(request) ==
    CASE request.op = "WORKER_READY" ->
           Broadcasted("STATE_SNAPSHOT", Snapshot(version, entries))
      [] request.op = "getDeltaSince" ->
           Answer("SYNC_DELTA", request.why, DeltaSince(deltaLog, version, request.from))
      [] request.op = "getSnapshot" ->
           Answer("SYNC_SNAPSHOT", request.why, Snapshot(version, entries))

PrimaryReceive(w) ==
    /\ requests[w] # <<>>
    /\ inbox' = [inbox EXCEPT ![w] = Append(@, PrimaryAnswers(Head(requests[w])))]
    /\ requests' = [requests EXCEPT ![w] = Tail(@)]
    /\ UNCHANGED <<primaryVars, workerVars, exits>>

-----------------------------------------------------------------------------
(* A worker.                                                               *)

IsResponse(message) == message.type \in {"SYNC_DELTA", "SYNC_SNAPSHOT", "COMMITTED"}

\* The messages that may be handled next: the oldest, or a broadcast that only
\* responses precede.
Deliverable(w) ==
    {i \in DOMAIN inbox[w] :
        /\ i > 1 => ~IsResponse(inbox[w][i])
        /\ \A j \in 1 .. (i - 1) : IsResponse(inbox[w][j])}

Consume(w, i) == inbox' = [inbox EXCEPT ![w] = RemoveAt(@, i)]

Send(w, request) == requests' = [requests EXCEPT ![w] = Append(@, request)]

\* mutant: entries the update removes are kept.
ApplyUpdateKeeps(w, update) ==
    /\ replica' = [replica EXCEPT ![w] =
                      [k \in Key |-> IF k \in DOMAIN update.changes /\ update.changes[k] # Absent
                                     THEN update.changes[k] ELSE @[k]]]
    /\ replicaVersion' = [replicaVersion EXCEPT ![w] = update.to]

ApplyUpdate(w, update) ==
    /\ replica' = [replica EXCEPT ![w] = Overlay(@, update.changes)]
    /\ replicaVersion' = [replicaVersion EXCEPT ![w] = update.to]

\* STATE_SNAPSHOT before the watchdog exists settles the bootstrap promise.
ReceiveBootstrap(w, i) ==
    /\ phase[w] = "forked"
    /\ inbox[w][i].type = "STATE_SNAPSHOT"
    /\ initial' = [initial EXCEPT ![w] = inbox[w][i].update]
    /\ phase' = [phase EXCEPT ![w] = "resolved"]
    /\ Consume(w, i)
    /\ UNCHANGED <<replicaVersion, replica, requests>>

\* A broadcast that finds no watchdog is dropped.
DropBroadcast(w, i) ==
    /\ \/ phase[w] = "forked" /\ inbox[w][i].type = "STATE_DELTA"
       \/ phase[w] = "resolved" /\ ~IsResponse(inbox[w][i])
    /\ Consume(w, i)
    /\ UNCHANGED <<workerVars, requests>>

\* STATE_DELTA, or the sync payload of an answered commit: applied if it fits,
\* ignored if it is old, and replaced by a pull from the primary on a gap.
ReceiveDelta(w, i) ==
    LET update == inbox[w][i].update
    IN /\ HasWatchdog(w)
       /\ inbox[w][i].type \in {"STATE_DELTA", "COMMITTED"}
       /\ IF Fits(update, replicaVersion[w])
          THEN ApplyUpdate(w, update)
          ELSE UNCHANGED <<replica, replicaVersion>>
       /\ IF IsGap(update, replicaVersion[w])
          THEN Send(w, SyncRequest("gap", replicaVersion[w]))
          ELSE UNCHANGED requests
       /\ Consume(w, i)
       /\ UNCHANGED <<phase, initial>>

\* Where a finished syncWatchdogFromPrimary leaves its caller.
AfterSync(w, why) ==
    IF why = "boot" /\ phase[w] = "created"
    THEN phase' = [phase EXCEPT ![w] = "synced"]
    ELSE UNCHANGED phase

\* mutant: a late snapshot is applied like any other.
ReceiveSnapshotAnyAge(w, i) ==
    LET message == inbox[w][i]
    IN /\ HasWatchdog(w)
       /\ message.type \in {"STATE_SNAPSHOT", "SYNC_SNAPSHOT"}
       /\ ApplyUpdate(w, message.update)
       /\ AfterSync(w, message.why)
       /\ Consume(w, i)
       /\ UNCHANGED <<initial, requests>>

\* A snapshot older than the replica is ignored.
ReceiveSnapshot(w, i) ==
    LET message == inbox[w][i]
    IN /\ HasWatchdog(w)
       /\ message.type \in {"STATE_SNAPSHOT", "SYNC_SNAPSHOT"}
       /\ IF message.update.to < replicaVersion[w]
          THEN UNCHANGED <<replica, replicaVersion>>
          ELSE ApplyUpdate(w, message.update)
       /\ AfterSync(w, message.why)
       /\ Consume(w, i)
       /\ UNCHANGED <<initial, requests>>

\* mutant: null ends the pull.
ReceiveSyncDeltaNoSnapshot(w, i) ==
    LET message == inbox[w][i]
    IN /\ HasWatchdog(w)
       /\ message.type = "SYNC_DELTA"
       /\ ~IsGap(message.update, replicaVersion[w])
       /\ IF Fits(message.update, replicaVersion[w])
          THEN ApplyUpdate(w, message.update)
          ELSE UNCHANGED <<replica, replicaVersion>>
       /\ IF message.update = NoDelta
          THEN UNCHANGED phase
          ELSE AfterSync(w, message.why)
       /\ Consume(w, i)
       /\ UNCHANGED <<initial, requests>>

\* The delta syncWatchdogFromPrimary asked for: null makes it ask for a snapshot.
ReceiveSyncDelta(w, i) ==
    LET message == inbox[w][i]
    IN /\ HasWatchdog(w)
       /\ message.type = "SYNC_DELTA"
       /\ ~IsGap(message.update, replicaVersion[w])
       /\ IF Fits(message.update, replicaVersion[w])
          THEN ApplyUpdate(w, message.update)
          ELSE UNCHANGED <<replica, replicaVersion>>
       /\ IF message.update = NoDelta
          THEN Send(w, SnapshotRequest(message.why)) /\ UNCHANGED phase
          ELSE AfterSync(w, message.why) /\ UNCHANGED requests
       /\ Consume(w, i)
       /\ UNCHANGED initial

\* Nothing catches a gap met by the pull itself: the caller fails and the
\* replica stays where it is.  A worker that fails this way in its start exits.
SyncFails(w, i) ==
    /\ HasWatchdog(w)
    /\ inbox[w][i].type = "SYNC_DELTA"
    /\ IsGap(inbox[w][i].update, replicaVersion[w])
    /\ inbox[w][i].why # "boot"
    /\ Consume(w, i)
    /\ UNCHANGED <<workerVars, requests>>

WorkerReceive(w) ==
    /\ \E i \in Deliverable(w) :
          \/ ReceiveBootstrap(w, i)
          \/ DropBroadcast(w, i)
          \/ ReceiveDelta(w, i)
          \/ ReceiveSnapshot(w, i)
          \/ ReceiveSyncDelta(w, i)
          \/ SyncFails(w, i)
    /\ UNCHANGED <<primaryVars, exits>>

\* createWatchdog takes the snapshot's version but loads none of its entries;
\* the first pull starts from that version.
CreateWatchdog(w) ==
    /\ phase[w] = "resolved"
    /\ phase' = [phase EXCEPT ![w] = "created"]
    /\ replicaVersion' = [replicaVersion EXCEPT ![w] = initial[w].to]
    /\ Send(w, SyncRequest("boot", initial[w].to))
    /\ UNCHANGED <<primaryVars, initial, replica, inbox, exits>>

\* mutant: an initial snapshot of the replica's own version is skipped too.
StartCheckSkipsEqual(w) ==
    /\ phase[w] = "synced"
    /\ phase' = [phase EXCEPT ![w] =
           IF initial[w].to <= replicaVersion[w] THEN "serving" ELSE "starting"]
    /\ UNCHANGED <<primaryVars, initial, replicaVersion, replica, inbox, requests, exits>>

\* watchdog.start(): an initial snapshot older than the replica is skipped.
StartCheck(w) ==
    /\ phase[w] = "synced"
    /\ phase' = [phase EXCEPT ![w] =
           IF initial[w].to < replicaVersion[w] THEN "serving" ELSE "starting"]
    /\ UNCHANGED <<primaryVars, initial, replicaVersion, replica, inbox, requests, exits>>

\* The handlers are configured: the initial snapshot replaces what is there.
StartApply(w) ==
    /\ phase[w] = "starting"
    /\ phase' = [phase EXCEPT ![w] = "serving"]
    /\ ApplyUpdate(w, initial[w])
    /\ UNCHANGED <<primaryVars, initial, inbox, requests, exits>>

\* A request fenced at a version the client saw on another worker makes this one
\* pull.  One such pull at a time per worker.
FenceSync(w) ==
    /\ Serving(w)
    /\ replicaVersion[w] < version
    /\ \A i \in DOMAIN requests[w] : requests[w][i].why # "fence"
    /\ \A i \in DOMAIN inbox[w] : inbox[w][i].why # "fence"
    /\ Send(w, SyncRequest("fence", replicaVersion[w]))
    /\ UNCHANGED <<primaryVars, workerVars, inbox, exits>>

\* The process exits, on its own or because its start failed; the primary forks
\* another under the same number and drops what was addressed to this one.
BootFails(w) ==
    /\ phase[w] = "created"
    /\ inbox[w] # <<>>
    /\ Head(inbox[w]).type = "SYNC_DELTA" /\ Head(inbox[w]).why = "boot"
    /\ IsGap(Head(inbox[w]).update, replicaVersion[w])

WorkerExit(w) ==
    /\ exits < MaxExits \/ BootFails(w)
    /\ exits' = IF BootFails(w) THEN exits ELSE exits + 1
    /\ phase' = [phase EXCEPT ![w] = "forked"]
    /\ initial' = [initial EXCEPT ![w] = NoDelta]
    /\ replicaVersion' = [replicaVersion EXCEPT ![w] = 0]
    /\ replica' = [replica EXCEPT ![w] = Empty]
    /\ inbox' = [inbox EXCEPT ![w] = <<>>]
    /\ requests' = [requests EXCEPT ![w] = <<Ready>>]
    /\ unpublished' = [i \in DOMAIN unpublished |->
           IF unpublished[i].worker = w
           THEN [unpublished[i] EXCEPT !.worker = NoWorker]
           ELSE unpublished[i]]
    /\ UNCHANGED <<version, entries, deltaLog, history>>

-----------------------------------------------------------------------------

PrimaryNext ==
    \/ CommitAndBroadcast
    \/ CommitAndBroadcastSnapshot
    \/ \E w \in Worker : CommitOnDemand(w) \/ CommitProjectPaths(w) \/ PrimaryReceive(w)
    \/ Publish

WorkerNext(w) ==
    \/ WorkerReceive(w)
    \/ CreateWatchdog(w)
    \/ StartCheck(w)
    \/ StartApply(w)
    \/ FenceSync(w)
    \/ WorkerExit(w)

Next == PrimaryNext \/ \E w \in Worker : WorkerNext(w)

Spec == Init /\ [][Next]_vars

\* Node's event loop and the IPC channels keep delivering, settled promises run,
\* and a failed start ends in process.exit; nothing forces commits, other exits
\* or fenced requests.
Progress ==
    /\ WF_vars(Publish)
    /\ \A w \in Worker :
          /\ WF_vars(PrimaryReceive(w))
          /\ WF_vars(WorkerReceive(w))
          /\ WF_vars(CreateWatchdog(w))
          /\ WF_vars(StartCheck(w))
          /\ WF_vars(StartApply(w))
          /\ WF_vars(BootFails(w) /\ WorkerExit(w))

FairSpec == Spec /\ Progress

\* Besides, some client keeps retrying requests fenced at the newest version.
FencedSpec == FairSpec /\ \A w \in Worker : WF_vars(FenceSync(w))

-----------------------------------------------------------------------------
(* Properties.                                                             *)

\* Delta replay is exact: for every version the log still reaches, the answer
\* to getDeltaSince turns the state of that version into the current one, and
\* it is refused only to a replica more than DeltaRetention versions behind.
ReplayExact ==
    \A v \in 0 .. version :
        LET delta == DeltaSince(deltaLog, version, v)
        IN IF delta = NoDelta
           THEN version - v > DeltaRetention
           ELSE delta.to = version /\ Overlay(history[v], delta.changes) = entries

\* A replica is never ahead of the primary and never holds an entry that the
\* primary did not hold at the replica's version, whatever was lost, reordered
\* or replayed on the way; at worst an entry is missing.
ReplicaSound ==
    \A w \in Worker :
        HasWatchdog(w) =>
            /\ replicaVersion[w] <= version
            /\ \A k \in Key : replica[w][k] \in {history[replicaVersion[w]][k], Absent}

\* A serving worker holds every entry of the version it advertises in
\* Space-State-Version.
ReplicaComplete ==
    \A w \in Worker :
        Serving(w) =>
            \A k \in Key : replica[w][k] = Absent => history[replicaVersion[w]][k] = Absent

\* The version a serving worker advertises never goes back while it serves:
\* stale deltas, stale snapshots and late answers are all ignored.
ServingVersionMonotone ==
    [][\A w \in Worker :
          Serving(w) /\ Serving(w)' => replicaVersion[w] <= replicaVersion'[w]]_vars

\* The cluster implements one history with forward-moving exact views.
Store == INSTANCE VersionedStore WITH
    State <- Entries,
    Away <- Absent,
    latest <- version,
    view <- [w \in Worker |-> IF Serving(w) THEN replicaVersion[w] ELSE Absent],
    shown <- [w \in Worker |-> IF Serving(w) THEN replica[w] ELSE Absent]

ImplementsStore == Store!StoreSpec

\* Every forked worker gets to serve, through failed starts and exits.
EveryWorkerServes == \A w \in Worker : []<>Serving(w)

\* Current(w): the worker serves the primary's latest version.
Current(w) == Serving(w) /\ replicaVersion[w] = version

\* As long as clients keep asking for the newest version, every worker reaches
\* it, whatever broadcast it dropped or whatever pull of it failed.
FencedCatchUp == \A w \in Worker : []<>Current(w)
=============================================================================
