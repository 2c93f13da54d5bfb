----------------------------- MODULE LazyShards -----------------------------
(***************************************************************************)
(* The file-index shards of the L2 users (file_index_store.js, and the     *)
(* calls watchdog.js and cluster.js make to it).  A shard is never part of *)
(* the replicated state: the primary hands it to the worker that asks for  *)
(* it or that changed its files, and replicates a small marker with the    *)
(* shard's version (file_index_meta), which makes the other workers mark   *)
(* their copy stale.  A worker asks again only when its copy is missing,   *)
(* not fully loaded or stale.                                              *)
(*                                                                         *)
(* The replicated entries are the markers alone: an instance of            *)
(* StateSystem whose keys are the L2 shards.  Workers serve from the       *)
(* start; how they start and exit is ClusterSync's subject, and the        *)
(* channels are the same as there.                                         *)
(***************************************************************************)
EXTENDS Integers, SequencesExt

CONSTANTS
    Key,             \* L2 shards, one for each user
    DeltaRetention,  \* deltas kept for replay
    Worker,          \* worker processes
    NoWorker,        \* the requester of the primary's own operations
    File,            \* files of a user
    AuthFile,        \* those among them that authentication reads
    MaxEdits,        \* bound on changes of files on disk
    MaxCalls         \* bound on the calls of a worker under way at once

ASSUME ShardAssumption ==
    /\ AuthFile \subseteq File /\ AuthFile # {}
    /\ NoWorker \notin Worker
    /\ DeltaRetention \in Nat \ {0}
    /\ MaxEdits \in Nat
    /\ MaxCalls \in Nat

INSTANCE StateSystem WITH Value <- Nat \ {0}, Absent <- 0

VARIABLES
    disk,          \* each user's files: the edit that wrote them, 0 for no file
    edits,         \* edits so far
    \* Primary
    version,       \* replicatedVersion
    markers,       \* file_index_meta of the replicated state
    deltaLog,
    index,         \* the authoritative shards
    shardCounter,  \* shardVersionCounter
    queue,         \* the watchdog's operation queue
    running,       \* the operation under way
    joined,        \* callers that share the load of a shard (fileIndexShardLoadPromises)
    unpublished,   \* results whose caller has not continued yet, in order
    \* Workers
    replicaVersion,
    replica,       \* each worker's markers
    shards,        \* each worker's copies of the shards
    confirmed,     \* the last version of each shard that a commit of the worker made,
                   \* as far as the worker was answered (ghost)
    \* IPC
    inbox,         \* primary to worker
    requests       \* worker to primary

primaryVars == <<version, markers, deltaLog, index, shardCounter>>
operationVars == <<queue, running, joined, unpublished>>
workerVars == <<replicaVersion, replica, shards, confirmed>>
diskVars == <<disk, edits>>
shardVars == <<diskVars, primaryVars, operationVars, workerVars, inbox, requests>>

Files == [File -> Nat]
NoFiles == [f \in File |-> 0]

Shard == [version : Nat, loaded : BOOLEAN, files : Files]
Unloaded == [version |-> 0, loaded |-> FALSE, files |-> NoFiles]

\* lazyFileIndexShards: snapshots of some shards.
IsBundle(bundle) == DOMAIN bundle \subseteq Key /\ \A k \in DOMAIN bundle : bundle[k] \in Shard
NoShards == [k \in {} |-> Unloaded]
Only(k, s) == [j \in {k} |-> s]

Confirmation == [Key -> Nat]
Unconfirmed == [k \in Key |-> 0]

IsUpdate(update) ==
    /\ update.from \in Nat /\ update.to \in Nat
    /\ DOMAIN update.changes \subseteq Key
    /\ \A k \in DOMAIN update.changes : update.changes[k] \in Nat

IsMessage(message) ==
    /\ message.type \in {"STATE_DELTA", "STATE_SNAPSHOT", "SYNC_DELTA", "SYNC_SNAPSHOT", "ANSWER"}
    /\ IsUpdate(message.update)
    /\ IsBundle(message.shards)
    /\ message.confirms \in Confirmation

\* A delta is broadcast with its lazyFileIndexInvalidations, which are the
\* markers it holds.
Broadcast(type, update) ==
    [type |-> type, update |-> update, shards |-> NoShards, confirms |-> Unconfirmed]
Answer(type, update, bundle, confirms) ==
    [type |-> type, update |-> update, shards |-> bundle, confirms |-> confirms]

\* Requests of a worker, and the operations the primary makes of some of them.
\* "refresh" is the primary's own reconcile.
Operation ==
    [op : {"commit", "auth", "load", "refresh"}, worker : Worker \cup {NoWorker}, key : Key,
     files : SUBSET File, known : Nat]

Request ==
    [op : {"commit", "auth", "load"}, worker : Worker, key : Key,
     files : SUBSET File, known : Nat]
    \cup [op : {"getDeltaSince", "getSnapshot"}, worker : Worker, from : Nat,
          confirms : Confirmation]

Call(op, w, k, files, known) ==
    [op |-> op, worker |-> w, key |-> k, files |-> files, known |-> known]
\* mutant: a pull asks from one version earlier, to be safe.
PullFromEarlier(op, w, from, confirms) ==
    [op |-> op, worker |-> w, from |-> from - 1, confirms |-> confirms]
Pull(op, w, from, confirms) ==
    [op |-> op, worker |-> w, from |-> from, confirms |-> confirms]

Idle == [op |-> "idle"]

ShardInit ==
    /\ disk = [k \in Key |-> [f \in File |-> 1]]
    /\ edits = 1
    /\ version = 0
    /\ markers = Empty
    /\ deltaLog = <<>>
    /\ index = [k \in Key |-> Unloaded]
    /\ shardCounter = 0
    /\ queue = <<>>
    /\ running = Idle
    /\ joined = [k \in Key |-> <<>>]
    /\ unpublished = <<>>
    /\ replicaVersion = [w \in Worker |-> 0]
    /\ replica = [w \in Worker |-> Empty]
    /\ shards = [w \in Worker |-> [k \in Key |-> [shard |-> Unloaded, stale |-> FALSE]]]
    /\ confirmed = [w \in Worker |-> Unconfirmed]
    /\ inbox = [w \in Worker |-> <<>>]
    /\ requests = [w \in Worker |-> <<>>]

-----------------------------------------------------------------------------
(* The primary's shards: setPathEntry, deletePathEntry, replaceShard.      *)

\* mutant: only a shard that appears is marked with a new version.
IndexedInPlace(s, files, full) ==
    [version |-> IF s.files = NoFiles THEN shardCounter + 1 ELSE s.version,
     loaded |-> files # NoFiles /\ (full \/ s.loaded), files |-> files]
\* The shard after an operation found these files: a new version if that changed
\* it; a shard without files is deleted, and is no longer fully loaded.
Indexed(s, files, full) ==
    [version |-> shardCounter + 1, loaded |-> files # NoFiles /\ (full \/ s.loaded), files |-> files]

Reindex(k, files, full) ==
    /\ index' = [index EXCEPT ![k] = Indexed(@, files, full)]
    /\ shardCounter' = shardCounter + 1

\* replaceShard of a scan that found nothing new.
Rescanned(k) ==
    IF index[k].files = NoFiles
    THEN Reindex(k, NoFiles, TRUE)
    ELSE /\ index' = [index EXCEPT ![k].loaded = TRUE]
         /\ UNCHANGED shardCounter

Marker(k, v) == [from |-> version, to |-> version + 1, changes |-> [j \in {k} |-> v]]

\* commitReplicatedState with one invalidation.
CommitMarker(k, v) ==
    /\ version' = version + 1
    /\ markers' = [markers EXCEPT ![k] = v]
    /\ deltaLog' = Trim(Append(deltaLog, Marker(k, v)))

ToAll(message) == inbox' = [w \in Worker |-> Append(inbox[w], message)]

-----------------------------------------------------------------------------
(* The primary's operation queue: mutations, then demands, then refreshes. *)

Rank(operation) ==
    CASE operation.op \in {"commit", "auth"} -> 1
      [] operation.op = "load" -> 2
      [] operation.op = "refresh" -> 3

IsNext(i) ==
    \A j \in DOMAIN queue :
        Rank(queue[i]) < Rank(queue[j]) \/ (Rank(queue[i]) = Rank(queue[j]) /\ i <= j)

Result(w, update, bundle, confirms, broadcast) ==
    [worker |-> w, broadcast |-> broadcast, message |-> Answer("ANSWER", update, bundle, confirms)]

\* mutant: the last operation that settled continues first.
SettleInFront(callers, update, bundle, confirms, broadcast) ==
    unpublished' = [i \in DOMAIN callers |-> Result(callers[i], update, bundle, confirms, broadcast)]
                   \o unpublished
\* Which workers get which answer, and whether the broadcast waits for it too.
Settle(callers, update, bundle, confirms, broadcast) ==
    unpublished' = unpublished
                   \o [i \in DOMAIN callers |-> Result(callers[i], update, bundle, confirms, broadcast)]

\* The answer of a load of w that still holds an older copy of the shard.
LoadUnanswered(w, k) ==
    \E i \in DOMAIN unpublished :
        /\ unpublished[i].worker = w /\ ~unpublished[i].broadcast
        /\ k \in DOMAIN unpublished[i].message.shards

\* applyAbsolutePathChanges brings the entries of the paths up to date.  For
\* commitProjectPaths it commits with emit: false and the requester gets the shard;
\* for ensureUserAuthStateLoaded it broadcasts at once and the requester gets none.
PathChanges(operation) ==
    LET k == operation.key
        w == operation.worker
        isCommit == operation.op = "commit"
        found == [f \in File |-> IF f \in operation.files THEN disk[k][f] ELSE index[k].files[f]]
        v == shardCounter + 1
    IN /\ operation.op \in {"commit", "auth"}
       /\ IF found # index[k].files
          THEN /\ Reindex(k, found, FALSE)
               /\ CommitMarker(k, v)
               /\ IF isCommit THEN UNCHANGED inbox ELSE ToAll(Broadcast("STATE_DELTA", Marker(k, v)))
               /\ Settle(<<w>>, Marker(k, v), IF isCommit THEN Only(k, Indexed(index[k], found, FALSE))
                                              ELSE NoShards,
                         IF isCommit /\ ~LoadUnanswered(w, k)
                         THEN [Unconfirmed EXCEPT ![k] = v] ELSE Unconfirmed, isCommit)
          ELSE /\ UNCHANGED <<primaryVars, inbox>>
               /\ Settle(<<w>>, NoDelta, NoShards, Unconfirmed, FALSE)
       /\ UNCHANGED running

\* A load or a refresh reads the whole directory first.
StartScan(operation) ==
    /\ operation.op \in {"load", "refresh"}
    /\ running' = [op |-> operation.op, worker |-> operation.worker, key |-> operation.key,
                   scanned |-> disk[operation.key]]
    /\ UNCHANGED <<primaryVars, unpublished, inbox>>

\* mutant: path changes do not wait for a scan under way.
StartOperationDuringScan ==
    /\ \E i \in DOMAIN queue :
          /\ IsNext(i)
          /\ PathChanges(queue[i]) \/ (running = Idle /\ StartScan(queue[i]))
          /\ queue' = RemoveAt(queue, i)
    /\ UNCHANGED <<diskVars, joined, workerVars, requests>>
\* drainOperationQueue: path changes run to their end at once.
StartOperation ==
    /\ running = Idle
    /\ \E i \in DOMAIN queue :
          /\ IsNext(i)
          /\ PathChanges(queue[i]) \/ StartScan(queue[i])
          /\ queue' = RemoveAt(queue, i)
    /\ UNCHANGED <<diskVars, joined, workerVars, requests>>

\* A scan ends in a later turn of the event loop, when no settled promise is left.
ScanEnds(op) ==
    /\ running.op = op
    /\ unpublished = <<>>
    /\ running' = Idle
    /\ UNCHANGED <<diskVars, queue, workerVars, requests>>

\* scanL2UserFileIndexShard: the callers get the shard, changed or not.
FinishLoad ==
    LET k == running.key
        v == shardCounter + 1
        callers == <<running.worker>> \o joined[k]
    IN /\ ScanEnds("load")
       /\ joined' = [joined EXCEPT ![k] = <<>>]
       /\ IF running.scanned # index[k].files
          THEN /\ Reindex(k, running.scanned, TRUE)
               /\ CommitMarker(k, v)
               /\ ToAll(Broadcast("STATE_DELTA", Marker(k, v)))
               /\ Settle(callers, Marker(k, v), Only(k, index'[k]), Unconfirmed, FALSE)
          ELSE /\ Rescanned(k)
               /\ UNCHANGED <<version, markers, deltaLog, inbox>>
               /\ Settle(callers, NoDelta, Only(k, index'[k]), Unconfirmed, FALSE)

\* refreshInternal: what changed in a shard that is loaded is committed and
\* broadcast, as a snapshot if the watch configuration was reloaded.
FinishRefresh ==
    LET k == running.key
        v == shardCounter + 1
    IN /\ ScanEnds("refresh")
       /\ IF index[k].loaded /\ running.scanned # index[k].files
          THEN /\ Reindex(k, running.scanned, TRUE)
               /\ CommitMarker(k, v)
               /\ \/ ToAll(Broadcast("STATE_DELTA", Marker(k, v)))
                  \/ ToAll(Broadcast("STATE_SNAPSHOT", Snapshot(version + 1, [markers EXCEPT ![k] = v])))
          ELSE UNCHANGED <<primaryVars, inbox>>
       /\ UNCHANGED <<joined, unpublished>>

\* The promise of a settled operation continues in handleWorkerMessage: the oldest
\* one, or a commit's, which has fewer promises to pass through than those of the
\* loads before it.
Publish ==
    /\ \E i \in DOMAIN unpublished :
          /\ i > 1 => unpublished[i].broadcast
          /\ \A j \in 1 .. (i - 1) : ~unpublished[j].broadcast
          /\ LET result == unpublished[i]
                 sent(w) == IF result.broadcast
                            THEN Append(inbox[w], Broadcast("STATE_DELTA", result.message.update))
                            ELSE inbox[w]
             IN inbox' = [w \in Worker |->
                    IF w = result.worker THEN Append(sent(w), result.message) ELSE sent(w)]
          /\ unpublished' = RemoveAt(unpublished, i)
    /\ UNCHANGED <<diskVars, primaryVars, queue, running, joined, workerVars, requests>>

-----------------------------------------------------------------------------
(* The primary receives requests, once settled promises have continued and *)
(* the queue has started what it could.                                    *)

\* ensureFileIndexShardLoaded of a shard that is current: no scan, and no shard
\* if the worker's copy has its version.
CurrentShard(request) ==
    IF index[request.key].version # request.known
    THEN Only(request.key, index[request.key])
    ELSE NoShards

Reply(request) ==
    CASE request.op = "load" ->
           Answer("ANSWER", NoDelta, CurrentShard(request), Unconfirmed)
      [] request.op = "getDeltaSince" ->
           Answer("SYNC_DELTA", DeltaSince(deltaLog, version, request.from), NoShards, request.confirms)
      [] request.op = "getSnapshot" ->
           Answer("SYNC_SNAPSHOT", Snapshot(version, markers), NoShards, request.confirms)

AnsweredAtOnce(request) ==
    \/ request.op \in {"getDeltaSince", "getSnapshot"}
    \/ request.op = "load" /\ index[request.key].loaded

\* The shard is being loaded, or is about to be.
Loading(k) ==
    \/ running # Idle /\ running.op = "load" /\ running.key = k
    \/ \E i \in DOMAIN queue : queue[i].op = "load" /\ queue[i].key = k

PrimaryReceive(w) ==
    /\ requests[w] # <<>>
    /\ unpublished = <<>> /\ (queue = <<>> \/ running # Idle)
    /\ LET request == Head(requests[w])
       IN CASE AnsweredAtOnce(request) ->
                  /\ inbox' = [inbox EXCEPT ![w] = Append(@, Reply(request))]
                  /\ UNCHANGED <<queue, joined>>
            [] ~AnsweredAtOnce(request) /\ request.op = "load" /\ Loading(request.key) ->
                  /\ joined' = [joined EXCEPT ![request.key] = Append(@, w)]
                  /\ UNCHANGED <<queue, inbox>>
            [] OTHER ->
                  /\ queue' = Append(queue, request)
                  /\ UNCHANGED <<joined, inbox>>
    /\ requests' = [requests EXCEPT ![w] = Tail(@)]
    /\ UNCHANGED <<diskVars, primaryVars, running, unpublished, workerVars>>

\* A file changed that no worker announced, and the reconcile is due.
Reconcile(k) ==
    /\ index[k].loaded /\ disk[k] # index[k].files
    /\ \A i \in DOMAIN queue : queue[i].op # "refresh"
    /\ running.op # "refresh"
    /\ queue' = Append(queue, Call("refresh", NoWorker, k, File, 0))
    /\ UNCHANGED <<diskVars, primaryVars, running, joined, unpublished, workerVars, inbox, requests>>

-----------------------------------------------------------------------------
(* A worker.                                                               *)

IsResponse(message) == message.type \in {"SYNC_DELTA", "SYNC_SNAPSHOT", "ANSWER"}

Deliverable(w) ==
    {i \in DOMAIN inbox[w] :
        /\ i > 1 => ~IsResponse(inbox[w][i])
        /\ \A j \in 1 .. (i - 1) : IsResponse(inbox[w][j])}

Consume(w, i) == inbox' = [inbox EXCEPT ![w] = RemoveAt(@, i)]

Send(w, request) == requests' = [requests EXCEPT ![w] = Append(@, request)]

ApplyUpdate(w, update) ==
    /\ replica' = [replica EXCEPT ![w] = Overlay(@, update.changes)]
    /\ replicaVersion' = [replicaVersion EXCEPT ![w] = update.to]

\* isShardCurrent
Current(w, k) == shards[w][k].shard.loaded /\ ~shards[w][k].stale

\* markShardStale: of a marker newer than the copy, if there is a copy.
Invalidated(copies, changes) ==
    [k \in Key |->
        IF k \in DOMAIN changes /\ copies[k].shard.version < changes[k]
           /\ (copies[k].shard.files # NoFiles \/ copies[k].shard.loaded)
        THEN [copies[k] EXCEPT !.stale = TRUE]
        ELSE copies[k]]

\* applyShard: an empty shard is a tombstone; a copy that was fully loaded stays so.
WithShard(copy, s) ==
    [shard |-> [s EXCEPT !.loaded = s.files # NoFiles /\ (s.loaded \/ copy.shard.loaded)],
     stale |-> FALSE]

WithShards(copies, bundle) ==
    [k \in Key |-> IF k \in DOMAIN bundle THEN WithShard(copies[k], bundle[k]) ELSE copies[k]]

Confirm(w, confirms) ==
    confirmed' = [confirmed EXCEPT ![w] =
        [k \in Key |-> IF confirms[k] > @[k] THEN confirms[k] ELSE @[k]]]

\* applyPrimarySyncPayload: the delta, the shards, the invalidations.
ReceivePayload(w, i) ==
    LET message == inbox[w][i]
        update == message.update
    IN /\ message.type \in {"STATE_DELTA", "ANSWER"}
       /\ ~IsGap(update, replicaVersion[w])
       /\ IF Fits(update, replicaVersion[w])
          THEN ApplyUpdate(w, update)
          ELSE UNCHANGED <<replicaVersion, replica>>
       /\ shards' = [shards EXCEPT ![w] =
              Invalidated(WithShards(Invalidated(@, IF Fits(update, replicaVersion[w])
                                                    THEN update.changes ELSE NoChanges),
                                     message.shards),
                          update.changes)]
       /\ Confirm(w, message.confirms)
       /\ Consume(w, i)
       /\ UNCHANGED requests

\* A version gap: the shards and invalidations are skipped for a pull.
ReceiveGap(w, i) ==
    LET message == inbox[w][i]
    IN /\ message.type \in {"STATE_DELTA", "ANSWER"}
       /\ IsGap(message.update, replicaVersion[w])
       /\ Send(w, Pull("getDeltaSince", w, replicaVersion[w], message.confirms))
       /\ Consume(w, i)
       /\ UNCHANGED workerVars

\* applySnapshot drops every L2 shard.
ReceiveSnapshot(w, i) ==
    LET message == inbox[w][i]
    IN /\ message.type \in {"STATE_SNAPSHOT", "SYNC_SNAPSHOT"}
       /\ IF message.update.to < replicaVersion[w]
          THEN UNCHANGED <<replicaVersion, replica, shards>>
          ELSE /\ ApplyUpdate(w, message.update)
               /\ shards' = [shards EXCEPT ![w] =
                      [k \in Key |-> [shard |-> Unloaded, stale |-> FALSE]]]
       /\ Confirm(w, message.confirms)
       /\ Consume(w, i)
       /\ UNCHANGED requests

\* The pulled delta, or a snapshot instead if the log no longer reaches back.
ReceiveSyncDelta(w, i) ==
    LET message == inbox[w][i]
        update == message.update
    IN /\ message.type = "SYNC_DELTA"
       /\ ~IsGap(update, replicaVersion[w])
       /\ IF Fits(update, replicaVersion[w])
          THEN /\ ApplyUpdate(w, update)
               /\ shards' = [shards EXCEPT ![w] = Invalidated(@, update.changes)]
          ELSE UNCHANGED <<replicaVersion, replica, shards>>
       /\ IF update = NoDelta
          THEN Send(w, Pull("getSnapshot", w, 0, message.confirms)) /\ UNCHANGED confirmed
          ELSE Confirm(w, message.confirms) /\ UNCHANGED requests
       /\ Consume(w, i)

\* A pull that meets a gap of its own fails, and its caller with it.
SyncFails(w, i) ==
    /\ inbox[w][i].type = "SYNC_DELTA"
    /\ IsGap(inbox[w][i].update, replicaVersion[w])
    /\ Consume(w, i)
    /\ UNCHANGED <<workerVars, requests>>

WorkerReceive(w) ==
    /\ \E i \in Deliverable(w) :
          \/ ReceivePayload(w, i)
          \/ ReceiveGap(w, i)
          \/ ReceiveSnapshot(w, i)
          \/ ReceiveSyncDelta(w, i)
          \/ SyncFails(w, i)
    /\ UNCHANGED <<diskVars, primaryVars, operationVars>>

\* Calls of the worker that are under way.
Mine(w, s) == SelectSeq(s, LAMBDA x : x.worker = w)
UnderWay(w) ==
    Len(requests[w]) + Len(Mine(w, queue)) + Len(Mine(w, unpublished))
    + Len(SelectSeq(inbox[w], IsResponse))
    + (IF running # Idle /\ running.worker = w THEN 1 ELSE 0)
    + MapThenSumSet(LAMBDA k : Len(SelectSeq(joined[k], LAMBDA x : x = w)), Key)

CallsPrimary(w, request) ==
    /\ UnderWay(w) < MaxCalls
    /\ Send(w, request)
    /\ UNCHANGED <<primaryVars, operationVars, workerVars, inbox>>

\* A request of an existing user needs the files, and the copy is not current.
EnsureUserFileIndex(w, k) ==
    /\ disk[k] # NoFiles
    /\ ~Current(w, k)
    /\ CallsPrimary(w, Call("load", w, k, File, shards[w][k].shard.version))
    /\ UNCHANGED diskVars

\* authStateLoadPromises: a later caller shares the load under way, whose answer
\* tells it nothing its broadcast did not; those callers are left out.
IsAuthLoad(x, k) == x.op = "auth" /\ x.key = k
AuthLoading(k) ==
    \/ \E i \in DOMAIN queue : IsAuthLoad(queue[i], k)
    \/ \E w \in Worker : \E i \in DOMAIN requests[w] : IsAuthLoad(requests[w][i], k)

\* A request is authenticated: the user's auth files are loaded.
EnsureUserAuthState(w, k) ==
    /\ disk[k] # NoFiles
    /\ ~AuthLoading(k)
    /\ CallsPrimary(w, Call("auth", w, k, AuthFile, 0))
    /\ UNCHANGED diskVars

\* A request fenced at a version the worker has not reached pulls.
FencePull(w) ==
    /\ replicaVersion[w] < version
    /\ CallsPrimary(w, Pull("getDeltaSince", w, replicaVersion[w], Unconfirmed))
    /\ UNCHANGED diskVars

Edit(k, f, content) ==
    /\ edits <= MaxEdits
    /\ disk' = [disk EXCEPT ![k][f] = content]
    /\ disk'[k] # disk[k]
    /\ edits' = edits + 1

\* A request writes or deletes a file, then commits its path.
Write(w, k) ==
    \E f \in File, content \in {0, edits + 1} :
        /\ Edit(k, f, content)
        /\ CallsPrimary(w, Call("commit", w, k, {f}, 0))

\* A file changes behind the server's back.
EditOutside(k) ==
    /\ \E f \in File : Edit(k, f, edits + 1)
    /\ UNCHANGED <<primaryVars, operationVars, workerVars, inbox, requests>>

-----------------------------------------------------------------------------

OperationStep == StartOperation \/ FinishLoad \/ FinishRefresh

WorkerCall(w) ==
    \/ FencePull(w)
    \/ \E k \in Key : EnsureUserFileIndex(w, k) \/ EnsureUserAuthState(w, k) \/ Write(w, k)

ShardNext ==
    \/ OperationStep
    \/ Publish
    \/ \E k \in Key : Reconcile(k) \/ EditOutside(k)
    \/ \E w \in Worker : PrimaryReceive(w) \/ WorkerReceive(w) \/ WorkerCall(w)

ShardSpec == ShardInit /\ [][ShardNext]_shardVars

-----------------------------------------------------------------------------
(* Properties.                                                             *)

ShardTypeOK ==
    /\ disk \in [Key -> Files]
    /\ version \in Nat
    /\ markers \in [Key -> Nat]
    /\ \A i \in DOMAIN deltaLog : IsUpdate(deltaLog[i])
    /\ index \in [Key -> Shard]
    /\ shardCounter \in Nat
    /\ queue \in Seq(Operation)
    /\ running # Idle => running.op \in {"load", "refresh"} /\ running.scanned \in Files
    /\ joined \in [Key -> Seq(Worker)]
    /\ \A i \in DOMAIN unpublished :
          unpublished[i].worker \in Worker /\ IsMessage(unpublished[i].message)
    /\ replicaVersion \in [Worker -> Nat]
    /\ replica \in [Worker -> [Key -> Nat]]
    /\ shards \in [Worker -> [Key -> [shard : Shard, stale : BOOLEAN]]]
    /\ confirmed \in [Worker -> Confirmation]
    /\ \A w \in Worker : \A i \in DOMAIN inbox[w] : IsMessage(inbox[w][i])
    /\ requests \in [Worker -> Seq(Request)]

\* The version of a shard names its files: a copy that has the primary's version
\* has the primary's files, so answering its owner with no shard is right
\* (knownVersion of ensureFileIndexShardLoaded).
VersionNamesFiles ==
    \A w \in Worker, k \in Key :
        shards[w][k].shard.version = index[k].version => shards[w][k].shard.files = index[k].files

\* A worker that was answered with the version its write's commit made never again
\* takes an older copy for current: no reordered, repeated or skipped payload brings
\* one back.  This is less than reading its own writes.  A write makes no version
\* when its commit finds nothing to change, because a reconcile, a load or an auth
\* load indexed it first; and a version does not count that was made while an answer
\* with the older copy was still unsent.  After those writes the code may take an
\* older copy for current, though the worker was answered.
CommittedVersionKept ==
    \A w \in Worker, k \in Key :
        Current(w, k) => shards[w][k].shard.version >= confirmed[w][k]

\* The replicated marker makes a worker know that its copy is stale: no copy is
\* taken for current that is older than the marker the worker has.
StaleShardKnown ==
    \A w \in Worker, k \in Key :
        Current(w, k) => shards[w][k].shard.version >= replica[w][k]

\* The primary's index never goes back to an older content of a file: a scan that
\* was under way when a write was committed does not overwrite it (each content
\* is the number of the edit that wrote it).
IndexMovesForward ==
    [][\A k \in Key, f \in File :
          index'[k].files[f] = 0 \/ index'[k].files[f] >= index[k].files[f]]_shardVars
=============================================================================
