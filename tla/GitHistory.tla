----------------------------- MODULE GitHistory -----------------------------
(***************************************************************************)
(* The local Git history of the writable owner roots                       *)
(* (server/lib/customware/git_history.js): every change of a root          *)
(* schedules a commit of it after a quiet period, rollbacks and reverts    *)
(* flush what is pending and then move the root, and the Git work of one   *)
(* process is queued per repository (lib/git/native_handler.js).           *)
(*                                                                         *)
(* It runs in two ways.  A single server process schedules its own         *)
(* commits.  In a cluster a worker reports the paths it changed and the    *)
(* primary schedules; the worker's own rollbacks and reverts use its own   *)
(* queue and its own, always empty, table of pending commits.              *)
(*                                                                         *)
(* A root's files are one content, named by the change that wrote it: what *)
(* matters is whether a content reached a commit before it was overwritten.*)
(* saved holds every content some ref of the repository reaches; a         *)
(* rollback keeps the head it leaves under a ref of its own.  unsaved holds *)
(* the changes a rollback would lose: no commit was staged after them.     *)
(***************************************************************************)
EXTENDS Naturals, Sequences, FiniteSets

CONSTANTS
    Owner,        \* writable owner roots, L1/<group>/ and L2/<user>/
    Worker,       \* worker processes of a cluster
    Primary,      \* the process that schedules: the primary, or the only one
    Runtime,      \* of {"single", "cluster"}
    Request,      \* history requests under way at a time
    NoRequest,
    NoCommit,     \* no pending commit
    Base,         \* DEFAULT_COMMIT_DEBOUNCE_MS
    LongWait, LongDebounce,            \* LONG_WAIT_THRESHOLD_MS, _DEBOUNCE_MS
    ExtendedWait, ExtendedDebounce,    \* EXTENDED_WAIT_...
    ImmediateWait,                     \* IMMEDIATE_WAIT_THRESHOLD_MS
    MaxEdits,     \* bound: changes of roots
    MaxRequests,  \* bound: history requests
    MaxFaults     \* bound: processes that exit and Git commands that fail

Process == {Primary} \cup Worker

ASSUME HistoryAssumption ==
    /\ Owner # {} /\ Primary \notin Worker
    /\ NoRequest \notin Request
    /\ Runtime \subseteq {"single", "cluster"}
    /\ {Base, LongWait, LongDebounce, ExtendedWait, ExtendedDebounce, ImmediateWait}
          \subseteq Nat \ {0}
    /\ ExtendedDebounce <= LongDebounce /\ LongDebounce <= Base
    /\ LongWait <= ExtendedWait /\ ExtendedWait <= ImmediateWait
    /\ LongWait + Base <= ImmediateWait + ExtendedDebounce
    /\ ExtendedWait + LongDebounce <= ImmediateWait + ExtendedDebounce
    /\ NoCommit \notin [due : Nat, waited : Nat]
    /\ MaxEdits \in Nat /\ MaxRequests \in Nat /\ MaxFaults \in Nat

VARIABLES
    runtime,     \* how the server was started
    edits,       \* changes made so far
    tree,        \* each root's files
    index,       \* what is staged in each root's repository
    head,        \* the content HEAD points at
    saved,       \* contents that are committed
    unsaved,     \* each root's changes since its last reset that no commit holds (ghost)
    pending,     \* pendingCommits of the scheduling process: [due, waited]
    queue,       \* Git work of each process on each repository
    req,         \* history requests: [pc, op, at, owner, to, asked]; asked, the changes
                 \* made when the request was, is a ghost
    suppressed,  \* requests that hold suppressionDepth up in the single process
    unreported,  \* changes a worker has not reported yet: <<worker, owner>>
    missed,      \* each root's changes that no commit is to come for (ghost)
    asks, faults

gitVars == <<tree, index, head, saved, unsaved>>
historyVars == <<runtime, edits, gitVars, pending, queue, req, suppressed, unreported,
                 missed, asks, faults>>

Content == 0 .. MaxEdits

Pending == [due : Nat, waited : Nat]

Task == [kind : {"commit", "rollback", "revert"}, pc : {"queued", "started"},
         who : Request \cup {NoRequest}, to : Content]

HistoryTypeOK ==
    /\ runtime \in Runtime
    /\ edits \in Content
    /\ tree \in [Owner -> Content]
    /\ index \in [Owner -> Content]
    /\ head \in [Owner -> Content]
    /\ saved \in [Owner -> SUBSET Content]
    /\ unsaved \in [Owner -> SUBSET Content]
    /\ pending \in [Owner -> Pending \cup {NoCommit}]
    /\ queue \in [Process -> [Owner -> Seq(Task)]]
    /\ req \in [Request -> [pc : {"idle", "flushing", "queued"},
                            op : {"rollback", "revert", "preview"},
                            at : Process, owner : Owner, to : Content, asked : Content]]
    /\ suppressed \in SUBSET Request
    /\ unreported \in SUBSET (Worker \X Owner)
    /\ missed \in [Owner -> SUBSET Content]
    /\ asks \in 0 .. MaxRequests /\ faults \in 0 .. MaxFaults

NoTask == [o \in Owner |-> <<>>]

NoHistoryRequest == [pc |-> "idle", op |-> "preview", at |-> Primary,
                     owner |-> CHOOSE o \in Owner : TRUE, to |-> 0, asked |-> 0]

\* Every root has been committed once and is clean.
HistoryInit ==
    /\ runtime \in Runtime
    /\ edits = 0
    /\ tree = [o \in Owner |-> 0]
    /\ index = [o \in Owner |-> 0]
    /\ head = [o \in Owner |-> 0]
    /\ saved = [o \in Owner |-> {0}]
    /\ unsaved = [o \in Owner |-> {}]
    /\ pending = [o \in Owner |-> NoCommit]
    /\ queue = [p \in Process |-> NoTask]
    /\ req = [r \in Request |-> NoHistoryRequest]
    /\ suppressed = {}
    /\ unreported = {}
    /\ missed = [o \in Owner |-> {}]
    /\ asks = 0 /\ faults = 0

-----------------------------------------------------------------------------
(* Scheduling.                                                             *)

\* Processes that handle requests.
Front == IF runtime = "single" THEN {Primary} ELSE Worker

CommitTask(r) == [kind |-> "commit", pc |-> "queued", who |-> r, to |-> 0]

RequestTask(r, op, to) == [kind |-> op, pc |-> "queued", who |-> r, to |-> to]

\* Bug: a commit that has waited for the last threshold is put off again.
DebounceAlways(waited) ==
    CASE waited >= ExtendedWait -> ExtendedDebounce
      [] waited >= LongWait /\ waited < ExtendedWait -> LongDebounce
      [] waited < LongWait -> Base

\* resolveGitHistoryDebounceMs.
Debounce(waited) ==
    CASE waited >= ImmediateWait -> 0
      [] waited >= ExtendedWait /\ waited < ImmediateWait -> ExtendedDebounce
      [] waited >= LongWait /\ waited < ExtendedWait -> LongDebounce
      [] waited < LongWait -> Base

Waited(o) == IF pending[o] = NoCommit THEN 0 ELSE pending[o].waited

\* scheduleLayerHistoryTarget, over the queues q.
Schedule(q, o) ==
    /\ IF Debounce(Waited(o)) = 0
       THEN /\ pending' = [pending EXCEPT ![o] = NoCommit]
            /\ queue' = [q EXCEPT ![Primary][o] = Append(@, CommitTask(NoRequest))]
       ELSE /\ pending' = [pending EXCEPT ![o] = [due |-> Debounce(Waited(o)), waited |-> Waited(o)]]
            /\ queue' = q
    /\ missed' = [missed EXCEPT ![o] = {}]

\* A commit is to come that will stage whatever the root then holds.
Covered(q, o) ==
    \/ pending[o] # NoCommit
    \/ \E i \in DOMAIN q[Primary][o] : q[Primary][o][i].kind = "commit" /\ q[Primary][o][i].pc = "queued"

\* recordAppPathMutations at p: a worker leaves it to its report; the single
\* process schedules, unless a rollback or revert has history suppressed.
Record(q, p, o, holders) ==
    IF p \in Worker
    THEN /\ unreported' = unreported \cup {<<p, o>>}
         /\ queue' = q
         /\ UNCHANGED <<pending, missed>>
    ELSE /\ UNCHANGED unreported
         /\ IF holders = {}
            THEN Schedule(q, o)
            ELSE /\ missed' = IF Covered(q, o) THEN missed ELSE [missed EXCEPT ![o] = @ \cup {tree'[o]}]
                 /\ queue' = q
                 /\ UNCHANGED pending

\* A request changes files of the root.
Edit(p, o) ==
    /\ p \in Front /\ edits < MaxEdits
    /\ edits' = edits + 1
    /\ tree' = [tree EXCEPT ![o] = edits + 1]
    /\ unsaved' = [unsaved EXCEPT ![o] = @ \cup {edits + 1}]
    /\ Record(queue, p, o, suppressed)
    /\ UNCHANGED <<runtime, index, head, saved, req, suppressed, asks, faults>>

\* Bug: the primary leaves the commit to the worker.
ReportUnscheduled(w, o) ==
    /\ <<w, o>> \in unreported
    /\ unreported' = unreported \ {<<w, o>>}
    /\ UNCHANGED <<runtime, edits, gitVars, pending, queue, req, suppressed, missed, asks, faults>>

\* commitProjectPaths of a worker: the primary rebuilds its indexes and schedules.
Report(w, o) ==
    /\ <<w, o>> \in unreported
    /\ unreported' = unreported \ {<<w, o>>}
    /\ Schedule(queue, o)
    /\ UNCHANGED <<runtime, edits, gitVars, req, suppressed, asks, faults>>

\* The quiet period is over.
TimerFires(o) ==
    /\ pending[o] # NoCommit
    /\ pending[o].due = 0
    /\ pending' = [pending EXCEPT ![o] = NoCommit]
    /\ queue' = [queue EXCEPT ![Primary][o] = Append(@, CommitTask(NoRequest))]
    /\ UNCHANGED <<runtime, edits, gitVars, req, suppressed, unreported, missed, asks, faults>>

\* Bug: a timer that is due is passed over.
HistoryTickLate ==
    /\ \E o \in Owner : pending[o] # NoCommit
    /\ pending' = [o \in Owner |-> IF pending[o] = NoCommit THEN NoCommit
                                   ELSE [due |-> pending[o].due - 1, waited |-> pending[o].waited + 1]]
    /\ UNCHANGED <<runtime, edits, gitVars, queue, req, suppressed, unreported, missed, asks, faults>>

\* Time passes while no timer is due.
HistoryTick ==
    /\ \E o \in Owner : pending[o] # NoCommit
    /\ \A o \in Owner : pending[o] # NoCommit => pending[o].due > 0
    /\ pending' = [o \in Owner |-> IF pending[o] = NoCommit THEN NoCommit
                                   ELSE [due |-> pending[o].due - 1, waited |-> pending[o].waited + 1]]
    /\ UNCHANGED <<runtime, edits, gitVars, queue, req, suppressed, unreported, missed, asks, faults>>

-----------------------------------------------------------------------------
(* Git work, one at a time for a process and a repository.                 *)

Running(p, o) == Head(queue[p][o])

Done(p, o) == [queue EXCEPT ![p][o] = Tail(@)]

\* The request leaves its flush behind: a rollback or revert joins the queue,
\* with history suppressed until it is done.
Proceed(r, q) ==
    LET p == req[r].at
        o == req[r].owner
    IN IF req[r].op = "preview"
       THEN /\ req' = [req EXCEPT ![r] = NoHistoryRequest]
            /\ queue' = q
            /\ UNCHANGED suppressed
       ELSE /\ req' = [req EXCEPT ![r].pc = "queued"]
            /\ queue' = [q EXCEPT ![p][o] = Append(@, RequestTask(r, req[r].op, req[r].to))]
            /\ suppressed' = IF p = Primary THEN suppressed \cup {r} ELSE suppressed

\* A commit that is done lets the request that waits for it go on.
CommitEnds(p, o) ==
    IF Running(p, o).who = NoRequest
    THEN queue' = Done(p, o) /\ UNCHANGED <<req, suppressed>>
    ELSE Proceed(Running(p, o).who, Done(p, o))

\* git add -A.
Stage(p, o) ==
    /\ queue[p][o] # <<>>
    /\ Running(p, o).kind = "commit" /\ Running(p, o).pc = "queued"
    /\ index' = [index EXCEPT ![o] = tree[o]]
    /\ IF tree[o] = head[o]
       THEN CommitEnds(p, o)
       ELSE queue' = [queue EXCEPT ![p][o][1].pc = "started"] /\ UNCHANGED <<req, suppressed>>
    /\ UNCHANGED <<runtime, edits, tree, head, saved, unsaved, pending, unreported, missed, asks, faults>>

\* What the root's commit does not hold.
Later(o) == {e \in unsaved[o] : e > index[o]}

\* Bug: the pending entry is deleted when the commit is done.
CommitStagedClears(p, o) ==
    /\ queue[p][o] # <<>>
    /\ Running(p, o).kind = "commit" /\ Running(p, o).pc = "started"
    /\ index[o] # head[o]
    /\ saved' = [saved EXCEPT ![o] = @ \cup {index[o]}]
    /\ unsaved' = [unsaved EXCEPT ![o] = Later(o)]
    /\ head' = [head EXCEPT ![o] = index[o]]
    /\ pending' = [pending EXCEPT ![o] = NoCommit]
    /\ CommitEnds(p, o)
    /\ UNCHANGED <<runtime, edits, tree, index, unreported, missed, asks, faults>>

\* git commit.
CommitStaged(p, o) ==
    /\ queue[p][o] # <<>>
    /\ Running(p, o).kind = "commit" /\ Running(p, o).pc = "started"
    /\ index[o] # head[o]
    /\ saved' = [saved EXCEPT ![o] = @ \cup {index[o]}]
    /\ unsaved' = [unsaved EXCEPT ![o] = Later(o)]
    /\ head' = [head EXCEPT ![o] = index[o]]
    /\ CommitEnds(p, o)
    /\ UNCHANGED <<runtime, edits, tree, index, pending, unreported, missed, asks, faults>>

\* A Git command fails (or finds nothing to commit, a reset of another process
\* having emptied the index).  A timer's commit is only logged; a flush throws
\* and ends the request.  Nothing schedules the commit again.
CommitFails(p, o) ==
    /\ queue[p][o] # <<>>
    /\ Running(p, o).kind = "commit"
    /\ \/ faults < MaxFaults /\ faults' = faults + 1
       \/ Running(p, o).pc = "started" /\ index[o] = head[o] /\ UNCHANGED faults
    /\ queue' = Done(p, o)
    /\ req' = [r \in Request |-> IF r = Running(p, o).who THEN NoHistoryRequest ELSE req[r]]
    /\ missed' = IF Covered(Done(p, o), o) THEN missed ELSE [missed EXCEPT ![o] = @ \cup unsaved[o]]
    /\ UNCHANGED <<runtime, edits, gitVars, pending, suppressed, unreported, asks>>

\* git reset --hard.
Reset(p, o) ==
    /\ queue[p][o] # <<>>
    /\ Running(p, o).kind = "rollback" /\ Running(p, o).pc = "queued"
    /\ LET to == Running(p, o).to
       IN /\ tree' = [tree EXCEPT ![o] = to]
          /\ index' = [index EXCEPT ![o] = to]
          /\ head' = [head EXCEPT ![o] = to]
    /\ unsaved' = [unsaved EXCEPT ![o] = {}]
    /\ queue' = [queue EXCEPT ![p][o][1].pc = "started"]
    /\ UNCHANGED <<runtime, edits, saved, pending, req, suppressed, unreported, missed, asks, faults>>

\* git revert, on a clean root.
Revert(p, o) ==
    /\ queue[p][o] # <<>>
    /\ Running(p, o).kind = "revert" /\ Running(p, o).pc = "queued"
    /\ tree[o] = head[o] /\ edits < MaxEdits
    /\ edits' = edits + 1
    /\ tree' = [tree EXCEPT ![o] = edits + 1]
    /\ index' = [index EXCEPT ![o] = edits + 1]
    /\ head' = [head EXCEPT ![o] = edits + 1]
    /\ saved' = [saved EXCEPT ![o] = @ \cup {edits + 1}]
    /\ queue' = [queue EXCEPT ![p][o][1].pc = "started"]
    /\ UNCHANGED <<runtime, unsaved, pending, req, suppressed, unreported, missed, asks, faults>>

\* The request is done: history is on again, and its root is recorded as changed.
RequestEnds(p, o) ==
    /\ queue[p][o] # <<>>
    /\ Running(p, o).kind # "commit" /\ Running(p, o).pc = "started"
    /\ suppressed' = suppressed \ {Running(p, o).who}
    /\ req' = [req EXCEPT ![Running(p, o).who] = NoHistoryRequest]
    /\ UNCHANGED <<runtime, edits, gitVars, asks, faults>>
    /\ Record(Done(p, o), p, o, suppressed')

\* The reset or the revert fails, the latter also on a root that is not clean:
\* the error goes to the caller, and nothing is recorded.
RequestFails(p, o) ==
    /\ queue[p][o] # <<>>
    /\ Running(p, o).kind # "commit" /\ Running(p, o).pc = "queued"
    /\ \/ faults < MaxFaults /\ faults' = faults + 1
       \/ Running(p, o).kind = "revert" /\ (tree[o] # head[o] \/ edits = MaxEdits)
          /\ UNCHANGED faults
    /\ suppressed' = suppressed \ {Running(p, o).who}
    /\ req' = [req EXCEPT ![Running(p, o).who] = NoHistoryRequest]
    /\ queue' = Done(p, o)
    /\ UNCHANGED <<runtime, edits, gitVars, pending, unreported, missed, asks>>

-----------------------------------------------------------------------------
(* Requests and exits.                                                     *)

\* Bug: nothing is flushed.
AskUnflushed(r, p, o) ==
    /\ req[r].pc = "idle" /\ p \in Front
    /\ asks < MaxRequests /\ asks' = asks + 1
    /\ \E to \in saved[o] :
          /\ req' = [req EXCEPT ![r] = [pc |-> "queued", op |-> "rollback", at |-> p, owner |-> o, to |-> to,
                                       asked |-> edits]]
          /\ queue' = [queue EXCEPT ![p][o] = Append(@, RequestTask(r, "rollback", to))]
          /\ suppressed' = IF p = Primary THEN suppressed \cup {r} ELSE suppressed
    /\ UNCHANGED <<runtime, edits, gitVars, pending, unreported, missed, faults>>

\* rollbackLayerHistory, revertLayerHistoryCommit, getLayerHistoryOperationPreview:
\* flush the commit this process has pending, if it has one, and wait for it.
Ask(r, p, o) ==
    /\ req[r].pc = "idle" /\ p \in Front
    /\ asks < MaxRequests /\ asks' = asks + 1
    /\ \E op \in {"rollback", "revert", "preview"}, to \in saved[o] :
          /\ op = "rollback" \/ to = 0
          /\ LET new == [pc |-> "flushing", op |-> op, at |-> p, owner |-> o, to |-> to, asked |-> edits]
             IN IF p = Primary /\ pending[o] # NoCommit
                THEN /\ req' = [req EXCEPT ![r] = new]
                     /\ pending' = [pending EXCEPT ![o] = NoCommit]
                     /\ queue' = [queue EXCEPT ![p][o] = Append(@, CommitTask(r))]
                     /\ UNCHANGED suppressed
                ELSE /\ op # "preview"
                     /\ req' = [req EXCEPT ![r] = [new EXCEPT !.pc = "queued"]]
                     /\ queue' = [queue EXCEPT ![p][o] = Append(@, RequestTask(r, op, to))]
                     /\ suppressed' = IF p = Primary THEN suppressed \cup {r} ELSE suppressed
                     /\ UNCHANGED pending
    /\ UNCHANGED <<runtime, edits, gitVars, unreported, missed, faults>>

\* Processes exit, by a signal or a crash: serve handles no signal, so nothing is
\* flushed.  A worker exits alone, the scheduling process takes the server with it.
Exit(ps) ==
    /\ faults < MaxFaults /\ faults' = faults + 1
    /\ queue' = [p \in Process |-> IF p \in ps THEN NoTask ELSE queue[p]]
    /\ req' = [r \in Request |-> IF req[r].at \in ps THEN NoHistoryRequest ELSE req[r]]
    /\ unreported' = {u \in unreported : u[1] \notin ps}
    /\ IF Primary \in ps
       THEN /\ pending' = [o \in Owner |-> NoCommit]
            /\ suppressed' = {}
            /\ missed' = [o \in Owner |-> missed[o] \cup unsaved[o]]
       ELSE /\ missed' = [o \in Owner |-> IF \E w \in ps : <<w, o>> \in unreported
                                         THEN missed[o] \cup unsaved[o] ELSE missed[o]]
            /\ UNCHANGED <<pending, suppressed>>
    /\ UNCHANGED <<runtime, edits, gitVars, asks>>

GitWork(p, o) ==
    \/ Stage(p, o)
    \/ CommitStaged(p, o)
    \/ CommitFails(p, o)
    \/ Reset(p, o)
    \/ Revert(p, o)
    \/ RequestEnds(p, o)
    \/ RequestFails(p, o)

HistoryNext ==
    \/ HistoryTick
    \/ \E o \in Owner : TimerFires(o)
    \/ \E w \in Worker, o \in Owner : Report(w, o)
    \/ \E p \in Process, o \in Owner :
          Edit(p, o) \/ GitWork(p, o) \/ \E r \in Request : Ask(r, p, o)
    \/ Exit(Process)
    \/ runtime = "cluster" /\ \E w \in Worker : Exit({w})

HistorySpec == HistoryInit /\ [][HistoryNext]_historyVars

\* Timers run, reports are answered, Git commands end.
HistoryFairness ==
    /\ WF_historyVars(HistoryTick)
    /\ \A o \in Owner : WF_historyVars(TimerFires(o))
    /\ \A w \in Worker, o \in Owner : WF_historyVars(Report(w, o))
    /\ \A p \in Process, o \in Owner : WF_historyVars(GitWork(p, o))

FairHistorySpec == HistorySpec /\ HistoryFairness

-----------------------------------------------------------------------------
(* What the history promises.                                              *)

\* The commit under way has this content staged.
Staged(o) ==
    /\ index[o] = tree[o]
    /\ \E i \in DOMAIN queue[Primary][o] :
          queue[Primary][o][i].kind = "commit" /\ queue[Primary][o][i].pc = "started"

\* No change is forgotten: what a root holds is committed, or a pending, queued
\* or running commit or a worker's report will see to it -- except for the changes
\* of missed: made while some rollback or revert had history suppressed, left by a
\* commit that failed, or not committed when their process exited, whatever ended
\* it (the schedule of git_history.js; StopFlushes says what is lost there).
NothingForgotten ==
    \A o \in Owner :
        \/ tree[o] \in saved[o]
        \/ Covered(queue, o)
        \/ Staged(o)
        \/ \E w \in Worker : <<w, o>> \in unreported
        \/ tree[o] \in missed[o]

\* However steadily a root changes, a pending commit waits at most one short
\* debounce longer than the last threshold (firstScheduledAt survives rescheduling).
WaitIsBounded ==
    \A o \in Owner :
        pending[o] # NoCommit => pending[o].waited + pending[o].due <= ImmediateWait + ExtendedDebounce

\* In a server that schedules its own commits, a rollback overwrites no change that
\* was made before it was asked for and is in no commit (the flush of
\* rollbackLayerHistory, and the queue it waits in), whatever other rollbacks,
\* reverts, changes and failing commands come between.  The exception is a change
\* of missed, which no commit was to come for: made while an earlier rollback or
\* revert had history suppressed, or left by a commit that failed.  It is not said
\* of a cluster, where a worker's rollback flushes nothing (rollbackLayerHistory
\* finds its own table of pending commits empty) and may run during the primary's
\* commit.
RollbackKeepsEdits ==
    [][\A r \in Request :
          LET o == req[r].owner
          IN /\ runtime = "single" /\ req[r].op = "rollback" /\ req[r].pc = "queued"
             /\ queue[Primary][o] # <<>> /\ Running(Primary, o).who = r
             /\ tree'[o] # tree[o] /\ edits' = edits
             => \A e \in unsaved[o] : e > req[r].asked \/ e \in missed[o]]_historyVars

\* A server that stops has committed what it had a commit for: "pending commits are
\* flushed during server shutdown" (docs, customware-layers-and-paths.md:79).  Only
\* close() flushes (app.js:293), and no signal handler of serve calls it, so a
\* SIGTERM from the supervisor (child_process.js:156) ends the process as an Exit.
StopFlushes ==
    [][Exit(Process) => \A o \in Owner :
          Covered(queue, o) \/ Staged(o) => tree[o] \in saved[o]]_historyVars

\* Every root gets committed, however often it changes, outside NothingForgotten's
\* exceptions.
RootsReachHistory ==
    \A o \in Owner : tree[o] \notin saved[o] ~> tree[o] \in saved[o] \/ tree[o] \in missed[o]
=============================================================================
