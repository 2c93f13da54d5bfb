-------------------------- MODULE MaintenanceJobs --------------------------
(***************************************************************************)
(* The job runners (server/jobs/job_runner.js) and the two guest clean-ups *)
(* they run (guest_cleanup_inactive.js, guest_cleanup_oversized.js), over  *)
(* the named locks of StateLocks and the file index the clean-ups read.    *)
(*                                                                         *)
(* Every process of the server that goes through createAgentServer has a   *)
(* runner of its own (app.js), and so has the clustered primary            *)
(* (cluster.js).  A runner takes its locks from its process's own state    *)
(* system, and its clean-ups read its process's own user index and path    *)
(* index.  The path index has the L2 files of those users only whose shard *)
(* this process loaded, as they were when it loaded or changed them.       *)
(*                                                                         *)
(* Ages and deadlines are relative, as in StateLocks; an age counts up to  *)
(* the inactivity cutoff.  A job is handled by one process at a time, so   *)
(* an action runs from one await of runJob or run() to the next.           *)
(***************************************************************************)
EXTENDS StateLocks, FiniteSets

CONSTANTS
    Process,    \* processes that run a job runner
    Primary,    \* the one with the authoritative index
    Job,        \* of {"inactive", "oversized"}
    Guest,      \* guests, in the order of their names
    Cutoff,     \* INACTIVE_CUTOFF_MS
    Every,      \* the schedule's everyMs; its lock TTL is never shorter
    JobTtl      \* the schedule's lockTtlMs

Runner == Process \X Job

ASSUME JobAssumption ==
    /\ Primary \in Process
    /\ Job \subseteq {"inactive", "oversized"}
    /\ Guest \subseteq Nat
    /\ Cutoff \in Nat \ {0}
    /\ Every \in Nat \ {0}
    /\ JobTtl \in Nat /\ JobTtl >= Every
    /\ Runner \subseteq Client
    /\ Runner \subseteq Lock      \* job_run:<job>, in the process's lock table

VARIABLES
    runs,     \* jobState of each runner: [pc, due, since, todo]
    disk,     \* each guest's directory: [exists, age, big]
    known,    \* the process's user_index has the guest
    indexed,  \* what the process's path_index says of its files: [age, big]
    dirty     \* changes on disk not committed yet: <<process, guest>>

guestVars == <<disk, known, indexed, dirty>>
jobVars == <<lockVars, runs, guestVars>>

Files == [age : 0 .. Cutoff, big : BOOLEAN]

JobTypeOK ==
    /\ LockTypeOK
    /\ runs \in [Runner -> [pc : {"scheduled", "locking", "running", "deleting"},
                            due : 0 .. Every, since : 0 .. Every, todo : SUBSET Guest]]
    /\ disk \in [Guest -> [exists : BOOLEAN, age : 0 .. Cutoff, big : BOOLEAN]]
    /\ known \in [Process -> [Guest -> BOOLEAN]]
    /\ indexed \in [Process -> [Guest -> Files]]
    /\ dirty \in SUBSET (Process \X Guest)

\* No entry of the guest: no file, and a latest change at time zero.
NotIndexed == [age |-> Cutoff, big |-> FALSE]

OnDisk(g) == [age |-> disk[g].age, big |-> disk[g].big]

ScheduledRun == [pc |-> "scheduled", due |-> Every, since |-> Every, todo |-> {}]

JobInit ==
    /\ LockInit
    /\ runs = [r \in Runner |-> ScheduledRun]
    /\ disk \in [Guest -> {[exists |-> TRUE, age |-> a, big |-> FALSE] : a \in {0, Cutoff}}]
    /\ known = [p \in Process |-> [g \in Guest |-> FALSE]]
    /\ indexed = [p \in Process |-> [g \in Guest |-> NotIndexed]]
    /\ dirty = {}

-----------------------------------------------------------------------------
(* Guests and the indexes.                                                 *)

Index(processes, g, value) ==
    indexed' = [p \in Process |-> IF p \in processes THEN [indexed[p] EXCEPT ![g] = value]
                                  ELSE indexed[p]]

Know(processes, g, value) ==
    known' = [p \in Process |-> IF p \in processes THEN [known[p] EXCEPT ![g] = value]
                                ELSE known[p]]

\* A request of the guest reaches p: its auth files are loaded at the primary,
\* and p applies what changed (ensureUserAuthState).
Visit(p, g) ==
    /\ Know({p, Primary}, g, disk[g].exists)
    /\ UNCHANGED <<lockVars, runs, disk, indexed, dirty>>

\* A route that needs the guest's files loads the shard (ensureUserFileIndex).
LoadShard(p, g) ==
    /\ known[p][g] /\ disk[g].exists
    /\ Index({p, Primary}, g, OnDisk(g))
    /\ UNCHANGED <<lockVars, runs, disk, known, dirty>>

\* The guest's request writes files at p, and commits their paths later.
Change(p, g) ==
    /\ known[p][g] /\ disk[g].exists
    /\ \E big \in BOOLEAN :
          /\ big => "oversized" \in Job
          /\ disk' = [disk EXCEPT ![g] = [exists |-> TRUE, age |-> 0, big |-> big]]
    /\ dirty' = dirty \cup {<<p, g>>}
    /\ UNCHANGED <<lockVars, runs, known, indexed>>

\* commitProjectPaths: the primary indexes the paths, and the mutating process
\* gets its shard back.
Commit(p, g) ==
    /\ <<p, g>> \in dirty
    /\ dirty' = dirty \ {<<p, g>>}
    /\ Index({p, Primary}, g, IF disk[g].exists THEN OnDisk(g) ELSE NotIndexed)
    /\ Know({p, Primary}, g, disk[g].exists)
    /\ UNCHANGED <<lockVars, runs, disk>>

\* The replicated user index reaches p.
Replicate(p) ==
    /\ known' = [known EXCEPT ![p] = known[Primary]]
    /\ UNCHANGED <<lockVars, runs, disk, indexed, dirty>>

-----------------------------------------------------------------------------
(* runJob.                                                                 *)

\* The timer fires: runJob asks for the job's lock and will not wait for it.
RunJob(r) ==
    /\ runs[r].pc = "scheduled" /\ runs[r].due = 0
    /\ runs' = [runs EXCEPT ![r].pc = "locking", ![r].since = 0]
    /\ Acquire(r, r, JobTtl, 0)
    /\ UNCHANGED guestVars

\* Bugs: an interval too many, none at all, and a refused run that is not rescheduled.
RescheduledLate(r) == [runs EXCEPT ![r].pc = "scheduled", ![r].todo = {},
                                   ![r].due = Every + 1 - runs[r].since]

RescheduledAtOnce(r) == [runs EXCEPT ![r].pc = "scheduled", ![r].todo = {}, ![r].due = 0]

LockRefusedForGood(r) ==
    /\ runs[r].pc = "locking" /\ call[r].token = NoToken
    /\ HearAnswer(r)
    /\ UNCHANGED <<runs, guestVars>>

\* The finally block: release, and the next run an interval after the last start.
Rescheduled(r) == [runs EXCEPT ![r].pc = "scheduled", ![r].todo = {},
                               ![r].due = Every - runs[r].since]

\* The lock is taken by somebody else: not this time.
LockRefused(r) ==
    /\ runs[r].pc = "locking" /\ call[r].token = NoToken
    /\ HearAnswer(r)
    /\ runs' = Rescheduled(r)
    /\ UNCHANGED guestVars

\* run() lists the guests once, in the order of their names.
Begin(r) ==
    /\ runs[r].pc = "locking" /\ call[r].token # NoToken
    /\ HearAnswer(r)
    /\ runs' = [runs EXCEPT ![r].pc = "running", ![r].todo = {g \in Guest : known[r[1]][g]}]
    /\ UNCHANGED guestVars

\* What the clean-up makes of the guest's entries, read when its turn comes.
Condemned(r, g) ==
    CASE r[2] = "inactive" -> indexed[r[1]][g].age >= Cutoff
      [] r[2] = "oversized" -> indexed[r[1]][g].big

ToDelete(r) == {g \in runs[r].todo : Condemned(r, g)}

\* Every guest before the first condemned one is kept, that one is deleted.
DeleteGuest(r) ==
    /\ runs[r].pc = "running"
    /\ \E g \in ToDelete(r) :
          /\ \A h \in ToDelete(r) : g <= h
          /\ disk' = [disk EXCEPT ![g].exists = FALSE]
          /\ dirty' = dirty \cup {<<r[1], g>>}
          /\ runs' = [runs EXCEPT ![r].pc = "deleting", ![r].todo = {h \in @ : h > g}]
    /\ UNCHANGED <<lockVars, known, indexed>>

\* runTrackedMutation resolves once the deletion is committed.
DeleteSettles(r) ==
    /\ runs[r].pc = "deleting"
    /\ \A g \in Guest : <<r[1], g>> \in dirty => disk[g].exists
    /\ runs' = [runs EXCEPT ![r].pc = "running"]
    /\ UNCHANGED <<lockVars, guestVars>>

FinishRun(r) ==
    /\ runs' = Rescheduled(r)
    /\ Release(r)
    /\ UNCHANGED guestVars

RunEnds(r) == runs[r].pc = "running" /\ ToDelete(r) = {} /\ FinishRun(r)

\* The deletion or its commit throws, and run() with it.
RunThrows(r) ==
    /\ \/ runs[r].pc = "running" /\ ToDelete(r) # {}
       \/ runs[r].pc = "deleting"
    /\ FinishRun(r)

-----------------------------------------------------------------------------
Older(n) == IF n < Cutoff THEN n + 1 ELSE Cutoff

TimePasses ==
    /\ Tick
    /\ runs' = [r \in Runner |-> [runs[r] EXCEPT !.due = Less(@),
                                                 !.since = IF @ < Every THEN @ + 1 ELSE Every]]
    /\ disk' = [g \in Guest |-> [disk[g] EXCEPT !.age = Older(@)]]
    /\ indexed' = [p \in Process |-> [g \in Guest |-> [indexed[p][g] EXCEPT !.age = Older(@)]]]
    /\ UNCHANGED <<known, dirty>>

\* Another caller of the state system takes a job's lock.
OtherCall(c) == LockStep(c) /\ UNCHANGED <<runs, guestVars>>

JobStep(r) ==
    \/ RunJob(r)
    \/ LockRefused(r)
    \/ Begin(r)
    \/ DeleteGuest(r)
    \/ DeleteSettles(r)
    \/ RunEnds(r)

GuestStep(p, g) == Visit(p, g) \/ LoadShard(p, g) \/ Change(p, g) \/ Commit(p, g)

JobNext ==
    \/ TimePasses
    \/ \E r \in Runner : JobStep(r) \/ RunThrows(r)
    \/ \E p \in Process, g \in Guest : GuestStep(p, g)
    \/ \E p \in Process : Replicate(p)
    \/ \E c \in Client \ Runner : OtherCall(c)

JobFairness ==
    /\ WF_jobVars(TimePasses)
    /\ \A r \in Runner : WF_jobVars(JobStep(r))
    /\ \A p \in Process, g \in Guest : WF_jobVars(Commit(p, g))
    /\ \A c \in Client \ Runner :
          /\ WF_jobVars(OtherCall(c) /\ HearAnswer(c))
          /\ WF_jobVars(OtherCall(c) /\ WaitTimesOut(c))

JobSpec == JobInit /\ [][JobNext]_jobVars

FairJobSpec == JobSpec /\ JobFairness

-----------------------------------------------------------------------------
(* What the maintenance jobs promise.                                      *)

\* Whichever process runs a clean-up, it deletes no guest with a recent change the
\* authoritative index has tracked, and no smaller one for its size ("jobs run only
\* on the authoritative runtime owner", jobs-and-maintenance.md:41).  Where only the
\* owner runs jobs this is what Condemned says; a worker's runner breaks it.
TrackedGuestKept ==
    [][\A g \in Guest :
          disk[g].exists /\ ~disk'[g].exists
             => indexed[Primary][g].age >= Cutoff \/ indexed[Primary][g].big]_jobVars

\* A long run causes no burst of catch-up runs: two runs of a job start at
\* least one interval apart (nextDueAt of the finally block).
NoCatchUpBurst ==
    [][\A r \in Runner :
          runs[r].pc # "locking" /\ runs'[r].pc = "locking" => runs[r].since = Every]_jobVars

\* Whatever fails, the job runs again and again, unless other callers keep
\* taking its lock.
JobsGoOn ==
    \A r \in Runner : \/ []<>(runs[r].pc = "running")
                      \/ []<>(\E c \in Client \ Runner : Valid(c))

\* Every caller that waits for a lock gets an answer, though an expiry wakes nobody.
EveryWaitEnds == \A c \in Client : call[c].pc = "waiting" ~> call[c].pc # "waiting"
=============================================================================
