------------------------ MODULE MaintenanceJobsProofs ------------------------
(***************************************************************************)
(* The safety of the job runners for any processes, guests and schedule:   *)
(* the lock table of StateLocks keeps its invariant under the runners'     *)
(* calls, and the runs of a job keep their interval.                       *)
(***************************************************************************)
EXTENDS MaintenanceJobs, StateLocksProofs

RunRecord == [pc : {"scheduled", "locking", "running", "deleting"},
              due : 0 .. Every, since : 0 .. Every, todo : SUBSET Guest]

JobIInv == JobTypeOK /\ LockIInv

\* Every step of the runners is a step of the lock table or leaves it alone.
LEMMA JobStepKeepsLocks ==
    ASSUME LockIInv, JobNext
    PROVE  LockIInv'
<1>1. CASE TimePasses
  BY <1>1, TickIInv DEF TimePasses
<1>2. ASSUME UNCHANGED lockVars PROVE LockIInv'
  BY <1>2, LockStepIInv
<1>3. ASSUME NEW r \in Runner, JobStep(r) \/ RunThrows(r) PROVE LockIInv'
  <2>0. r \in Client /\ r \in Lock /\ JobTtl \in Nat
    BY JobAssumption
  <2>1. CASE RunJob(r)
    BY <2>0, <2>1, AcquireIInv DEF RunJob
  <2>2. CASE LockRefused(r) \/ Begin(r)
    BY <2>0, <2>2, HearAnswerIInv DEF LockRefused, Begin
  <2>3. CASE DeleteGuest(r) \/ DeleteSettles(r)
    BY <1>2, <2>3 DEF DeleteGuest, DeleteSettles
  <2>4. CASE RunEnds(r) \/ RunThrows(r)
    BY <2>0, <2>4, ReleaseIInv DEF RunEnds, RunThrows, FinishRun
  <2> QED BY <1>3, <2>1, <2>2, <2>3, <2>4 DEF JobStep
<1>4. ASSUME NEW p \in Process, NEW g \in Guest, GuestStep(p, g) PROVE LockIInv'
  BY <1>2, <1>4 DEF GuestStep, Visit, LoadShard, Change, Commit
<1>5. ASSUME NEW p \in Process, Replicate(p) PROVE LockIInv'
  BY <1>2, <1>5 DEF Replicate
<1>6. ASSUME NEW c \in Client \ Runner, OtherCall(c) PROVE LockIInv'
  BY <1>6, LockStepIInv DEF OtherCall, LockNext
<1> QED BY <1>1, <1>3, <1>4, <1>5, <1>6 DEF JobNext

\* The parts of JobAssumption that typing needs.
LEMMA JobNumbers == Every \in Nat \ {0} /\ Cutoff \in Nat \ {0} /\ Primary \in Process
BY JobAssumption DEF JobAssumption

DiskRecord == [exists : BOOLEAN, age : 0 .. Cutoff, big : BOOLEAN]

Typed ==
    /\ runs \in [Runner -> RunRecord]
    /\ disk \in [Guest -> DiskRecord]
    /\ known \in [Process -> [Guest -> BOOLEAN]]
    /\ indexed \in [Process -> [Guest -> Files]]
    /\ dirty \in SUBSET (Process \X Guest)

LEMMA TypedIs == JobTypeOK <=> LockTypeOK /\ Typed
BY DEF JobTypeOK, Typed, RunRecord, DiskRecord

LEMMA JobInitIInv == JobInit => JobIInv
<1> SUFFICES ASSUME JobInit PROVE JobIInv
  OBVIOUS
<1>1. LockIInv
  BY LockInitIInv DEF JobInit
<1>2. runs \in [Runner -> RunRecord]
  <2>1. ScheduledRun \in RunRecord
    BY JobNumbers DEF ScheduledRun, RunRecord
  <2> QED BY <2>1 DEF JobInit
<1>3. disk \in [Guest -> DiskRecord]
  <2>1. \A a \in {0, Cutoff} : [exists |-> TRUE, age |-> a, big |-> FALSE] \in DiskRecord
    BY JobNumbers DEF DiskRecord
  <2> QED BY <2>1 DEF JobInit
<1>4. known \in [Process -> [Guest -> BOOLEAN]]
  BY DEF JobInit
<1>5. indexed \in [Process -> [Guest -> Files]]
  <2>1. NotIndexed \in Files
    BY JobNumbers DEF NotIndexed, Files
  <2> QED BY <2>1 DEF JobInit
<1>6. dirty \in SUBSET (Process \X Guest)
  BY DEF JobInit
<1> QED BY <1>1, <1>2, <1>3, <1>4, <1>5, <1>6, TypedIs DEF JobIInv, LockIInv, Typed

\* What the steps do to the variables of this module.
LEMMA JobTypeStep ==
    ASSUME JobTypeOK, JobNext, LockTypeOK'
    PROVE  JobTypeOK'
<1>0. Typed
  BY TypedIs
<1> SUFFICES Typed'
  BY DEF Typed, JobTypeOK, RunRecord, DiskRecord
<1>1. \A r \in Runner : runs[r] \in RunRecord /\ Every - runs[r].since \in 0 .. Every
  <2>1. \A x \in RunRecord : Every - x.since \in 0 .. Every
    BY JobNumbers DEF RunRecord
  <2> QED BY <1>0, <2>1 DEF Typed
<1>zero. 0 \in 0 .. Every /\ 0 \in 0 .. Cutoff /\ Cutoff \in 0 .. Cutoff
  BY JobNumbers
<1>upd. \A r \in Runner, x \in RunRecord : [runs EXCEPT ![r] = x] \in [Runner -> RunRecord]
  BY <1>0 DEF Typed
<1>2. \A r \in Runner : Rescheduled(r) \in [Runner -> RunRecord]
  <2> TAKE r \in Runner
  <2>1. \A x \in RunRecord, n \in 0 .. Every :
           [x EXCEPT !.pc = "scheduled", !.todo = {}, !.due = n] \in RunRecord
    BY DEF RunRecord
  <2>2. Rescheduled(r) = [runs EXCEPT ![r] = [runs[r] EXCEPT !.pc = "scheduled", !.todo = {},
                                                             !.due = Every - runs[r].since]]
    BY <1>0 DEF Typed, Rescheduled
  <2>3. [runs[r] EXCEPT !.pc = "scheduled", !.todo = {}, !.due = Every - runs[r].since] \in RunRecord
    BY <1>1, <2>1
  <2> QED BY <1>upd, <2>2, <2>3
<1>3. CASE TimePasses
  <2>1. \A x \in RunRecord : [x EXCEPT !.due = Less(@), !.since = IF @ < Every THEN @ + 1 ELSE Every] \in RunRecord
    <3>1. \A n \in 0 .. Every : /\ Less(n) \in 0 .. Every
                               /\ (IF n < Every THEN n + 1 ELSE Every) \in 0 .. Every
      BY JobNumbers DEF Less
    <3>2. \A x \in RunRecord, m, n \in 0 .. Every : [x EXCEPT !.due = m, !.since = n] \in RunRecord
      BY DEF RunRecord
    <3>3. \A x \in RunRecord : x.due \in 0 .. Every /\ x.since \in 0 .. Every
      BY DEF RunRecord
    <3> QED BY <3>1, <3>2, <3>3
  <2>2. \A n \in 0 .. Cutoff : Older(n) \in 0 .. Cutoff
    BY JobNumbers DEF Older
  <2>3. runs' \in [Runner -> RunRecord]
    BY <1>1, <1>3, <2>1 DEF TimePasses
  <2>4. disk' \in [Guest -> DiskRecord]
    <3>1. \A x \in DiskRecord : [x EXCEPT !.age = Older(@)] \in DiskRecord
      BY <2>2 DEF DiskRecord
    <3> QED BY <1>0, <1>3, <3>1 DEF TimePasses, Typed
  <2>5. indexed' \in [Process -> [Guest -> Files]]
    <3>1. \A x \in Files : [x EXCEPT !.age = Older(@)] \in Files
      BY <2>2 DEF Files
    <3> QED BY <1>0, <1>3, <3>1 DEF TimePasses, Typed
  <2> QED BY <1>0, <1>3, <2>3, <2>4, <2>5 DEF TimePasses, Typed
<1>4. ASSUME NEW r \in Runner, JobStep(r) \/ RunThrows(r) PROVE Typed'
  <2>0. r[1] \in Process
    BY DEF Runner
  <2>1. CASE RunJob(r)
    <3>1. \A x \in RunRecord : [x EXCEPT !.pc = "locking", !.since = 0] \in RunRecord
      BY <1>zero DEF RunRecord
    <3>2. runs' = [runs EXCEPT ![r] = [runs[r] EXCEPT !.pc = "locking", !.since = 0]]
      BY <1>0, <2>1 DEF RunJob, Typed
    <3>3. runs' \in [Runner -> RunRecord]
      BY <1>1, <1>upd, <3>1, <3>2
    <3> QED BY <1>0, <2>1, <3>3 DEF RunJob, guestVars, Typed
  <2>2. CASE LockRefused(r)
    BY <1>0, <1>2, <2>2 DEF LockRefused, guestVars, Typed
  <2>3. CASE Begin(r)
    <3>1. \A x \in RunRecord, gs \in SUBSET Guest :
             [x EXCEPT !.pc = "running", !.todo = gs] \in RunRecord
      BY DEF RunRecord
    <3>2. runs' = [runs EXCEPT ![r] = [runs[r] EXCEPT !.pc = "running",
                                                      !.todo = {g \in Guest : known[r[1]][g]}]]
      BY <1>0, <2>3 DEF Begin, Typed
    <3>3. [runs[r] EXCEPT !.pc = "running", !.todo = {g \in Guest : known[r[1]][g]}] \in RunRecord
      <4> DEFINE gs == {g \in Guest : known[r[1]][g]}
      <4>1. gs \in SUBSET Guest
        OBVIOUS
      <4> HIDE DEF gs
      <4>2. [runs[r] EXCEPT !.pc = "running", !.todo = gs] \in RunRecord
        BY <1>1, <3>1, <4>1
      <4> QED BY <4>2 DEF gs
    <3>4. runs' \in [Runner -> RunRecord]
      BY <1>upd, <3>2, <3>3
    <3> QED BY <1>0, <2>3, <3>4 DEF Begin, guestVars, Typed
  <2>4. CASE DeleteGuest(r)
    <3>1. PICK g \in ToDelete(r) :
             /\ disk' = [disk EXCEPT ![g].exists = FALSE]
             /\ dirty' = dirty \cup {<<r[1], g>>}
             /\ runs' = [runs EXCEPT ![r].pc = "deleting", ![r].todo = {h \in @ : h > g}]
      BY <2>4 DEF DeleteGuest
    <3>2. g \in Guest
      BY <1>1, <3>1 DEF ToDelete, RunRecord
    <3>3. \A x \in RunRecord : [x EXCEPT !.pc = "deleting", !.todo = {h \in @ : h > g}] \in RunRecord
      BY DEF RunRecord
    <3>4. runs' = [runs EXCEPT ![r] = [runs[r] EXCEPT !.pc = "deleting", !.todo = {h \in @ : h > g}]]
      BY <1>0, <3>1 DEF Typed
    <3>5. disk' \in [Guest -> DiskRecord]
      <4>1. \A x \in DiskRecord : [x EXCEPT !.exists = FALSE] \in DiskRecord
        BY DEF DiskRecord
      <4> QED BY <1>0, <3>1, <3>2, <4>1 DEF Typed
    <3>6. dirty' \in SUBSET (Process \X Guest)
      BY <1>0, <2>0, <3>1, <3>2 DEF Typed
    <3>7. runs' \in [Runner -> RunRecord]
      BY <1>1, <1>upd, <3>3, <3>4
    <3> QED BY <1>0, <2>4, <3>5, <3>6, <3>7 DEF DeleteGuest, Typed
  <2>5. CASE DeleteSettles(r)
    <3>1. \A x \in RunRecord : [x EXCEPT !.pc = "running"] \in RunRecord
      BY DEF RunRecord
    <3>2. runs' = [runs EXCEPT ![r] = [runs[r] EXCEPT !.pc = "running"]]
      BY <1>0, <2>5 DEF DeleteSettles, Typed
    <3>3. runs' \in [Runner -> RunRecord]
      BY <1>1, <1>upd, <3>1, <3>2
    <3> QED BY <1>0, <2>5, <3>3 DEF DeleteSettles, guestVars, Typed
  <2>6. CASE RunEnds(r) \/ RunThrows(r)
    BY <1>0, <1>2, <2>6 DEF RunEnds, RunThrows, FinishRun, guestVars, Typed
  <2> QED BY <1>4, <2>1, <2>2, <2>3, <2>4, <2>5, <2>6 DEF JobStep
<1>5. ASSUME NEW p \in Process, NEW g \in Guest, GuestStep(p, g) PROVE Typed'
  <2>0. /\ disk[g].exists \in BOOLEAN /\ disk[g].age \in 0 .. Cutoff /\ disk[g].big \in BOOLEAN
    BY <1>0 DEF Typed, DiskRecord
  <2>1. OnDisk(g) \in Files /\ NotIndexed \in Files
    BY <2>0, JobNumbers DEF OnDisk, Files, NotIndexed
  <2>2. CASE Visit(p, g)
    BY <1>0, <2>0, <2>2 DEF Visit, Know, Typed
  <2>3. CASE LoadShard(p, g)
    BY <1>0, <2>1, <2>3 DEF LoadShard, Index, Typed
  <2>4. CASE Change(p, g)
    <3>1. PICK big \in BOOLEAN :
             disk' = [disk EXCEPT ![g] = [exists |-> TRUE, age |-> 0, big |-> big]]
      BY <2>4, Zenon DEF Change
    <3>2. [exists |-> TRUE, age |-> 0, big |-> big] \in DiskRecord
      <4>1. \A b \in BOOLEAN : [exists |-> TRUE, age |-> 0, big |-> b] \in DiskRecord
        BY <1>zero DEF DiskRecord
      <4> QED BY <4>1, Zenon
    <3>3. disk' \in [Guest -> DiskRecord]
      BY <1>0, <3>1, <3>2, Zenon DEF Typed
    <3> QED BY <1>0, <2>4, <3>3 DEF Change, Typed
  <2>5. CASE Commit(p, g)
    BY <1>0, <2>0, <2>1, <2>5 DEF Commit, Index, Know, Typed
  <2> QED BY <1>5, <2>2, <2>3, <2>4, <2>5 DEF GuestStep
<1>6. ASSUME NEW p \in Process, Replicate(p) PROVE Typed'
  BY <1>0, <1>6, JobNumbers DEF Replicate, Typed
<1>7. ASSUME NEW c \in Client \ Runner, OtherCall(c) PROVE Typed'
  BY <1>0, <1>7 DEF OtherCall, guestVars, Typed
<1> QED BY <1>3, <1>4, <1>5, <1>6, <1>7 DEF JobNext

LEMMA JobStepIInv == JobIInv /\ [JobNext]_jobVars => JobIInv'
<1> SUFFICES ASSUME JobIInv, [JobNext]_jobVars PROVE JobIInv'
  OBVIOUS
<1>1. CASE JobNext
  BY <1>1, JobStepKeepsLocks, JobTypeStep DEF JobIInv, LockIInv
<1>2. CASE UNCHANGED jobVars
  <2>1. LockIInv'
    BY <1>2, LockStepIInv DEF jobVars, JobIInv
  <2> QED BY <1>2, <2>1 DEF jobVars, guestVars, JobIInv, JobTypeOK, LockIInv
<1> QED BY <1>1, <1>2

LEMMA JobInvariant == JobSpec => []JobIInv
BY JobInitIInv, JobStepIInv, PTL DEF JobSpec

-----------------------------------------------------------------------------
\* The variables of the runners, the guests and the locks keep their types.
THEOREM JobTypeCorrect == JobSpec => []JobTypeOK
BY JobInvariant, PTL DEF JobIInv

\* The locks of the runners are exclusive, whoever else calls acquireLock and
\* releaseLock, with whatever times to live and waits.
THEOREM JobsLockExclusive == JobSpec => []MutualExclusion
<1>1. JobIInv => MutualExclusion
  BY LockIInvImplies DEF JobIInv
<1> QED BY <1>1, JobInvariant, PTL

\* A caller that waits for a lock is in its queue once, and nobody else is
\* (acquireLock's queue, whichever of the timer and the hand-over comes first).
THEOREM JobsWaitersQueued == JobSpec => []WaitersQueued
<1>1. JobIInv => WaitersQueued
  BY LockIInvImplies DEF JobIInv
<1> QED BY <1>1, JobInvariant, PTL

-----------------------------------------------------------------------------
(* The interval between two runs.                                          *)

\* A runner that waits for its timer has waited, or will have by then, an interval.
FullInterval ==
    \A r \in Runner : runs[r].pc = "scheduled" => runs[r].due + runs[r].since >= Every

LEMMA FullIntervalInit == JobInit => FullInterval
BY JobNumbers DEF JobInit, ScheduledRun, FullInterval

LEMMA RunNumbers ==
    ASSUME JobTypeOK, NEW r \in Runner
    PROVE  /\ runs[r].due \in Nat /\ runs[r].since \in 0 .. Every
           /\ DOMAIN runs = Runner
           /\ DOMAIN runs[r] = {"pc", "due", "since", "todo"}
<1>1. runs \in [Runner -> RunRecord]
  BY TypedIs DEF Typed
<1>2. runs[r] \in RunRecord
  BY <1>1
<1>3. runs[r].due \in 0 .. Every /\ runs[r].since \in 0 .. Every
  BY <1>2 DEF RunRecord
<1>4. DOMAIN runs[r] = {"pc", "due", "since", "todo"}
  BY <1>2 DEF RunRecord
<1> QED BY <1>1, <1>3, <1>4, JobNumbers

\* What a step makes of a run's timer: it leaves it alone, lets the time pass,
\* starts the run, or sets the timer to what is left of the interval.
LEMMA TimerStep ==
    ASSUME JobTypeOK, [JobNext]_jobVars, NEW r \in Runner
    PROVE  \/ runs'[r].pc # "scheduled"
              /\ (runs'[r].pc = "locking" => runs[r].pc \in {"scheduled", "locking"})
              /\ (runs'[r].pc = "locking" /\ runs[r].pc = "scheduled" => runs[r].due = 0)
           \/ runs'[r] = runs[r]
           \/ /\ runs'[r].pc = runs[r].pc /\ runs'[r].due = Less(runs[r].due)
              /\ runs'[r].since = IF runs[r].since < Every THEN runs[r].since + 1 ELSE Every
           \/ /\ runs'[r].pc = "scheduled" /\ runs'[r].since = runs[r].since
              /\ runs'[r].due = Every - runs[r].since
<1>0. /\ DOMAIN runs = Runner
      /\ DOMAIN runs[r] = {"pc", "due", "since", "todo"}
  BY RunNumbers
<1>1. CASE TimePasses
  BY <1>0, <1>1 DEF TimePasses
<1>2. CASE UNCHANGED runs
  BY <1>2
<1>3. ASSUME NEW q \in Runner, JobStep(q) \/ RunThrows(q)
      PROVE  \/ runs'[r].pc # "scheduled"
                /\ (runs'[r].pc = "locking" => runs[r].pc \in {"scheduled", "locking"})
                /\ (runs'[r].pc = "locking" /\ runs[r].pc = "scheduled" => runs[r].due = 0)
             \/ runs'[r] = runs[r]
             \/ /\ runs'[r].pc = "scheduled" /\ runs'[r].since = runs[r].since
                /\ runs'[r].due = Every - runs[r].since
  <2>1. CASE RunJob(q)
    BY <1>0, <2>1 DEF RunJob
  <2>2. CASE Begin(q)
    BY <1>0, <2>2 DEF Begin
  <2>3. CASE DeleteGuest(q)
    BY <1>0, <2>3 DEF DeleteGuest
  <2>4. CASE DeleteSettles(q)
    BY <1>0, <2>4 DEF DeleteSettles
  <2>5. CASE runs' = Rescheduled(q)
    BY <1>0, <2>5 DEF Rescheduled
  <2>6. CASE LockRefused(q) \/ RunEnds(q) \/ RunThrows(q)
    BY <2>5, <2>6 DEF LockRefused, RunEnds, RunThrows, FinishRun
  <2> QED BY <1>3, <2>1, <2>2, <2>3, <2>4, <2>6 DEF JobStep
<1>4. ASSUME NEW p \in Process, NEW g \in Guest, GuestStep(p, g) PROVE UNCHANGED runs
  BY <1>4 DEF GuestStep, Visit, LoadShard, Change, Commit
<1>5. ASSUME NEW p \in Process, Replicate(p) PROVE UNCHANGED runs
  BY <1>5 DEF Replicate
<1>6. ASSUME NEW c \in Client \ Runner, OtherCall(c) PROVE UNCHANGED runs
  BY <1>6 DEF OtherCall
<1>7. ASSUME UNCHANGED jobVars PROVE UNCHANGED runs
  BY <1>7 DEF jobVars
<1> QED BY <1>1, <1>2, <1>3, <1>4, <1>5, <1>6, <1>7 DEF JobNext

LEMMA FullIntervalStep ==
    ASSUME JobTypeOK, FullInterval, [JobNext]_jobVars
    PROVE  FullInterval'
<1> SUFFICES ASSUME NEW r \in Runner, runs'[r].pc = "scheduled"
             PROVE  runs'[r].due + runs'[r].since >= Every
  BY DEF FullInterval
<1>1. runs[r].due \in Nat /\ runs[r].since \in 0 .. Every /\ Every \in Nat
  BY RunNumbers, JobNumbers
<1>2. runs[r].pc = "scheduled" => runs[r].due + runs[r].since >= Every
  BY DEF FullInterval
<1>3. CASE runs'[r] = runs[r]
  BY <1>2, <1>3
<1>4. CASE /\ runs'[r].pc = runs[r].pc /\ runs'[r].due = Less(runs[r].due)
           /\ runs'[r].since = IF runs[r].since < Every THEN runs[r].since + 1 ELSE Every
  BY <1>1, <1>2, <1>4 DEF Less
<1>5. CASE /\ runs'[r].pc = "scheduled" /\ runs'[r].since = runs[r].since
           /\ runs'[r].due = Every - runs[r].since
  BY <1>1, <1>5
<1> QED BY <1>3, <1>4, <1>5, TimerStep

\* Two runs of a job start at least one interval apart, in every process, for any
\* schedule and however long a run takes (nextDueAt, job_runner.js).
THEOREM RunsKeepInterval == JobSpec => NoCatchUpBurst
<1> DEFINE I == JobIInv /\ FullInterval
<1>1. JobSpec => []I
  <2>1. JobInit => I
    BY JobInitIInv, FullIntervalInit
  <2>2. I /\ [JobNext]_jobVars => I'
    BY JobStepIInv, FullIntervalStep DEF JobIInv
  <2> QED BY <2>1, <2>2, PTL DEF JobSpec
<1>2. ASSUME I, [JobNext]_jobVars
      PROVE  [\A r \in Runner :
                 runs[r].pc # "locking" /\ runs'[r].pc = "locking" => runs[r].since = Every]_jobVars
  <2> SUFFICES ASSUME NEW r \in Runner, runs[r].pc # "locking", runs'[r].pc = "locking"
               PROVE  runs[r].since = Every
    OBVIOUS
  <2>1. runs[r].pc = "scheduled" /\ runs[r].due = 0
    BY <1>2, TimerStep DEF JobIInv
  <2>2. runs[r].since \in 0 .. Every /\ Every \in Nat
    BY <1>2, RunNumbers, JobNumbers DEF JobIInv
  <2>3. 0 + runs[r].since >= Every
    BY <1>2, <2>1 DEF FullInterval
  <2> QED BY <2>2, <2>3
<1> QED BY <1>1, <1>2, PTL DEF JobSpec, NoCatchUpBurst
=============================================================================
