-------------------------- MODULE GitHistoryProofs --------------------------
(***************************************************************************)
(* The safety of the local history for any number of owner roots, worker   *)
(* processes, requests, changes, exits and failing Git commands, and any   *)
(* debounce thresholds in the order of HistoryAssumption.                  *)
(*                                                                         *)
(* NothingForgotten is made inductive by TargetsSaved: what a queued       *)
(* rollback resets a root to, and HEAD, are commits already.               *)
(* RollbackKeepsEdits is made so by Promises: a change no commit holds is  *)
(* missed or has a commit to come (Minded), and that commit is ahead of    *)
(* the rollback unless the change is later than its request (Waiting).     *)
(***************************************************************************)
EXTENDS GitHistory, TLAPS

Queues == [Process -> [Owner -> Seq(Task)]]

\* The commits of the scheduling process that have still to stage, or to commit.
HasQueued(q, o) ==
    \E i \in DOMAIN q[Primary][o] : q[Primary][o][i].kind = "commit" /\ q[Primary][o][i].pc = "queued"

HasStarted(q, o) ==
    \E i \in DOMAIN q[Primary][o] : q[Primary][o][i].kind = "commit" /\ q[Primary][o][i].pc = "started"

\* The targets of the queued work are among the contents s of their roots.
TargetsAmong(q, s) ==
    \A p \in Process, o \in Owner : \A i \in DOMAIN q[p][o] : q[p][o][i].to \in s[o]

\* And so are those of the requests rq.
Targets(q, rq, s) ==
    /\ TargetsAmong(q, s)
    /\ \A r \in Request : rq[r].to \in s[rq[r].owner]

TargetsSaved ==
    /\ \A o \in Owner : 0 \in saved[o] /\ head[o] \in saved[o]
    /\ Targets(queue, req, saved)

\* Contents are numbered by the changes made so far.
Numbered ==
    /\ \A o \in Owner : tree[o] <= edits /\ index[o] <= edits /\ \A e \in saved[o] : e <= edits
    /\ \A r \in Request : req[r].asked <= edits

\* What a root holds is its newest change, and committed or not; a root that holds
\* what HEAD points at has no other.
Kept ==
    \A o \in Owner :
        /\ tree[o] \in saved[o] \/ tree[o] \in unsaved[o]
        /\ index[o] <= tree[o]
        /\ \A e \in unsaved[o] : e <= tree[o]
        /\ tree[o] = head[o] => unsaved[o] = {}

HistoryIInv == HistoryTypeOK /\ TargetsSaved /\ Numbered /\ Kept /\ NothingForgotten

RequestRecord == [pc : {"idle", "flushing", "queued"}, op : {"rollback", "revert", "preview"},
                  at : Process, owner : Owner, to : Content, asked : Content]

Requests == [Request -> RequestRecord]

\* The requests rq have the targets of req, or none.
Tame(rq) ==
    /\ rq \in Requests
    /\ \A r \in Request : rq[r].to = 0 \/ (rq[r].to = req[r].to /\ rq[r].owner = req[r].owner)

\* q2 holds all the work of q, and more only at the end of one queue.
Keeps(q, q2) ==
    /\ q2 \in Queues
    /\ \A o \in Owner : HasQueued(q, o) => HasQueued(q2, o)
    /\ \A o \in Owner : HasStarted(q, o) => HasStarted(q2, o)

LEMMA AppendKeeps ==
    ASSUME NEW q \in Queues, NEW p \in Process, NEW o \in Owner, NEW t \in Task
    PROVE  LET q2 == [q EXCEPT ![p][o] = Append(@, t)]
           IN /\ Keeps(q, q2)
              /\ p = Primary /\ t.kind = "commit" /\ t.pc = "queued" => HasQueued(q2, o)
              /\ \A s : TargetsAmong(q, s) /\ t.to \in s[o] => TargetsAmong(q2, s)
<1> DEFINE q2 == [q EXCEPT ![p][o] = Append(@, t)]
           old == q[p][o]
<1>0. Primary \in Process
  BY DEF Process
<1>1. old \in Seq(Task)
  BY DEF Queues
<1>2. /\ Append(old, t) \in Seq(Task)
      /\ Len(old) \in Nat /\ DOMAIN old = 1 .. Len(old)
      /\ DOMAIN Append(old, t) = 1 .. (Len(old) + 1)
      /\ \A i \in 1 .. Len(old) : Append(old, t)[i] = old[i]
      /\ Append(old, t)[Len(old) + 1] = t
  BY <1>1
<1>3. /\ q2 \in Queues
      /\ q2[p][o] = Append(old, t)
      /\ \A p1 \in Process, o1 \in Owner : p1 # p \/ o1 # o => q2[p1][o1] = q[p1][o1]
  BY <1>2 DEF Queues
<1> HIDE DEF q2, old
<1>4. ASSUME NEW o1 \in Owner, HasQueued(q, o1) PROVE HasQueued(q2, o1)
  <2>1. PICK i \in DOMAIN q[Primary][o1] : q[Primary][o1][i].kind = "commit" /\ q[Primary][o1][i].pc = "queued"
    BY <1>4 DEF HasQueued
  <2>2. i \in DOMAIN q2[Primary][o1] /\ q2[Primary][o1][i] = q[Primary][o1][i]
    <3>1. CASE p = Primary /\ o1 = o
      <4>1. q[Primary][o1] = old /\ q2[Primary][o1] = Append(old, t)
        BY <1>3, <3>1 DEF old
      <4>2. i \in 1 .. Len(old)
        BY <1>1, <2>1, <4>1
      <4> QED BY <1>2, <4>1, <4>2
    <3>2. CASE p # Primary \/ o1 # o
      <4>1. q2[Primary][o1] = q[Primary][o1]
        BY <1>0, <1>3, <3>2
      <4> QED BY <2>1, <4>1
    <3> QED BY <3>1, <3>2
  <2> QED BY <2>1, <2>2 DEF HasQueued
<1>5. ASSUME NEW o1 \in Owner, HasStarted(q, o1) PROVE HasStarted(q2, o1)
  <2>1. PICK i \in DOMAIN q[Primary][o1] : q[Primary][o1][i].kind = "commit" /\ q[Primary][o1][i].pc = "started"
    BY <1>5 DEF HasStarted
  <2>2. i \in DOMAIN q2[Primary][o1] /\ q2[Primary][o1][i] = q[Primary][o1][i]
    <3>1. CASE p = Primary /\ o1 = o
      <4>1. q[Primary][o1] = old /\ q2[Primary][o1] = Append(old, t)
        BY <1>3, <3>1 DEF old
      <4>2. i \in 1 .. Len(old)
        BY <1>1, <2>1, <4>1
      <4> QED BY <1>2, <4>1, <4>2
    <3>2. CASE p # Primary \/ o1 # o
      <4>1. q2[Primary][o1] = q[Primary][o1]
        BY <1>0, <1>3, <3>2
      <4> QED BY <2>1, <4>1
    <3> QED BY <3>1, <3>2
  <2> QED BY <2>1, <2>2 DEF HasStarted
<1>6. p = Primary /\ t.kind = "commit" /\ t.pc = "queued" => HasQueued(q2, o)
  BY <1>2, <1>3 DEF HasQueued
<1>7. ASSUME NEW s, TargetsAmong(q, s), t.to \in s[o] PROVE TargetsAmong(q2, s)
  <2>1. ASSUME NEW p1 \in Process, NEW o1 \in Owner, NEW i \in DOMAIN q2[p1][o1]
        PROVE  q2[p1][o1][i].to \in s[o1]
    <3>1. CASE p1 = p /\ o1 = o
      <4>1. q2[p1][o1] = Append(old, t) /\ i \in 1 .. (Len(old) + 1)
        BY <1>2, <1>3, <2>1, <3>1
      <4>2. CASE i = Len(old) + 1
        BY <1>2, <1>7, <3>1, <4>1, <4>2
      <4>3. CASE i \in 1 .. Len(old)
        <5>1. i \in DOMAIN q[p][o] /\ q2[p1][o1][i] = q[p][o][i]
          BY <1>2, <4>1, <4>3 DEF old
        <5> QED BY <1>7, <3>1, <5>1 DEF TargetsAmong
      <4> QED BY <1>2, <4>1, <4>2, <4>3
    <3>2. CASE p1 # p \/ o1 # o
      BY <1>3, <1>7, <2>1, <3>2 DEF TargetsAmong
    <3> QED BY <3>1, <3>2
  <2> QED BY <2>1 DEF TargetsAmong
<1> QED BY <1>3, <1>4, <1>5, <1>6, <1>7 DEF Keeps, q2

\* The work at the head of a queue.
LEMMA RunningIs ==
    ASSUME queue \in Queues, NEW p \in Process, NEW o \in Owner, queue[p][o] # <<>>
    PROVE  /\ Running(p, o) = queue[p][o][1]
           /\ Running(p, o) \in Task
           /\ 1 \in DOMAIN queue[p][o]
BY DEF Queues, Running

\* Work that is done leaves the rest behind.
LEMMA DoneKeeps ==
    ASSUME queue \in Queues, NEW p \in Process, NEW o \in Owner, queue[p][o] # <<>>
    PROVE  LET q2 == Done(p, o)
           IN /\ q2 \in Queues
              /\ \A o1 \in Owner : HasQueued(queue, o1) =>
                    \/ HasQueued(q2, o1)
                    \/ p = Primary /\ o1 = o /\ Running(p, o).kind = "commit" /\ Running(p, o).pc = "queued"
              /\ \A o1 \in Owner : HasStarted(queue, o1) =>
                    \/ HasStarted(q2, o1)
                    \/ p = Primary /\ o1 = o /\ Running(p, o).kind = "commit" /\ Running(p, o).pc = "started"
              /\ \A s : TargetsAmong(queue, s) => TargetsAmong(q2, s)
<1> DEFINE q2 == Done(p, o)
           old == queue[p][o]
<1>1. old \in Seq(Task) /\ old # <<>>
  BY DEF Queues
<1>2. /\ Tail(old) \in Seq(Task)
      /\ Len(old) \in Nat \ {0} /\ DOMAIN old = 1 .. Len(old)
      /\ DOMAIN Tail(old) = 1 .. (Len(old) - 1)
      /\ \A i \in 1 .. (Len(old) - 1) : Tail(old)[i] = old[i + 1]
  BY <1>1
<1>3. /\ q2 \in Queues
      /\ q2[p][o] = Tail(old)
      /\ \A p1 \in Process, o1 \in Owner : p1 # p \/ o1 # o => q2[p1][o1] = queue[p1][o1]
  BY <1>2 DEF Queues, Done
<1>4. Running(p, o) = old[1]
  BY RunningIs
<1> HIDE DEF q2
<1>5. ASSUME NEW i \in DOMAIN old, i # 1
      PROVE  i - 1 \in DOMAIN Tail(old) /\ Tail(old)[i - 1] = old[i]
  BY <1>2, <1>5
<1> HIDE DEF old
<1>6. ASSUME NEW o1 \in Owner, HasQueued(queue, o1)
      PROVE  \/ HasQueued(q2, o1)
             \/ p = Primary /\ o1 = o /\ Running(p, o).kind = "commit" /\ Running(p, o).pc = "queued"
  <2>1. CASE p = Primary /\ o1 = o
    <3>1. PICK i \in DOMAIN old : old[i].kind = "commit" /\ old[i].pc = "queued"
      BY <1>6, <2>1 DEF HasQueued, old
    <3>2. CASE i = 1
      BY <1>4, <2>1, <3>1, <3>2
    <3>3. CASE i # 1
      <4>1. i - 1 \in DOMAIN q2[Primary][o1] /\ q2[Primary][o1][i - 1] = old[i]
        BY <1>3, <1>5, <2>1, <3>3
      <4> QED BY <3>1, <4>1 DEF HasQueued
    <3> QED BY <3>2, <3>3
  <2>2. CASE p # Primary \/ o1 # o
    BY <1>3, <1>6, <2>2 DEF HasQueued, Process
  <2> QED BY <2>1, <2>2
<1>7. ASSUME NEW o1 \in Owner, HasStarted(queue, o1)
      PROVE  \/ HasStarted(q2, o1)
             \/ p = Primary /\ o1 = o /\ Running(p, o).kind = "commit" /\ Running(p, o).pc = "started"
  <2>1. CASE p = Primary /\ o1 = o
    <3>1. PICK i \in DOMAIN old : old[i].kind = "commit" /\ old[i].pc = "started"
      BY <1>7, <2>1 DEF HasStarted, old
    <3>2. CASE i = 1
      BY <1>4, <2>1, <3>1, <3>2
    <3>3. CASE i # 1
      <4>1. i - 1 \in DOMAIN q2[Primary][o1] /\ q2[Primary][o1][i - 1] = old[i]
        BY <1>3, <1>5, <2>1, <3>3
      <4> QED BY <3>1, <4>1 DEF HasStarted
    <3> QED BY <3>2, <3>3
  <2>2. CASE p # Primary \/ o1 # o
    BY <1>3, <1>7, <2>2 DEF HasStarted, Process
  <2> QED BY <2>1, <2>2
<1>8. ASSUME NEW s, TargetsAmong(queue, s) PROVE TargetsAmong(q2, s)
  <2>1. ASSUME NEW p1 \in Process, NEW o1 \in Owner, NEW i \in DOMAIN q2[p1][o1]
        PROVE  q2[p1][o1][i].to \in s[o1]
    <3>1. CASE p1 = p /\ o1 = o
      <4>1. i \in 1 .. (Len(old) - 1) /\ i + 1 \in DOMAIN old /\ q2[p][o][i] = old[i + 1]
        BY <1>2, <1>3, <2>1, <3>1
      <4> QED BY <1>8, <3>1, <4>1 DEF TargetsAmong, old
    <3>2. CASE p1 # p \/ o1 # o
      BY <1>3, <1>8, <2>1, <3>2 DEF TargetsAmong
    <3> QED BY <3>1, <3>2
  <2> QED BY <2>1 DEF TargetsAmong
<1> QED BY <1>3, <1>6, <1>7, <1>8 DEF q2

\* Work that starts stays where it is.
LEMMA StartKeeps ==
    ASSUME queue \in Queues, NEW p \in Process, NEW o \in Owner, queue[p][o] # <<>>
    PROVE  LET q2 == [queue EXCEPT ![p][o][1].pc = "started"]
           IN /\ q2 \in Queues
              /\ \A o1 \in Owner : HasQueued(queue, o1) =>
                    \/ HasQueued(q2, o1)
                    \/ p = Primary /\ o1 = o /\ Running(p, o).kind = "commit"
              /\ \A o1 \in Owner : HasStarted(queue, o1) => HasStarted(q2, o1)
              /\ p = Primary /\ Running(p, o).kind = "commit" => HasStarted(q2, o)
              /\ \A s : TargetsAmong(queue, s) => TargetsAmong(q2, s)
<1> DEFINE q2 == [queue EXCEPT ![p][o][1].pc = "started"]
           old == queue[p][o]
           new == [old EXCEPT ![1].pc = "started"]
<1>0. Primary \in Process
  BY DEF Process
<1>1. old \in Seq(Task) /\ old # <<>> /\ 1 \in DOMAIN old /\ Running(p, o) = old[1]
  BY RunningIs DEF Queues
<1>2. [old[1] EXCEPT !.pc = "started"] \in Task /\ old[1] \in Task
  <2>1. old[1] \in Task
    BY <1>1
  <2> QED BY <2>1 DEF Task
<1>3. /\ new \in Seq(Task)
      /\ DOMAIN new = DOMAIN old
      /\ new[1] = [old[1] EXCEPT !.pc = "started"]
      /\ \A i \in DOMAIN old : i # 1 => new[i] = old[i]
  BY <1>1, <1>2
<1>4. /\ new[1].pc = "started" /\ new[1].kind = old[1].kind /\ new[1].to = old[1].to
      /\ \A i \in DOMAIN old : new[i].kind = old[i].kind /\ new[i].to = old[i].to
  BY <1>1, <1>2, <1>3 DEF Task
<1>5. /\ q2 \in Queues
      /\ q2[p][o] = new
      /\ \A p1 \in Process, o1 \in Owner : p1 # p \/ o1 # o => q2[p1][o1] = queue[p1][o1]
  BY <1>3 DEF Queues
<1> HIDE DEF q2, new, old
<1>6. ASSUME NEW o1 \in Owner, HasQueued(queue, o1)
      PROVE  \/ HasQueued(q2, o1)
             \/ p = Primary /\ o1 = o /\ Running(p, o).kind = "commit"
  BY <1>1, <1>3, <1>4, <1>5, <1>6 DEF HasQueued, Process, old
<1>7. ASSUME NEW o1 \in Owner, HasStarted(queue, o1)
      PROVE  HasStarted(q2, o1)
  <2>1. PICK i \in DOMAIN queue[Primary][o1] :
             queue[Primary][o1][i].kind = "commit" /\ queue[Primary][o1][i].pc = "started"
    BY <1>7 DEF HasStarted
  <2>2. CASE p = Primary /\ o1 = o
    <3>1. i \in DOMAIN old /\ old[i].kind = "commit" /\ old[i].pc = "started"
      BY <2>1, <2>2 DEF old
    <3>2. i \in DOMAIN new /\ new[i].kind = "commit" /\ new[i].pc = "started"
      BY <1>3, <1>4, <3>1
    <3> QED BY <1>5, <2>2, <3>2 DEF HasStarted
  <2>3. CASE p # Primary \/ o1 # o
    BY <1>0, <1>5, <1>7, <2>3 DEF HasStarted
  <2> QED BY <2>2, <2>3
<1>8. p = Primary /\ Running(p, o).kind = "commit" => HasStarted(q2, o)
  <2>1. ASSUME p = Primary, Running(p, o).kind = "commit" PROVE HasStarted(q2, o)
    <3>1. 1 \in DOMAIN new /\ new[1].kind = "commit" /\ new[1].pc = "started"
      BY <1>1, <1>3, <1>4, <2>1
    <3>2. q2[Primary][o] = new
      BY <1>5, <2>1
    <3> QED BY <3>1, <3>2 DEF HasStarted
  <2> QED BY <2>1
<1>9. ASSUME NEW s, TargetsAmong(queue, s) PROVE TargetsAmong(q2, s)
  BY <1>3, <1>4, <1>5, <1>9 DEF TargetsAmong, old
<1> QED BY <1>5, <1>6, <1>7, <1>8, <1>9 DEF q2

-----------------------------------------------------------------------------
(* Types.                                                                  *)

LEMMA TasksAreTyped ==
    /\ \A r \in Request \cup {NoRequest} : CommitTask(r) \in Task /\ CommitTask(r).kind = "commit"
                                           /\ CommitTask(r).pc = "queued" /\ CommitTask(r).to = 0
    /\ \A r \in Request, op \in {"rollback", "revert"}, to \in Content :
          RequestTask(r, op, to) \in Task /\ RequestTask(r, op, to).kind = op
          /\ RequestTask(r, op, to).to = to
<1>1. 0 \in Content
  BY HistoryAssumption DEF HistoryAssumption, Content
<1> QED BY <1>1 DEF Task, CommitTask, RequestTask

LEMMA NoHistoryRequestIsTyped ==
    /\ NoHistoryRequest \in RequestRecord
    /\ NoHistoryRequest.to = 0
<1>1. 0 \in Content /\ Owner # {} /\ Primary \in Process
  BY HistoryAssumption DEF HistoryAssumption, Content, Process
<1>2. (CHOOSE o \in Owner : TRUE) \in Owner
  BY <1>1
<1> QED BY <1>1, <1>2 DEF NoHistoryRequest, RequestRecord

LEMMA DebounceIs ==
    ASSUME NEW waited \in Nat
    PROVE  /\ Debounce(waited) \in Nat
           /\ Debounce(waited) # 0 => waited + Debounce(waited) <= ImmediateWait + ExtendedDebounce
<1>1. /\ Base \in Nat /\ LongWait \in Nat /\ LongDebounce \in Nat /\ ExtendedWait \in Nat
      /\ ExtendedDebounce \in Nat /\ ImmediateWait \in Nat
      /\ LongWait <= ExtendedWait /\ ExtendedWait <= ImmediateWait
      /\ LongWait + Base <= ImmediateWait + ExtendedDebounce
      /\ ExtendedWait + LongDebounce <= ImmediateWait + ExtendedDebounce
  BY HistoryAssumption DEF HistoryAssumption
<1>2. CASE waited >= ImmediateWait
  <2>1. Debounce(waited) = 0
    BY <1>1, <1>2 DEF Debounce
  <2> QED BY <2>1
<1>3. CASE waited >= ExtendedWait /\ waited < ImmediateWait
  <2>1. Debounce(waited) = ExtendedDebounce
    BY <1>1, <1>3 DEF Debounce
  <2> QED BY <1>1, <1>3, <2>1
<1>4. CASE waited >= LongWait /\ waited < ExtendedWait
  <2>1. Debounce(waited) = LongDebounce
    BY <1>1, <1>4 DEF Debounce
  <2> QED BY <1>1, <1>4, <2>1
<1>5. CASE waited < LongWait
  <2>1. Debounce(waited) = Base
    BY <1>1, <1>5 DEF Debounce
  <2> QED BY <1>1, <1>5, <2>1
<1> QED BY <1>1, <1>2, <1>3, <1>4, <1>5

\* What scheduling a commit over the queues q does.
LEMMA ScheduleIs ==
    ASSUME HistoryTypeOK, NEW q \in Queues, NEW o \in Owner, Schedule(q, o)
    PROVE  /\ pending' \in [Owner -> Pending \cup {NoCommit}]
           /\ Keeps(q, queue')
           /\ missed' = [missed EXCEPT ![o] = {}]
           /\ pending'[o] # NoCommit \/ HasQueued(queue', o)
           /\ \A o1 \in Owner \ {o} : pending'[o1] = pending[o1]
           /\ \A s : TargetsAmong(q, s) /\ 0 \in s[o] => TargetsAmong(queue', s)
           /\ WaitIsBounded => WaitIsBounded'
<1>1. NoCommit \notin Pending
  BY HistoryAssumption DEF HistoryAssumption, Pending
<1>2. Waited(o) \in Nat
  BY DEF Waited, HistoryTypeOK, Pending
<1>3. /\ Debounce(Waited(o)) \in Nat
      /\ Debounce(Waited(o)) # 0 =>
            Waited(o) + Debounce(Waited(o)) <= ImmediateWait + ExtendedDebounce
  BY <1>2, DebounceIs
<1> DEFINE new == [due |-> Debounce(Waited(o)), waited |-> Waited(o)]
<1>4. new \in Pending /\ new # NoCommit
  BY <1>1, <1>2, <1>3 DEF Pending
<1>5. missed' = [missed EXCEPT ![o] = {}]
  BY DEF Schedule
<1>6. CASE Debounce(Waited(o)) = 0
  <2>1. /\ pending' = [pending EXCEPT ![o] = NoCommit]
        /\ queue' = [q EXCEPT ![Primary][o] = Append(@, CommitTask(NoRequest))]
    BY <1>6 DEF Schedule
  <2>2. CommitTask(NoRequest) \in Task /\ CommitTask(NoRequest).kind = "commit"
        /\ CommitTask(NoRequest).pc = "queued" /\ CommitTask(NoRequest).to = 0
    BY TasksAreTyped
  <2>3. /\ Keeps(q, queue')
        /\ HasQueued(queue', o)
        /\ \A s : TargetsAmong(q, s) /\ 0 \in s[o] => TargetsAmong(queue', s)
    BY <2>1, <2>2, AppendKeeps DEF Process
  <2>4. /\ pending' \in [Owner -> Pending \cup {NoCommit}]
        /\ \A o1 \in Owner \ {o} : pending'[o1] = pending[o1]
        /\ pending'[o] = NoCommit
    BY <2>1 DEF HistoryTypeOK
  <2>5. WaitIsBounded => WaitIsBounded'
    BY <2>4 DEF WaitIsBounded
  <2> QED BY <1>5, <2>3, <2>4, <2>5
<1>7. CASE Debounce(Waited(o)) # 0
  <2>1. pending' = [pending EXCEPT ![o] = new] /\ queue' = q
    BY <1>7 DEF Schedule
  <2>2. /\ pending' \in [Owner -> Pending \cup {NoCommit}]
        /\ pending'[o] = new
        /\ \A o1 \in Owner \ {o} : pending'[o1] = pending[o1]
    BY <1>4, <2>1 DEF HistoryTypeOK
  <2>3. Keeps(q, queue')
    BY <2>1 DEF Keeps
  <2>4. new.waited + new.due <= ImmediateWait + ExtendedDebounce
    BY <1>3, <1>7
  <2>5. WaitIsBounded => WaitIsBounded'
    BY <2>2, <2>4 DEF WaitIsBounded
  <2> QED BY <1>4, <1>5, <2>1, <2>2, <2>3, <2>5
<1> QED BY <1>6, <1>7

\* What recording a change does.
LEMMA RecordIs ==
    ASSUME HistoryTypeOK, NEW q \in Queues, NEW p \in Process, NEW o \in Owner, NEW holders,
           tree'[o] \in Content, Record(q, p, o, holders)
    PROVE  /\ pending' \in [Owner -> Pending \cup {NoCommit}]
           /\ unreported' \in SUBSET (Worker \X Owner)
           /\ missed' \in [Owner -> SUBSET Content]
           /\ Keeps(q, queue')
           /\ \A o1 \in Owner \ {o} : pending'[o1] = pending[o1] /\ missed'[o1] = missed[o1]
           /\ \A w \in Worker, o1 \in Owner : <<w, o1>> \in unreported => <<w, o1>> \in unreported'
           /\ \/ pending'[o] # NoCommit
              \/ HasQueued(queue', o)
              \/ tree'[o] \in missed'[o]
              \/ \E w \in Worker : <<w, o>> \in unreported'
           /\ \A s : TargetsAmong(q, s) /\ 0 \in s[o] => TargetsAmong(queue', s)
           /\ WaitIsBounded => WaitIsBounded'
<1>1. CASE p \in Worker
  <2>1. /\ unreported' = unreported \cup {<<p, o>>} /\ queue' = q
        /\ pending' = pending /\ missed' = missed
    BY <1>1 DEF Record
  <2>2. Keeps(q, queue')
    BY <2>1 DEF Keeps
  <2>3. WaitIsBounded => WaitIsBounded'
    BY <2>1 DEF WaitIsBounded
  <2> QED BY <1>1, <2>1, <2>2, <2>3 DEF HistoryTypeOK
<1>2. CASE p \notin Worker /\ holders = {}
  <2>1. unreported' = unreported /\ Schedule(q, o)
    BY <1>2 DEF Record
  <2>2. missed' = [missed EXCEPT ![o] = {}]
    BY <2>1, ScheduleIs
  <2>3. missed' \in [Owner -> SUBSET Content] /\ \A o1 \in Owner \ {o} : missed'[o1] = missed[o1]
    BY <2>2 DEF HistoryTypeOK
  <2> QED BY <2>1, <2>3, ScheduleIs DEF HistoryTypeOK
<1>3. CASE p \notin Worker /\ holders # {}
  <2>1. /\ unreported' = unreported /\ pending' = pending /\ queue' = q
        /\ missed' = IF Covered(q, o) THEN missed ELSE [missed EXCEPT ![o] = @ \cup {tree'[o]}]
    BY <1>3 DEF Record
  <2>2. Keeps(q, queue')
    BY <2>1 DEF Keeps
  <2>3. WaitIsBounded => WaitIsBounded'
    BY <2>1 DEF WaitIsBounded
  <2>4. Covered(q, o) => pending[o] # NoCommit \/ HasQueued(q, o)
    BY DEF Covered, HasQueued
  <2>5. PICK t \in Content : t = tree'[o]
    OBVIOUS
  <2>6. missed' = IF Covered(q, o) THEN missed ELSE [missed EXCEPT ![o] = @ \cup {t}]
    BY <2>1, <2>5
  <2>7. /\ missed' \in [Owner -> SUBSET Content]
        /\ \A o1 \in Owner \ {o} : missed'[o1] = missed[o1]
        /\ ~Covered(q, o) => t \in missed'[o]
    BY <2>6 DEF HistoryTypeOK
  <2> QED BY <2>1, <2>2, <2>3, <2>4, <2>5, <2>7 DEF HistoryTypeOK
<1> QED BY <1>1, <1>2, <1>3

\* What the end of a commit does: a request that waited for it goes on.
LEMMA CommitEndsIs ==
    ASSUME HistoryTypeOK, NEW p \in Process, NEW o \in Owner, queue[p][o] # <<>>, CommitEnds(p, o)
    PROVE  /\ queue' \in Queues /\ Tame(req') /\ suppressed' \in SUBSET Request
           /\ \A o1 \in Owner : HasQueued(queue, o1) =>
                 \/ HasQueued(queue', o1)
                 \/ p = Primary /\ o1 = o /\ Running(p, o).kind = "commit" /\ Running(p, o).pc = "queued"
           /\ \A o1 \in Owner : HasStarted(queue, o1) =>
                 \/ HasStarted(queue', o1)
                 \/ p = Primary /\ o1 = o /\ Running(p, o).kind = "commit" /\ Running(p, o).pc = "started"
           /\ \A s : Targets(queue, req, s) => TargetsAmong(queue', s)
<1>1. queue \in Queues /\ req \in Requests /\ suppressed \in SUBSET Request
  BY DEF HistoryTypeOK, Queues, Requests, RequestRecord
<1>2. Running(p, o) \in Task
  BY <1>1, RunningIs
<1>3. /\ Done(p, o) \in Queues
      /\ \A o1 \in Owner : HasQueued(queue, o1) =>
            \/ HasQueued(Done(p, o), o1)
            \/ p = Primary /\ o1 = o /\ Running(p, o).kind = "commit" /\ Running(p, o).pc = "queued"
      /\ \A o1 \in Owner : HasStarted(queue, o1) =>
            \/ HasStarted(Done(p, o), o1)
            \/ p = Primary /\ o1 = o /\ Running(p, o).kind = "commit" /\ Running(p, o).pc = "started"
      /\ \A s : TargetsAmong(queue, s) => TargetsAmong(Done(p, o), s)
  BY <1>1, DoneKeeps
<1>4. CASE Running(p, o).who = NoRequest
  <2>1. queue' = Done(p, o) /\ req' = req /\ suppressed' = suppressed
    BY <1>4 DEF CommitEnds
  <2> QED BY <1>1, <1>3, <2>1 DEF Tame, Targets
<1>5. CASE Running(p, o).who # NoRequest
  <2> DEFINE r == Running(p, o).who
             at == req[r].at
             own == req[r].owner
             t == RequestTask(r, req[r].op, req[r].to)
  <2>1. r \in Request /\ Proceed(r, Done(p, o))
    BY <1>2, <1>5 DEF CommitEnds, Task
  <2>2. /\ at \in Process /\ own \in Owner /\ req[r].to \in Content
        /\ req[r].op \in {"rollback", "revert", "preview"}
    BY <1>1, <2>1 DEF Requests, RequestRecord
  <2>3. CASE req[r].op = "preview"
    <3>1. req' = [req EXCEPT ![r] = NoHistoryRequest] /\ queue' = Done(p, o) /\ suppressed' = suppressed
      BY <2>1, <2>3 DEF Proceed
    <3>2. Tame(req')
      BY <1>1, <3>1, NoHistoryRequestIsTyped DEF Tame, Requests, RequestRecord
    <3> QED BY <1>1, <1>3, <3>1, <3>2 DEF Targets
  <2>4. CASE req[r].op # "preview"
    <3>1. /\ req' = [req EXCEPT ![r].pc = "queued"]
          /\ queue' = [Done(p, o) EXCEPT ![at][own] = Append(@, t)]
          /\ suppressed' \in {suppressed, suppressed \cup {r}}
      BY <2>1, <2>4 DEF Proceed
    <3>2. Tame(req')
      BY <1>1, <2>1, <3>1 DEF Tame, Requests, RequestRecord
    <3>3. t \in Task /\ t.to = req[r].to
      BY <2>1, <2>2, <2>4, TasksAreTyped
    <3> HIDE DEF t, at, own
    <3>4. /\ Keeps(Done(p, o), queue')
          /\ \A s : TargetsAmong(Done(p, o), s) /\ t.to \in s[own] => TargetsAmong(queue', s)
      BY <1>3, <2>2, <3>1, <3>3, AppendKeeps
    <3>5. \A s : Targets(queue, req, s) => TargetsAmong(queue', s)
      BY <1>3, <2>1, <3>3, <3>4 DEF Targets, own
    <3>6. suppressed' \in SUBSET Request
      BY <1>1, <2>1, <3>1
    <3> QED BY <1>3, <3>2, <3>4, <3>5, <3>6 DEF Keeps
  <2> QED BY <2>3, <2>4
<1> QED BY <1>4, <1>5

\* A request that ends leaves the others their targets.
LEMMA EndIsTame ==
    ASSUME HistoryTypeOK, NEW r \in Request \cup {NoRequest}
    PROVE  /\ Tame([s \in Request |-> IF s = r THEN NoHistoryRequest ELSE req[s]])
           /\ Tame([req EXCEPT ![r] = NoHistoryRequest])
<1>1. req \in Requests
  BY DEF HistoryTypeOK, Requests, RequestRecord
<1> QED BY <1>1, NoHistoryRequestIsTyped DEF Tame, Requests, RequestRecord

\* What a history request does when it is asked for.
AskIs(r, p, o) ==
    /\ Keeps(queue, queue')
    /\ req' \in Requests
    /\ suppressed' \in SUBSET Request
    /\ asks' \in 0 .. MaxRequests
    /\ pending' \in [Owner -> Pending \cup {NoCommit}]
    /\ \A o1 \in Owner : pending'[o1] = pending[o1] \/ (pending'[o1] = NoCommit /\ HasQueued(queue', o1))
    /\ TargetsSaved => Targets(queue', req', saved)

LEMMA AskDoes ==
    ASSUME HistoryTypeOK, NEW r \in Request, NEW p \in Process, NEW o \in Owner, Ask(r, p, o)
    PROVE  AskIs(r, p, o)
<1>0. /\ queue \in Queues /\ req \in Requests
      /\ MaxRequests \in Nat /\ 0 \in Content
      /\ asks' \in 0 .. MaxRequests
  <2>1. asks < MaxRequests /\ asks' = asks + 1
    BY Zenon DEF Ask
  <2>2. MaxRequests \in Nat /\ MaxEdits \in Nat
    BY HistoryAssumption DEF HistoryAssumption
  <2>3. asks \in 0 .. MaxRequests /\ queue \in Queues /\ req \in Requests
    BY DEF HistoryTypeOK, Queues, Requests, RequestRecord
  <2> QED BY <2>1, <2>2, <2>3 DEF Content
<1> DEFINE new(op, to) == [pc |-> "flushing", op |-> op, at |-> p, owner |-> o, to |-> to, asked |-> edits]
<1>1. edits \in Content
  BY <1>0 DEF HistoryTypeOK
<1>2. PICK op \in {"rollback", "revert", "preview"}, to \in saved[o] :
         /\ op = "rollback" \/ to = 0
         /\ IF p = Primary /\ pending[o] # NoCommit
            THEN /\ req' = [req EXCEPT ![r] = new(op, to)]
                 /\ pending' = [pending EXCEPT ![o] = NoCommit]
                 /\ queue' = [queue EXCEPT ![p][o] = Append(@, CommitTask(r))]
                 /\ UNCHANGED suppressed
            ELSE /\ op # "preview"
                 /\ req' = [req EXCEPT ![r] = [new(op, to) EXCEPT !.pc = "queued"]]
                 /\ queue' = [queue EXCEPT ![p][o] = Append(@, RequestTask(r, op, to))]
                 /\ suppressed' = IF p = Primary THEN suppressed \cup {r} ELSE suppressed
                 /\ UNCHANGED pending
  BY Zenon DEF Ask
<1>3. to \in Content
  BY DEF HistoryTypeOK
<1>4. /\ new(op, to) \in RequestRecord
      /\ [new(op, to) EXCEPT !.pc = "queued"] \in RequestRecord
      /\ new(op, to).to = to /\ new(op, to).owner = o
      /\ [new(op, to) EXCEPT !.pc = "queued"].to = to
      /\ [new(op, to) EXCEPT !.pc = "queued"].owner = o
  BY <1>1, <1>2, <1>3 DEF RequestRecord
<1> HIDE DEF new
<1>5. CASE p = Primary /\ pending[o] # NoCommit
  <2>1. /\ req' = [req EXCEPT ![r] = new(op, to)]
        /\ pending' = [pending EXCEPT ![o] = NoCommit]
        /\ queue' = [queue EXCEPT ![p][o] = Append(@, CommitTask(r))]
        /\ suppressed' = suppressed
    BY <1>2, <1>5
  <2>2. /\ CommitTask(r) \in Task /\ CommitTask(r).kind = "commit"
        /\ CommitTask(r).pc = "queued" /\ CommitTask(r).to = 0
    BY TasksAreTyped
  <2>3. /\ Keeps(queue, queue') /\ HasQueued(queue', o)
        /\ \A s : TargetsAmong(queue, s) /\ 0 \in s[o] => TargetsAmong(queue', s)
    BY <1>0, <1>5, <2>1, <2>2, AppendKeeps
  <2>4. req' \in Requests /\ \A r1 \in Request : req'[r1] = IF r1 = r THEN new(op, to) ELSE req[r1]
    BY <1>0, <1>4, <2>1 DEF Requests
  <2>5. TargetsSaved => Targets(queue', req', saved)
    BY <1>2, <1>4, <2>3, <2>4 DEF TargetsSaved, Targets
  <2>6. /\ pending' \in [Owner -> Pending \cup {NoCommit}]
        /\ \A o1 \in Owner : pending'[o1] = IF o1 = o THEN NoCommit ELSE pending[o1]
    BY <2>1 DEF HistoryTypeOK
  <2> QED BY <1>0, <2>1, <2>3, <2>4, <2>5, <2>6 DEF AskIs, HistoryTypeOK
<1>6. CASE ~(p = Primary /\ pending[o] # NoCommit)
  <2>1. /\ op # "preview"
        /\ req' = [req EXCEPT ![r] = [new(op, to) EXCEPT !.pc = "queued"]]
        /\ pending' = pending
        /\ queue' = [queue EXCEPT ![p][o] = Append(@, RequestTask(r, op, to))]
        /\ suppressed' \in {suppressed, suppressed \cup {r}}
    BY <1>2, <1>6
  <2>2. RequestTask(r, op, to) \in Task /\ RequestTask(r, op, to).to = to
    BY <1>2, <1>3, <2>1, TasksAreTyped
  <2>3. /\ Keeps(queue, queue')
        /\ \A s : TargetsAmong(queue, s) /\ to \in s[o] => TargetsAmong(queue', s)
    <3> DEFINE t == RequestTask(r, op, to)
    <3>1. t \in Task /\ t.to = to /\ queue' = [queue EXCEPT ![p][o] = Append(@, t)]
      BY <2>1, <2>2
    <3> HIDE DEF t
    <3> QED BY <1>0, <3>1, AppendKeeps
  <2>4. req' \in Requests /\ \A r1 \in Request :
           req'[r1] = IF r1 = r THEN [new(op, to) EXCEPT !.pc = "queued"] ELSE req[r1]
    BY <1>0, <1>4, <2>1 DEF Requests
  <2>5. TargetsSaved => Targets(queue', req', saved)
    BY <1>2, <1>4, <2>3, <2>4 DEF TargetsSaved, Targets
  <2> QED BY <1>0, <2>1, <2>3, <2>4, <2>5 DEF AskIs, HistoryTypeOK
<1> QED BY <1>5, <1>6

LEMMA EditTyped ==
    ASSUME HistoryTypeOK, NEW p \in Process, NEW o \in Owner, Edit(p, o)
    PROVE  /\ tree' = [tree EXCEPT ![o] = edits + 1]
           /\ edits + 1 \in Content /\ tree'[o] = edits + 1 /\ tree'[o] \in Content
<1>1. MaxEdits \in Nat
  BY HistoryAssumption DEF HistoryAssumption
<1>2. edits + 1 \in Content /\ tree' = [tree EXCEPT ![o] = edits + 1]
  BY <1>1 DEF Edit, HistoryTypeOK, Content
<1> QED BY <1>2 DEF HistoryTypeOK

LEMMA TypeStep == HistoryTypeOK /\ [HistoryNext]_historyVars => HistoryTypeOK'
<1> SUFFICES ASSUME HistoryTypeOK, [HistoryNext]_historyVars PROVE HistoryTypeOK'
  OBVIOUS
<1>0. /\ queue \in Queues /\ req \in Requests
      /\ MaxEdits \in Nat /\ MaxRequests \in Nat /\ MaxFaults \in Nat
      /\ Content = 0 .. MaxEdits
      /\ Primary \in Process /\ Worker \subseteq Process /\ Primary \notin Worker
  BY HistoryAssumption DEF HistoryAssumption, HistoryTypeOK, Queues, Requests, RequestRecord, Content, Process
<1>1. CASE HistoryTick
  <2>1. ASSUME NEW o \in Owner, pending[o] # NoCommit
        PROVE  [due |-> pending[o].due - 1, waited |-> pending[o].waited + 1] \in Pending
    BY <1>1, <2>1 DEF HistoryTick, HistoryTypeOK, Pending
  <2>2. pending' \in [Owner -> Pending \cup {NoCommit}]
    BY <1>1, <2>1 DEF HistoryTick
  <2> QED BY <1>1, <2>2 DEF HistoryTick, HistoryTypeOK, gitVars
<1>2. ASSUME NEW o \in Owner, TimerFires(o) PROVE HistoryTypeOK'
  <2>1. CommitTask(NoRequest) \in Task
    BY TasksAreTyped
  <2>2. queue' \in Queues
    BY <1>0, <1>2, <2>1, AppendKeeps DEF TimerFires, Keeps
  <2> QED BY <1>2, <2>2 DEF TimerFires, HistoryTypeOK, Queues, gitVars
<1>3. ASSUME NEW w \in Worker, NEW o \in Owner, Report(w, o) PROVE HistoryTypeOK'
  <2>1. Schedule(queue, o)
    BY <1>3 DEF Report
  <2>2. queue' \in Queues /\ pending' \in [Owner -> Pending \cup {NoCommit}] /\ missed' \in [Owner -> SUBSET Content]
    BY <1>0, <2>1, ScheduleIs DEF Keeps, HistoryTypeOK
  <2> QED BY <1>3, <2>2 DEF Report, HistoryTypeOK, Queues, gitVars
<1>4. ASSUME NEW p \in Process, NEW o \in Owner, Edit(p, o) PROVE HistoryTypeOK'
  <2>1. Record(queue, p, o, suppressed)
    BY <1>4 DEF Edit
  <2>2. edits + 1 \in Content /\ edits' = edits + 1
    BY <1>0, <1>4 DEF Edit, HistoryTypeOK
  <2>3. /\ edits' \in Content /\ tree' \in [Owner -> Content] /\ tree'[o] \in Content
        /\ unsaved' \in [Owner -> SUBSET Content]
    BY <1>4, <2>2 DEF Edit, HistoryTypeOK
  <2>4. /\ queue' \in Queues /\ pending' \in [Owner -> Pending \cup {NoCommit}]
        /\ missed' \in [Owner -> SUBSET Content] /\ unreported' \in SUBSET (Worker \X Owner)
    BY <1>0, <2>1, <2>3, RecordIs DEF Keeps
  <2> QED BY <1>4, <2>3, <2>4 DEF Edit, HistoryTypeOK, Queues
<1>5. ASSUME NEW p \in Process, NEW o \in Owner, Stage(p, o) PROVE HistoryTypeOK'
  <2>1. queue' \in Queues /\ req' \in Requests /\ suppressed' \in SUBSET Request
    <3>1. CASE tree[o] = head[o]
      BY <1>5, <3>1, CommitEndsIs DEF Stage, Tame
    <3>2. CASE tree[o] # head[o]
      <4>1. queue' = [queue EXCEPT ![p][o][1].pc = "started"] /\ queue[p][o] # <<>>
        BY <1>5, <3>2 DEF Stage
      <4>2. queue' \in Queues
        BY <1>0, <4>1, StartKeeps
      <4>3. req' = req /\ suppressed' = suppressed
        BY <1>5, <3>2 DEF Stage
      <4> QED BY <1>0, <4>2, <4>3 DEF HistoryTypeOK
    <3> QED BY <3>1, <3>2
  <2>2. index' \in [Owner -> Content]
    BY <1>5 DEF Stage, HistoryTypeOK
  <2> QED BY <1>5, <2>1, <2>2 DEF Stage, HistoryTypeOK, Queues, Requests, RequestRecord
<1>6. ASSUME NEW p \in Process, NEW o \in Owner, CommitStaged(p, o) PROVE HistoryTypeOK'
  <2>1. queue' \in Queues /\ req' \in Requests /\ suppressed' \in SUBSET Request
    BY <1>6, CommitEndsIs DEF CommitStaged, Tame
  <2>2. /\ saved' \in [Owner -> SUBSET Content] /\ head' \in [Owner -> Content]
        /\ unsaved' \in [Owner -> SUBSET Content]
    BY <1>6 DEF CommitStaged, HistoryTypeOK, Later
  <2> QED BY <1>6, <2>1, <2>2 DEF CommitStaged, HistoryTypeOK, Queues, Requests, RequestRecord
<1>7. ASSUME NEW p \in Process, NEW o \in Owner, CommitFails(p, o) PROVE HistoryTypeOK'
  <2>1. queue' \in Queues /\ Running(p, o) \in Task
    BY <1>0, <1>7, DoneKeeps, RunningIs DEF CommitFails
  <2>2. Running(p, o).who \in Request \cup {NoRequest}
    BY <2>1 DEF Task
  <2>3. req' \in Requests
    BY <1>7, <2>2, EndIsTame DEF CommitFails, Tame
  <2>4. missed' \in [Owner -> SUBSET Content] /\ faults' \in 0 .. MaxFaults
    BY <1>0, <1>7 DEF CommitFails, HistoryTypeOK
  <2> QED BY <1>7, <2>1, <2>3, <2>4 DEF CommitFails, HistoryTypeOK, Queues, Requests, RequestRecord, gitVars
<1>8. ASSUME NEW p \in Process, NEW o \in Owner, Reset(p, o) PROVE HistoryTypeOK'
  <2>1. queue' \in Queues /\ Running(p, o) \in Task
    BY <1>0, <1>8, StartKeeps, RunningIs DEF Reset
  <2>2. Running(p, o).who \in Request \cup {NoRequest} /\ Running(p, o).to \in Content
    BY <2>1 DEF Task
  <2>3. req' \in Requests
    BY <1>0, <1>8 DEF Reset
  <2>4. /\ tree' \in [Owner -> Content] /\ index' \in [Owner -> Content] /\ head' \in [Owner -> Content]
        /\ unsaved' \in [Owner -> SUBSET Content]
    BY <1>8, <2>2 DEF Reset, HistoryTypeOK
  <2> QED BY <1>8, <2>1, <2>3, <2>4 DEF Reset, HistoryTypeOK, Queues, Requests, RequestRecord
<1>9. ASSUME NEW p \in Process, NEW o \in Owner, Revert(p, o) PROVE HistoryTypeOK'
  <2>1. queue' \in Queues
    BY <1>0, <1>9, StartKeeps DEF Revert
  <2>2. edits + 1 \in Content
    BY <1>0, <1>9 DEF Revert, HistoryTypeOK
  <2>3. /\ tree' \in [Owner -> Content] /\ index' \in [Owner -> Content] /\ head' \in [Owner -> Content]
        /\ saved' \in [Owner -> SUBSET Content] /\ edits' \in Content
    BY <1>9, <2>2 DEF Revert, HistoryTypeOK
  <2> QED BY <1>9, <2>1, <2>3 DEF Revert, HistoryTypeOK, Queues
<1>10. ASSUME NEW p \in Process, NEW o \in Owner, RequestEnds(p, o) PROVE HistoryTypeOK'
  <2>1. Done(p, o) \in Queues /\ Running(p, o) \in Task
    BY <1>0, <1>10, DoneKeeps, RunningIs DEF RequestEnds
  <2>2. Running(p, o).who \in Request \cup {NoRequest}
    BY <2>1 DEF Task
  <2>3. req' \in Requests
    BY <1>10, <2>2, EndIsTame DEF RequestEnds, Tame
  <2>4. Record(Done(p, o), p, o, suppressed') /\ tree'[o] \in Content
    BY <1>10 DEF RequestEnds, gitVars, HistoryTypeOK
  <2>5. /\ queue' \in Queues /\ pending' \in [Owner -> Pending \cup {NoCommit}]
        /\ missed' \in [Owner -> SUBSET Content] /\ unreported' \in SUBSET (Worker \X Owner)
    BY <2>1, <2>4, RecordIs DEF Keeps
  <2>6. suppressed' \in SUBSET Request
    BY <1>10 DEF RequestEnds, HistoryTypeOK
  <2> QED BY <1>10, <2>3, <2>5, <2>6 DEF RequestEnds, HistoryTypeOK, Queues, Requests, RequestRecord, gitVars
<1>11. ASSUME NEW p \in Process, NEW o \in Owner, RequestFails(p, o) PROVE HistoryTypeOK'
  <2>1. queue' \in Queues /\ Running(p, o) \in Task
    BY <1>0, <1>11, DoneKeeps, RunningIs DEF RequestFails
  <2>2. Running(p, o).who \in Request \cup {NoRequest}
    BY <2>1 DEF Task
  <2>3. req' \in Requests
    BY <1>11, <2>2, EndIsTame DEF RequestFails, Tame
  <2>4. faults' \in 0 .. MaxFaults /\ suppressed' \in SUBSET Request
    BY <1>0, <1>11 DEF RequestFails, HistoryTypeOK
  <2> QED BY <1>11, <2>1, <2>3, <2>4
      DEF RequestFails, HistoryTypeOK, Queues, Requests, RequestRecord, gitVars
<1>12. ASSUME NEW p \in Process, NEW o \in Owner, NEW r \in Request, Ask(r, p, o) PROVE HistoryTypeOK'
  <2>1. AskIs(r, p, o)
    BY <1>12, AskDoes
  <2> QED BY <1>0, <1>12, <2>1 DEF Ask, AskIs, HistoryTypeOK, Keeps, Queues, Requests, RequestRecord, gitVars
<1>13. ASSUME NEW ps \in SUBSET Process, Exit(ps) PROVE HistoryTypeOK'
  <2>1. NoTask \in [Owner -> Seq(Task)]
    BY DEF NoTask
  <2>2. queue' \in Queues
    BY <1>0, <1>13, <2>1 DEF Exit, Queues
  <2>3. req' \in Requests
    BY <1>0, <1>13, NoHistoryRequestIsTyped DEF Exit, Requests
  <2>4. /\ pending' \in [Owner -> Pending \cup {NoCommit}] /\ suppressed' \in SUBSET Request
        /\ missed' \in [Owner -> SUBSET Content]
    <3>1. \A o \in Owner : missed[o] \subseteq Content /\ missed[o] \cup unsaved[o] \subseteq Content
      BY DEF HistoryTypeOK
    <3>2. CASE Primary \in ps
      <4>1. /\ pending' = [o \in Owner |-> NoCommit] /\ suppressed' = {}
            /\ missed' = [o \in Owner |-> missed[o] \cup unsaved[o]]
        BY <1>13, <3>2 DEF Exit
      <4> QED BY <3>1, <4>1
    <3>3. CASE Primary \notin ps
      <4>1. /\ pending' = pending /\ suppressed' = suppressed
            /\ missed' = [o \in Owner |-> IF \E w \in ps : <<w, o>> \in unreported
                                          THEN missed[o] \cup unsaved[o] ELSE missed[o]]
        BY <1>13, <3>3 DEF Exit
      <4>2. missed' \in [Owner -> SUBSET Content]
        BY <3>1, <4>1
      <4> QED BY <4>1, <4>2 DEF HistoryTypeOK
    <3> QED BY <3>2, <3>3
  <2>5. unreported' \in SUBSET (Worker \X Owner) /\ faults' \in 0 .. MaxFaults
    BY <1>0, <1>13 DEF Exit, HistoryTypeOK
  <2> QED BY <1>13, <2>2, <2>3, <2>4, <2>5 DEF Exit, HistoryTypeOK, Queues, Requests, RequestRecord, gitVars
<1>14. CASE UNCHANGED historyVars
  BY <1>14 DEF historyVars, gitVars, HistoryTypeOK
<1>15. CASE Exit(Process)
  BY <1>13, <1>15
<1>16. ASSUME NEW w \in Worker, Exit({w}) PROVE HistoryTypeOK'
  BY <1>0, <1>13, <1>16
<1> QED BY <1>1, <1>2, <1>3, <1>4, <1>5, <1>6, <1>7, <1>8, <1>9, <1>10, <1>11, <1>12, <1>14, <1>15, <1>16
        DEF HistoryNext, GitWork

-----------------------------------------------------------------------------
(* A pending commit waits a bounded time.                                  *)

LEMMA WaitStep == HistoryTypeOK /\ WaitIsBounded /\ [HistoryNext]_historyVars => WaitIsBounded'
<1> SUFFICES ASSUME HistoryTypeOK, WaitIsBounded, [HistoryNext]_historyVars PROVE WaitIsBounded'
  OBVIOUS
<1>0. queue \in Queues
  BY DEF HistoryTypeOK, Queues
<1>1. CASE HistoryTick
  <2>1. ASSUME NEW o \in Owner, pending'[o] # NoCommit
        PROVE  pending'[o].waited + pending'[o].due <= ImmediateWait + ExtendedDebounce
    <3>1. /\ pending[o] # NoCommit
          /\ pending'[o] = [due |-> pending[o].due - 1, waited |-> pending[o].waited + 1]
      BY <1>1, <2>1 DEF HistoryTick
    <3>2. pending[o].due \in Nat /\ pending[o].waited \in Nat
      BY <3>1 DEF HistoryTypeOK, Pending
    <3>3. pending'[o].waited + pending'[o].due = pending[o].waited + pending[o].due
      BY <3>1, <3>2
    <3> QED BY <3>1, <3>3 DEF WaitIsBounded
  <2> QED BY <2>1 DEF WaitIsBounded
<1>2. ASSUME NEW o \in Owner, TimerFires(o) PROVE WaitIsBounded'
  BY <1>2 DEF TimerFires, WaitIsBounded, HistoryTypeOK
<1>3. ASSUME NEW w \in Worker, NEW o \in Owner, Report(w, o) PROVE WaitIsBounded'
  <2>1. Schedule(queue, o)
    BY <1>3 DEF Report
  <2> QED BY <1>0, <2>1, ScheduleIs
<1>4. ASSUME NEW p \in Process, NEW o \in Owner, Edit(p, o) PROVE WaitIsBounded'
  <2>1. Record(queue, p, o, suppressed) /\ tree'[o] \in Content
    BY <1>4, EditTyped DEF Edit
  <2> QED BY <1>0, <2>1, RecordIs
<1>5. ASSUME NEW p \in Process, NEW o \in Owner, RequestEnds(p, o) PROVE WaitIsBounded'
  <2>1. /\ Record(Done(p, o), p, o, suppressed') /\ Done(p, o) \in Queues
        /\ tree'[o] \in Content
    BY <1>0, <1>5, DoneKeeps DEF RequestEnds, gitVars, HistoryTypeOK
  <2> QED BY <2>1, RecordIs
<1>6. ASSUME NEW p \in Process, NEW o \in Owner,
             Stage(p, o) \/ CommitStaged(p, o) \/ CommitFails(p, o) \/ Reset(p, o)
                \/ Revert(p, o) \/ RequestFails(p, o)
      PROVE  WaitIsBounded'
  <2>1. pending' = pending
    BY <1>6 DEF Stage, CommitStaged, CommitFails, Reset, Revert, RequestFails
  <2> QED BY <2>1 DEF WaitIsBounded
<1>7. ASSUME NEW p \in Process, NEW o \in Owner, NEW r \in Request, Ask(r, p, o) PROVE WaitIsBounded'
  BY <1>7, AskDoes DEF AskIs, WaitIsBounded
<1>8. ASSUME NEW ps \in SUBSET Process, Exit(ps) PROVE WaitIsBounded'
  <2>1. pending' = pending \/ pending' = [o \in Owner |-> NoCommit]
    BY <1>8 DEF Exit
  <2> QED BY <2>1 DEF WaitIsBounded
<1>9. CASE UNCHANGED historyVars
  BY <1>9 DEF historyVars, WaitIsBounded
<1>10. ASSUME NEW w \in Worker, Exit({w}) PROVE WaitIsBounded'
  BY <1>8, <1>10 DEF Process
<1> QED BY <1>1, <1>2, <1>3, <1>4, <1>5, <1>6, <1>7, <1>8, <1>9, <1>10 DEF HistoryNext, GitWork

-----------------------------------------------------------------------------
(* The contents of the roots.                                              *)

\* A request that ends has asked for nothing.
LEMMA AskedIs ==
    ASSUME HistoryTypeOK, NEW r \in Request \cup {NoRequest}
    PROVE  /\ \A s \in Request : [req EXCEPT ![r] = NoHistoryRequest][s].asked \in {0, req[s].asked}
           /\ NoHistoryRequest.asked = 0
<1>1. req \in Requests
  BY DEF HistoryTypeOK, Requests, RequestRecord
<1>2. NoHistoryRequest.asked = 0
  BY DEF NoHistoryRequest
<1> QED BY <1>1, <1>2 DEF Requests

LEMMA CommitEndsAsked ==
    ASSUME HistoryTypeOK, NEW p \in Process, NEW o \in Owner, queue[p][o] # <<>>, CommitEnds(p, o)
    PROVE  \A s \in Request : req'[s].asked \in {0, req[s].asked}
<1>1. req \in Requests /\ queue \in Queues
  BY DEF HistoryTypeOK, Requests, RequestRecord, Queues
<1>2. Running(p, o).who \in Request \cup {NoRequest}
  BY <1>1, RunningIs DEF Task
<1>3. CASE Running(p, o).who = NoRequest
  BY <1>3 DEF CommitEnds
<1>4. CASE Running(p, o).who # NoRequest
  <2>1. PICK r \in Request : r = Running(p, o).who
    BY <1>2, <1>4
  <2>2. Proceed(r, Done(p, o))
    BY <1>4, <2>1 DEF CommitEnds
  <2>3. req' = [req EXCEPT ![r] = NoHistoryRequest] \/ req' = [req EXCEPT ![r].pc = "queued"]
    BY <2>2 DEF Proceed
  <2>4. CASE req' = [req EXCEPT ![r] = NoHistoryRequest]
    BY <2>4, AskedIs
  <2>5. CASE req' = [req EXCEPT ![r].pc = "queued"]
    <3>1. \A e \in RequestRecord : [e EXCEPT !.pc = "queued"].asked = e.asked
      BY DEF RequestRecord
    <3> QED BY <1>1, <2>5, <3>1 DEF Requests
  <2> QED BY <2>3, <2>4, <2>5
<1> QED BY <1>3, <1>4

LEMMA NumberedStep == HistoryIInv /\ [HistoryNext]_historyVars => Numbered'
<1> SUFFICES ASSUME HistoryIInv, [HistoryNext]_historyVars PROVE Numbered'
  OBVIOUS
<1>0. /\ HistoryTypeOK /\ Numbered /\ queue \in Queues /\ req \in Requests
      /\ edits \in Nat
      /\ \A o \in Owner : tree[o] \in Nat /\ index[o] \in Nat /\ saved[o] \subseteq Nat
      /\ \A r \in Request : req[r].asked \in Nat
      /\ TargetsAmong(queue, saved)
  BY DEF HistoryIInv, HistoryTypeOK, Queues, Requests, RequestRecord, Content, TargetsSaved, Targets
<1>1. ASSUME edits' \in {edits, edits + 1}, UNCHANGED <<tree, index, saved>>,
             \A r \in Request : req'[r].asked \in {0, req[r].asked}
      PROVE  Numbered'
  BY <1>0, <1>1 DEF Numbered
<1>2. req' = req => \A r \in Request : req'[r].asked \in {0, req[r].asked}
  OBVIOUS
<1>3. CASE HistoryTick
  BY <1>1, <1>2, <1>3 DEF HistoryTick, gitVars
<1>4. ASSUME NEW o \in Owner, TimerFires(o) PROVE Numbered'
  BY <1>1, <1>2, <1>4 DEF TimerFires, gitVars
<1>5. ASSUME NEW w \in Worker, NEW o \in Owner, Report(w, o) PROVE Numbered'
  BY <1>1, <1>2, <1>5 DEF Report, gitVars
<1>6. ASSUME NEW p \in Process, NEW o \in Owner, Edit(p, o) PROVE Numbered'
  <2>1. /\ edits' = edits + 1 /\ tree' = [tree EXCEPT ![o] = edits + 1]
        /\ UNCHANGED <<index, saved, req>>
    BY <1>6 DEF Edit
  <2>2. \A o1 \in Owner : tree'[o1] \in {tree[o1], edits + 1}
    BY <1>0, <2>1 DEF HistoryTypeOK
  <2> QED BY <1>0, <2>1, <2>2 DEF Numbered
<1>7. ASSUME NEW p \in Process, NEW o \in Owner, Stage(p, o) PROVE Numbered'
  <2>1. /\ queue[p][o] # <<>> /\ index' = [index EXCEPT ![o] = tree[o]]
        /\ UNCHANGED <<edits, tree, saved>>
    BY <1>7 DEF Stage
  <2>2. \A r \in Request : req'[r].asked \in {0, req[r].asked}
    BY <1>0, <1>7, <2>1, CommitEndsAsked DEF Stage
  <2>3. \A o1 \in Owner : index'[o1] \in {index[o1], tree[o1]}
    BY <1>0, <2>1 DEF HistoryTypeOK
  <2> QED BY <1>0, <2>1, <2>2, <2>3 DEF Numbered
<1>8. ASSUME NEW p \in Process, NEW o \in Owner, CommitStaged(p, o) PROVE Numbered'
  <2>1. /\ queue[p][o] # <<>> /\ saved' = [saved EXCEPT ![o] = @ \cup {index[o]}]
        /\ CommitEnds(p, o) /\ UNCHANGED <<edits, tree, index>>
    BY <1>8 DEF CommitStaged
  <2>2. \A r \in Request : req'[r].asked \in {0, req[r].asked}
    BY <1>0, <2>1, CommitEndsAsked
  <2>3. \A o1 \in Owner : saved'[o1] \subseteq saved[o1] \cup {index[o1]}
    BY <1>0, <2>1 DEF HistoryTypeOK
  <2> QED BY <1>0, <2>1, <2>2, <2>3 DEF Numbered
<1>9. ASSUME NEW p \in Process, NEW o \in Owner, CommitFails(p, o) PROVE Numbered'
  <2>1. /\ queue[p][o] # <<>>
        /\ req' = [r \in Request |-> IF r = Running(p, o).who THEN NoHistoryRequest ELSE req[r]]
        /\ UNCHANGED <<edits, tree, index, saved>>
    BY <1>9 DEF CommitFails, gitVars
  <2>2. \A r \in Request : req'[r].asked \in {0, req[r].asked}
    BY <1>0, <2>1, AskedIs
  <2> QED BY <1>1, <2>1, <2>2
<1>10. ASSUME NEW p \in Process, NEW o \in Owner, Reset(p, o) PROVE Numbered'
  <2> DEFINE to == Running(p, o).to
  <2>1. /\ queue[p][o] # <<>> /\ tree' = [tree EXCEPT ![o] = to] /\ index' = [index EXCEPT ![o] = to]
        /\ UNCHANGED <<edits, saved, req>>
    BY <1>10 DEF Reset
  <2>2. Running(p, o) \in Task /\ Running(p, o) = queue[p][o][1] /\ 1 \in DOMAIN queue[p][o]
    BY <1>0, <2>1, RunningIs
  <2>3. to \in saved[o]
    BY <1>0, <2>2 DEF TargetsAmong
  <2>4. \A r \in Request : req'[r].asked \in {0, req[r].asked}
    BY <2>1
  <2>5. to <= edits /\ to \in Nat
    BY <1>0, <2>3 DEF Numbered
  <2> HIDE DEF to
  <2>6. \A o1 \in Owner : tree'[o1] \in {tree[o1], to} /\ index'[o1] \in {index[o1], to}
    BY <1>0, <2>1 DEF HistoryTypeOK
  <2> QED BY <1>0, <2>1, <2>4, <2>5, <2>6 DEF Numbered
<1>11. ASSUME NEW p \in Process, NEW o \in Owner, Revert(p, o) PROVE Numbered'
  <2>1. /\ edits' = edits + 1
        /\ tree' = [tree EXCEPT ![o] = edits + 1] /\ index' = [index EXCEPT ![o] = edits + 1]
        /\ saved' = [saved EXCEPT ![o] = @ \cup {edits + 1}]
        /\ req' = req
    BY <1>11 DEF Revert
  <2>2. \A o1 \in Owner : /\ tree'[o1] \in {tree[o1], edits + 1} /\ index'[o1] \in {index[o1], edits + 1}
                          /\ saved'[o1] \subseteq saved[o1] \cup {edits + 1}
    BY <1>0, <2>1 DEF HistoryTypeOK
  <2> QED BY <1>0, <2>1, <2>2 DEF Numbered
<1>12. ASSUME NEW p \in Process, NEW o \in Owner, RequestEnds(p, o) \/ RequestFails(p, o) PROVE Numbered'
  <2>1. /\ queue[p][o] # <<>> /\ req' = [req EXCEPT ![Running(p, o).who] = NoHistoryRequest]
        /\ UNCHANGED <<edits, tree, index, saved>>
    BY <1>12 DEF RequestEnds, RequestFails, gitVars
  <2>2. Running(p, o).who \in Request \cup {NoRequest}
    BY <1>0, <2>1, RunningIs DEF Task
  <2>3. \A r \in Request : req'[r].asked \in {0, req[r].asked}
    BY <1>0, <2>1, <2>2, AskedIs
  <2> QED BY <1>1, <2>1, <2>3
<1>13. ASSUME NEW p \in Process, NEW o \in Owner, NEW r \in Request, Ask(r, p, o) PROVE Numbered'
  <2>1. PICK e : req' = [req EXCEPT ![r] = e] /\ e.asked = edits
    BY <1>13 DEF Ask
  <2>2. UNCHANGED <<edits, tree, index, saved>>
    BY <1>13 DEF Ask, gitVars
  <2>3. \A s \in Request : req'[s] = IF s = r THEN e ELSE req[s]
    BY <1>0, <2>1 DEF Requests
  <2> QED BY <1>0, <2>1, <2>2, <2>3 DEF Numbered
<1>14. ASSUME NEW ps \in SUBSET Process, Exit(ps) PROVE Numbered'
  <2>1. /\ req' = [r \in Request |-> IF req[r].at \in ps THEN NoHistoryRequest ELSE req[r]]
        /\ UNCHANGED <<edits, tree, index, saved>>
    BY <1>14 DEF Exit, gitVars
  <2>2. \A r \in Request : req'[r].asked \in {0, req[r].asked}
    BY <2>1 DEF NoHistoryRequest
  <2> QED BY <1>1, <2>1, <2>2
<1>15. ASSUME NEW w \in Worker, Exit({w}) PROVE Numbered'
  BY <1>14, <1>15 DEF Process
<1>16. CASE UNCHANGED historyVars
  BY <1>1, <1>2, <1>16 DEF historyVars, gitVars
<1> QED BY <1>3, <1>4, <1>5, <1>6, <1>7, <1>8, <1>9, <1>10, <1>11, <1>12, <1>13, <1>14, <1>15, <1>16
        DEF HistoryNext, GitWork

\* A step that leaves the files, the index, HEAD and the commits alone.
LEMMA SameRoots ==
    ASSUME Kept, UNCHANGED gitVars
    PROVE  Kept'
BY DEF Kept, gitVars

LEMMA KeptStep == HistoryIInv /\ [HistoryNext]_historyVars => Kept'
<1> SUFFICES ASSUME HistoryIInv, [HistoryNext]_historyVars PROVE Kept'
  OBVIOUS
<1>0. /\ HistoryTypeOK /\ Kept /\ queue \in Queues /\ edits \in Nat
      /\ \A o \in Owner : /\ tree[o] \in Nat /\ index[o] \in Nat /\ head[o] \in Nat
                          /\ unsaved[o] \subseteq Nat
                          /\ tree[o] <= edits /\ index[o] <= edits /\ head[o] <= edits
  <2>1. HistoryTypeOK /\ Kept /\ Numbered /\ TargetsSaved
    BY DEF HistoryIInv
  <2>2. Content \subseteq Nat
    BY DEF Content
  <2>3. queue \in Queues /\ edits \in Nat
    BY <2>1, <2>2 DEF HistoryTypeOK, Queues
  <2>4. \A o \in Owner : /\ tree[o] \in Nat /\ index[o] \in Nat /\ head[o] \in Nat
                         /\ unsaved[o] \subseteq Nat
    BY <2>1, <2>2 DEF HistoryTypeOK
  <2> QED BY <2>1, <2>3, <2>4 DEF Numbered, TargetsSaved
<1>1. ASSUME UNCHANGED gitVars PROVE Kept'
  BY <1>0, <1>1, SameRoots
<1>2. CASE HistoryTick
  BY <1>1, <1>2 DEF HistoryTick
<1>3. ASSUME NEW o \in Owner, TimerFires(o) PROVE Kept'
  BY <1>1, <1>3 DEF TimerFires
<1>4. ASSUME NEW w \in Worker, NEW o \in Owner, Report(w, o) PROVE Kept'
  BY <1>1, <1>4 DEF Report
<1>5. ASSUME NEW p \in Process, NEW o \in Owner, Edit(p, o) PROVE Kept'
  <2>1. /\ tree' = [tree EXCEPT ![o] = edits + 1]
        /\ unsaved' = [unsaved EXCEPT ![o] = @ \cup {edits + 1}]
        /\ index' = index /\ head' = head /\ saved' = saved
    BY <1>5 DEF Edit
  <2>2. /\ tree'[o] = edits + 1 /\ unsaved'[o] = unsaved[o] \cup {edits + 1}
        /\ \A o1 \in Owner \ {o} : tree'[o1] = tree[o1] /\ unsaved'[o1] = unsaved[o1]
    BY <1>0, <2>1 DEF HistoryTypeOK
  <2>3. /\ \A e \in unsaved'[o] : e <= tree'[o]
        /\ index'[o] <= tree'[o] /\ tree'[o] # head'[o] /\ tree'[o] \in unsaved'[o]
    BY <1>0, <2>1, <2>2 DEF Kept
  <2> QED BY <1>0, <2>1, <2>2, <2>3 DEF Kept
<1>6. ASSUME NEW p \in Process, NEW o \in Owner, Stage(p, o) PROVE Kept'
  <2>1. /\ index' = [index EXCEPT ![o] = tree[o]]
        /\ UNCHANGED <<tree, head, saved, unsaved>>
    BY <1>6 DEF Stage
  <2>2. index'[o] = tree[o] /\ \A o1 \in Owner \ {o} : index'[o1] = index[o1]
    BY <1>0, <2>1 DEF HistoryTypeOK
  <2> QED BY <1>0, <2>1, <2>2 DEF Kept
<1>7. ASSUME NEW p \in Process, NEW o \in Owner, CommitStaged(p, o) PROVE Kept'
  <2>1. /\ saved' = [saved EXCEPT ![o] = @ \cup {index[o]}]
        /\ unsaved' = [unsaved EXCEPT ![o] = {e \in unsaved[o] : e > index[o]}]
        /\ head' = [head EXCEPT ![o] = index[o]]
        /\ tree' = tree /\ index' = index
    BY <1>7 DEF CommitStaged, Later
  <2>2. /\ saved'[o] = saved[o] \cup {index[o]} /\ head'[o] = index[o]
        /\ unsaved'[o] = {e \in unsaved[o] : e > index[o]}
        /\ \A o1 \in Owner \ {o} : /\ saved'[o1] = saved[o1] /\ unsaved'[o1] = unsaved[o1]
                                   /\ head'[o1] = head[o1]
    BY <1>0, <2>1 DEF HistoryTypeOK
  <2>3. /\ tree[o] \in saved[o] \/ tree[o] \in unsaved[o]
        /\ index[o] <= tree[o] /\ \A e \in unsaved[o] : e <= tree[o]
    BY <1>0 DEF Kept
  <2>4. tree[o] \in saved'[o] \/ tree[o] \in unsaved'[o]
    <3>1. CASE tree[o] = index[o]
      BY <2>2, <3>1
    <3>2. CASE tree[o] # index[o]
      BY <1>0, <2>2, <2>3, <3>2
    <3> QED BY <3>1, <3>2
  <2>5. tree[o] = index[o] => unsaved'[o] = {}
    BY <1>0, <2>2, <2>3
  <2> QED BY <1>0, <2>1, <2>2, <2>3, <2>4, <2>5 DEF Kept
<1>8. ASSUME NEW p \in Process, NEW o \in Owner, Reset(p, o) PROVE Kept'
  <2>1. PICK to : to = Running(p, o).to
    OBVIOUS
  <2>2. /\ tree' = [tree EXCEPT ![o] = to] /\ index' = [index EXCEPT ![o] = to]
        /\ head' = [head EXCEPT ![o] = to] /\ unsaved' = [unsaved EXCEPT ![o] = {}]
        /\ saved' = saved /\ queue[p][o] # <<>>
    BY <1>8, <2>1 DEF Reset
  <2>3. to \in saved[o] /\ to \in Nat
    <3>1. Running(p, o) \in Task /\ Running(p, o) = queue[p][o][1] /\ 1 \in DOMAIN queue[p][o]
      BY <1>0, <2>2, RunningIs
    <3> QED BY <2>1, <3>1 DEF Task, Content, HistoryIInv, TargetsSaved, Targets, TargetsAmong
  <2>4. /\ tree'[o] = to /\ index'[o] = to /\ unsaved'[o] = {}
        /\ \A o1 \in Owner \ {o} : /\ tree'[o1] = tree[o1] /\ index'[o1] = index[o1]
                                   /\ head'[o1] = head[o1] /\ unsaved'[o1] = unsaved[o1]
    BY <1>0, <2>2 DEF HistoryTypeOK
  <2> QED BY <1>0, <2>2, <2>3, <2>4 DEF Kept
<1>9. ASSUME NEW p \in Process, NEW o \in Owner, Revert(p, o) PROVE Kept'
  <2>1. /\ tree[o] = head[o]
        /\ tree' = [tree EXCEPT ![o] = edits + 1] /\ index' = [index EXCEPT ![o] = edits + 1]
        /\ head' = [head EXCEPT ![o] = edits + 1] /\ saved' = [saved EXCEPT ![o] = @ \cup {edits + 1}]
        /\ unsaved' = unsaved
    BY <1>9 DEF Revert
  <2>2. /\ tree'[o] = edits + 1 /\ index'[o] = edits + 1 /\ saved'[o] = saved[o] \cup {edits + 1}
        /\ \A o1 \in Owner \ {o} : /\ tree'[o1] = tree[o1] /\ index'[o1] = index[o1]
                                   /\ head'[o1] = head[o1] /\ saved'[o1] = saved[o1]
    BY <1>0, <2>1 DEF HistoryTypeOK
  <2>3. unsaved'[o] = {}
    BY <1>0, <2>1 DEF Kept
  <2> QED BY <1>0, <2>1, <2>2, <2>3 DEF Kept
<1>10. ASSUME NEW p \in Process, NEW o \in Owner,
              CommitFails(p, o) \/ RequestEnds(p, o) \/ RequestFails(p, o) \/ \E r \in Request : Ask(r, p, o)
       PROVE  Kept'
  BY <1>1, <1>10 DEF CommitFails, RequestEnds, RequestFails, Ask
<1>11. ASSUME NEW ps, Exit(ps) PROVE Kept'
  BY <1>1, <1>11 DEF Exit
<1>12. CASE UNCHANGED historyVars
  BY <1>1, <1>12 DEF historyVars
<1> QED BY <1>2, <1>3, <1>4, <1>5, <1>6, <1>7, <1>8, <1>9, <1>10, <1>11, <1>12 DEF HistoryNext, GitWork

-----------------------------------------------------------------------------
(* No change is forgotten.                                                 *)

Safe(o) ==
    \/ tree[o] \in saved[o]
    \/ pending[o] # NoCommit
    \/ HasQueued(queue, o)
    \/ index[o] = tree[o] /\ HasStarted(queue, o)
    \/ \E w \in Worker : <<w, o>> \in unreported
    \/ tree[o] \in missed[o]

LEMMA NothingForgottenIs ==
    /\ NothingForgotten <=> \A o \in Owner : Safe(o)
    /\ NothingForgotten' <=> \A o \in Owner : Safe(o)'
BY DEF NothingForgotten, Safe, Covered, Staged, HasQueued, HasStarted

\* A step that keeps the files, the commits made and the work to come keeps a
\* root safe.
LEMMA StaysSafe ==
    ASSUME NEW o \in Owner, Safe(o),
           tree'[o] = tree[o], index'[o] = index[o] \/ index'[o] = tree[o],
           saved[o] \subseteq saved'[o],
           pending[o] # NoCommit => pending'[o] # NoCommit \/ HasQueued(queue', o),
           HasQueued(queue, o) => HasQueued(queue', o),
           HasStarted(queue, o) => HasStarted(queue', o),
           \A w \in Worker : <<w, o>> \in unreported =>
              <<w, o>> \in unreported' \/ tree[o] \in missed'[o],
           missed[o] \subseteq missed'[o]
    PROVE  Safe(o)'
BY DEF Safe

\* What recording a change of the root o does, over the queues q (RecordIs).
Recorded(q, o) ==
    /\ Keeps(q, queue')
    /\ \A o1 \in Owner \ {o} : pending'[o1] = pending[o1] /\ missed'[o1] = missed[o1]
    /\ \A w \in Worker, o1 \in Owner : <<w, o1>> \in unreported => <<w, o1>> \in unreported'
    /\ \/ pending'[o] # NoCommit
       \/ HasQueued(queue', o)
       \/ tree'[o] \in missed'[o]
       \/ \E w \in Worker : <<w, o>> \in unreported'
    /\ TargetsAmong(q, saved) /\ 0 \in saved[o] => TargetsAmong(queue', saved)

LEMMA SavedStep == HistoryIInv /\ [HistoryNext]_historyVars => TargetsSaved' /\ NothingForgotten'
<1> SUFFICES ASSUME HistoryIInv, [HistoryNext]_historyVars PROVE TargetsSaved' /\ \A o \in Owner : Safe(o)'
  BY NothingForgottenIs
<1>0. /\ HistoryTypeOK /\ TargetsSaved /\ Kept /\ \A o \in Owner : Safe(o)
      /\ queue \in Queues /\ Primary \in Process /\ Primary \notin Worker
      /\ Targets(queue, req, saved) /\ TargetsAmong(queue, saved)
      /\ \A o \in Owner : 0 \in saved[o] /\ head[o] \in saved[o]
  BY NothingForgottenIs, HistoryAssumption
     DEF HistoryIInv, HistoryTypeOK, Queues, Process, HistoryAssumption, TargetsSaved, Targets
<1>a. ASSUME Tame(req'), TargetsAmong(queue', saved'), \A o \in Owner : saved[o] \subseteq saved'[o],
             \A o \in Owner : head'[o] \in saved'[o]
      PROVE  TargetsSaved'
  <2>1. ASSUME NEW r \in Request PROVE req'[r].to \in saved'[req'[r].owner]
    <3>1. req'[r].owner \in Owner /\ req[r].owner \in Owner
      BY <1>0, <1>a DEF Tame, Requests, RequestRecord, HistoryTypeOK
    <3>2. req[r].to \in saved[req[r].owner]
      BY <1>0 DEF Targets
    <3> QED BY <1>0, <1>a, <3>1, <3>2 DEF Tame
  <2> QED BY <1>0, <1>a, <2>1 DEF TargetsSaved, Targets
<1>b. req' = req => Tame(req')
  BY <1>0 DEF Tame, HistoryTypeOK, Requests, RequestRecord
<1>1. CASE HistoryTick
  <2>1. /\ queue' = queue /\ req' = req /\ saved' = saved /\ head' = head /\ tree' = tree /\ index' = index
        /\ unreported' = unreported /\ missed' = missed
    BY <1>1 DEF HistoryTick, gitVars
  <2>2. \A o \in Owner : pending[o] # NoCommit => pending'[o] # NoCommit
    <3>1. \A o \in Owner : pending[o] # NoCommit =>
             [due |-> pending[o].due - 1, waited |-> pending[o].waited + 1] \in Pending
      BY <1>0, <1>1 DEF HistoryTick, HistoryTypeOK, Pending
    <3>2. NoCommit \notin Pending
      BY HistoryAssumption DEF HistoryAssumption, Pending
    <3> QED BY <1>1, <3>1, <3>2 DEF HistoryTick
  <2>3. TargetsSaved'
    BY <1>0, <1>a, <1>b, <2>1
  <2>4. ASSUME NEW o \in Owner PROVE Safe(o)'
    BY <1>0, <2>1, <2>2 DEF Safe
  <2> QED BY <2>3, <2>4
<1>2. ASSUME NEW o \in Owner, TimerFires(o) PROVE TargetsSaved' /\ \A o1 \in Owner : Safe(o1)'
  <2>1. /\ req' = req /\ saved' = saved /\ head' = head /\ tree' = tree /\ index' = index
        /\ unreported' = unreported /\ missed' = missed
        /\ queue' = [queue EXCEPT ![Primary][o] = Append(@, CommitTask(NoRequest))]
        /\ pending' = [pending EXCEPT ![o] = NoCommit]
    BY <1>2 DEF TimerFires, gitVars
  <2>2. /\ CommitTask(NoRequest) \in Task /\ CommitTask(NoRequest).kind = "commit"
        /\ CommitTask(NoRequest).pc = "queued" /\ CommitTask(NoRequest).to = 0
    BY TasksAreTyped
  <2>3. Keeps(queue, queue') /\ HasQueued(queue', o) /\ TargetsAmong(queue', saved)
    BY <1>0, <2>1, <2>2, AppendKeeps
  <2>4. TargetsSaved'
    BY <1>0, <1>a, <1>b, <2>1, <2>3
  <2>5. ASSUME NEW o1 \in Owner PROVE Safe(o1)'
    <3>1. pending[o1] # NoCommit => pending'[o1] # NoCommit \/ HasQueued(queue', o1)
      BY <1>0, <2>1, <2>3 DEF HistoryTypeOK
    <3> QED BY <1>0, <2>1, <2>3, <3>1, StaysSafe DEF Keeps
  <2> QED BY <2>4, <2>5
<1>3. ASSUME NEW w \in Worker, NEW o \in Owner, Report(w, o) PROVE TargetsSaved' /\ \A o1 \in Owner : Safe(o1)'
  <2>1. /\ Schedule(queue, o)
        /\ req' = req /\ saved' = saved /\ head' = head /\ tree' = tree /\ index' = index
        /\ unreported' = unreported \ {<<w, o>>}
    BY <1>3 DEF Report, gitVars
  <2>2. /\ Keeps(queue, queue') /\ missed' = [missed EXCEPT ![o] = {}]
        /\ pending'[o] # NoCommit \/ HasQueued(queue', o)
        /\ \A o1 \in Owner \ {o} : pending'[o1] = pending[o1]
        /\ TargetsAmong(queue', saved)
    BY <1>0, <2>1, ScheduleIs
  <2>3. TargetsSaved'
    BY <1>0, <1>a, <1>b, <2>1, <2>2
  <2>4. ASSUME NEW o1 \in Owner PROVE Safe(o1)'
    <3>1. CASE o1 = o
      BY <2>2, <3>1 DEF Safe
    <3>2. CASE o1 # o
      <4>1. missed'[o1] = missed[o1]
        BY <1>0, <2>2, <3>2 DEF HistoryTypeOK
      <4>2. \A w1 \in Worker : <<w1, o1>> \in unreported => <<w1, o1>> \in unreported'
        BY <2>1, <3>2
      <4> QED BY <1>0, <2>1, <2>2, <3>2, <4>1, <4>2, StaysSafe DEF Keeps
    <3> QED BY <3>1, <3>2
  <2> QED BY <2>3, <2>4
<1>4. ASSUME NEW p \in Process, NEW o \in Owner, Edit(p, o) PROVE TargetsSaved' /\ \A o1 \in Owner : Safe(o1)'
  <2>1. /\ Record(queue, p, o, suppressed)
        /\ req' = req /\ saved' = saved /\ head' = head /\ index' = index
        /\ tree'[o] \in Content /\ \A o1 \in Owner \ {o} : tree'[o1] = tree[o1]
    BY <1>0, <1>4, EditTyped DEF Edit, HistoryTypeOK
  <2>2. Recorded(queue, o)
    BY <1>0, <2>1, RecordIs DEF Recorded
  <2>3. TargetsSaved'
    BY <1>0, <1>a, <1>b, <2>1, <2>2 DEF Recorded
  <2>4. ASSUME NEW o1 \in Owner PROVE Safe(o1)'
    <3>1. CASE o1 = o
      BY <2>2, <3>1 DEF Safe, Recorded
    <3>2. CASE o1 # o
      BY <1>0, <2>1, <2>2, <3>2, StaysSafe DEF Keeps, Recorded
    <3> QED BY <3>1, <3>2
  <2> QED BY <2>3, <2>4
<1>5. ASSUME NEW p \in Process, NEW o \in Owner, Stage(p, o) PROVE TargetsSaved' /\ \A o1 \in Owner : Safe(o1)'
  <2>1. /\ queue[p][o] # <<>> /\ Running(p, o).kind = "commit" /\ Running(p, o).pc = "queued"
        /\ saved' = saved /\ head' = head /\ tree' = tree /\ pending' = pending
        /\ unreported' = unreported /\ missed' = missed
        /\ index'[o] = tree[o] /\ \A o1 \in Owner \ {o} : index'[o1] = index[o1]
    BY <1>0, <1>5 DEF Stage, HistoryTypeOK
  <2>2. CASE tree[o] = head[o]
    <3>1. CommitEnds(p, o)
      BY <1>5, <2>2 DEF Stage
    <3>2. /\ Tame(req') /\ TargetsAmong(queue', saved)
          /\ \A o1 \in Owner : HasQueued(queue, o1) => HasQueued(queue', o1) \/ o1 = o
          /\ \A o1 \in Owner : HasStarted(queue, o1) => HasStarted(queue', o1)
      BY <1>0, <2>1, <3>1, CommitEndsIs
    <3>3. TargetsSaved'
      BY <1>0, <1>a, <2>1, <3>2
    <3>4. ASSUME NEW o1 \in Owner PROVE Safe(o1)'
      <4>1. CASE o1 = o
        BY <1>0, <2>1, <2>2, <4>1 DEF Safe
      <4>2. CASE o1 # o
        BY <1>0, <2>1, <3>2, <4>2, StaysSafe
      <4> QED BY <4>1, <4>2
    <3> QED BY <3>3, <3>4
  <2>3. CASE tree[o] # head[o]
    <3>1. /\ queue' = [queue EXCEPT ![p][o][1].pc = "started"] /\ req' = req
      BY <1>5, <2>3 DEF Stage
    <3>2. /\ TargetsAmong(queue', saved)
          /\ \A o1 \in Owner : HasQueued(queue, o1) =>
                HasQueued(queue', o1) \/ (p = Primary /\ o1 = o)
          /\ \A o1 \in Owner : HasStarted(queue, o1) => HasStarted(queue', o1)
          /\ p = Primary => HasStarted(queue', o)
      BY <1>0, <2>1, <3>1, StartKeeps
    <3>3. TargetsSaved'
      BY <1>0, <1>a, <1>b, <2>1, <3>1, <3>2
    <3>4. ASSUME NEW o1 \in Owner PROVE Safe(o1)'
      <4>1. CASE o1 = o /\ p = Primary
        BY <2>1, <3>2, <4>1 DEF Safe
      <4>2. CASE o1 # o \/ p # Primary
        <5>1. HasQueued(queue, o1) => HasQueued(queue', o1)
          BY <3>2, <4>2
        <5>2. index'[o1] = index[o1] \/ index'[o1] = tree[o1]
          BY <2>1
        <5> QED BY <1>0, <2>1, <3>2, <5>1, <5>2, StaysSafe
      <4> QED BY <4>1, <4>2
    <3> QED BY <3>3, <3>4
  <2> QED BY <2>2, <2>3
<1>6. ASSUME NEW p \in Process, NEW o \in Owner, CommitStaged(p, o)
      PROVE  TargetsSaved' /\ \A o1 \in Owner : Safe(o1)'
  <2>1. /\ queue[p][o] # <<>> /\ Running(p, o).kind = "commit" /\ Running(p, o).pc = "started"
        /\ CommitEnds(p, o)
        /\ tree' = tree /\ index' = index /\ pending' = pending
        /\ unreported' = unreported /\ missed' = missed
        /\ saved'[o] = saved[o] \cup {index[o]} /\ head'[o] = index[o]
        /\ \A o1 \in Owner \ {o} : saved'[o1] = saved[o1] /\ head'[o1] = head[o1]
    BY <1>0, <1>6 DEF CommitStaged, HistoryTypeOK
  <2>2. Targets(queue, req, saved')
    BY <1>0, <2>1 DEF Targets, TargetsAmong, HistoryTypeOK
  <2>3. /\ Tame(req') /\ TargetsAmong(queue', saved')
        /\ \A o1 \in Owner : HasQueued(queue, o1) => HasQueued(queue', o1)
        /\ \A o1 \in Owner : HasStarted(queue, o1) => HasStarted(queue', o1) \/ o1 = o
    BY <1>0, <2>1, <2>2, CommitEndsIs
  <2>4. TargetsSaved'
    BY <1>0, <1>a, <2>1, <2>3
  <2>5. ASSUME NEW o1 \in Owner PROVE Safe(o1)'
    BY <1>0, <2>1, <2>3 DEF Safe
  <2> QED BY <2>4, <2>5
<1>7. ASSUME NEW p \in Process, NEW o \in Owner, CommitFails(p, o)
      PROVE  TargetsSaved' /\ \A o1 \in Owner : Safe(o1)'
  <2>1. /\ queue[p][o] # <<>> /\ queue' = Done(p, o)
        /\ saved' = saved /\ head' = head /\ tree' = tree /\ index' = index /\ pending' = pending
        /\ unreported' = unreported
        /\ missed' = IF Covered(Done(p, o), o) THEN missed ELSE [missed EXCEPT ![o] = @ \cup unsaved[o]]
    BY <1>7 DEF CommitFails, gitVars
  <2>2. Running(p, o).who \in Request \cup {NoRequest}
    BY <1>0, <2>1, RunningIs DEF Task
  <2>3. Tame(req')
    BY <1>0, <1>7, <2>2, EndIsTame DEF CommitFails
  <2>4. /\ TargetsAmong(queue', saved)
        /\ \A o1 \in Owner : HasQueued(queue, o1) => HasQueued(queue', o1) \/ o1 = o
        /\ \A o1 \in Owner : HasStarted(queue, o1) => HasStarted(queue', o1) \/ o1 = o
    BY <1>0, <2>1, DoneKeeps
  <2>5. TargetsSaved'
    BY <1>0, <1>a, <2>1, <2>3, <2>4
  <2>6. ASSUME NEW o1 \in Owner PROVE Safe(o1)'
    <3>1. CASE o1 = o
      <4>1. pending'[o] # NoCommit \/ HasQueued(queue', o) \/ unsaved[o] \subseteq missed'[o]
        <5>1. CASE Covered(Done(p, o), o)
          BY <2>1, <5>1 DEF Covered, HasQueued
        <5>2. CASE ~Covered(Done(p, o), o)
          BY <1>0, <2>1, <5>2 DEF HistoryTypeOK
        <5> QED BY <5>1, <5>2
      <4>2. tree[o] \in saved[o] \/ tree[o] \in unsaved[o]
        BY <1>0 DEF Kept
      <4> QED BY <2>1, <3>1, <4>1, <4>2 DEF Safe
    <3>2. CASE o1 # o
      <4>1. missed'[o1] = missed[o1]
        BY <1>0, <2>1, <3>2 DEF HistoryTypeOK
      <4> QED BY <1>0, <2>1, <2>4, <3>2, <4>1, StaysSafe
    <3> QED BY <3>1, <3>2
  <2> QED BY <2>5, <2>6
<1>8. ASSUME NEW p \in Process, NEW o \in Owner, Reset(p, o) PROVE TargetsSaved' /\ \A o1 \in Owner : Safe(o1)'
  <2>1. /\ queue[p][o] # <<>> /\ Running(p, o).kind = "rollback"
        /\ queue' = [queue EXCEPT ![p][o][1].pc = "started"]
        /\ req' = req
        /\ saved' = saved /\ pending' = pending /\ unreported' = unreported /\ missed' = missed
        /\ tree'[o] = Running(p, o).to /\ head'[o] = Running(p, o).to
        /\ \A o1 \in Owner \ {o} : tree'[o1] = tree[o1] /\ index'[o1] = index[o1] /\ head'[o1] = head[o1]
    BY <1>0, <1>8 DEF Reset, HistoryTypeOK
  <2>2. Running(p, o).to \in saved[o]
    <3>1. /\ Running(p, o) = queue[p][o][1] /\ 1 \in DOMAIN queue[p][o]
      BY <1>0, <2>1, RunningIs
    <3> QED BY <1>0, <3>1 DEF TargetsAmong
  <2>3. Tame(req')
    BY <1>b, <2>1
  <2>4. /\ TargetsAmong(queue', saved)
        /\ \A o1 \in Owner : HasQueued(queue, o1) => HasQueued(queue', o1)
        /\ \A o1 \in Owner : HasStarted(queue, o1) => HasStarted(queue', o1)
    BY <1>0, <2>1, StartKeeps
  <2>5. TargetsSaved'
    BY <1>0, <1>a, <2>1, <2>2, <2>3, <2>4
  <2>6. ASSUME NEW o1 \in Owner PROVE Safe(o1)'
    <3>1. CASE o1 = o
      BY <2>1, <2>2, <3>1 DEF Safe
    <3>2. CASE o1 # o
      BY <1>0, <2>1, <2>4, <3>2, StaysSafe
    <3> QED BY <3>1, <3>2
  <2> QED BY <2>5, <2>6
<1>9. ASSUME NEW p \in Process, NEW o \in Owner, Revert(p, o) PROVE TargetsSaved' /\ \A o1 \in Owner : Safe(o1)'
  <2>1. /\ queue[p][o] # <<>> /\ Running(p, o).kind = "revert"
        /\ queue' = [queue EXCEPT ![p][o][1].pc = "started"]
        /\ req' = req /\ pending' = pending /\ unreported' = unreported /\ missed' = missed
        /\ tree'[o] = edits + 1 /\ head'[o] = edits + 1 /\ saved'[o] = saved[o] \cup {edits + 1}
        /\ \A o1 \in Owner \ {o} : tree'[o1] = tree[o1] /\ index'[o1] = index[o1] /\ head'[o1] = head[o1]
                                   /\ saved'[o1] = saved[o1]
    BY <1>0, <1>9 DEF Revert, HistoryTypeOK
  <2>2. TargetsAmong(queue, saved')
    BY <1>0, <2>1 DEF TargetsAmong
  <2>3. /\ TargetsAmong(queue', saved')
        /\ \A o1 \in Owner : HasQueued(queue, o1) => HasQueued(queue', o1)
        /\ \A o1 \in Owner : HasStarted(queue, o1) => HasStarted(queue', o1)
    BY <1>0, <2>1, <2>2, StartKeeps
  <2>4. TargetsSaved'
    BY <1>0, <1>a, <1>b, <2>1, <2>3
  <2>5. ASSUME NEW o1 \in Owner PROVE Safe(o1)'
    <3>1. CASE o1 = o
      BY <2>1, <3>1 DEF Safe
    <3>2. CASE o1 # o
      BY <1>0, <2>1, <2>3, <3>2, StaysSafe
    <3> QED BY <3>1, <3>2
  <2> QED BY <2>4, <2>5
<1>10. ASSUME NEW p \in Process, NEW o \in Owner, RequestEnds(p, o)
       PROVE  TargetsSaved' /\ \A o1 \in Owner : Safe(o1)'
  <2>1. /\ queue[p][o] # <<>> /\ Running(p, o).kind # "commit"
        /\ Record(Done(p, o), p, o, suppressed')
        /\ req' = [req EXCEPT ![Running(p, o).who] = NoHistoryRequest]
        /\ tree' = tree /\ index' = index /\ head' = head /\ saved' = saved /\ tree'[o] \in Content
    BY <1>0, <1>10 DEF RequestEnds, gitVars, HistoryTypeOK
  <2>2. Running(p, o).who \in Request \cup {NoRequest}
    BY <1>0, <2>1, RunningIs DEF Task
  <2>3. Tame(req')
    BY <1>0, <2>1, <2>2, EndIsTame
  <2>4. /\ Done(p, o) \in Queues /\ TargetsAmong(Done(p, o), saved)
        /\ \A o1 \in Owner : HasQueued(queue, o1) => HasQueued(Done(p, o), o1)
        /\ \A o1 \in Owner : HasStarted(queue, o1) => HasStarted(Done(p, o), o1)
    BY <1>0, <2>1, DoneKeeps
  <2>5. Recorded(Done(p, o), o)
    BY <1>0, <2>1, <2>4, RecordIs DEF Recorded
  <2>6. TargetsSaved'
    BY <1>0, <1>a, <2>1, <2>3, <2>4, <2>5 DEF Recorded
  <2>7. ASSUME NEW o1 \in Owner PROVE Safe(o1)'
    <3>1. CASE o1 = o
      BY <2>5, <3>1 DEF Safe, Recorded
    <3>2. CASE o1 # o
      BY <1>0, <2>1, <2>4, <2>5, <3>2, StaysSafe DEF Keeps, Recorded
    <3> QED BY <3>1, <3>2
  <2> QED BY <2>6, <2>7
<1>11. ASSUME NEW p \in Process, NEW o \in Owner, RequestFails(p, o)
       PROVE  TargetsSaved' /\ \A o1 \in Owner : Safe(o1)'
  <2>1. /\ queue[p][o] # <<>> /\ Running(p, o).kind # "commit" /\ queue' = Done(p, o)
        /\ req' = [req EXCEPT ![Running(p, o).who] = NoHistoryRequest]
        /\ tree' = tree /\ index' = index /\ head' = head /\ saved' = saved
        /\ pending' = pending /\ unreported' = unreported /\ missed' = missed
    BY <1>11 DEF RequestFails, gitVars
  <2>2. Running(p, o).who \in Request \cup {NoRequest}
    BY <1>0, <2>1, RunningIs DEF Task
  <2>3. Tame(req')
    BY <1>0, <2>1, <2>2, EndIsTame
  <2>4. /\ TargetsAmong(queue', saved)
        /\ \A o1 \in Owner : HasQueued(queue, o1) => HasQueued(queue', o1)
        /\ \A o1 \in Owner : HasStarted(queue, o1) => HasStarted(queue', o1)
    BY <1>0, <2>1, DoneKeeps
  <2>5. TargetsSaved'
    BY <1>0, <1>a, <2>1, <2>3, <2>4
  <2>6. ASSUME NEW o1 \in Owner PROVE Safe(o1)'
    BY <1>0, <2>1, <2>4, StaysSafe
  <2> QED BY <2>5, <2>6
<1>12. ASSUME NEW p \in Process, NEW o \in Owner, NEW r \in Request, Ask(r, p, o)
       PROVE  TargetsSaved' /\ \A o1 \in Owner : Safe(o1)'
  <2>1. AskIs(r, p, o)
    BY <1>0, <1>12, AskDoes
  <2>2. /\ tree' = tree /\ index' = index /\ head' = head /\ saved' = saved
        /\ unreported' = unreported /\ missed' = missed
    BY <1>12 DEF Ask, gitVars
  <2>3. TargetsSaved'
    BY <1>0, <2>1, <2>2 DEF AskIs, TargetsSaved
  <2>4. ASSUME NEW o1 \in Owner PROVE Safe(o1)'
    BY <1>0, <2>1, <2>2, StaysSafe DEF AskIs, Keeps
  <2> QED BY <2>3, <2>4
<1>13. ASSUME NEW ps \in SUBSET Process, Exit(ps) PROVE TargetsSaved' /\ \A o1 \in Owner : Safe(o1)'
  <2>1. /\ queue' = [p \in Process |-> IF p \in ps THEN NoTask ELSE queue[p]]
        /\ req' = [r \in Request |-> IF req[r].at \in ps THEN NoHistoryRequest ELSE req[r]]
        /\ tree' = tree /\ index' = index /\ head' = head /\ saved' = saved
        /\ unreported' = {u \in unreported : u[1] \notin ps}
    BY <1>13 DEF Exit, gitVars
  <2>2. Tame(req')
    BY <1>0, <2>1, NoHistoryRequestIsTyped DEF Tame, Requests, RequestRecord, HistoryTypeOK
  <2>3. TargetsAmong(queue', saved)
    BY <1>0, <2>1 DEF TargetsAmong, NoTask
  <2>4. TargetsSaved'
    BY <1>0, <1>a, <2>1, <2>2, <2>3
  <2>5. CASE Primary \in ps
    <3>1. missed' = [o \in Owner |-> missed[o] \cup unsaved[o]]
      BY <1>13, <2>5 DEF Exit
    <3>2. \A o \in Owner : tree[o] \in saved[o] \/ tree[o] \in unsaved[o]
      BY <1>0 DEF Kept
    <3> QED BY <2>1, <2>4, <3>1, <3>2 DEF Safe
  <2>6. CASE Primary \notin ps
    <3>1. /\ pending' = pending /\ queue'[Primary] = queue[Primary]
          /\ missed' = [o \in Owner |-> IF \E w \in ps : <<w, o>> \in unreported
                                        THEN missed[o] \cup unsaved[o] ELSE missed[o]]
      BY <1>0, <1>13, <2>1, <2>6 DEF Exit
    <3>2. ASSUME NEW o \in Owner PROVE Safe(o)'
      <4>1. /\ HasQueued(queue, o) => HasQueued(queue', o)
            /\ HasStarted(queue, o) => HasStarted(queue', o)
        BY <3>1 DEF HasQueued, HasStarted
      <4>2. missed[o] \subseteq missed'[o]
        BY <3>1
      <4>3. CASE tree[o] \in saved[o]
        BY <2>1, <4>3 DEF Safe
      <4>4. CASE tree[o] \in unsaved[o]
        <5>1. \A w \in Worker : <<w, o>> \in unreported => <<w, o>> \in unreported' \/ tree[o] \in missed'[o]
          BY <2>1, <3>1, <4>4
        <5> QED BY <1>0, <2>1, <3>1, <4>1, <4>2, <5>1, StaysSafe
      <4> QED BY <1>0, <4>3, <4>4 DEF Kept
    <3> QED BY <2>4, <3>2
  <2> QED BY <2>5, <2>6
<1>14. CASE UNCHANGED historyVars
  BY <1>0, <1>14 DEF historyVars, gitVars, TargetsSaved, Targets, TargetsAmong, Safe, HasQueued, HasStarted
<1>15. ASSUME NEW w \in Worker, Exit({w}) PROVE TargetsSaved' /\ \A o1 \in Owner : Safe(o1)'
  BY <1>13, <1>15 DEF Process
<1> QED BY <1>1, <1>2, <1>3, <1>4, <1>5, <1>6, <1>7, <1>8, <1>9, <1>10, <1>11, <1>12, <1>13, <1>14, <1>15
        DEF HistoryNext, GitWork

LEMMA HistoryStarts == HistoryInit => HistoryIInv
<1> SUFFICES ASSUME HistoryInit PROVE HistoryIInv
  OBVIOUS
<1>1. 0 \in Content /\ MaxRequests \in Nat /\ MaxFaults \in Nat /\ Runtime \subseteq {"single", "cluster"}
  BY HistoryAssumption DEF HistoryAssumption, Content
<1>2. NoTask \in [Owner -> Seq(Task)] /\ \A o \in Owner : NoTask[o] = <<>>
  BY DEF NoTask
<1>3. HistoryTypeOK
  BY <1>1, <1>2, NoHistoryRequestIsTyped DEF HistoryInit, HistoryTypeOK, RequestRecord
<1>4. TargetsSaved
  <2>1. \A r \in Request : req[r].to = 0 /\ req[r].owner \in Owner
    BY NoHistoryRequestIsTyped DEF HistoryInit, RequestRecord
  <2> QED BY <1>2, <2>1 DEF HistoryInit, TargetsSaved, Targets, TargetsAmong
<1>5. NothingForgotten
  BY DEF HistoryInit, NothingForgotten
<1>6. Numbered /\ Kept
  BY DEF HistoryInit, Numbered, Kept, NoHistoryRequest
<1> QED BY <1>3, <1>4, <1>5, <1>6 DEF HistoryIInv

-----------------------------------------------------------------------------

\* The state and the queues of the history keep their types (git_history.js and
\* the repository queues of native_handler.js).
THEOREM HistoryTypeCorrect == HistorySpec => []HistoryTypeOK
<1>1. HistoryInit => HistoryTypeOK
  BY HistoryStarts DEF HistoryIInv
<1> QED BY <1>1, TypeStep, PTL DEF HistorySpec

\* A pending commit waits a bounded time, however steadily its root changes, for
\* any thresholds ordered as the code's are (resolveGitHistoryDebounceMs).
THEOREM CommitsAreNotPutOff == HistorySpec => []WaitIsBounded
<1>1. HistoryInit => HistoryTypeOK /\ WaitIsBounded
  BY HistoryStarts DEF HistoryIInv, HistoryInit, WaitIsBounded
<1>2. HistoryTypeOK /\ WaitIsBounded /\ [HistoryNext]_historyVars => HistoryTypeOK' /\ WaitIsBounded'
  BY TypeStep, WaitStep
<1> QED BY <1>1, <1>2, PTL DEF HistorySpec

\* No change is forgotten but for the exceptions NothingForgotten names.
THEOREM ChangesAreRemembered == HistorySpec => []NothingForgotten
<1>1. HistoryInit => HistoryIInv
  BY HistoryStarts
<1>2. HistoryIInv /\ [HistoryNext]_historyVars => HistoryIInv'
  BY TypeStep, NumberedStep, KeptStep, SavedStep DEF HistoryIInv
<1>3. HistoryIInv => NothingForgotten
  BY DEF HistoryIInv
<1> QED BY <1>1, <1>2, <1>3, PTL DEF HistorySpec

-----------------------------------------------------------------------------
(* What a rollback can count on, in a server that schedules its own commits:*)
(* every change it would lose is missed, or has a commit to come, and every *)
(* such commit is ahead of it, unless it was asked for after its own flush. *)

\* The commit c of a root with x staged will hold the change e.
WillSave(c, e, x) == c.kind = "commit" /\ (c.pc = "started" => e <= x)

\* The work s of the root o: only the first task has started, a request has one task
\* at most, on its own root, and a rollback or revert has history suppressed (H).
Shaped(s, rq, H, o) ==
    \A k \in DOMAIN s :
        /\ s[k].pc = "started" => k = 1
        /\ s[k].kind # "commit" => s[k].who \in H
        /\ s[k].who \in Request =>
              /\ rq[s[k].who].pc # "idle"
              /\ rq[s[k].who].owner = o
              /\ \A j \in DOMAIN s : s[j].who = s[k].who => j = k

\* Each of the changes U is missed, or the pending commit d or one of s will hold it.
Minded(s, U, M, d, x) ==
    \A e \in U : e \in M \/ d # NoCommit \/ \E i \in DOMAIN s : WillSave(s[i], e, x)

\* A request that waits for its flush finds what it was asked with staged.  A rollback
\* or revert finds of the changes U only later ones, or has every commit ahead of it.
Waiting(s, rq, U, d, x) ==
    \A k \in DOMAIN s : s[k].who \in Request =>
        /\ s[k].kind = "commit" /\ s[k].pc = "started" =>
              \A e \in U : e > rq[s[k].who].asked \/ e <= x
        /\ s[k].kind # "commit" =>
              \/ \A e \in U : e > rq[s[k].who].asked
              \/ d = NoCommit /\ \A j \in DOMAIN s : s[j].kind = "commit" => j < k

Sound(s, rq, H, U, M, d, x, o) ==
    Shaped(s, rq, H, o) /\ Minded(s, U, M, d, x) /\ Waiting(s, rq, U, d, x)

\* Only the scheduling process has work.
Alone ==
    /\ \A w \in Worker, o \in Owner : queue[w][o] = <<>>
    /\ unreported = {}
    /\ \A r \in Request : req[r].at = Primary

Promises ==
    \A o \in Owner : Sound(queue[Primary][o], req, suppressed, unsaved[o], missed[o],
                           pending[o], index[o], o)

RollbackIInv == HistoryIInv /\ (runtime = "single" => Alone /\ Promises)

-----------------------------------------------------------------------------
(* The work of one root.                                                    *)

\* A task joins the work: its request has no other.
LEMMA AppendShaped ==
    ASSUME NEW s \in Seq(Task), NEW c \in Task, NEW rq, NEW H, NEW o,
           Shaped(s, rq, H, o), c.pc = "queued",
           c.kind # "commit" => c.who \in H,
           c.who \in Request =>
              /\ rq[c.who].pc # "idle" /\ rq[c.who].owner = o
              /\ \A k \in DOMAIN s : s[k].who # c.who
    PROVE  Shaped(Append(s, c), rq, H, o)
<1> DEFINE n == Len(s) + 1
<1>1. PICK s2 : s2 = Append(s, c)
  OBVIOUS
<1>2. /\ Len(s) \in Nat /\ DOMAIN s = 1 .. Len(s) /\ DOMAIN s2 = 1 .. n
      /\ \A i \in 1 .. Len(s) : s2[i] = s[i]
      /\ s2[n] = c
  BY <1>1
<1>3. \A k \in DOMAIN s2 : k = n \/ (k \in DOMAIN s /\ s2[k] = s[k])
  BY <1>2
<1>4. Shaped(s2, rq, H, o)
  <2> SUFFICES ASSUME NEW k \in DOMAIN s2
               PROVE  /\ s2[k].pc = "started" => k = 1
                      /\ s2[k].kind # "commit" => s2[k].who \in H
                      /\ s2[k].who \in Request =>
                            /\ rq[s2[k].who].pc # "idle"
                            /\ rq[s2[k].who].owner = o
                            /\ \A j \in DOMAIN s2 : s2[j].who = s2[k].who => j = k
    BY DEF Shaped
  <2>1. CASE k = n
    BY <1>2, <1>3, <2>1
  <2>2. CASE k \in DOMAIN s /\ s2[k] = s[k]
    <3>1. s[k].who \in Request =>
             /\ rq[s[k].who].pc # "idle" /\ rq[s[k].who].owner = o
             /\ \A j \in DOMAIN s : s[j].who = s[k].who => j = k
      BY <2>2 DEF Shaped
    <3>2. /\ s[k].pc = "started" => k = 1
          /\ s[k].kind # "commit" => s[k].who \in H
      BY <2>2 DEF Shaped
    <3>3. s[k].who \in Request => s[k].who # c.who
      BY <2>2
    <3>4. ASSUME s[k].who \in Request, NEW j \in DOMAIN s2, s2[j].who = s[k].who PROVE j = k
      <4>1. j # n
        BY <1>2, <3>3, <3>4
      <4>2. j \in DOMAIN s /\ s2[j] = s[j]
        BY <1>3, <4>1
      <4> QED BY <3>1, <3>4, <4>2
    <3> QED BY <2>2, <3>1, <3>2, <3>4
  <2> QED BY <1>3, <2>1, <2>2
<1> QED BY <1>1, <1>4

\* A commit joins the work: it will hold every change.  No rollback or revert counts
\* on there being none behind it: one was pending, or none is under way.
LEMMA CommitJoins ==
    ASSUME NEW s \in Seq(Task), NEW c \in Task, NEW rq, NEW H \in SUBSET Request, NEW o,
           NEW U, NEW M, NEW d, NEW d2, NEW x,
           Shaped(s, rq, H, o), Waiting(s, rq, U, d, x),
           c.kind = "commit", c.pc = "queued", d # NoCommit \/ H = {},
           c.who \in Request =>
              /\ rq[c.who].pc # "idle" /\ rq[c.who].owner = o
              /\ \A k \in DOMAIN s : s[k].who # c.who
    PROVE  Sound(Append(s, c), rq, H, U, M, d2, x, o)
<1> DEFINE n == Len(s) + 1
<1>1. PICK s2 : s2 = Append(s, c)
  OBVIOUS
<1>2. /\ Len(s) \in Nat /\ DOMAIN s = 1 .. Len(s) /\ DOMAIN s2 = 1 .. n
      /\ \A i \in 1 .. Len(s) : s2[i] = s[i]
      /\ s2[n] = c
  BY <1>1
<1>3. \A k \in DOMAIN s2 : k = n \/ (k \in DOMAIN s /\ s2[k] = s[k])
  BY <1>2
<1>4. Shaped(s2, rq, H, o)
  BY <1>1, AppendShaped
<1>5. Minded(s2, U, M, d2, x)
  <2>1. \A e \in U : WillSave(s2[n], e, x)
    BY <1>2 DEF WillSave
  <2>2. n \in DOMAIN s2
    BY <1>2
  <2> QED BY <2>1, <2>2 DEF Minded
<1>6. Waiting(s2, rq, U, d2, x)
  <2> SUFFICES ASSUME NEW k \in DOMAIN s2, s2[k].who \in Request
               PROVE  /\ s2[k].kind = "commit" /\ s2[k].pc = "started" =>
                            \A e \in U : e > rq[s2[k].who].asked \/ e <= x
                      /\ s2[k].kind # "commit" => \A e \in U : e > rq[s2[k].who].asked
    BY DEF Waiting
  <2>1. CASE k = n
    BY <1>2, <2>1
  <2>2. CASE k \in DOMAIN s /\ s2[k] = s[k]
    <3>1. s[k].kind # "commit" => s[k].who \in H
      BY <2>2 DEF Shaped
    <3> QED BY <2>2, <3>1 DEF Waiting
  <2> QED BY <1>3, <2>1, <2>2
<1> QED BY <1>1, <1>4, <1>5, <1>6 DEF Sound

\* A rollback or revert joins the work: what was asked with is committed, or every
\* commit that will hold it is ahead.
LEMMA RequestJoins ==
    ASSUME NEW s \in Seq(Task), NEW c \in Task, NEW rq, NEW H \in SUBSET Request, NEW o,
           NEW U, NEW M, NEW d, NEW x,
           Sound(s, rq, H, U, M, d, x, o),
           c.kind # "commit", c.pc = "queued", c.who \in H,
           rq[c.who].pc # "idle", rq[c.who].owner = o,
           \A k \in DOMAIN s : s[k].who # c.who,
           d = NoCommit \/ \A e \in U : e > rq[c.who].asked
    PROVE  Sound(Append(s, c), rq, H, U, M, d, x, o)
<1> DEFINE n == Len(s) + 1
<1>1. PICK s2 : s2 = Append(s, c)
  OBVIOUS
<1>2. /\ Len(s) \in Nat /\ DOMAIN s = 1 .. Len(s) /\ DOMAIN s2 = 1 .. n
      /\ \A i \in 1 .. Len(s) : s2[i] = s[i]
      /\ s2[n] = c
  BY <1>1
<1>3. \A k \in DOMAIN s2 : k = n \/ (k \in DOMAIN s /\ s2[k] = s[k])
  BY <1>2
<1>4. Shaped(s, rq, H, o) /\ Minded(s, U, M, d, x) /\ Waiting(s, rq, U, d, x)
  BY DEF Sound
<1>5. Shaped(s2, rq, H, o)
  BY <1>1, <1>4, AppendShaped
<1>6. Minded(s2, U, M, d, x)
  <2>1. \A i \in DOMAIN s : i \in DOMAIN s2 /\ s2[i] = s[i]
    BY <1>2
  <2> QED BY <1>4, <2>1 DEF Minded
<1>7. Waiting(s2, rq, U, d, x)
  <2> SUFFICES ASSUME NEW k \in DOMAIN s2, s2[k].who \in Request
               PROVE  /\ s2[k].kind = "commit" /\ s2[k].pc = "started" =>
                            \A e \in U : e > rq[s2[k].who].asked \/ e <= x
                      /\ s2[k].kind # "commit" =>
                            \/ \A e \in U : e > rq[s2[k].who].asked
                            \/ d = NoCommit /\ \A j \in DOMAIN s2 : s2[j].kind = "commit" => j < k
    BY DEF Waiting
  <2>0. \A j \in DOMAIN s2 : s2[j].kind = "commit" => j \in DOMAIN s /\ s2[j] = s[j]
    BY <1>2, <1>3
  <2>1. CASE k = n
    <3>1. \A j \in DOMAIN s : j < n
      BY <1>2
    <3> QED BY <1>2, <2>0, <2>1, <3>1
  <2>2. CASE k \in DOMAIN s /\ s2[k] = s[k]
    BY <1>4, <2>0, <2>2 DEF Waiting
  <2> QED BY <1>3, <2>1, <2>2
<1> QED BY <1>1, <1>5, <1>6, <1>7 DEF Sound

\* The first task leaves: what it would have held is not among the changes left.
LEMMA TailMinded ==
    ASSUME NEW s \in Seq(Task), s # <<>>, NEW rq, NEW H, NEW o,
           NEW U, NEW U2 \in SUBSET U, NEW M, NEW d, NEW x, NEW x2,
           Shaped(s, rq, H, o), Minded(s, U, M, d, x),
           \A e \in U2 : ~WillSave(s[1], e, x)
    PROVE  Minded(Tail(s), U2, M, d, x2)
<1>1. PICK s2 : s2 = Tail(s)
  OBVIOUS
<1>2. /\ Len(s) \in Nat \ {0} /\ DOMAIN s = 1 .. Len(s) /\ DOMAIN s2 = 1 .. (Len(s) - 1)
      /\ \A i \in 1 .. (Len(s) - 1) : s2[i] = s[i + 1]
  BY <1>1
<1>3. \A i \in DOMAIN s : i # 1 => i - 1 \in DOMAIN s2 /\ s2[i - 1] = s[i]
  BY <1>2
<1>4. Minded(s2, U2, M, d, x2)
  <2> SUFFICES ASSUME NEW e \in U2, e \notin M, d = NoCommit
               PROVE  \E i \in DOMAIN s2 : WillSave(s2[i], e, x2)
    BY DEF Minded
  <2>1. PICK i \in DOMAIN s : WillSave(s[i], e, x)
    BY DEF Minded
  <2>2. i # 1
    BY <2>1
  <2>3. s[i].pc # "started"
    BY <2>2 DEF Shaped
  <2>4. WillSave(s2[i - 1], e, x2) /\ i - 1 \in DOMAIN s2
    BY <1>3, <2>1, <2>2, <2>3 DEF WillSave
  <2> QED BY <2>4
<1> QED BY <1>1, <1>4

LEMMA TailSound ==
    ASSUME NEW s \in Seq(Task), s # <<>>, NEW rq, NEW H, NEW o,
           NEW U, NEW U2 \in SUBSET U, NEW M2, NEW d, NEW x, NEW x2,
           Shaped(s, rq, H, o), Waiting(s, rq, U, d, x), Minded(Tail(s), U2, M2, d, x2)
    PROVE  /\ Sound(Tail(s), rq, H, U2, M2, d, x2, o)
           /\ s[1].who \in Request => \A k \in DOMAIN Tail(s) : Tail(s)[k].who # s[1].who
<1>1. PICK s2 : s2 = Tail(s)
  OBVIOUS
<1>2. /\ Len(s) \in Nat \ {0} /\ DOMAIN s = 1 .. Len(s) /\ DOMAIN s2 = 1 .. (Len(s) - 1)
      /\ \A i \in 1 .. (Len(s) - 1) : s2[i] = s[i + 1]
  BY <1>1
<1>3. /\ 1 \in DOMAIN s
      /\ \A k \in DOMAIN s2 : k \in Nat /\ k + 1 \in DOMAIN s /\ k + 1 # 1 /\ s2[k] = s[k + 1]
  BY <1>2
<1>4. Shaped(s2, rq, H, o)
  <2> SUFFICES ASSUME NEW k \in DOMAIN s2
               PROVE  /\ s2[k].pc = "started" => k = 1
                      /\ s2[k].kind # "commit" => s2[k].who \in H
                      /\ s2[k].who \in Request =>
                            /\ rq[s2[k].who].pc # "idle"
                            /\ rq[s2[k].who].owner = o
                            /\ \A j \in DOMAIN s2 : s2[j].who = s2[k].who => j = k
    BY DEF Shaped
  <2>1. k \in Nat /\ k + 1 \in DOMAIN s /\ k + 1 # 1 /\ s2[k] = s[k + 1]
    BY <1>3
  <2>2. s2[k].pc # "started" /\ (s2[k].kind # "commit" => s2[k].who \in H)
    BY <2>1 DEF Shaped
  <2>3. ASSUME s2[k].who \in Request, NEW j \in DOMAIN s2, s2[j].who = s2[k].who PROVE j = k
    <3>1. j + 1 \in DOMAIN s /\ s2[j] = s[j + 1] /\ j \in Nat
      BY <1>3
    <3>2. j + 1 = k + 1
      BY <2>1, <2>3, <3>1 DEF Shaped
    <3> QED BY <2>1, <3>1, <3>2
  <2>4. s2[k].who \in Request => rq[s2[k].who].pc # "idle" /\ rq[s2[k].who].owner = o
    BY <2>1 DEF Shaped
  <2> QED BY <2>2, <2>3, <2>4
<1>5. Waiting(s2, rq, U2, d, x2)
  <2> SUFFICES ASSUME NEW k \in DOMAIN s2, s2[k].who \in Request
               PROVE  /\ s2[k].kind = "commit" /\ s2[k].pc = "started" =>
                            \A e \in U2 : e > rq[s2[k].who].asked \/ e <= x2
                      /\ s2[k].kind # "commit" =>
                            \/ \A e \in U2 : e > rq[s2[k].who].asked
                            \/ d = NoCommit /\ \A j \in DOMAIN s2 : s2[j].kind = "commit" => j < k
    BY DEF Waiting
  <2>1. k \in Nat /\ k + 1 \in DOMAIN s /\ k + 1 # 1 /\ s2[k] = s[k + 1]
    BY <1>3
  <2>2. s2[k].pc # "started"
    BY <2>1 DEF Shaped
  <2>3. ASSUME s2[k].kind # "commit"
        PROVE  \/ \A e \in U2 : e > rq[s2[k].who].asked
               \/ d = NoCommit /\ \A j \in DOMAIN s2 : s2[j].kind = "commit" => j < k
    <3>1. \/ \A e \in U : e > rq[s[k + 1].who].asked
          \/ d = NoCommit /\ \A j \in DOMAIN s : s[j].kind = "commit" => j < k + 1
      BY <2>1, <2>3 DEF Waiting
    <3>2. ASSUME \A j \in DOMAIN s : s[j].kind = "commit" => j < k + 1,
                 NEW j \in DOMAIN s2, s2[j].kind = "commit"
          PROVE  j < k
      <4>1. j \in Nat /\ j + 1 \in DOMAIN s /\ s2[j] = s[j + 1]
        BY <1>3
      <4>2. j + 1 < k + 1
        BY <3>2, <4>1
      <4> QED BY <2>1, <4>1, <4>2
    <3> QED BY <2>1, <3>1, <3>2
  <2> QED BY <2>2, <2>3
<1>6. ASSUME s[1].who \in Request, NEW k \in DOMAIN s2 PROVE s2[k].who # s[1].who
  BY <1>3, <1>6 DEF Shaped
<1> QED BY <1>1, <1>4, <1>5, <1>6 DEF Sound

\* The first task starts, and nothing else of the work changes.
LEMMA StartIs ==
    ASSUME NEW s \in Seq(Task), s # <<>>
    PROVE  LET s2 == [s EXCEPT ![1].pc = "started"]
           IN /\ s2 \in Seq(Task) /\ DOMAIN s2 = DOMAIN s /\ 1 \in DOMAIN s
              /\ s2[1].pc = "started"
              /\ \A i \in DOMAIN s : s2[i].kind = s[i].kind /\ s2[i].who = s[i].who
              /\ \A i \in DOMAIN s : i # 1 => s2[i] = s[i]
<1> DEFINE s2 == [s EXCEPT ![1].pc = "started"]
<1>1. 1 \in DOMAIN s /\ \A i \in DOMAIN s : s[i] \in Task
  OBVIOUS
<1>2. \A c \in Task : /\ [c EXCEPT !.pc = "started"] \in Task
                      /\ [c EXCEPT !.pc = "started"].pc = "started"
                      /\ [c EXCEPT !.pc = "started"].kind = c.kind
                      /\ [c EXCEPT !.pc = "started"].who = c.who
  BY DEF Task
<1>3. /\ s2 \in Seq(Task) /\ DOMAIN s2 = DOMAIN s
      /\ s2[1] = [s[1] EXCEPT !.pc = "started"]
      /\ \A i \in DOMAIN s : i # 1 => s2[i] = s[i]
  BY <1>1, <1>2
<1> HIDE DEF s2
<1>4. s2[1].pc = "started" /\ s2[1].kind = s[1].kind /\ s2[1].who = s[1].who
  BY <1>1, <1>2, <1>3
<1>5. \A i \in DOMAIN s : s2[i].kind = s[i].kind /\ s2[i].who = s[i].who
  BY <1>3, <1>4
<1> QED BY <1>1, <1>3, <1>4, <1>5 DEF s2

\* The first task starts, with every change that is left staged.
LEMMA StartSound ==
    ASSUME NEW s \in Seq(Task), s # <<>>, NEW rq, NEW H, NEW o,
           NEW U, NEW U2 \in SUBSET U, NEW M, NEW d, NEW x, NEW x2,
           Sound(s, rq, H, U, M, d, x, o), \A e \in U2 : e <= x2
    PROVE  Sound([s EXCEPT ![1].pc = "started"], rq, H, U2, M, d, x2, o)
<1>1. PICK s2 : s2 = [s EXCEPT ![1].pc = "started"]
  OBVIOUS
<1>2. /\ DOMAIN s2 = DOMAIN s /\ 1 \in DOMAIN s
      /\ s2[1].pc = "started"
      /\ \A i \in DOMAIN s : s2[i].kind = s[i].kind /\ s2[i].who = s[i].who
      /\ \A i \in DOMAIN s : i # 1 => s2[i] = s[i]
  BY <1>1, StartIs
<1>3. Shaped(s, rq, H, o) /\ Minded(s, U, M, d, x) /\ Waiting(s, rq, U, d, x)
  BY DEF Sound
<1>4. Shaped(s2, rq, H, o)
  BY <1>2, <1>3 DEF Shaped
<1>5. Minded(s2, U2, M, d, x2)
  <2> SUFFICES ASSUME NEW e \in U2, e \notin M, d = NoCommit
               PROVE  \E i \in DOMAIN s2 : WillSave(s2[i], e, x2)
    BY DEF Minded
  <2>1. PICK i \in DOMAIN s : WillSave(s[i], e, x)
    BY <1>3 DEF Minded
  <2>2. WillSave(s2[i], e, x2)
    BY <1>2, <2>1 DEF WillSave
  <2> QED BY <1>2, <2>2
<1>6. Waiting(s2, rq, U2, d, x2)
  <2> SUFFICES ASSUME NEW k \in DOMAIN s2, s2[k].who \in Request
               PROVE  s2[k].kind # "commit" =>
                         \/ \A e \in U2 : e > rq[s2[k].who].asked
                         \/ d = NoCommit /\ \A j \in DOMAIN s2 : s2[j].kind = "commit" => j < k
    BY DEF Waiting
  <2> QED BY <1>2, <1>3 DEF Waiting
<1> QED BY <1>1, <1>4, <1>5, <1>6 DEF Sound

\* The requests of the work are the same, and those of H that have a task in it.
LEMMA SameSound ==
    ASSUME NEW s \in Seq(Task), NEW rq, NEW rq2, NEW H \in SUBSET Request, NEW H2, NEW o,
           NEW U, NEW M, NEW d, NEW x,
           Sound(s, rq, H, U, M, d, x, o),
           \A k \in DOMAIN s : s[k].who \in Request =>
              /\ rq2[s[k].who].pc # "idle"
              /\ rq2[s[k].who].owner = rq[s[k].who].owner
              /\ rq2[s[k].who].asked = rq[s[k].who].asked
              /\ s[k].who \in H => s[k].who \in H2
    PROVE  Sound(s, rq2, H2, U, M, d, x, o)
<1>1. Shaped(s, rq, H, o) /\ Minded(s, U, M, d, x) /\ Waiting(s, rq, U, d, x)
  BY DEF Sound
<1>2. Shaped(s, rq2, H2, o)
  BY <1>1 DEF Shaped
<1>3. Waiting(s, rq2, U, d, x)
  BY <1>1 DEF Waiting
<1> QED BY <1>1, <1>2, <1>3 DEF Sound

-----------------------------------------------------------------------------
(* The work of all roots.                                                   *)

\* The queues q are those of the state with s for the work of the root o.
Moves(q, o, s) ==
    /\ q[Primary][o] = s
    /\ \A o1 \in Owner \ {o} : q[Primary][o1] = queue[Primary][o1]
    /\ \A w \in Worker : q[w] = queue[w]

LEMMA MovesIs ==
    ASSUME queue \in Queues, NEW o \in Owner, NEW s,
           NEW q, q = [queue EXCEPT ![Primary][o] = s]
    PROVE  Moves(q, o, s)
<1>1. Primary \in Process /\ \A w \in Worker : w \in Process /\ w # Primary
  BY HistoryAssumption DEF HistoryAssumption, Process
<1> QED BY <1>1 DEF Moves, Queues

LEMMA DoneIs ==
    ASSUME queue \in Queues, NEW o \in Owner
    PROVE  Done(Primary, o) = [queue EXCEPT ![Primary][o] = Tail(queue[Primary][o])]
<1>1. Primary \in Process
  BY DEF Process
<1> QED BY <1>1 DEF Done, Queues

Ground == HistoryIInv /\ Alone /\ Promises /\ runtime = "single"

\* What the work of a root means while its process is alone.
LEMMA GroundIs ==
    ASSUME Ground, NEW o \in Owner
    PROVE  /\ HistoryTypeOK /\ queue \in Queues /\ req \in Requests /\ suppressed \in SUBSET Request
           /\ Primary \in Process /\ Primary \notin Worker /\ Front = {Primary}
           /\ queue[Primary][o] \in Seq(Task)
           /\ tree[o] \in Nat /\ index[o] \in Nat /\ edits \in Nat
           /\ unsaved[o] \in SUBSET Nat /\ missed[o] \in SUBSET Nat
           /\ Sound(queue[Primary][o], req, suppressed, unsaved[o], missed[o], pending[o], index[o], o)
           /\ Shaped(queue[Primary][o], req, suppressed, o)
           /\ Minded(queue[Primary][o], unsaved[o], missed[o], pending[o], index[o])
           /\ Waiting(queue[Primary][o], req, unsaved[o], pending[o], index[o])
           /\ \A p \in Process : queue[p][o] # <<>> => p = Primary
           /\ \A r \in Request : req[r].asked \in Nat /\ req[r].asked <= edits /\ req[r].at = Primary
           /\ \A e \in unsaved[o] : e <= tree[o]
           /\ tree[o] = head[o] => unsaved[o] = {}
<1>1. HistoryTypeOK /\ Numbered /\ Kept /\ Alone /\ Promises /\ runtime = "single"
  BY DEF Ground, HistoryIInv
<1>2. Content \subseteq Nat
  BY DEF Content
<1>3. Primary \in Process /\ Primary \notin Worker /\ Front = {Primary}
  BY <1>1, HistoryAssumption DEF HistoryAssumption, Process, Front
<1>4. queue \in Queues /\ req \in Requests /\ suppressed \in SUBSET Request
  BY <1>1 DEF HistoryTypeOK, Queues, Requests, RequestRecord
<1>5. /\ tree[o] \in Nat /\ index[o] \in Nat /\ edits \in Nat
      /\ unsaved[o] \in SUBSET Nat /\ missed[o] \in SUBSET Nat
  BY <1>1, <1>2 DEF HistoryTypeOK
<1>6. Sound(queue[Primary][o], req, suppressed, unsaved[o], missed[o], pending[o], index[o], o)
  BY <1>1 DEF Promises
<1>7. \A p \in Process : queue[p][o] # <<>> => p = Primary
  BY <1>1 DEF Alone, Process
<1>8. \A r \in Request : req[r].asked \in Nat /\ req[r].asked <= edits /\ req[r].at = Primary
  BY <1>1, <1>2, <1>4 DEF Requests, RequestRecord, Numbered, Alone
<1>9. queue[Primary][o] \in Seq(Task)
  BY <1>3, <1>4 DEF Queues
<1>10. (\A e \in unsaved[o] : e <= tree[o]) /\ (tree[o] = head[o] => unsaved[o] = {})
  BY <1>1 DEF Kept
<1> QED BY <1>1, <1>3, <1>4, <1>5, <1>6, <1>7, <1>8, <1>9, <1>10 DEF Sound

\* A step of the root o leaves the requests for other roots alone.
ReqMoves(o) ==
    /\ \A r \in Request : req'[r].at = Primary
    /\ \A r \in Request : req[r].pc # "idle" /\ req[r].owner # o =>
          req'[r] = req[r] /\ (r \in suppressed => r \in suppressed')

SameRequests == req' = req /\ suppressed' = suppressed

LEMMA SameMoves ==
    ASSUME Ground, NEW o \in Owner, SameRequests
    PROVE  ReqMoves(o)
<1>1. \A r \in Request : req[r].at = Primary
  BY GroundIs
<1> QED BY <1>1 DEF ReqMoves, SameRequests

\* What a step of the root o leaves of another root.
OthersStay(o) ==
    \A o1 \in Owner \ {o} : /\ unsaved'[o1] = unsaved[o1] /\ missed'[o1] = missed[o1]
                            /\ pending'[o1] = pending[o1] /\ index'[o1] = index[o1]

\* A step that changes the work of one root keeps the promises, if it keeps those of
\* that root and leaves the others alone.
LEMMA RootMoves ==
    ASSUME Ground, NEW o \in Owner, NEW s, Moves(queue', o, s), unreported' = unreported,
           ReqMoves(o), OthersStay(o),
           Sound(s, req', suppressed', unsaved'[o], missed'[o], pending'[o], index'[o], o)
    PROVE  Alone' /\ Promises'
<1>1. Alone'
  BY DEF Ground, Alone, Moves, ReqMoves
<1>2. ASSUME NEW o1 \in Owner
      PROVE  Sound(queue'[Primary][o1], req', suppressed', unsaved'[o1], missed'[o1],
                   pending'[o1], index'[o1], o1)
  <2>1. CASE o1 = o
    BY <2>1 DEF Moves
  <2>2. CASE o1 # o
    <3>1. PICK s1 : s1 = queue[Primary][o1]
      OBVIOUS
    <3>2. /\ Sound(s1, req, suppressed, unsaved[o1], missed[o1], pending[o1], index[o1], o1)
          /\ Shaped(s1, req, suppressed, o1)
          /\ s1 \in Seq(Task) /\ suppressed \in SUBSET Request
      BY <3>1, GroundIs
    <3>3. \A k \in DOMAIN s1 : s1[k].who \in Request =>
             /\ req[s1[k].who].pc # "idle" /\ req[s1[k].who].owner # o
      BY <2>2, <3>2 DEF Shaped
    <3>4. PICK rq : rq = req'
      OBVIOUS
    <3>5. PICK H2 : H2 = suppressed'
      OBVIOUS
    <3>6. \A k \in DOMAIN s1 : s1[k].who \in Request =>
             /\ rq[s1[k].who] = req[s1[k].who]
             /\ s1[k].who \in suppressed => s1[k].who \in H2
      BY <3>3, <3>4, <3>5 DEF ReqMoves
    <3>7. Sound(s1, rq, H2, unsaved[o1], missed[o1], pending[o1], index[o1], o1)
      BY <3>2, <3>3, <3>6, SameSound
    <3>8. /\ queue'[Primary][o1] = s1
          /\ unsaved'[o1] = unsaved[o1] /\ missed'[o1] = missed[o1]
          /\ pending'[o1] = pending[o1] /\ index'[o1] = index[o1]
      BY <2>2, <3>1 DEF Moves, OthersStay
    <3> QED BY <3>4, <3>5, <3>7, <3>8
  <2> QED BY <2>1, <2>2
<1> QED BY <1>1, <1>2 DEF Promises

\* Recording a change at the only process: the change t is missed, or a commit is to come.
LEMMA RecordSound ==
    ASSUME HistoryTypeOK, NEW o \in Owner, NEW s \in Seq(Task), NEW rq, NEW H \in SUBSET Request,
           NEW q \in Queues, q[Primary][o] = s,
           NEW U, NEW x \in Nat, tree'[o] \in Content,
           Shaped(s, rq, H, o), Waiting(s, rq, U, pending[o], x),
           \A e \in U : \/ e = tree'[o] \/ e \in missed[o] \/ pending[o] # NoCommit
                        \/ \E i \in DOMAIN s : WillSave(s[i], e, x),
           Record(q, Primary, o, H)
    PROVE  /\ \E s2 : /\ queue' = [q EXCEPT ![Primary][o] = s2]
                      /\ Sound(s2, rq, H, U, missed'[o], pending'[o], x, o)
           /\ unreported' = unreported
           /\ \A o1 \in Owner \ {o} : pending'[o1] = pending[o1] /\ missed'[o1] = missed[o1]
<1>1. Primary \in Process /\ Primary \notin Worker
  BY HistoryAssumption DEF HistoryAssumption, Process
<1>0. PICK t \in Content : t = tree'[o]
  OBVIOUS
<1>2. /\ \A o1 \in Owner \ {o} : pending'[o1] = pending[o1] /\ missed'[o1] = missed[o1]
  BY <1>1, RecordIs
<1>3. unreported' = unreported
  BY <1>1 DEF Record
<1>4. q = [q EXCEPT ![Primary][o] = s]
  BY <1>1 DEF Queues
<1>5. PICK d2 : d2 = pending'[o]
  OBVIOUS
<1>6. PICK M2 : M2 = missed'[o]
  OBVIOUS
<1>7. CASE H = {}
  <2>1. Schedule(q, o)
    BY <1>1, <1>7 DEF Record
  <2>2. d2 # NoCommit \/ HasQueued(queue', o)
    BY <1>5, <2>1, ScheduleIs
  <2>3. CASE queue' = q
    <3>1. Minded(s, U, M2, d2, x)
      BY <2>2, <2>3 DEF Minded, HasQueued, WillSave
    <3>2. Waiting(s, rq, U, d2, x)
      BY <1>7 DEF Waiting, Shaped
    <3>3. Sound(s, rq, H, U, M2, d2, x, o)
      BY <3>1, <3>2 DEF Sound
    <3> QED BY <1>2, <1>3, <1>4, <1>5, <1>6, <2>3, <3>3
  <2>4. CASE queue' = [q EXCEPT ![Primary][o] = Append(@, CommitTask(NoRequest))]
    <3>1. PICK c : c = CommitTask(NoRequest)
      OBVIOUS
    <3>2. c \in Task /\ c.kind = "commit" /\ c.pc = "queued" /\ c.who \notin Request
      BY <3>1, TasksAreTyped, HistoryAssumption DEF CommitTask, HistoryAssumption
    <3>3. PICK s2 : s2 = Append(s, c)
      OBVIOUS
    <3>4. PICK d : d = pending[o]
      OBVIOUS
    <3>5. Sound(s2, rq, H, U, M2, d2, x, o)
      BY <1>7, <3>2, <3>3, <3>4, CommitJoins
    <3>6. queue' = [q EXCEPT ![Primary][o] = s2]
      BY <1>1, <2>4, <3>1, <3>3 DEF Queues
    <3> QED BY <1>2, <1>3, <1>5, <1>6, <3>5, <3>6
  <2> QED BY <2>1, <2>3, <2>4 DEF Schedule
<1>8. CASE H # {}
  <2>1. /\ missed' = IF Covered(q, o) THEN missed ELSE [missed EXCEPT ![o] = @ \cup {t}]
        /\ queue' = q /\ pending' = pending
    BY <1>1, <1>0, <1>8 DEF Record
  <2>2. Covered(q, o) => d2 # NoCommit \/ \E i \in DOMAIN s : \A e \in U : WillSave(s[i], e, x)
    BY <1>5, <2>1 DEF Covered, WillSave
  <2>3. /\ missed[o] \subseteq M2
        /\ ~Covered(q, o) => t \in M2
    BY <1>6, <2>1 DEF HistoryTypeOK
  <2>4. Minded(s, U, M2, d2, x)
    BY <1>0, <1>5, <2>1, <2>2, <2>3 DEF Minded
  <2>5. Sound(s, rq, H, U, M2, d2, x, o)
    BY <1>5, <2>1, <2>4 DEF Sound
  <2> QED BY <1>2, <1>3, <1>4, <1>5, <1>6, <2>1, <2>5
<1> QED BY <1>7, <1>8

-----------------------------------------------------------------------------
(* The steps of a server that schedules its own commits.                    *)

LEMMA EditPromises ==
    ASSUME Ground, NEW p \in Process, NEW o \in Owner, Edit(p, o)
    PROVE  Alone' /\ Promises'
<1>1. /\ p = Primary /\ SameRequests /\ index' = index
      /\ unsaved' = [unsaved EXCEPT ![o] = @ \cup {edits + 1}]
      /\ Record(queue, Primary, o, suppressed)
  BY GroundIs DEF Edit, SameRequests
<1>2. /\ unsaved'[o] = unsaved[o] \cup {edits + 1}
      /\ \A o1 \in Owner \ {o} : unsaved'[o1] = unsaved[o1]
  BY <1>1, GroundIs DEF HistoryTypeOK
<1>3. PICK s : s = queue[Primary][o]
  OBVIOUS
<1>4. PICK U : U = unsaved[o] \cup {edits + 1}
  OBVIOUS
<1>5. /\ s \in Seq(Task) /\ queue \in Queues /\ HistoryTypeOK /\ suppressed \in SUBSET Request
      /\ index[o] \in Nat /\ edits \in Nat /\ U \in SUBSET Nat
      /\ Shaped(s, req, suppressed, o) /\ Minded(s, unsaved[o], missed[o], pending[o], index[o])
      /\ Waiting(s, req, unsaved[o], pending[o], index[o])
      /\ \A r \in Request : req[r].asked \in Nat /\ req[r].asked <= edits
  BY <1>3, <1>4, GroundIs
<1>6. PICK t \in Content : t = tree'[o] /\ t = edits + 1
  BY <1>5, EditTyped
<1>7. \A r \in Request : edits + 1 > req[r].asked
  BY <1>5
<1>8. Waiting(s, req, U, pending[o], index[o])
  BY <1>4, <1>5, <1>7 DEF Waiting
<1>9. \A e \in U : \/ e = t \/ e \in missed[o] \/ pending[o] # NoCommit
                   \/ \E i \in DOMAIN s : WillSave(s[i], e, index[o])
  BY <1>4, <1>5, <1>6 DEF Minded
<1>10. /\ \E s2 : /\ queue' = [queue EXCEPT ![Primary][o] = s2]
                  /\ Sound(s2, req, suppressed, U, missed'[o], pending'[o], index[o], o)
       /\ unreported' = unreported
       /\ \A o1 \in Owner \ {o} : pending'[o1] = pending[o1] /\ missed'[o1] = missed[o1]
  BY <1>1, <1>3, <1>5, <1>6, <1>8, <1>9, RecordSound
<1>11. PICK s2 : /\ queue' = [queue EXCEPT ![Primary][o] = s2]
                 /\ Sound(s2, req, suppressed, U, missed'[o], pending'[o], index[o], o)
  BY <1>10
<1>12. Moves(queue', o, s2)
  <2>1. PICK q : q = queue'
    OBVIOUS
  <2> QED BY <1>5, <1>11, <2>1, MovesIs
<1>13. ReqMoves(o) /\ OthersStay(o)
  BY <1>1, <1>2, <1>10, SameMoves DEF OthersStay
<1>14. Sound(s2, req', suppressed', unsaved'[o], missed'[o], pending'[o], index'[o], o)
  BY <1>1, <1>2, <1>4, <1>11 DEF SameRequests
<1> QED BY <1>10, <1>12, <1>13, <1>14, RootMoves

LEMMA TimerPromises ==
    ASSUME Ground, NEW o \in Owner, TimerFires(o)
    PROVE  Alone' /\ Promises'
<1>1. /\ queue' = [queue EXCEPT ![Primary][o] = Append(@, CommitTask(NoRequest))]
      /\ pending[o] # NoCommit /\ pending' = [pending EXCEPT ![o] = NoCommit]
      /\ SameRequests /\ index' = index /\ unsaved' = unsaved /\ missed' = missed
      /\ unreported' = unreported
  BY DEF TimerFires, gitVars, SameRequests
<1>2. PICK c : c = CommitTask(NoRequest)
  OBVIOUS
<1>3. c \in Task /\ c.kind = "commit" /\ c.pc = "queued" /\ c.who \notin Request
  BY <1>2, TasksAreTyped, HistoryAssumption DEF CommitTask, HistoryAssumption
<1>4. PICK s : s = queue[Primary][o]
  OBVIOUS
<1>5. /\ s \in Seq(Task) /\ queue \in Queues /\ suppressed \in SUBSET Request
      /\ Primary \in Process
      /\ Shaped(s, req, suppressed, o) /\ Waiting(s, req, unsaved[o], pending[o], index[o])
  BY <1>4, GroundIs
<1>6. PICK s2 : s2 = Append(s, c)
  OBVIOUS
<1>7. PICK d2 : d2 = pending'[o]
  OBVIOUS
<1>8. Sound(s2, req, suppressed, unsaved[o], missed[o], d2, index[o], o)
  BY <1>1, <1>3, <1>5, <1>6, CommitJoins
<1>9. PICK q : q = queue'
  OBVIOUS
<1>10. q = [queue EXCEPT ![Primary][o] = s2]
  BY <1>1, <1>2, <1>4, <1>5, <1>6, <1>9 DEF Queues
<1>11. Moves(q, o, s2)
  BY <1>5, <1>10, MovesIs
<1>12. ReqMoves(o) /\ OthersStay(o)
  <2>1. \A o1 \in Owner \ {o} : pending'[o1] = pending[o1]
    BY <1>1, GroundIs DEF HistoryTypeOK
  <2> QED BY <1>1, <2>1, SameMoves DEF OthersStay
<1>13. Sound(s2, req', suppressed', unsaved'[o], missed'[o], pending'[o], index'[o], o)
  BY <1>1, <1>7, <1>8 DEF SameRequests
<1> QED BY <1>1, <1>9, <1>11, <1>12, <1>13, RootMoves

\* Time changes no timer into none.
LEMMA TickPromises ==
    ASSUME Ground, HistoryTick
    PROVE  Alone' /\ Promises'
<1>1. /\ queue' = queue /\ SameRequests /\ index' = index /\ unsaved' = unsaved /\ missed' = missed
      /\ unreported' = unreported
  BY DEF HistoryTick, gitVars, SameRequests
<1>2. ASSUME NEW o \in Owner PROVE pending'[o] = NoCommit <=> pending[o] = NoCommit
  <2>1. pending[o] # NoCommit => [due |-> pending[o].due - 1, waited |-> pending[o].waited + 1] \in Pending
    <3>1. ASSUME pending[o] # NoCommit
          PROVE  pending[o].due \in Nat /\ pending[o].waited \in Nat /\ pending[o].due > 0
      <4>1. pending[o] \in Pending
        BY <3>1, GroundIs DEF HistoryTypeOK
      <4> QED BY <3>1, <4>1 DEF HistoryTick, Pending
    <3>2. pending[o] # NoCommit => pending[o].due - 1 \in Nat /\ pending[o].waited + 1 \in Nat
      BY <3>1
    <3> QED BY <3>2 DEF Pending
  <2>2. NoCommit \notin Pending
    BY HistoryAssumption DEF HistoryAssumption, Pending
  <2> QED BY <2>1, <2>2 DEF HistoryTick
<1>3. ASSUME NEW o \in Owner
      PROVE  Sound(queue[Primary][o], req, suppressed, unsaved[o], missed[o], pending'[o], index[o], o)
  <2>1. PICK d2 : d2 = pending'[o]
    OBVIOUS
  <2>2. d2 = NoCommit <=> pending[o] = NoCommit
    BY <1>2, <2>1
  <2>3. /\ Shaped(queue[Primary][o], req, suppressed, o)
        /\ Minded(queue[Primary][o], unsaved[o], missed[o], pending[o], index[o])
        /\ Waiting(queue[Primary][o], req, unsaved[o], pending[o], index[o])
    BY GroundIs
  <2>4. Sound(queue[Primary][o], req, suppressed, unsaved[o], missed[o], d2, index[o], o)
    BY <2>2, <2>3 DEF Sound, Minded, Waiting
  <2> QED BY <2>1, <2>4
<1>4. Promises'
  BY <1>1, <1>3 DEF Promises, SameRequests
<1>5. Alone'
  BY <1>1 DEF Ground, Alone, SameRequests
<1> QED BY <1>4, <1>5

\* The commit at the head is done; the request that waits for it joins the work, and
\* finds of the changes U2 that are left only later ones.
LEMMA CommitEndsSound ==
    ASSUME Ground, NEW o \in Owner, queue[Primary][o] # <<>>, CommitEnds(Primary, o),
           Running(Primary, o).kind = "commit",
           NEW U2 \in SUBSET unsaved[o], NEW x2 \in Nat,
           \A e \in U2 : ~WillSave(Running(Primary, o), e, index[o]),
           Running(Primary, o).who \in Request =>
              \A e \in U2 : e > req[Running(Primary, o).who].asked
    PROVE  /\ \E s2 : /\ Moves(queue', o, s2)
                      /\ Sound(s2, req', suppressed', U2, missed[o], pending[o], x2, o)
           /\ ReqMoves(o)
<1>1. PICK s : s = queue[Primary][o]
  OBVIOUS
<1>2. /\ s \in Seq(Task) /\ s # <<>> /\ queue \in Queues /\ req \in Requests
      /\ suppressed \in SUBSET Request /\ Primary \in Process
      /\ Shaped(s, req, suppressed, o) /\ Minded(s, unsaved[o], missed[o], pending[o], index[o])
      /\ Waiting(s, req, unsaved[o], pending[o], index[o])
      /\ \A r \in Request : req[r].at = Primary
  BY <1>1, GroundIs
<1>3. s[1] = Running(Primary, o) /\ 1 \in DOMAIN s /\ s[1] \in Task
  BY <1>1, <1>2, RunningIs
<1>4. PICK u : u = Tail(s)
  OBVIOUS
<1>5. Minded(u, U2, missed[o], pending[o], x2)
  BY <1>2, <1>3, <1>4, TailMinded
<1>6. /\ Sound(u, req, suppressed, U2, missed[o], pending[o], x2, o)
      /\ s[1].who \in Request => \A k \in DOMAIN u : u[k].who # s[1].who
  BY <1>2, <1>4, <1>5, TailSound
<1>7. u \in Seq(Task)
  BY <1>2, <1>4
<1>8. Done(Primary, o) = [queue EXCEPT ![Primary][o] = u]
  BY <1>1, <1>2, <1>4, DoneIs
<1>9. CASE s[1].who = NoRequest
  <2>1. queue' = Done(Primary, o) /\ SameRequests
    BY <1>3, <1>9 DEF CommitEnds, SameRequests
  <2>2. PICK q : q = queue'
    OBVIOUS
  <2>3. Moves(q, o, u)
    BY <1>2, <1>8, <2>1, <2>2, MovesIs
  <2>4. Sound(u, req', suppressed', U2, missed[o], pending[o], x2, o)
    BY <1>6, <2>1 DEF SameRequests
  <2> QED BY <2>1, <2>2, <2>3, <2>4, SameMoves
<1>10. CASE s[1].who # NoRequest
  <2>1. PICK r \in Request : r = s[1].who
    BY <1>3, <1>10 DEF Task
  <2>2. Proceed(r, Done(Primary, o))
    BY <1>3, <1>10, <2>1 DEF CommitEnds
  <2>3. req[r].at = Primary /\ req[r].owner = o /\ req[r].pc # "idle"
    BY <1>2, <1>3, <2>1 DEF Shaped
  <2>4. req[r] \in RequestRecord
    BY <1>2 DEF Requests
  <2>5. \A k \in DOMAIN u : u[k].who # r
    BY <1>6, <2>1
  <2>6. Shaped(u, req, suppressed, o)
    BY <1>6 DEF Sound
  <2>7. PICK rq : rq = req'
    OBVIOUS
  <2>8. PICK H2 : H2 = suppressed'
    OBVIOUS
  <2>9. PICK q : q = queue'
    OBVIOUS
  <2>10. CASE req[r].op = "preview"
    <3>1. req' = [req EXCEPT ![r] = NoHistoryRequest] /\ queue' = Done(Primary, o) /\ suppressed' = suppressed
      BY <2>2, <2>10 DEF Proceed
    <3>2. (\A r1 \in Request \ {r} : rq[r1] = req[r1]) /\ rq[r] = NoHistoryRequest
      BY <1>2, <2>7, <3>1 DEF Requests
    <3>3. \A k \in DOMAIN u : u[k].who \in Request =>
             rq[u[k].who] = req[u[k].who] /\ req[u[k].who].pc # "idle"
      BY <2>5, <2>6, <3>2 DEF Shaped
    <3>4. Sound(u, rq, suppressed, U2, missed[o], pending[o], x2, o)
      BY <1>2, <1>6, <1>7, <3>3, SameSound
    <3>5. Moves(q, o, u)
      BY <1>2, <1>8, <2>9, <3>1, MovesIs
    <3>6. NoHistoryRequest.at = Primary
      BY DEF NoHistoryRequest
    <3>7. /\ \A r1 \in Request : rq[r1].at = Primary
          /\ \A r1 \in Request : req[r1].pc # "idle" /\ req[r1].owner # o => rq[r1] = req[r1]
      BY <1>2, <2>3, <3>2, <3>6
    <3>8. Moves(queue', o, u) /\ Sound(u, req', suppressed', U2, missed[o], pending[o], x2, o)
      BY <2>7, <2>9, <3>1, <3>4, <3>5
    <3> QED BY <2>7, <3>1, <3>7, <3>8 DEF ReqMoves
  <2>11. CASE req[r].op # "preview"
    <3>1. PICK c : c = RequestTask(r, req[r].op, req[r].to)
      OBVIOUS
    <3>2. c \in Task /\ c.pc = "queued" /\ c.who = r /\ c.kind # "commit"
      <4>1. req[r].op \in {"rollback", "revert"} /\ req[r].to \in Content
        BY <2>4, <2>11 DEF RequestRecord
      <4> QED BY <3>1, <4>1, TasksAreTyped DEF RequestTask
    <3>3. /\ req' = [req EXCEPT ![r].pc = "queued"]
          /\ queue' = [Done(Primary, o) EXCEPT ![Primary][o] = Append(@, c)]
          /\ suppressed' = suppressed \cup {r}
      BY <2>2, <2>3, <2>11, <3>1 DEF Proceed
    <3>4. /\ [req[r] EXCEPT !.pc = "queued"].pc = "queued"
          /\ [req[r] EXCEPT !.pc = "queued"].at = req[r].at
          /\ [req[r] EXCEPT !.pc = "queued"].owner = req[r].owner
          /\ [req[r] EXCEPT !.pc = "queued"].asked = req[r].asked
      BY <2>4 DEF RequestRecord
    <3>5. /\ \A r1 \in Request \ {r} : rq[r1] = req[r1]
          /\ rq[r].pc = "queued" /\ rq[r].at = Primary /\ rq[r].owner = o
          /\ rq[r].asked = req[r].asked
      BY <1>2, <2>3, <2>7, <3>3, <3>4 DEF Requests
    <3>6. \A k \in DOMAIN u : u[k].who \in Request =>
             rq[u[k].who] = req[u[k].who] /\ req[u[k].who].pc # "idle"
      BY <2>5, <2>6, <3>5 DEF Shaped
    <3>7. H2 \in SUBSET Request /\ r \in H2 /\ suppressed \subseteq H2
      BY <1>2, <2>8, <3>3
    <3>8. Sound(u, rq, H2, U2, missed[o], pending[o], x2, o)
      BY <1>2, <1>6, <1>7, <3>6, <3>7, SameSound
    <3>9. PICK v : v = Append(u, c)
      OBVIOUS
    <3>10. \A e \in U2 : e > rq[r].asked
      BY <1>3, <2>1, <3>5
    <3>11. Sound(v, rq, H2, U2, missed[o], pending[o], x2, o)
      BY <1>7, <2>5, <3>2, <3>5, <3>7, <3>8, <3>9, <3>10, RequestJoins
    <3>12. q = [queue EXCEPT ![Primary][o] = v]
      BY <1>2, <1>8, <2>9, <3>3, <3>9 DEF Queues
    <3>13. Moves(q, o, v)
      BY <1>2, <3>12, MovesIs
    <3>14. Moves(queue', o, v) /\ Sound(v, req', suppressed', U2, missed[o], pending[o], x2, o)
      BY <2>7, <2>8, <2>9, <3>11, <3>13
    <3>15. /\ \A r1 \in Request : rq[r1].at = Primary
           /\ \A r1 \in Request : req[r1].pc # "idle" /\ req[r1].owner # o => rq[r1] = req[r1]
      BY <1>2, <2>3, <3>5
    <3> QED BY <2>7, <2>8, <3>7, <3>14, <3>15 DEF ReqMoves
  <2> QED BY <2>10, <2>11
<1> QED BY <1>9, <1>10

LEMMA StagePromises ==
    ASSUME Ground, NEW p \in Process, NEW o \in Owner, Stage(p, o)
    PROVE  Alone' /\ Promises'
<1>1. /\ p = Primary /\ queue[Primary][o] # <<>>
      /\ Running(Primary, o).kind = "commit" /\ Running(Primary, o).pc = "queued"
      /\ index' = [index EXCEPT ![o] = tree[o]]
      /\ unsaved' = unsaved /\ missed' = missed /\ pending' = pending /\ unreported' = unreported
  BY GroundIs DEF Stage
<1>2. index'[o] = tree[o] /\ \A o1 \in Owner \ {o} : index'[o1] = index[o1]
  BY <1>1, GroundIs DEF HistoryTypeOK
<1>3. OthersStay(o)
  BY <1>1, <1>2 DEF OthersStay
<1>4. CASE tree[o] = head[o]
  <2>1. CommitEnds(Primary, o)
    BY <1>1, <1>4 DEF Stage
  <2>2. unsaved[o] = {} /\ tree[o] \in Nat
    BY <1>4, GroundIs
  <2>3. /\ \E s2 : /\ Moves(queue', o, s2)
                   /\ Sound(s2, req', suppressed', unsaved[o], missed[o], pending[o], tree[o], o)
        /\ ReqMoves(o)
    BY <1>1, <2>1, <2>2, CommitEndsSound
  <2>4. PICK s2 : /\ Moves(queue', o, s2)
                  /\ Sound(s2, req', suppressed', unsaved[o], missed[o], pending[o], tree[o], o)
    BY <2>3
  <2>5. Sound(s2, req', suppressed', unsaved'[o], missed'[o], pending'[o], index'[o], o)
    BY <1>1, <1>2, <2>4
  <2> QED BY <1>1, <1>3, <2>3, <2>4, <2>5, RootMoves
<1>5. CASE tree[o] # head[o]
  <2>1. queue' = [queue EXCEPT ![Primary][o][1].pc = "started"] /\ SameRequests
    BY <1>1, <1>5 DEF Stage, SameRequests
  <2>2. PICK s : s = queue[Primary][o]
    OBVIOUS
  <2>3. /\ s \in Seq(Task) /\ s # <<>> /\ queue \in Queues /\ Primary \in Process
        /\ Sound(s, req, suppressed, unsaved[o], missed[o], pending[o], index[o], o)
        /\ \A e \in unsaved[o] : e <= tree[o]
    BY <1>1, <2>2, GroundIs
  <2>4. PICK s2 : s2 = [s EXCEPT ![1].pc = "started"]
    OBVIOUS
  <2>5. Sound(s2, req, suppressed, unsaved[o], missed[o], pending[o], tree[o], o)
    BY <2>3, <2>4, StartSound
  <2>6. PICK q : q = queue'
    OBVIOUS
  <2>7. q = [queue EXCEPT ![Primary][o] = s2]
    BY <2>1, <2>2, <2>3, <2>4, <2>6 DEF Queues
  <2>8. Moves(q, o, s2)
    BY <2>3, <2>7, MovesIs
  <2>9. Sound(s2, req', suppressed', unsaved'[o], missed'[o], pending'[o], index'[o], o)
    BY <1>1, <1>2, <2>1, <2>5 DEF SameRequests
  <2> QED BY <1>1, <1>3, <2>1, <2>6, <2>8, <2>9, SameMoves, RootMoves
<1> QED BY <1>4, <1>5

LEMMA CommitStagedPromises ==
    ASSUME Ground, NEW p \in Process, NEW o \in Owner, CommitStaged(p, o)
    PROVE  Alone' /\ Promises'
<1>1. /\ p = Primary /\ queue[Primary][o] # <<>>
      /\ Running(Primary, o).kind = "commit" /\ Running(Primary, o).pc = "started"
      /\ unsaved' = [unsaved EXCEPT ![o] = Later(o)]
      /\ CommitEnds(Primary, o)
      /\ index' = index /\ missed' = missed /\ pending' = pending /\ unreported' = unreported
  BY GroundIs DEF CommitStaged
<1>2. unsaved'[o] = Later(o) /\ \A o1 \in Owner \ {o} : unsaved'[o1] = unsaved[o1]
  BY <1>1, GroundIs DEF HistoryTypeOK
<1>3. PICK U2 : U2 = Later(o)
  OBVIOUS
<1>4. /\ queue \in Queues /\ index[o] \in Nat /\ unsaved[o] \in SUBSET Nat
      /\ Waiting(queue[Primary][o], req, unsaved[o], pending[o], index[o])
  BY GroundIs
<1>5. U2 \in SUBSET unsaved[o] /\ \A e \in U2 : ~(e <= index[o])
  BY <1>3, <1>4 DEF Later
<1>6. \A e \in U2 : ~WillSave(Running(Primary, o), e, index[o])
  BY <1>1, <1>5 DEF WillSave
<1>7. ASSUME Running(Primary, o).who \in Request
      PROVE  \A e \in U2 : e > req[Running(Primary, o).who].asked
  <2>1. Running(Primary, o) = queue[Primary][o][1] /\ 1 \in DOMAIN queue[Primary][o]
    BY <1>1, <1>4, RunningIs, GroundIs
  <2> QED BY <1>1, <1>4, <1>5, <1>7, <2>1 DEF Waiting
<1>8. /\ \E s2 : /\ Moves(queue', o, s2)
                 /\ Sound(s2, req', suppressed', U2, missed[o], pending[o], index[o], o)
      /\ ReqMoves(o)
  BY <1>1, <1>4, <1>5, <1>6, <1>7, CommitEndsSound
<1>9. PICK s2 : /\ Moves(queue', o, s2)
                /\ Sound(s2, req', suppressed', U2, missed[o], pending[o], index[o], o)
  BY <1>8
<1>10. Sound(s2, req', suppressed', unsaved'[o], missed'[o], pending'[o], index'[o], o)
  BY <1>1, <1>2, <1>3, <1>9
<1>11. OthersStay(o)
  BY <1>1, <1>2 DEF OthersStay
<1> QED BY <1>1, <1>8, <1>9, <1>10, <1>11, RootMoves

\* The task at the head leaves and its request, if it has one, ends (the task is in
\* nobody else's way): what is left is sound if every change still has its commit.
LEMMA HeadLeaves ==
    ASSUME Ground, NEW o \in Owner, queue[Primary][o] # <<>>, NEW M2,
           req' = [r \in Request |-> IF r = Running(Primary, o).who THEN NoHistoryRequest ELSE req[r]],
           suppressed' = suppressed \/ suppressed' = suppressed \ {Running(Primary, o).who},
           Minded(Tail(queue[Primary][o]), unsaved[o], M2, pending[o], index[o])
    PROVE  /\ Sound(Tail(queue[Primary][o]), req', suppressed', unsaved[o], M2, pending[o], index[o], o)
           /\ ReqMoves(o)
<1>1. PICK s : s = queue[Primary][o]
  OBVIOUS
<1>2. /\ s \in Seq(Task) /\ s # <<>> /\ queue \in Queues /\ Primary \in Process
      /\ suppressed \in SUBSET Request
      /\ Shaped(s, req, suppressed, o) /\ Waiting(s, req, unsaved[o], pending[o], index[o])
      /\ \A r \in Request : req[r].at = Primary
  BY <1>1, GroundIs
<1>3. s[1] = Running(Primary, o) /\ 1 \in DOMAIN s
  BY <1>1, <1>2, RunningIs
<1>4. PICK u : u = Tail(s)
  OBVIOUS
<1>5. /\ Sound(u, req, suppressed, unsaved[o], M2, pending[o], index[o], o)
      /\ s[1].who \in Request => \A k \in DOMAIN u : u[k].who # s[1].who
  BY <1>1, <1>2, <1>4, TailSound
<1>6. u \in Seq(Task) /\ Shaped(u, req, suppressed, o)
  BY <1>2, <1>4, <1>5 DEF Sound
<1>7. PICK rq : rq = req'
  OBVIOUS
<1>8. PICK H2 : H2 = suppressed'
  OBVIOUS
<1>9. \A r \in Request : /\ rq[r] = IF r = s[1].who THEN NoHistoryRequest ELSE req[r]
                         /\ r # s[1].who /\ r \in suppressed => r \in H2
  BY <1>3, <1>7, <1>8
<1>10. \A k \in DOMAIN u : u[k].who \in Request =>
          /\ rq[u[k].who] = req[u[k].who] /\ req[u[k].who].pc # "idle"
          /\ u[k].who \in suppressed => u[k].who \in H2
  BY <1>5, <1>6, <1>9 DEF Shaped
<1>11. Sound(u, rq, H2, unsaved[o], M2, pending[o], index[o], o)
  BY <1>2, <1>5, <1>6, <1>10, SameSound
<1>12. NoHistoryRequest.at = Primary
  BY DEF NoHistoryRequest
<1>13. s[1].who \in Request => req[s[1].who].owner = o
  BY <1>2, <1>3 DEF Shaped
<1>14. /\ \A r \in Request : rq[r].at = Primary
       /\ \A r \in Request : req[r].pc # "idle" /\ req[r].owner # o =>
             rq[r] = req[r] /\ (r \in suppressed => r \in H2)
  BY <1>2, <1>9, <1>12, <1>13
<1> QED BY <1>1, <1>4, <1>7, <1>8, <1>11, <1>14 DEF ReqMoves

\* A commit that fails leaves every change missed, unless another commit is to come.
LEMMA CommitFailsPromises ==
    ASSUME Ground, NEW p \in Process, NEW o \in Owner, CommitFails(p, o)
    PROVE  Alone' /\ Promises'
<1>1. /\ p = Primary /\ queue[Primary][o] # <<>> /\ queue' = Done(Primary, o)
      /\ req' = [r \in Request |-> IF r = Running(Primary, o).who THEN NoHistoryRequest ELSE req[r]]
      /\ missed' = IF Covered(Done(Primary, o), o) THEN missed
                   ELSE [missed EXCEPT ![o] = @ \cup unsaved[o]]
      /\ suppressed' = suppressed /\ index' = index /\ unsaved' = unsaved /\ pending' = pending
      /\ unreported' = unreported
  BY GroundIs DEF CommitFails, gitVars
<1>2. PICK u : u = Tail(queue[Primary][o])
  OBVIOUS
<1>3. queue \in Queues /\ missed \in [Owner -> SUBSET Content] /\ Primary \in Process
  BY GroundIs DEF HistoryTypeOK
<1>4. Done(Primary, o) = [queue EXCEPT ![Primary][o] = u]
  BY <1>2, <1>3, DoneIs
<1>5. Done(Primary, o)[Primary][o] = u
  BY <1>3, <1>4 DEF Queues
<1>6. PICK M2 : M2 = missed'[o]
  OBVIOUS
<1>7. (Covered(Done(Primary, o), o) \/ unsaved[o] \subseteq M2)
      /\ \A o1 \in Owner \ {o} : missed'[o1] = missed[o1]
  BY <1>1, <1>3, <1>6
<1>8. Minded(u, unsaved[o], M2, pending[o], index[o])
  <2>1. CASE unsaved[o] \subseteq M2
    BY <2>1 DEF Minded
  <2>2. CASE Covered(Done(Primary, o), o)
    BY <1>5, <2>2 DEF Covered, Minded, WillSave
  <2> QED BY <1>7, <2>1, <2>2
<1>9. Sound(u, req', suppressed', unsaved[o], M2, pending[o], index[o], o) /\ ReqMoves(o)
  BY <1>1, <1>2, <1>8, HeadLeaves
<1>10. PICK q : q = queue'
  OBVIOUS
<1>11. Moves(q, o, u)
  BY <1>1, <1>3, <1>4, <1>10, MovesIs
<1>12. OthersStay(o)
  BY <1>1, <1>7 DEF OthersStay
<1>13. Sound(u, req', suppressed', unsaved'[o], missed'[o], pending'[o], index'[o], o)
  BY <1>1, <1>6, <1>9
<1> QED BY <1>1, <1>9, <1>10, <1>11, <1>12, <1>13, RootMoves

\* A reset leaves no change of its root.
LEMMA ResetPromises ==
    ASSUME Ground, HistoryTypeOK', NEW p \in Process, NEW o \in Owner, Reset(p, o) \/ Revert(p, o)
    PROVE  Alone' /\ Promises'
<1>1. /\ p = Primary /\ queue[Primary][o] # <<>>
      /\ queue' = [queue EXCEPT ![Primary][o][1].pc = "started"]
      /\ SameRequests /\ missed' = missed /\ pending' = pending /\ unreported' = unreported
  BY GroundIs DEF Reset, Revert, SameRequests
<1>2. /\ unsaved'[o] = {}
      /\ \A o1 \in Owner \ {o} : index'[o1] = index[o1] /\ unsaved'[o1] = unsaved[o1]
  <2>1. CASE Reset(p, o)
    BY <2>1, GroundIs DEF Reset, HistoryTypeOK
  <2>2. CASE Revert(p, o)
    <3>1. /\ tree[o] = head[o] /\ unsaved' = unsaved /\ index' = [index EXCEPT ![o] = edits + 1]
      BY <2>2 DEF Revert
    <3>2. index \in [Owner -> Content] /\ unsaved[o] = {}
      BY <3>1, GroundIs DEF HistoryTypeOK
    <3> QED BY <3>1, <3>2
  <2> QED BY <2>1, <2>2
<1>3. PICK s : s = queue[Primary][o]
  OBVIOUS
<1>4. /\ s \in Seq(Task) /\ s # <<>> /\ queue \in Queues /\ Primary \in Process
      /\ Sound(s, req, suppressed, unsaved[o], missed[o], pending[o], index[o], o)
  BY <1>1, <1>3, GroundIs
<1>5. PICK s2 : s2 = [s EXCEPT ![1].pc = "started"]
  OBVIOUS
<1>6. PICK x2 : x2 = index'[o]
  OBVIOUS
<1>7. {} \in SUBSET unsaved[o]
  OBVIOUS
<1>8. Sound(s2, req, suppressed, {}, missed[o], pending[o], x2, o)
  BY <1>4, <1>5, <1>7, StartSound
<1>9. PICK q : q = queue'
  OBVIOUS
<1>10. q = [queue EXCEPT ![Primary][o] = s2]
  BY <1>1, <1>3, <1>4, <1>5, <1>9 DEF Queues
<1>11. Moves(q, o, s2)
  BY <1>4, <1>10, MovesIs
<1>12. Sound(s2, req', suppressed', unsaved'[o], missed'[o], pending'[o], index'[o], o)
  BY <1>1, <1>2, <1>6, <1>7, <1>8 DEF SameRequests
<1>13. OthersStay(o)
  BY <1>1, <1>2 DEF OthersStay
<1> QED BY <1>1, <1>9, <1>11, <1>12, <1>13, SameMoves, RootMoves

\* The request at the head ends, done or failed.
LEMMA RequestLeaves ==
    ASSUME Ground, NEW o \in Owner, queue[Primary][o] # <<>>,
           Running(Primary, o).kind # "commit",
           req' = [req EXCEPT ![Running(Primary, o).who] = NoHistoryRequest],
           suppressed' = suppressed \ {Running(Primary, o).who}
    PROVE  /\ Sound(Tail(queue[Primary][o]), req', suppressed', unsaved[o], missed[o],
                    pending[o], index[o], o)
           /\ ReqMoves(o)
<1>1. PICK s : s = queue[Primary][o]
  OBVIOUS
<1>2. /\ s \in Seq(Task) /\ s # <<>> /\ queue \in Queues /\ req \in Requests /\ Primary \in Process
      /\ Shaped(s, req, suppressed, o) /\ Minded(s, unsaved[o], missed[o], pending[o], index[o])
  BY <1>1, GroundIs
<1>3. s[1] = Running(Primary, o)
  BY <1>1, <1>2, RunningIs
<1>4. \A e \in unsaved[o] : ~WillSave(s[1], e, index[o])
  BY <1>3 DEF WillSave
<1>5. Minded(Tail(s), unsaved[o], missed[o], pending[o], index[o])
  <2>1. unsaved[o] \in SUBSET unsaved[o]
    OBVIOUS
  <2> QED BY <1>2, <1>4, <2>1, TailMinded
<1>6. req' = [r \in Request |-> IF r = Running(Primary, o).who THEN NoHistoryRequest ELSE req[r]]
  BY <1>2 DEF Requests
<1> QED BY <1>1, <1>5, <1>6, HeadLeaves

LEMMA RequestFailsPromises ==
    ASSUME Ground, NEW p \in Process, NEW o \in Owner, RequestFails(p, o)
    PROVE  Alone' /\ Promises'
<1>1. /\ p = Primary /\ queue[Primary][o] # <<>> /\ queue' = Done(Primary, o)
      /\ Running(Primary, o).kind # "commit"
      /\ req' = [req EXCEPT ![Running(Primary, o).who] = NoHistoryRequest]
      /\ suppressed' = suppressed \ {Running(Primary, o).who}
      /\ missed' = missed /\ index' = index /\ unsaved' = unsaved /\ pending' = pending
      /\ unreported' = unreported
  BY GroundIs DEF RequestFails, gitVars
<1>2. PICK u : u = Tail(queue[Primary][o])
  OBVIOUS
<1>3. /\ Sound(u, req', suppressed', unsaved[o], missed[o], pending[o], index[o], o)
      /\ ReqMoves(o)
  BY <1>1, <1>2, RequestLeaves
<1>4. PICK q : q = queue'
  OBVIOUS
<1>5. q = [queue EXCEPT ![Primary][o] = u] /\ queue \in Queues
  BY <1>1, <1>2, <1>4, GroundIs, DoneIs
<1>6. Moves(q, o, u)
  BY <1>5, MovesIs
<1>7. Sound(u, req', suppressed', unsaved'[o], missed'[o], pending'[o], index'[o], o) /\ OthersStay(o)
  BY <1>1, <1>3 DEF OthersStay
<1> QED BY <1>1, <1>3, <1>4, <1>6, <1>7, RootMoves

LEMMA RequestEndsPromises ==
    ASSUME Ground, HistoryTypeOK', NEW p \in Process, NEW o \in Owner, RequestEnds(p, o)
    PROVE  Alone' /\ Promises'
<1>1. /\ p = Primary /\ queue[Primary][o] # <<>>
      /\ Running(Primary, o).kind # "commit"
      /\ req' = [req EXCEPT ![Running(Primary, o).who] = NoHistoryRequest]
      /\ suppressed' = suppressed \ {Running(Primary, o).who}
      /\ index' = index /\ unsaved' = unsaved /\ tree' = tree
      /\ Record(Done(Primary, o), Primary, o, suppressed')
  BY GroundIs DEF RequestEnds, gitVars
<1>2. PICK u : u = Tail(queue[Primary][o])
  OBVIOUS
<1>3. /\ Sound(u, req', suppressed', unsaved[o], missed[o], pending[o], index[o], o)
      /\ ReqMoves(o)
  BY <1>1, <1>2, RequestLeaves
<1>4. PICK q : q = Done(Primary, o)
  OBVIOUS
<1>5. /\ q = [queue EXCEPT ![Primary][o] = u] /\ queue \in Queues /\ Primary \in Process
      /\ HistoryTypeOK /\ index[o] \in Nat /\ unsaved[o] \in SUBSET Nat
      /\ queue[Primary][o] \in Seq(Task)
  BY <1>2, <1>4, GroundIs, DoneIs
<1>6. q \in Queues /\ q[Primary][o] = u /\ u \in Seq(Task)
  <2>1. u \in Seq(Task)
    BY <1>1, <1>2, <1>5
  <2> QED BY <1>5, <2>1 DEF Queues
<1>7. PICK rq : rq = req'
  OBVIOUS
<1>8. PICK H \in SUBSET Request : H = suppressed'
  BY <1>1, GroundIs
<1>9. tree'[o] \in Content
  BY <1>1, <1>5 DEF HistoryTypeOK
<1>10. PICK U \in SUBSET Nat : U = unsaved[o]
  BY <1>5
<1>11. Shaped(u, rq, H, o) /\ Waiting(u, rq, U, pending[o], index[o])
  BY <1>3, <1>7, <1>8, <1>10 DEF Sound
<1>12. \A e \in U : \/ e = tree'[o] \/ e \in missed[o] \/ pending[o] # NoCommit
                    \/ \E i \in DOMAIN u : WillSave(u[i], e, index[o])
  BY <1>3, <1>10 DEF Sound, Minded
<1>13. /\ \E s2 : /\ queue' = [q EXCEPT ![Primary][o] = s2]
                  /\ Sound(s2, rq, H, U, missed'[o], pending'[o], index[o], o)
       /\ unreported' = unreported
       /\ \A o1 \in Owner \ {o} : pending'[o1] = pending[o1] /\ missed'[o1] = missed[o1]
  <2>1. Record(q, Primary, o, H)
    BY <1>1, <1>4, <1>8
  <2>2. HistoryTypeOK /\ index[o] \in Nat /\ Primary \in Process /\ Primary \notin Worker
    BY <1>5, GroundIs
  <2>3. unreported' = unreported
    BY <2>1, <2>2 DEF Record
  <2>4. \A o1 \in Owner \ {o} : pending'[o1] = pending[o1] /\ missed'[o1] = missed[o1]
    BY <1>6, <1>9, <2>1, <2>2, RecordIs
  <2>5. \E s2 : /\ queue' = [q EXCEPT ![Primary][o] = s2]
                /\ Sound(s2, rq, H, U, missed'[o], pending'[o], index[o], o)
    <3>1. PICK x \in Nat : x = index[o]
      BY <2>2
    <3>2. Shaped(u, rq, H, o) /\ Waiting(u, rq, U, pending[o], x)
      BY <1>11, <3>1
    <3>3. \A e \in U : \/ e = tree'[o] \/ e \in missed[o] \/ pending[o] # NoCommit
                      \/ \E i \in DOMAIN u : WillSave(u[i], e, x)
      BY <1>12, <3>1
    <3>4. \E s2 : /\ queue' = [q EXCEPT ![Primary][o] = s2]
                  /\ Sound(s2, rq, H, U, missed'[o], pending'[o], x, o)
      BY <1>6, <1>9, <2>1, <2>2, <3>2, <3>3, RecordSound
    <3> QED BY <3>1, <3>4
  <2> QED BY <2>3, <2>4, <2>5
<1>14. PICK s2 : /\ queue' = [q EXCEPT ![Primary][o] = s2]
                 /\ Sound(s2, rq, H, U, missed'[o], pending'[o], index[o], o)
  BY <1>13
<1>15. PICK q2 : q2 = queue'
  OBVIOUS
<1>16. q2 = [queue EXCEPT ![Primary][o] = s2]
  BY <1>5, <1>14, <1>15 DEF Queues
<1>17. Moves(q2, o, s2)
  BY <1>5, <1>16, MovesIs
<1>18. Sound(s2, req', suppressed', unsaved'[o], missed'[o], pending'[o], index'[o], o)
  BY <1>1, <1>7, <1>8, <1>10, <1>14
<1>19. OthersStay(o)
  BY <1>1, <1>13 DEF OthersStay
<1> QED BY <1>3, <1>13, <1>15, <1>17, <1>18, <1>19, RootMoves

\* A request that is asked for takes the pending commit for its flush, or finds every
\* commit to come ahead of it (flushLayerHistoryCommit).
LEMMA AskPromises ==
    ASSUME Ground, NEW p \in Process, NEW o \in Owner, NEW r \in Request, Ask(r, p, o)
    PROVE  Alone' /\ Promises'
<1>1. /\ p = Primary /\ req[r].pc = "idle"
      /\ index' = index /\ unsaved' = unsaved /\ missed' = missed /\ unreported' = unreported
  BY GroundIs DEF Ask, gitVars
<1>2. PICK s : s = queue[Primary][o]
  OBVIOUS
<1>3. /\ s \in Seq(Task) /\ queue \in Queues /\ req \in Requests /\ Primary \in Process
      /\ suppressed \in SUBSET Request /\ HistoryTypeOK
      /\ Sound(s, req, suppressed, unsaved[o], missed[o], pending[o], index[o], o)
      /\ Shaped(s, req, suppressed, o) /\ Waiting(s, req, unsaved[o], pending[o], index[o])
      /\ \A r1 \in Request : req[r1].at = Primary
  BY <1>2, GroundIs
<1>4. PICK rq : rq = req'
  OBVIOUS
<1>5. PICK H2 : H2 = suppressed'
  OBVIOUS
<1>6. PICK d2 : d2 = pending'[o]
  OBVIOUS
<1>7. PICK q : q = queue'
  OBVIOUS
<1>8. \A k \in DOMAIN s : s[k].who # r
  BY <1>1, <1>3 DEF Shaped
<1> DEFINE new(op, to) == [pc |-> "flushing", op |-> op, at |-> Primary, owner |-> o,
                           to |-> to, asked |-> edits]
<1>9. PICK op \in {"rollback", "revert", "preview"}, to \in saved[o] :
         IF pending[o] # NoCommit
         THEN /\ req' = [req EXCEPT ![r] = new(op, to)]
              /\ pending' = [pending EXCEPT ![o] = NoCommit]
              /\ queue' = [queue EXCEPT ![Primary][o] = Append(@, CommitTask(r))]
              /\ suppressed' = suppressed
         ELSE /\ op # "preview"
              /\ req' = [req EXCEPT ![r] = [new(op, to) EXCEPT !.pc = "queued"]]
              /\ queue' = [queue EXCEPT ![Primary][o] = Append(@, RequestTask(r, op, to))]
              /\ suppressed' = suppressed \cup {r}
              /\ pending' = pending
  BY <1>1, Zenon DEF Ask
<1>10. to \in Content
  BY <1>3 DEF HistoryTypeOK
<1>11. CASE pending[o] # NoCommit
  <2>1. PICK c : c = CommitTask(r)
    OBVIOUS
  <2>2. c \in Task /\ c.pc = "queued" /\ c.who = r /\ c.kind = "commit"
    BY <2>1, TasksAreTyped DEF CommitTask
  <2>3. /\ rq = [req EXCEPT ![r] = new(op, to)]
        /\ q = [queue EXCEPT ![Primary][o] = Append(@, c)]
        /\ pending' = [pending EXCEPT ![o] = NoCommit]
        /\ suppressed' = suppressed
    BY <1>4, <1>7, <1>9, <1>11, <2>1
  <2>4. (\A r1 \in Request \ {r} : rq[r1] = req[r1]) /\ rq[r] = new(op, to)
    BY <1>3, <2>3 DEF Requests
  <2>5. rq[r].pc # "idle" /\ rq[r].at = Primary /\ rq[r].owner = o
    BY <2>4
  <2>6. Sound(s, rq, suppressed, unsaved[o], missed[o], pending[o], index[o], o)
    <3>1. \A k \in DOMAIN s : s[k].who \in Request =>
             rq[s[k].who] = req[s[k].who] /\ req[s[k].who].pc # "idle"
      BY <1>3, <1>8, <2>4 DEF Shaped
    <3> QED BY <1>3, <3>1, SameSound
  <2>7. PICK s2 : s2 = Append(s, c)
    OBVIOUS
  <2>8. PICK d : d = pending[o]
    OBVIOUS
  <2>9. Sound(s2, rq, suppressed, unsaved[o], missed[o], d2, index[o], o)
    <3>1. Shaped(s, rq, suppressed, o) /\ Waiting(s, rq, unsaved[o], d, index[o])
      BY <2>6, <2>8 DEF Sound
    <3> QED BY <1>3, <1>8, <1>11, <2>2, <2>5, <2>7, <2>8, <3>1, CommitJoins
  <2>10. q = [queue EXCEPT ![Primary][o] = s2]
    BY <1>2, <1>3, <2>3, <2>7 DEF Queues
  <2>11. Moves(q, o, s2)
    BY <1>3, <2>10, MovesIs
  <2>12. Sound(s2, req', suppressed', unsaved'[o], missed'[o], pending'[o], index'[o], o)
    BY <1>1, <1>4, <1>6, <2>3, <2>9
  <2>13. OthersStay(o)
    <3>1. \A o1 \in Owner \ {o} : pending'[o1] = pending[o1]
      BY <1>3, <2>3 DEF HistoryTypeOK
    <3> QED BY <1>1, <3>1 DEF OthersStay
  <2>14. ReqMoves(o)
    <3>1. /\ \A r1 \in Request : rq[r1].at = Primary
          /\ \A r1 \in Request : req[r1].pc # "idle" => rq[r1] = req[r1]
      BY <1>1, <1>3, <2>4, <2>5
    <3> QED BY <1>4, <2>3, <3>1 DEF ReqMoves
  <2> QED BY <1>1, <1>7, <2>11, <2>12, <2>13, <2>14, RootMoves
<1>12. CASE pending[o] = NoCommit
  <2>1. PICK c : c = RequestTask(r, op, to)
    OBVIOUS
  <2>2. c \in Task /\ c.pc = "queued" /\ c.who = r /\ c.kind # "commit"
    <3>1. op \in {"rollback", "revert"}
      BY <1>9, <1>12
    <3> QED BY <1>10, <2>1, <3>1, TasksAreTyped DEF RequestTask
  <2>3. /\ rq = [req EXCEPT ![r] = [new(op, to) EXCEPT !.pc = "queued"]]
        /\ q = [queue EXCEPT ![Primary][o] = Append(@, c)]
        /\ pending' = pending
        /\ suppressed' = suppressed \cup {r}
    BY <1>4, <1>7, <1>9, <1>12, <2>1
  <2>4. (\A r1 \in Request \ {r} : rq[r1] = req[r1]) /\ rq[r] = [new(op, to) EXCEPT !.pc = "queued"]
    BY <1>3, <2>3 DEF Requests
  <2>5. rq[r].pc # "idle" /\ rq[r].at = Primary /\ rq[r].owner = o
    BY <2>4
  <2>6. H2 \in SUBSET Request /\ r \in H2 /\ suppressed \subseteq H2
    BY <1>3, <1>5, <2>3
  <2>7. Sound(s, rq, H2, unsaved[o], missed[o], pending[o], index[o], o)
    <3>1. \A k \in DOMAIN s : s[k].who \in Request =>
             rq[s[k].who] = req[s[k].who] /\ req[s[k].who].pc # "idle"
      BY <1>3, <1>8, <2>4 DEF Shaped
    <3> QED BY <1>3, <2>6, <3>1, SameSound
  <2>8. PICK s2 : s2 = Append(s, c)
    OBVIOUS
  <2>9. Sound(s2, rq, H2, unsaved[o], missed[o], pending[o], index[o], o)
    BY <1>3, <1>8, <1>12, <2>2, <2>5, <2>6, <2>7, <2>8, RequestJoins
  <2>10. q = [queue EXCEPT ![Primary][o] = s2]
    BY <1>2, <1>3, <2>3, <2>8 DEF Queues
  <2>11. Moves(q, o, s2)
    BY <1>3, <2>10, MovesIs
  <2>12. Sound(s2, req', suppressed', unsaved'[o], missed'[o], pending'[o], index'[o], o)
    BY <1>1, <1>4, <1>5, <2>3, <2>9
  <2>13. OthersStay(o)
    BY <1>1, <2>3 DEF OthersStay
  <2>14. ReqMoves(o)
    <3>1. /\ \A r1 \in Request : rq[r1].at = Primary
          /\ \A r1 \in Request : req[r1].pc # "idle" => rq[r1] = req[r1]
      BY <1>1, <1>3, <2>4, <2>5
    <3> QED BY <1>4, <2>3, <3>1 DEF ReqMoves
  <2> QED BY <1>1, <1>7, <2>11, <2>12, <2>13, <2>14, RootMoves
<1> QED BY <1>11, <1>12

\* The server exits, and with it all work; what no commit holds is missed.
LEMMA ExitPromises ==
    ASSUME Ground, NEW ps \in SUBSET Process, ps = Process, Exit(ps)
    PROVE  Alone' /\ Promises'
<1>1. /\ \A p \in Process, o \in Owner : queue'[p][o] = <<>>
      /\ \A r \in Request : req'[r] = NoHistoryRequest
      /\ unreported' = {u \in unreported : u[1] \notin ps}
      /\ \A o \in Owner : missed'[o] = missed[o] \cup unsaved[o] /\ unsaved'[o] = unsaved[o]
  <2>1. \A r \in Request : req[r].at \in Process
    BY DEF Ground, HistoryIInv, HistoryTypeOK
  <2>2. Primary \in ps
    BY DEF Process
  <2> QED BY <2>1, <2>2 DEF Exit, NoTask, gitVars
<1>2. unreported' = {}
  BY <1>1 DEF Ground, Alone
<1>3. NoHistoryRequest.at = Primary
  BY DEF NoHistoryRequest
<1>4. Primary \in Process /\ Worker \subseteq Process
  BY DEF Process
<1>5. Alone'
  BY <1>1, <1>2, <1>3, <1>4 DEF Alone
<1>6. DOMAIN <<>> = {}
  OBVIOUS
<1>7. Promises'
  BY <1>1, <1>4, <1>6 DEF Promises, Sound, Shaped, Minded, Waiting
<1> QED BY <1>5, <1>7

LEMMA PromisesStep ==
    ASSUME Ground, HistoryTypeOK', [HistoryNext]_historyVars
    PROVE  Alone' /\ Promises'
<1>1. CASE HistoryTick
  BY <1>1, TickPromises
<1>2. ASSUME NEW o \in Owner, TimerFires(o) PROVE Alone' /\ Promises'
  BY <1>2, TimerPromises
<1>3. ASSUME NEW w \in Worker, NEW o \in Owner, Report(w, o) PROVE FALSE
  BY <1>3 DEF Report, Ground, Alone
<1>4. ASSUME NEW p \in Process, NEW o \in Owner, Edit(p, o) PROVE Alone' /\ Promises'
  BY <1>4, EditPromises
<1>5. ASSUME NEW p \in Process, NEW o \in Owner, GitWork(p, o) PROVE Alone' /\ Promises'
  BY <1>5, StagePromises, CommitStagedPromises, CommitFailsPromises, ResetPromises,
     RequestEndsPromises, RequestFailsPromises DEF GitWork
<1>6. ASSUME NEW p \in Process, NEW o \in Owner, NEW r \in Request, Ask(r, p, o)
      PROVE  Alone' /\ Promises'
  BY <1>6, AskPromises
<1>7. CASE Exit(Process)
  BY <1>7, ExitPromises
<1>8. ~(runtime = "cluster")
  BY DEF Ground
<1>9. CASE UNCHANGED historyVars
  BY <1>9 DEF historyVars, gitVars, Ground, Alone, Promises, Sound, Shaped, Minded, Waiting
<1> QED BY <1>1, <1>2, <1>3, <1>4, <1>5, <1>6, <1>7, <1>8, <1>9 DEF HistoryNext
LEMMA RuntimeStays ==
    ASSUME [HistoryNext]_historyVars
    PROVE  runtime' = runtime
<1>1. ASSUME NEW p \in Process, NEW o \in Owner, GitWork(p, o) PROVE runtime' = runtime
  BY <1>1 DEF GitWork, Stage, CommitStaged, CommitFails, Reset, Revert, RequestEnds, RequestFails
<1>2. ASSUME NEW ps, Exit(ps) PROVE runtime' = runtime
  BY <1>2 DEF Exit
<1> QED BY <1>1, <1>2
        DEF HistoryNext, HistoryTick, TimerFires, Report, Edit, Ask, historyVars

LEMMA RollbackStarts == HistoryInit => RollbackIInv
<1> SUFFICES ASSUME HistoryInit PROVE RollbackIInv
  OBVIOUS
<1>1. HistoryIInv
  BY HistoryStarts
<1>2. /\ \A p \in Process, o \in Owner : queue[p][o] = <<>>
      /\ \A r \in Request : req[r].at = Primary
      /\ unreported = {}
      /\ \A o \in Owner : unsaved[o] = {}
  BY DEF HistoryInit, NoTask, NoHistoryRequest
<1>3. Primary \in Process /\ Worker \subseteq Process
  BY DEF Process
<1>4. Alone
  BY <1>2, <1>3 DEF Alone
<1>5. DOMAIN <<>> = {}
  OBVIOUS
<1>6. Promises
  BY <1>2, <1>3, <1>5 DEF Promises, Sound, Shaped, Minded, Waiting
<1> QED BY <1>1, <1>4, <1>6 DEF RollbackIInv

LEMMA RollbackStep == RollbackIInv /\ [HistoryNext]_historyVars => RollbackIInv'
<1> SUFFICES ASSUME RollbackIInv, [HistoryNext]_historyVars PROVE RollbackIInv'
  OBVIOUS
<1>1. HistoryIInv'
  BY TypeStep, NumberedStep, KeptStep, SavedStep DEF RollbackIInv, HistoryIInv
<1>2. runtime' = runtime
  BY RuntimeStays
<1>3. ASSUME runtime = "single" PROVE Alone' /\ Promises'
  BY <1>1, <1>3, PromisesStep DEF Ground, RollbackIInv, HistoryIInv
<1> QED BY <1>1, <1>2, <1>3 DEF RollbackIInv

\* A step that moves a root without a change of its own is a reset by the request
\* at the head of its work.
LEMMA MovesByReset ==
    ASSUME Ground, [HistoryNext]_historyVars, NEW o \in Owner,
           tree'[o] # tree[o], edits' = edits
    PROVE  /\ queue[Primary][o] # <<>>
           /\ Running(Primary, o).kind = "rollback"
<1>1. /\ edits \in Nat /\ edits + 1 # edits /\ tree \in [Owner -> Content]
      /\ \A p \in Process, o1 \in Owner : queue[p][o1] # <<>> => p = Primary
  BY GroundIs DEF HistoryTypeOK
<1>2. PICK p \in Process, o1 \in Owner : Reset(p, o1)
  <2>1. ASSUME NEW p \in Process, NEW o1 \in Owner, Edit(p, o1) \/ Revert(p, o1) PROVE FALSE
    BY <1>1, <2>1 DEF Edit, Revert
  <2>2. ASSUME NEW p \in Process, NEW o1 \in Owner,
               Stage(p, o1) \/ CommitStaged(p, o1) \/ CommitFails(p, o1) \/ RequestEnds(p, o1)
               \/ RequestFails(p, o1) \/ \E r \in Request : Ask(r, p, o1)
        PROVE  FALSE
    BY <2>2 DEF Stage, CommitStaged, CommitFails, RequestEnds, RequestFails, Ask, gitVars
  <2>3. ASSUME NEW o1 \in Owner, TimerFires(o1) PROVE FALSE
    BY <2>3 DEF TimerFires, gitVars
  <2>4. ASSUME NEW w \in Worker, NEW o1 \in Owner, Report(w, o1) PROVE FALSE
    BY <2>4 DEF Report, gitVars
  <2>5. ASSUME NEW ps, Exit(ps) PROVE FALSE
    BY <2>5 DEF Exit, gitVars
  <2>6. CASE HistoryTick \/ UNCHANGED historyVars
    BY <2>6 DEF HistoryTick, historyVars, gitVars
  <2> QED BY <2>1, <2>2, <2>3, <2>4, <2>5, <2>6 DEF HistoryNext, GitWork
<1>3. o1 = o
  BY <1>1, <1>2 DEF Reset
<1>4. queue[p][o] # <<>>
  BY <1>2, <1>3 DEF Reset
<1>5. p = Primary
  BY <1>1, <1>4
<1> QED BY <1>2, <1>3, <1>4, <1>5 DEF Reset

\* In a server that schedules its own commits a rollback overwrites no change made
\* before it was asked for, but those no commit was to come for (missed): for any
\* number of roots, requests under way, changes and failing commands.
THEOREM RollbacksKeepEdits == HistorySpec => RollbackKeepsEdits
<1>1. HistorySpec => []RollbackIInv
  BY RollbackStarts, RollbackStep, PTL DEF HistorySpec
<1>2. ASSUME RollbackIInv, [HistoryNext]_historyVars
      PROVE  [\A r \in Request :
                 LET o == req[r].owner
                 IN /\ runtime = "single" /\ req[r].op = "rollback" /\ req[r].pc = "queued"
                    /\ queue[Primary][o] # <<>> /\ Running(Primary, o).who = r
                    /\ tree'[o] # tree[o] /\ edits' = edits
                    => \A e \in unsaved[o] : e > req[r].asked \/ e \in missed[o]]_historyVars
  <2>1. req \in Requests
    BY <1>2 DEF RollbackIInv, HistoryIInv, HistoryTypeOK, Requests, RequestRecord
  <2> SUFFICES ASSUME NEW r \in Request, NEW o \in Owner, o = req[r].owner,
                      runtime = "single", Running(Primary, o).who = r,
                      tree'[o] # tree[o], edits' = edits
               PROVE  \A e \in unsaved[o] : e > req[r].asked \/ e \in missed[o]
    BY <2>1 DEF Requests, RequestRecord
  <2>2. Ground
    BY <1>2 DEF Ground, RollbackIInv
  <2>3. queue[Primary][o] # <<>> /\ Running(Primary, o).kind = "rollback"
    BY <1>2, <2>2, MovesByReset
  <2>4. PICK s : s = queue[Primary][o]
    OBVIOUS
  <2>5. /\ s[1] = Running(Primary, o) /\ 1 \in DOMAIN s /\ s \in Seq(Task)
        /\ Minded(s, unsaved[o], missed[o], pending[o], index[o])
        /\ Waiting(s, req, unsaved[o], pending[o], index[o])
    BY <2>2, <2>3, <2>4, GroundIs, RunningIs
  <2>6. \/ \A e \in unsaved[o] : e > req[r].asked
        \/ pending[o] = NoCommit /\ \A j \in DOMAIN s : s[j].kind = "commit" => j < 1
    BY <2>3, <2>5 DEF Waiting
  <2>7. ASSUME pending[o] = NoCommit, \A j \in DOMAIN s : s[j].kind = "commit" => j < 1
        PROVE  \A e \in unsaved[o] : e \in missed[o]
    <3>1. \A j \in DOMAIN s : s[j].kind # "commit"
      BY <2>5, <2>7
    <3> QED BY <2>5, <2>7, <3>1 DEF Minded, WillSave
  <2> QED BY <2>6, <2>7
<1> QED BY <1>1, <1>2, PTL DEF HistorySpec, RollbackKeepsEdits
=============================================================================
