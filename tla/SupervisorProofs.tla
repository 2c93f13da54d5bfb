-------------------------- MODULE SupervisorProofs --------------------------
(***************************************************************************)
(* The safety of Supervisor for any number of serve processes and pushes.  *)
(* ActiveIsUsable and NoOrphan are not inductive by themselves: whether a  *)
(* child may be stopped depends on who still owns it, so IInv adds, for    *)
(* every process, what its owner, its drain record and the state of the    *)
(* three loops say about one another.                                      *)
(***************************************************************************)
EXTENDS Supervisor, SequenceLemmas

\* Before the first start settles, nothing else has begun.
StartFirst ==
    main = "starting" =>
        active = NoChild /\ updater.pc = "idle" /\ restarter.pc = "idle"

\* Nobody waits for a child that serves or drains; until stop() it has come up and
\* was not told to exit, and no child drains twice.
ActiveOK ==
    active # NoChild =>
        /\ owner[active] = "nobody"
        /\ ~isStopping => proc[active] = "up" /\ ~signalled[active] /\ ~InDrain(active)

DrainOK ==
    /\ \A i \in DOMAIN draining : owner[draining[i]] = "nobody"
    /\ ~isStopping =>
        /\ \A i \in DOMAIN draining :
              proc[draining[i]] # "booting" /\ ~signalled[draining[i]]
        /\ \A i, j \in DOMAIN draining : draining[i] = draining[j] => i = j

\* Only stop() and the end of a start signal a child; start() and the restart own
\* at most one each, and have not signalled it before they give it up.
OwnerOK ==
    /\ \A c \in Child :
          /\ stopping[c] => signalled[c]
          /\ owner[c] \in {"main", "updater"} => ~signalled[c]
          /\ owner[c] = "main" => main = "starting"
          /\ owner[c] = "restarter" => restarter.pc \in {"starting", "stopping"}
          /\ owner[c] = "restarter" /\ restarter.pc = "starting" => ~signalled[c]
    /\ \A c, d \in Child : owner[c] = owner[d] /\ owner[c] \in {"main", "restarter"} => c = d

IInv == TypeOK /\ StartFirst /\ ActiveOK /\ DrainOK /\ OwnerOK /\ NoOrphan

-----------------------------------------------------------------------------
(* The initial states and the steps.                                       *)

LEMMA InitIInv == Init => IInv
<1> SUFFICES ASSUME Init PROVE IInv
  OBVIOUS
<1> USE SupervisorAssumption DEF Init
<1>1. TypeOK
  <2>1. PICK first \in Child :
           /\ proc = [c \in Child |-> IF c = first THEN "booting" ELSE "gone"]
           /\ owner = [c \in Child |-> IF c = first THEN "main" ELSE "nobody"]
    OBVIOUS
  <2>2. /\ proc \in [Child -> {"gone", "booting", "up"}]
        /\ owner \in [Child -> {"nobody", "main", "updater", "restarter"}]
    BY <2>1
  <2>3. updater \in [pc : {"idle", "staging", "starting"}, revision : Revision]
    BY DEF Idle, Revision
  <2>4. restarter \in [pc : {"idle", "starting", "backoff", "stopping"}, revision : Revision]
    BY DEF Idle, Revision
  <2>5. 0 \in Revision /\ draining \in Seq(Child)
    BY DEF Revision
  <2>6. /\ revision \in [Child -> Revision]
        /\ stopping \in [Child -> BOOLEAN]
        /\ signalled \in [Child -> BOOLEAN]
    BY <2>5
  <2> QED BY <2>2, <2>3, <2>4, <2>5, <2>6 DEF TypeOK
<1>2. StartFirst /\ ActiveOK /\ DrainOK /\ NoOrphan
  BY DEF StartFirst, ActiveOK, DrainOK, NoOrphan, Idle, Running
<1>3. OwnerOK
  BY DEF OwnerOK, Idle
<1> QED BY <1>1, <1>2, <1>3 DEF IInv

LEMMA StartSucceedsInv ==
    ASSUME IInv, NEW c \in Child, StartSucceeds(c)
    PROVE  IInv'
<1> USE SupervisorAssumption DEF IInv, TypeOK
<1>1. TypeOK'
  BY DEF StartSucceeds, BecomesReady, Healthy, Idle, Running, loopVars, routeVars, childVars, Revision
<1>2. StartFirst'
  BY DEF StartSucceeds, BecomesReady, Healthy, Idle, Running, loopVars, routeVars, childVars, StartFirst
<1>3. ActiveOK'
  BY DEF StartSucceeds, BecomesReady, Healthy, Idle, Running, loopVars, routeVars, childVars, ActiveOK, InDrain, DrainOK, OwnerOK, StartFirst
<1>4. DrainOK'
  BY DEF StartSucceeds, BecomesReady, Healthy, Idle, Running, loopVars, routeVars, childVars, DrainOK, ActiveOK, OwnerOK, InDrain, StartFirst
<1>5. OwnerOK'
  BY DEF StartSucceeds, BecomesReady, Healthy, Idle, Running, loopVars, routeVars, childVars, OwnerOK, ActiveOK, DrainOK, StartFirst, InDrain
<1>6. NoOrphan'
  BY DEF StartSucceeds, BecomesReady, Healthy, Idle, Running, loopVars, routeVars, childVars, NoOrphan, InDrain, StartFirst, OwnerOK
<1> QED BY <1>1, <1>2, <1>3, <1>4, <1>5, <1>6 DEF IInv

LEMMA StartFailsInv ==
    ASSUME IInv, NEW c \in Child, StartFails(c)
    PROVE  IInv'
<1> USE SupervisorAssumption DEF IInv, TypeOK
<1>1. TypeOK'
  BY DEF StartFails, Discard, Idle, Running, loopVars, routeVars, childVars, Revision
<1>2. StartFirst'
  BY DEF StartFails, Discard, Idle, Running, loopVars, routeVars, childVars, StartFirst
<1>3. ActiveOK'
  BY DEF StartFails, Discard, Idle, Running, loopVars, routeVars, childVars, ActiveOK, InDrain, DrainOK, OwnerOK, StartFirst
<1>4. DrainOK'
  BY DEF StartFails, Discard, Idle, Running, loopVars, routeVars, childVars, DrainOK, ActiveOK, OwnerOK, InDrain, StartFirst
<1>5. OwnerOK'
  BY DEF StartFails, Discard, Idle, Running, loopVars, routeVars, childVars, OwnerOK, ActiveOK, DrainOK, StartFirst, InDrain
<1>6. NoOrphan'
  BY DEF StartFails, Discard, Idle, Running, loopVars, routeVars, childVars, NoOrphan, InDrain, StartFirst, OwnerOK
<1> QED BY <1>1, <1>2, <1>3, <1>4, <1>5, <1>6 DEF IInv

LEMMA CheckForUpdatesInv ==
    ASSUME IInv, CheckForUpdates
    PROVE  IInv'
<1> USE SupervisorAssumption DEF IInv, TypeOK
<1>1. TypeOK'
  BY DEF CheckForUpdates, Idle, Running, loopVars, routeVars, childVars, Revision
<1>2. StartFirst'
  BY DEF CheckForUpdates, Idle, Running, loopVars, routeVars, childVars, StartFirst
<1>3. ActiveOK'
  BY DEF CheckForUpdates, Idle, Running, loopVars, routeVars, childVars, ActiveOK, InDrain, DrainOK, OwnerOK, StartFirst
<1>4. DrainOK'
  BY DEF CheckForUpdates, Idle, Running, loopVars, routeVars, childVars, DrainOK, ActiveOK, OwnerOK, InDrain, StartFirst
<1>5. OwnerOK'
  BY DEF CheckForUpdates, Idle, Running, loopVars, routeVars, childVars, OwnerOK, ActiveOK, DrainOK, StartFirst, InDrain
<1>6. NoOrphan'
  BY DEF CheckForUpdates, Idle, Running, loopVars, routeVars, childVars, NoOrphan, InDrain, StartFirst, OwnerOK
<1> QED BY <1>1, <1>2, <1>3, <1>4, <1>5, <1>6 DEF IInv

LEMMA StageReleaseInv ==
    ASSUME IInv, NEW c \in Child, StageRelease(c)
    PROVE  IInv'
<1> USE SupervisorAssumption DEF IInv, TypeOK
<1>1. TypeOK'
  BY DEF StageRelease, Spawn, Free, Idle, Running, loopVars, routeVars, childVars, Revision
<1>2. StartFirst'
  BY DEF StageRelease, Spawn, Free, Idle, Running, loopVars, routeVars, childVars, StartFirst
<1>3. ActiveOK'
  BY DEF StageRelease, Spawn, Free, Idle, Running, loopVars, routeVars, childVars, ActiveOK, InDrain, DrainOK, OwnerOK, StartFirst
<1>4. DrainOK'
  BY DEF StageRelease, Spawn, Free, Idle, Running, loopVars, routeVars, childVars, DrainOK, ActiveOK, OwnerOK, InDrain, StartFirst
<1>5. OwnerOK'
  BY DEF StageRelease, Spawn, Free, Idle, Running, loopVars, routeVars, childVars, OwnerOK, ActiveOK, DrainOK, StartFirst, InDrain
<1>6. NoOrphan'
  BY DEF StageRelease, Spawn, Free, Idle, Running, loopVars, routeVars, childVars, NoOrphan, InDrain, StartFirst, OwnerOK
<1> QED BY <1>1, <1>2, <1>3, <1>4, <1>5, <1>6 DEF IInv

LEMMA StagingFailsInv ==
    ASSUME IInv, StagingFails
    PROVE  IInv'
<1> USE SupervisorAssumption DEF IInv, TypeOK
<1>1. TypeOK'
  BY DEF StagingFails, Idle, Running, loopVars, routeVars, childVars, Revision
<1>2. StartFirst'
  BY DEF StagingFails, Idle, Running, loopVars, routeVars, childVars, StartFirst
<1>3. ActiveOK'
  BY DEF StagingFails, Idle, Running, loopVars, routeVars, childVars, ActiveOK, InDrain, DrainOK, OwnerOK, StartFirst
<1>4. DrainOK'
  BY DEF StagingFails, Idle, Running, loopVars, routeVars, childVars, DrainOK, ActiveOK, OwnerOK, InDrain, StartFirst
<1>5. OwnerOK'
  BY DEF StagingFails, Idle, Running, loopVars, routeVars, childVars, OwnerOK, ActiveOK, DrainOK, StartFirst, InDrain
<1>6. NoOrphan'
  BY DEF StagingFails, Idle, Running, loopVars, routeVars, childVars, NoOrphan, InDrain, StartFirst, OwnerOK
<1> QED BY <1>1, <1>2, <1>3, <1>4, <1>5, <1>6 DEF IInv

LEMMA PromoteChildInv ==
    ASSUME IInv, NEW c \in Child, PromoteChild(c)
    PROVE  IInv'
<1> USE SupervisorAssumption DEF IInv, TypeOK
<1>1. TypeOK'
  BY DEF PromoteChild, BecomesReady, Healthy, Serving, Idle, Running, loopVars, routeVars, childVars, Revision
<1>2. StartFirst'
  BY DEF PromoteChild, BecomesReady, Healthy, Serving, Idle, Running, loopVars, routeVars, childVars, StartFirst
<1>3. ActiveOK'
  BY DEF PromoteChild, BecomesReady, Healthy, Serving, Idle, Running, loopVars, routeVars, childVars, ActiveOK, InDrain, DrainOK, OwnerOK, StartFirst
<1>4. DrainOK'
  BY DEF PromoteChild, BecomesReady, Healthy, Serving, Idle, Running, loopVars, routeVars, childVars, DrainOK, ActiveOK, OwnerOK, InDrain, StartFirst
<1>5. OwnerOK'
  BY DEF PromoteChild, BecomesReady, Healthy, Serving, Idle, Running, loopVars, routeVars, childVars, OwnerOK, ActiveOK, DrainOK, StartFirst, InDrain
<1>6. NoOrphan'
  <2>1. DOMAIN draining \subseteq DOMAIN draining'
        /\ \A i \in DOMAIN draining : draining'[i] = draining[i]
    BY DEF PromoteChild, Serving
  <2>2. Serving => Len(draining) + 1 \in DOMAIN draining' /\ draining'[Len(draining) + 1] = active
    BY DEF PromoteChild, Serving
  <2>3. \A d \in Child : InDrain(d) => InDrain(d)'
    BY <2>1 DEF InDrain
  <2>4. \A d \in Child : Serving /\ d = active => InDrain(d)'
    BY <2>2 DEF InDrain
  <2> QED BY <2>3, <2>4 DEF PromoteChild, BecomesReady, Healthy, Serving, Running, NoOrphan
<1> QED BY <1>1, <1>2, <1>3, <1>4, <1>5, <1>6 DEF IInv

LEMMA ReplacementFailsInv ==
    ASSUME IInv, NEW c \in Child, ReplacementFails(c)
    PROVE  IInv'
<1> USE SupervisorAssumption DEF IInv, TypeOK
<1>1. TypeOK'
  BY DEF ReplacementFails, Discard, Idle, Running, loopVars, routeVars, childVars, Revision
<1>2. StartFirst'
  BY DEF ReplacementFails, Discard, Idle, Running, loopVars, routeVars, childVars, StartFirst
<1>3. ActiveOK'
  BY DEF ReplacementFails, Discard, Idle, Running, loopVars, routeVars, childVars, ActiveOK, InDrain, DrainOK, OwnerOK, StartFirst
<1>4. DrainOK'
  BY DEF ReplacementFails, Discard, Idle, Running, loopVars, routeVars, childVars, DrainOK, ActiveOK, OwnerOK, InDrain, StartFirst
<1>5. OwnerOK'
  BY DEF ReplacementFails, Discard, Idle, Running, loopVars, routeVars, childVars, OwnerOK, ActiveOK, DrainOK, StartFirst, InDrain
<1>6. NoOrphan'
  BY DEF ReplacementFails, Discard, Idle, Running, loopVars, routeVars, childVars, NoOrphan, InDrain, StartFirst, OwnerOK
<1> QED BY <1>1, <1>2, <1>3, <1>4, <1>5, <1>6 DEF IInv

\* It adds no record and takes out no other.
LEMMA RemoveAtElements ==
    ASSUME NEW S, NEW s \in Seq(S), NEW i \in DOMAIN s
    PROVE  /\ \A j \in DOMAIN RemoveAt(s, i) : \E m \in DOMAIN s : RemoveAt(s, i)[j] = s[m]
           /\ \A m \in DOMAIN s : m # i => \E j \in DOMAIN RemoveAt(s, i) : RemoveAt(s, i)[j] = s[m]
<1>1. /\ DOMAIN RemoveAt(s, i) = 1 .. (Len(s) - 1)
      /\ \A j \in 1 .. (Len(s) - 1) :
            RemoveAt(s, i)[j] = IF j < i THEN s[j] ELSE s[j + 1]
  BY RemoveAtIs
<1>2. DOMAIN s = 1 .. Len(s) /\ Len(s) \in Nat
  OBVIOUS
<1>3. ASSUME NEW j \in DOMAIN RemoveAt(s, i)
      PROVE  \E m \in DOMAIN s : RemoveAt(s, i)[j] = s[m]
  <2>1. j \in DOMAIN s /\ j + 1 \in DOMAIN s
    BY <1>1, <1>2
  <2> QED BY <1>1, <2>1
<1>4. ASSUME NEW m \in DOMAIN s, m # i
      PROVE  \E j \in DOMAIN RemoveAt(s, i) : RemoveAt(s, i)[j] = s[m]
  <2>1. CASE m < i
    <3>1. m \in 1 .. (Len(s) - 1)
      BY <1>2, <2>1
    <3> QED BY <1>1, <2>1, <3>1
  <2>2. CASE m > i
    <3>1. m - 1 \in 1 .. (Len(s) - 1) /\ ~(m - 1 < i) /\ (m - 1) + 1 = m
      BY <1>2, <2>2
    <3> QED BY <1>1, <3>1
  <2> QED BY <1>2, <1>4, <2>1, <2>2
<1> QED BY <1>3, <1>4

\* What is left of the drain records when one is taken out.
LEMMA Unlisted ==
    ASSUME TypeOK, NEW i \in DOMAIN draining, draining' = RemoveAt(draining, i),
           \A m, n \in DOMAIN draining : draining[m] = draining[n] => m = n
    PROVE  /\ draining' \in Seq(Child)
           /\ \A j \in DOMAIN draining' : \E m \in DOMAIN draining : draining'[j] = draining[m]
           /\ \A j \in DOMAIN draining' : draining'[j] # draining[i]
           /\ \A j, m \in DOMAIN draining' : draining'[j] = draining'[m] => j = m
           /\ \A d \in Child : InDrain(d) => InDrain(d)' \/ d = draining[i]
<1>1. draining \in Seq(Child)
  BY DEF TypeOK
<1>2. /\ draining' \in Seq(Child)
      /\ DOMAIN draining' = 1 .. (Len(draining) - 1)
      /\ \A j \in 1 .. (Len(draining) - 1) :
            draining'[j] = IF j < i THEN draining[j] ELSE draining[j + 1]
  BY <1>1, RemoveAtIs
<1>3. DOMAIN draining = 1 .. Len(draining) /\ Len(draining) \in Nat
  BY <1>1
<1> DEFINE from(j) == IF j < i THEN j ELSE j + 1
<1>4. \A j \in DOMAIN draining' :
         from(j) \in DOMAIN draining /\ from(j) # i /\ draining'[j] = draining[from(j)]
  BY <1>2, <1>3
<1>5. \A j, m \in DOMAIN draining' : from(j) = from(m) => j = m
  BY <1>2, <1>3
<1>6. \A m \in DOMAIN draining : m # i =>
         \E j \in DOMAIN draining' : from(j) = m
  <2> SUFFICES ASSUME NEW m \in DOMAIN draining, m # i
               PROVE  \E j \in DOMAIN draining' : from(j) = m
    OBVIOUS
  <2>1. CASE m < i
    BY <1>2, <1>3, <2>1
  <2>2. CASE m > i
    <3>1. m - 1 \in DOMAIN draining' /\ from(m - 1) = m
      BY <1>2, <1>3, <2>2
    <3> QED BY <3>1
  <2> QED BY <1>3, <2>1, <2>2
<1> HIDE DEF from
<1>7. \A d \in Child : InDrain(d) => InDrain(d)' \/ d = draining[i]
  BY <1>4, <1>6 DEF InDrain
<1> QED BY <1>2, <1>4, <1>5, <1>7

LEMMA DrainEndsInv ==
    ASSUME IInv, NEW c \in Child, DrainEnds(c)
    PROVE  IInv'
<1> USE DEF IInv
<1> DEFINE rest == <<loopVars, active, activeRevision, abandoned, proc, owner, revision, remote>>
<1>1. PICK i \in DOMAIN draining : draining[i] = c /\ draining' = RemoveAt(draining, i)
  BY DEF DrainEnds
<1>2. /\ StopChildren({c})
      /\ UNCHANGED rest
  BY DEF DrainEnds
<1>a. /\ signalled' \in [Child -> BOOLEAN] /\ stopping' \in [Child -> BOOLEAN]
      /\ \A d \in Child : d # c => signalled'[d] = signalled[d] /\ stopping'[d] = stopping[d]
      /\ signalled[c] \/ Running(c) => signalled'[c]
      /\ stopping'[c] => stopping[c] \/ Running(c)
  <2> DEFINE live == {d \in {c} : Running(d)}
  <2>1. /\ signalled' = [d \in Child |-> signalled[d] \/ d \in live]
        /\ stopping' = [d \in Child |-> stopping[d] \/ d \in live]
    BY <1>2 DEF StopChildren
  <2>2. \A d \in Child : d \in live <=> d = c /\ Running(c)
    BY DEF Running
  <2> HIDE DEF live
  <2> QED BY <2>1, <2>2 DEF TypeOK
<1>3. draining' \in Seq(Child)
  BY <1>1, RemoveAtIs DEF TypeOK
<1>4. TypeOK'
  BY <1>2, <1>3, <1>a DEF TypeOK, loopVars, Revision, Running
<1>5. StartFirst'
  BY <1>2 DEF StartFirst, loopVars
<1>b. NoOrphan'
  <2>1. \A d \in Child : Running(d)' = Running(d)
    BY <1>2 DEF Running
  <2>2. Running(c) => signalled'[c]
    BY <1>a
  <2>3. \A d \in Child : InDrain(d) => InDrain(d)' \/ d = c
    BY <1>1, RemoveAtElements DEF InDrain, TypeOK
  <2>4. \A d \in Child : d # c => signalled'[d] = signalled[d]
    BY <1>a
  <2> QED BY <1>2, <2>1, <2>2, <2>3, <2>4 DEF NoOrphan, loopVars
<1>6. CASE isStopping
  <2>1. owner[c] = "nobody"
    BY <1>1 DEF DrainOK
  <2>2. OwnerOK'
    BY <1>2, <1>a, <2>1 DEF OwnerOK, loopVars, TypeOK
  <2>3. ActiveOK'
    BY <1>2, <1>6 DEF ActiveOK, loopVars
  <2>4. \A j \in DOMAIN draining' : \E m \in DOMAIN draining : draining'[j] = draining[m]
    BY <1>1, RemoveAtElements DEF TypeOK
  <2>5. DrainOK'
    BY <1>2, <1>6, <2>4 DEF DrainOK, loopVars
  <2> QED BY <1>4, <1>5, <1>b, <2>2, <2>3, <2>5
<1>7. CASE ~isStopping
  <2>1. \A m, n \in DOMAIN draining : draining[m] = draining[n] => m = n
    BY <1>7 DEF DrainOK
  <2>2. /\ \A j \in DOMAIN draining' : \E m \in DOMAIN draining : draining'[j] = draining[m]
        /\ \A j \in DOMAIN draining' : draining'[j] # c
        /\ \A j, m \in DOMAIN draining' : draining'[j] = draining'[m] => j = m
        /\ \A d \in Child : InDrain(d) => InDrain(d)' \/ d = c
    BY <1>1, <2>1, Unlisted
  <2>3. c # active /\ owner[c] = "nobody"
    BY <1>1, <1>7, SupervisorAssumption DEF ActiveOK, DrainOK, InDrain, TypeOK
  <2>4. \A d \in Child : d # c => signalled'[d] = signalled[d] /\ stopping'[d] = stopping[d]
    BY <1>a DEF TypeOK
  <2>5. ActiveOK'
    <3>1. ~isStopping' /\ active' = active /\ proc' = proc /\ owner' = owner
      BY <1>2, <1>7 DEF loopVars
    <3>2. \A d \in Child : InDrain(d)' => InDrain(d)
      BY <2>2 DEF InDrain
    <3> QED BY <1>7, <2>3, <2>4, <3>1, <3>2 DEF ActiveOK, TypeOK
  <2>6. DrainOK'
    <3>1. \A j \in DOMAIN draining' :
             /\ proc[draining'[j]] # "booting"
             /\ owner[draining'[j]] = "nobody"
             /\ ~signalled[draining'[j]]
      BY <1>7, <2>2 DEF DrainOK
    <3>2. \A j \in DOMAIN draining' : draining'[j] \in Child
      BY <1>3
    <3> QED BY <1>2, <2>2, <2>4, <3>1, <3>2 DEF DrainOK
  <2>7. OwnerOK'
    BY <1>2, <1>a, <2>3, <2>4 DEF OwnerOK, loopVars, TypeOK
  <2> QED BY <1>4, <1>5, <1>b, <2>5, <2>6, <2>7
<1> QED BY <1>6, <1>7

LEMMA DrainAbandonedInv ==
    ASSUME IInv, NEW c \in Child, DrainAbandoned(c)
    PROVE  IInv'
<1> USE SupervisorAssumption DEF IInv, TypeOK
<1>1. TypeOK'
  BY DEF DrainAbandoned, Idle, Running, loopVars, routeVars, childVars, Revision
<1>2. StartFirst'
  BY DEF DrainAbandoned, Idle, Running, loopVars, routeVars, childVars, StartFirst
<1>3. ActiveOK'
  BY DEF DrainAbandoned, Idle, Running, loopVars, routeVars, childVars, ActiveOK, InDrain, DrainOK, OwnerOK, StartFirst
<1>4. DrainOK'
  BY DEF DrainAbandoned, Idle, Running, loopVars, routeVars, childVars, DrainOK, ActiveOK, OwnerOK, InDrain, StartFirst
<1>5. OwnerOK'
  BY DEF DrainAbandoned, Idle, Running, loopVars, routeVars, childVars, OwnerOK, ActiveOK, DrainOK, StartFirst, InDrain
<1>6. NoOrphan'
  BY DEF DrainAbandoned, Idle, Running, loopVars, routeVars, childVars, NoOrphan, InDrain, StartFirst, OwnerOK
<1> QED BY <1>1, <1>2, <1>3, <1>4, <1>5, <1>6 DEF IInv

LEMMA ChildExitsInv ==
    ASSUME IInv, NEW c \in Child, ChildExits(c)
    PROVE  IInv'
<1> USE SupervisorAssumption DEF IInv, TypeOK
<1>1. TypeOK'
  BY DEF ChildExits, Gone, Idle, Running, loopVars, routeVars, childVars, Revision
<1>2. StartFirst'
  BY DEF ChildExits, Gone, Idle, Running, loopVars, routeVars, childVars, StartFirst
<1>3. ActiveOK'
  BY DEF ChildExits, Gone, Idle, Running, loopVars, routeVars, childVars, ActiveOK, InDrain, DrainOK, OwnerOK, StartFirst
<1>4. DrainOK'
  BY DEF ChildExits, Gone, Idle, Running, loopVars, routeVars, childVars, DrainOK, ActiveOK, OwnerOK, InDrain, StartFirst
<1>5. OwnerOK'
  BY DEF ChildExits, Gone, Idle, Running, loopVars, routeVars, childVars, OwnerOK, ActiveOK, DrainOK, StartFirst, InDrain
<1>6. NoOrphan'
  BY DEF ChildExits, Gone, Idle, Running, loopVars, routeVars, childVars, NoOrphan, InDrain, StartFirst, OwnerOK
<1> QED BY <1>1, <1>2, <1>3, <1>4, <1>5, <1>6 DEF IInv

LEMMA FallBackInv ==
    ASSUME IInv, NEW c \in Child, FallBack(c)
    PROVE  IInv'
<1> USE DEF IInv
<1>1. PICK i \in FallbackIndexes :
         /\ active' = draining[i]
         /\ activeRevision' = revision[draining[i]]
         /\ draining' = RemoveAt(draining, i)
         /\ abandoned' = abandoned \cup {draining[i]}
  BY DEF FallBack
<1> DEFINE back == draining[i]
<1>2. /\ c = active /\ Running(c) /\ ~isStopping
      /\ proc' = [proc EXCEPT ![c] = "gone"]
      /\ UNCHANGED <<loopVars, owner, revision, stopping, signalled, remote>>
  BY DEF FallBack, ActiveCrashes, Gone
<1>3. i \in DOMAIN draining /\ back \in Child /\ Running(back)
  BY <1>1 DEF FallbackIndexes, TypeOK
<1>4. \A m, n \in DOMAIN draining : draining[m] = draining[n] => m = n
  BY <1>2 DEF DrainOK
<1>5. /\ draining' \in Seq(Child)
      /\ \A j \in DOMAIN draining' : \E m \in DOMAIN draining : draining'[j] = draining[m]
      /\ \A j \in DOMAIN draining' : draining'[j] # back
      /\ \A j, m \in DOMAIN draining' : draining'[j] = draining'[m] => j = m
      /\ \A d \in Child : InDrain(d) => InDrain(d)' \/ d = back
  BY <1>1, <1>3, <1>4, Unlisted
<1>6. back # c /\ owner[back] = "nobody" /\ ~signalled[back]
  BY <1>2, <1>3, SupervisorAssumption DEF ActiveOK, DrainOK, InDrain, TypeOK
<1>7. TypeOK'
  BY <1>1, <1>2, <1>3, <1>5 DEF TypeOK, loopVars
<1>8. StartFirst'
  BY <1>2, SupervisorAssumption DEF StartFirst, loopVars
<1>9. ActiveOK'
  <2>1. proc[back] = "up"
    <3>1. proc[back] # "gone"
      BY <1>3 DEF Running
    <3> QED BY <1>2, <1>3, <3>1 DEF DrainOK, TypeOK
  <2> QED BY <1>1, <1>2, <1>3, <1>5, <1>6, <2>1 DEF ActiveOK, InDrain, TypeOK, loopVars
<1>10. DrainOK'
  BY <1>2, <1>5 DEF DrainOK, loopVars
<1>11. OwnerOK'
  BY <1>2 DEF OwnerOK, loopVars
<1>12. NoOrphan'
  <2>1. \A d \in Child : d # c => Running(d)' = Running(d)
    BY <1>2 DEF Running, TypeOK
  <2>2. ~Running(c)'
    BY <1>2 DEF Running, TypeOK
  <2> QED BY <1>1, <1>2, <1>5, <2>1, <2>2 DEF NoOrphan, loopVars
<1> QED BY <1>7, <1>8, <1>9, <1>10, <1>11, <1>12

LEMMA CrashRestartsInv ==
    ASSUME IInv, NEW c \in Child, CrashRestarts(c)
    PROVE  IInv'
<1> USE SupervisorAssumption DEF IInv, TypeOK
<1>1. TypeOK'
  <2>1. c \in Child /\ revision[c] \in Revision
    BY DEF TypeOK
  <2>2. proc' \in [Child -> {"gone", "booting", "up"}]
    BY DEF CrashRestarts, Gone, Spawn, TypeOK
  <2>3. /\ owner' \in [Child -> {"nobody", "main", "updater", "restarter"}]
        /\ revision' \in [Child -> Revision]
        /\ stopping' \in [Child -> BOOLEAN]
        /\ signalled' \in [Child -> BOOLEAN]
    BY <2>1 DEF CrashRestarts, Spawn, TypeOK
  <2>4. restarter' \in [pc : {"idle", "starting", "backoff", "stopping"}, revision : Revision]
    BY <2>1 DEF CrashRestarts, TypeOK
  <2> QED BY <2>2, <2>3, <2>4 DEF CrashRestarts, TypeOK
<1>2. StartFirst'
  BY DEF CrashRestarts, ActiveCrashes, FallbackIndexes, Gone, Spawn, Free, Idle, Running, loopVars, routeVars, childVars, StartFirst
<1>3. ActiveOK'
  BY DEF CrashRestarts, ActiveCrashes, FallbackIndexes, Gone, Spawn, Free, Idle, Running, loopVars, routeVars, childVars, ActiveOK, InDrain, DrainOK, OwnerOK, StartFirst
<1>4. DrainOK'
  BY DEF CrashRestarts, ActiveCrashes, FallbackIndexes, Gone, Spawn, Free, Idle, Running, loopVars, routeVars, childVars, DrainOK, ActiveOK, OwnerOK, InDrain, StartFirst
<1>5. OwnerOK'
  BY DEF CrashRestarts, ActiveCrashes, FallbackIndexes, Gone, Spawn, Free, Idle, Running, loopVars, routeVars, childVars, OwnerOK, ActiveOK, DrainOK, StartFirst, InDrain
<1>6. NoOrphan'
  BY DEF CrashRestarts, ActiveCrashes, FallbackIndexes, Gone, Spawn, Free, Idle, Running, loopVars, routeVars, childVars, NoOrphan, InDrain, StartFirst, OwnerOK
<1> QED BY <1>1, <1>2, <1>3, <1>4, <1>5, <1>6 DEF IInv

LEMMA RestartSucceedsInv ==
    ASSUME IInv, NEW c \in Child, RestartSucceeds(c)
    PROVE  IInv'
<1> USE SupervisorAssumption DEF IInv, TypeOK
<1>1. TypeOK'
  BY DEF RestartSucceeds, Restarting, Healthy, BecomesReady, Idle, Running, loopVars, routeVars, childVars, Revision
<1>2. StartFirst'
  BY DEF RestartSucceeds, Restarting, Healthy, BecomesReady, Idle, Running, loopVars, routeVars, childVars, StartFirst
<1>3. ActiveOK'
  BY DEF RestartSucceeds, Restarting, Healthy, BecomesReady, Idle, Running, loopVars, routeVars, childVars, ActiveOK, InDrain, DrainOK, OwnerOK, StartFirst
<1>4. DrainOK'
  BY DEF RestartSucceeds, Restarting, Healthy, BecomesReady, Idle, Running, loopVars, routeVars, childVars, DrainOK, ActiveOK, OwnerOK, InDrain, StartFirst
<1>5. OwnerOK'
  BY DEF RestartSucceeds, Restarting, Healthy, BecomesReady, Idle, Running, loopVars, routeVars, childVars, OwnerOK, ActiveOK, DrainOK, StartFirst, InDrain
<1>6. NoOrphan'
  BY DEF RestartSucceeds, Restarting, Healthy, BecomesReady, Idle, Running, loopVars, routeVars, childVars, NoOrphan, InDrain, StartFirst, OwnerOK
<1> QED BY <1>1, <1>2, <1>3, <1>4, <1>5, <1>6 DEF IInv

LEMMA RestartOvertakenInv ==
    ASSUME IInv, NEW c \in Child, RestartOvertaken(c)
    PROVE  IInv'
<1> USE SupervisorAssumption DEF IInv, TypeOK
<1>1. TypeOK'
  BY DEF RestartOvertaken, Restarting, Healthy, StopChildren, Idle, Running, loopVars, routeVars, childVars, Revision
<1>2. StartFirst'
  BY DEF RestartOvertaken, Restarting, Healthy, StopChildren, Idle, Running, loopVars, routeVars, childVars, StartFirst
<1>3. ActiveOK'
  BY DEF RestartOvertaken, Restarting, Healthy, StopChildren, Idle, Running, loopVars, routeVars, childVars, ActiveOK, InDrain, DrainOK, OwnerOK, StartFirst
<1>4. DrainOK'
  BY DEF RestartOvertaken, Restarting, Healthy, StopChildren, Idle, Running, loopVars, routeVars, childVars, DrainOK, ActiveOK, OwnerOK, InDrain, StartFirst
<1>5. OwnerOK'
  BY DEF RestartOvertaken, Restarting, Healthy, StopChildren, Idle, Running, loopVars, routeVars, childVars, OwnerOK, ActiveOK, DrainOK, StartFirst, InDrain
<1>6. NoOrphan'
  BY DEF RestartOvertaken, Restarting, Healthy, StopChildren, Idle, Running, loopVars, routeVars, childVars, NoOrphan, InDrain, StartFirst, OwnerOK
<1> QED BY <1>1, <1>2, <1>3, <1>4, <1>5, <1>6 DEF IInv

LEMMA RestartStoppedInv ==
    ASSUME IInv, NEW c \in Child, RestartStopped(c)
    PROVE  IInv'
<1> USE SupervisorAssumption DEF IInv, TypeOK
<1>1. TypeOK'
  BY DEF RestartStopped, Idle, Running, loopVars, routeVars, childVars, Revision
<1>2. StartFirst'
  BY DEF RestartStopped, Idle, Running, loopVars, routeVars, childVars, StartFirst
<1>3. ActiveOK'
  BY DEF RestartStopped, Idle, Running, loopVars, routeVars, childVars, ActiveOK, InDrain, DrainOK, OwnerOK, StartFirst
<1>4. DrainOK'
  BY DEF RestartStopped, Idle, Running, loopVars, routeVars, childVars, DrainOK, ActiveOK, OwnerOK, InDrain, StartFirst
<1>5. OwnerOK'
  BY DEF RestartStopped, Idle, Running, loopVars, routeVars, childVars, OwnerOK, ActiveOK, DrainOK, StartFirst, InDrain
<1>6. NoOrphan'
  BY DEF RestartStopped, Idle, Running, loopVars, routeVars, childVars, NoOrphan, InDrain, StartFirst, OwnerOK
<1> QED BY <1>1, <1>2, <1>3, <1>4, <1>5, <1>6 DEF IInv

LEMMA RestartFailsInv ==
    ASSUME IInv, NEW c \in Child, RestartFails(c)
    PROVE  IInv'
<1> USE SupervisorAssumption DEF IInv, TypeOK
<1>1. TypeOK'
  <2>1. restarter' \in [pc : {"idle", "starting", "backoff", "stopping"}, revision : Revision]
    <3>1. 0 \in Revision /\ restarter.revision \in Revision
      BY DEF Revision, TypeOK
    <3>2. \/ restarter' = [pc |-> "idle", revision |-> 0]
          \/ restarter' = [restarter EXCEPT !.pc = "backoff"]
      BY DEF RestartFails, Idle
    <3> QED BY <3>1, <3>2 DEF TypeOK
  <2>2. Running(c) \in BOOLEAN
    BY DEF Running
  <2>3. /\ owner' \in [Child -> {"nobody", "main", "updater", "restarter"}]
        /\ signalled' \in [Child -> BOOLEAN]
    BY <2>2 DEF RestartFails, Discard, TypeOK
  <2> QED BY <2>1, <2>3 DEF RestartFails, Discard, routeVars, TypeOK
<1>2. StartFirst'
  BY DEF RestartFails, Restarting, Discard, Idle, Running, loopVars, routeVars, childVars, StartFirst
<1>3. ActiveOK'
  BY DEF RestartFails, Restarting, Discard, Idle, Running, loopVars, routeVars, childVars, ActiveOK, InDrain, DrainOK, OwnerOK, StartFirst
<1>4. DrainOK'
  BY DEF RestartFails, Restarting, Discard, Idle, Running, loopVars, routeVars, childVars, DrainOK, ActiveOK, OwnerOK, InDrain, StartFirst
<1>5. OwnerOK'
  BY DEF RestartFails, Restarting, Discard, Idle, Running, loopVars, routeVars, childVars, OwnerOK, ActiveOK, DrainOK, StartFirst, InDrain
<1>6. NoOrphan'
  BY DEF RestartFails, Restarting, Discard, Idle, Running, loopVars, routeVars, childVars, NoOrphan, InDrain, StartFirst, OwnerOK
<1> QED BY <1>1, <1>2, <1>3, <1>4, <1>5, <1>6 DEF IInv

LEMMA RestartAgainInv ==
    ASSUME IInv, NEW c \in Child, RestartAgain(c)
    PROVE  IInv'
<1> USE SupervisorAssumption DEF IInv, TypeOK
<1>1. TypeOK'
  BY DEF RestartAgain, Spawn, Free, Idle, Running, loopVars, routeVars, childVars, Revision
<1>2. StartFirst'
  BY DEF RestartAgain, Spawn, Free, Idle, Running, loopVars, routeVars, childVars, StartFirst
<1>3. ActiveOK'
  BY DEF RestartAgain, Spawn, Free, Idle, Running, loopVars, routeVars, childVars, ActiveOK, InDrain, DrainOK, OwnerOK, StartFirst
<1>4. DrainOK'
  BY DEF RestartAgain, Spawn, Free, Idle, Running, loopVars, routeVars, childVars, DrainOK, ActiveOK, OwnerOK, InDrain, StartFirst
<1>5. OwnerOK'
  BY DEF RestartAgain, Spawn, Free, Idle, Running, loopVars, routeVars, childVars, OwnerOK, ActiveOK, DrainOK, StartFirst, InDrain
<1>6. NoOrphan'
  BY DEF RestartAgain, Spawn, Free, Idle, Running, loopVars, routeVars, childVars, NoOrphan, InDrain, StartFirst, OwnerOK
<1> QED BY <1>1, <1>2, <1>3, <1>4, <1>5, <1>6 DEF IInv

LEMMA StopInv ==
    ASSUME IInv, Stop
    PROVE  IInv'
<1> USE SupervisorAssumption DEF IInv, TypeOK
<1>1. TypeOK'
  BY DEF Stop, StopChildren, Stoppable, Idle, Running, loopVars, routeVars, childVars, Revision
<1>2. StartFirst'
  BY DEF Stop, StopChildren, Stoppable, Idle, Running, loopVars, routeVars, childVars, StartFirst
<1>3. ActiveOK'
  BY DEF Stop, StopChildren, Stoppable, Idle, Running, loopVars, routeVars, childVars, ActiveOK, InDrain, DrainOK, OwnerOK, StartFirst
<1>4. DrainOK'
  BY DEF Stop, StopChildren, Stoppable, Idle, Running, loopVars, routeVars, childVars, DrainOK, ActiveOK, OwnerOK, InDrain, StartFirst
<1>5. OwnerOK'
  BY DEF Stop, StopChildren, Stoppable, Idle, Running, loopVars, routeVars, childVars, OwnerOK, ActiveOK, DrainOK, StartFirst, InDrain
<1>6. NoOrphan'
  BY DEF Stop, StopChildren, Stoppable, Idle, Running, loopVars, routeVars, childVars, NoOrphan, InDrain, StartFirst, OwnerOK
<1> QED BY <1>1, <1>2, <1>3, <1>4, <1>5, <1>6 DEF IInv

LEMMA StopProxyInv ==
    ASSUME IInv, StopProxy
    PROVE  IInv'
<1> USE SupervisorAssumption DEF IInv, TypeOK
<1>1. TypeOK'
  BY DEF StopProxy, Idle, Running, loopVars, routeVars, childVars, Revision
<1>2. StartFirst'
  BY DEF StopProxy, Idle, Running, loopVars, routeVars, childVars, StartFirst
<1>3. ActiveOK'
  BY DEF StopProxy, Idle, Running, loopVars, routeVars, childVars, ActiveOK, InDrain, DrainOK, OwnerOK, StartFirst
<1>4. DrainOK'
  BY DEF StopProxy, Idle, Running, loopVars, routeVars, childVars, DrainOK, ActiveOK, OwnerOK, InDrain, StartFirst
<1>5. OwnerOK'
  BY DEF StopProxy, Idle, Running, loopVars, routeVars, childVars, OwnerOK, ActiveOK, DrainOK, StartFirst, InDrain
<1>6. NoOrphan'
  BY DEF StopProxy, Idle, Running, loopVars, routeVars, childVars, NoOrphan, InDrain, StartFirst, OwnerOK
<1> QED BY <1>1, <1>2, <1>3, <1>4, <1>5, <1>6 DEF IInv

LEMMA StopResolvesInv ==
    ASSUME IInv, StopResolves
    PROVE  IInv'
<1> USE SupervisorAssumption DEF IInv, TypeOK
<1>1. TypeOK'
  BY DEF StopResolves, Idle, Running, loopVars, routeVars, childVars, Revision
<1>2. StartFirst'
  BY DEF StopResolves, Idle, Running, loopVars, routeVars, childVars, StartFirst
<1>3. ActiveOK'
  BY DEF StopResolves, Idle, Running, loopVars, routeVars, childVars, ActiveOK, InDrain, DrainOK, OwnerOK, StartFirst
<1>4. DrainOK'
  BY DEF StopResolves, Idle, Running, loopVars, routeVars, childVars, DrainOK, ActiveOK, OwnerOK, InDrain, StartFirst
<1>5. OwnerOK'
  BY DEF StopResolves, Idle, Running, loopVars, routeVars, childVars, OwnerOK, ActiveOK, DrainOK, StartFirst, InDrain
<1>6. NoOrphan'
  BY DEF StopResolves, Idle, Running, loopVars, routeVars, childVars, NoOrphan, InDrain, StartFirst, OwnerOK
<1> QED BY <1>1, <1>2, <1>3, <1>4, <1>5, <1>6 DEF IInv

LEMMA PushInv ==
    ASSUME IInv, Push
    PROVE  IInv'
<1> USE SupervisorAssumption DEF IInv, TypeOK
<1>1. TypeOK'
  BY DEF Push, Idle, Running, loopVars, routeVars, childVars, Revision
<1>2. StartFirst'
  BY DEF Push, Idle, Running, loopVars, routeVars, childVars, StartFirst
<1>3. ActiveOK'
  BY DEF Push, Idle, Running, loopVars, routeVars, childVars, ActiveOK, InDrain, DrainOK, OwnerOK, StartFirst
<1>4. DrainOK'
  BY DEF Push, Idle, Running, loopVars, routeVars, childVars, DrainOK, ActiveOK, OwnerOK, InDrain, StartFirst
<1>5. OwnerOK'
  BY DEF Push, Idle, Running, loopVars, routeVars, childVars, OwnerOK, ActiveOK, DrainOK, StartFirst, InDrain
<1>6. NoOrphan'
  BY DEF Push, Idle, Running, loopVars, routeVars, childVars, NoOrphan, InDrain, StartFirst, OwnerOK
<1> QED BY <1>1, <1>2, <1>3, <1>4, <1>5, <1>6 DEF IInv

-----------------------------------------------------------------------------
(* The theorems.                                                           *)

LEMMA StepIInv == IInv /\ [Next]_vars => IInv'
<1> SUFFICES ASSUME IInv, [Next]_vars PROVE IInv'
  OBVIOUS
<1>1. CASE UNCHANGED vars
  <2>1. TypeOK' /\ StartFirst'
    BY <1>1 DEF IInv, TypeOK, StartFirst, vars, loopVars, routeVars, childVars
  <2>2. ActiveOK' /\ DrainOK' /\ OwnerOK' /\ NoOrphan'
    BY <1>1 DEF IInv, ActiveOK, DrainOK, OwnerOK, NoOrphan, InDrain, Running,
                vars, loopVars, routeVars, childVars
  <2> QED BY <2>1, <2>2 DEF IInv
<1>2. CASE CheckForUpdates \/ StagingFails \/ Stop \/ StopProxy \/ StopResolves \/ Push
  BY <1>2, CheckForUpdatesInv, StagingFailsInv, StopInv, StopProxyInv, StopResolvesInv, PushInv
<1>3. ASSUME NEW c \in Child, ChildNext(c)
      PROVE  IInv'
  BY <1>3, StartSucceedsInv, StartFailsInv, StageReleaseInv, PromoteChildInv,
     ReplacementFailsInv, DrainEndsInv, DrainAbandonedInv, ChildExitsInv, FallBackInv,
     CrashRestartsInv, RestartSucceedsInv, RestartOvertakenInv, RestartStoppedInv,
     RestartFailsInv, RestartAgainInv
     DEF ChildNext
<1> QED BY <1>1, <1>2, <1>3 DEF Next

LEMMA IInvAlways == Spec => []IInv
  BY InitIInv, StepIInv, PTL DEF Spec

\* Every reachable state of the supervisor is well typed.
THEOREM SupervisorTypes == Spec => []TypeOK
<1>1. IInv => TypeOK
  BY DEF IInv
<1> QED BY <1>1, IInvAlways, PTL

\* Whatever crashes, updates, restarts and drains overlap: until stop(), the
\* child behind the proxy runs and nobody stops it.
THEOREM ActiveStaysUsable == Spec => []ActiveIsUsable
<1>1. IInv => ActiveIsUsable
  BY DEF IInv, ActiveOK, ActiveIsUsable
<1> QED BY <1>1, IInvAlways, PTL

\* No serve process is lost track of, those that come up after stop() included.
THEOREM NothingOrphaned == Spec => []NoOrphan
<1>1. IInv => NoOrphan
  BY DEF IInv
<1> QED BY <1>1, IInvAlways, PTL
=============================================================================
