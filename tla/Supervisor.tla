----------------------------- MODULE Supervisor -----------------------------
(***************************************************************************)
(* SpaceSupervisor (commands/lib/supervisor/supervisor.js): the process    *)
(* behind `node space supervise`.  It keeps one active serve child behind  *)
(* the public proxy, replaces it when the watched branch moves, lets the   *)
(* replaced child drain, and restarts a crashed one.                       *)
(*                                                                         *)
(* Its concurrent activities are promises on one event loop: the initial   *)
(* start, the update check, the crash restart, one drain per replaced      *)
(* child, and stop().  An action runs from one await to the next.  The     *)
(* serve children are processes of their own and may exit at any moment; a *)
(* child that has exited answers no health check.                          *)
(***************************************************************************)
EXTENDS Integers, Sequences, SequencesExt

CONSTANTS
    Child,        \* serve processes that may exist at once (a bound)
    NoChild,
    MaxRevision   \* bound on pushes to the watched branch

ASSUME SupervisorAssumption ==
    /\ NoChild \notin Child
    /\ MaxRevision \in Nat

VARIABLES
    main,            \* start(): starting, running or failed
    isStopping,
    stopper,         \* stop(): not called, waiting for its children, closing the
                     \* proxy, or resolved
    active,          \* activeChild
    activeRevision,  \* activeTarget.revision
    draining,        \* drainingChildren, oldest first
    abandoned,       \* children whose drain loop will find its record gone
    updater,         \* checkForUpdates: [pc, revision]
    restarter,       \* restartFromTarget: [pc, revision]
    stopWait,        \* children stop() waits for
    proc,            \* serve processes: gone, booting or up
    owner,           \* who waits for a child's start (or for its stop)
    revision,        \* the revision a child runs
    stopping,        \* ServeChild.stopping
    signalled,       \* SIGTERM sent
    remote           \* revision of the watched branch

loopVars == <<main, isStopping, stopper, updater, restarter, stopWait>>
routeVars == <<active, activeRevision, draining, abandoned>>
childVars == <<proc, owner, revision, stopping, signalled>>
vars == <<loopVars, routeVars, childVars, remote>>

Revision == 0 .. MaxRevision

TypeOK ==
    /\ main \in {"starting", "running", "failed"}
    /\ isStopping \in BOOLEAN
    /\ stopper \in {"no", "children", "proxy", "resolved"}
    /\ active \in Child \cup {NoChild}
    /\ activeRevision \in Revision
    /\ draining \in Seq(Child)
    /\ abandoned \in SUBSET Child
    /\ updater \in [pc : {"idle", "staging", "starting"}, revision : Revision]
    /\ restarter \in [pc : {"idle", "starting", "backoff", "stopping"}, revision : Revision]
    /\ stopWait \in SUBSET Child
    /\ proc \in [Child -> {"gone", "booting", "up"}]
    /\ owner \in [Child -> {"nobody", "main", "updater", "restarter"}]
    /\ revision \in [Child -> Revision]
    /\ stopping \in [Child -> BOOLEAN]
    /\ signalled \in [Child -> BOOLEAN]
    /\ remote \in Revision

Running(c) == proc[c] # "gone"
InDrain(c) == \E i \in DOMAIN draining : draining[i] = c

\* The proxy has a running child to forward to.
Serving == active # NoChild /\ Running(active)

Idle == [pc |-> "idle", revision |-> 0]

Init ==
    /\ main = "starting"
    /\ isStopping = FALSE
    /\ stopper = "no"
    /\ active = NoChild
    /\ activeRevision = 0
    /\ draining = <<>>
    /\ abandoned = {}
    /\ updater = Idle
    /\ restarter = Idle
    /\ stopWait = {}
    /\ \E first \in Child :
          /\ proc = [c \in Child |-> IF c = first THEN "booting" ELSE "gone"]
          /\ owner = [c \in Child |-> IF c = first THEN "main" ELSE "nobody"]
    /\ revision = [c \in Child |-> 0]
    /\ stopping = [c \in Child |-> FALSE]
    /\ signalled = [c \in Child |-> FALSE]
    /\ remote = 0

-----------------------------------------------------------------------------
(* Starting and stopping a serve child (child_process.js).                 *)

Free(c) ==
    /\ ~Running(c)
    /\ owner[c] = "nobody"
    /\ c # active
    /\ ~InDrain(c)
    /\ c \notin abandoned

\* What Spawn(c, who, target) makes of a child's fields; the process table is
\* given, because a crash spawns in the step that ends another process.
Spawn(c, who, target, table) ==
    /\ Free(c)
    /\ proc' = [table EXCEPT ![c] = "booting"]
    /\ owner' = [owner EXCEPT ![c] = who]
    /\ revision' = [revision EXCEPT ![c] = target]
    /\ stopping' = [stopping EXCEPT ![c] = FALSE]
    /\ signalled' = [signalled EXCEPT ![c] = FALSE]

\* The listening line and then /api/health came in time.
Healthy(c) == proc[c] = "booting"

BecomesReady(c) ==
    /\ proc' = [proc EXCEPT ![c] = "up"]
    /\ owner' = [owner EXCEPT ![c] = "nobody"]

\* The start times out, or its process is found dead: SIGTERM and reject.
Discard(c) ==
    /\ owner' = [owner EXCEPT ![c] = "nobody"]
    /\ signalled' = [signalled EXCEPT ![c] = Running(c)]
    /\ UNCHANGED <<proc, revision, stopping>>

\* ServeChild.stop() does nothing to a child that is not running.
StopChildren(group) ==
    LET live == {c \in group : Running(c)}
    IN /\ stopping' = [c \in Child |-> stopping[c] \/ c \in live]
       /\ signalled' = [c \in Child |-> signalled[c] \/ c \in live]

-----------------------------------------------------------------------------
(* start().                                                                *)

StartSucceeds(c) ==
    /\ main = "starting"
    /\ owner[c] = "main" /\ Healthy(c)
    /\ main' = "running"
    /\ active' = c
    /\ BecomesReady(c)
    /\ UNCHANGED <<isStopping, stopper, updater, restarter, stopWait,
                   activeRevision, draining, abandoned, revision, stopping, signalled, remote>>

StartFails(c) ==
    /\ main = "starting"
    /\ owner[c] = "main"
    /\ main' = "failed"
    /\ Discard(c)
    /\ UNCHANGED <<isStopping, stopper, updater, restarter, stopWait, routeVars, remote>>

-----------------------------------------------------------------------------
(* checkForUpdates().                                                      *)

\* The timer fires and the branch is read; nothing to do at its revision.
CheckForUpdates ==
    /\ main = "running"
    /\ ~isStopping
    /\ updater.pc = "idle"
    /\ activeRevision # remote
    /\ updater' = [pc |-> "staging", revision |-> remote]
    /\ UNCHANGED <<main, isStopping, stopper, restarter, stopWait, routeVars, childVars, remote>>

\* The release is staged and started ...
StageRelease(c) ==
    /\ updater.pc = "staging"
    /\ updater' = [updater EXCEPT !.pc = "starting"]
    /\ Spawn(c, "updater", updater.revision, proc)
    /\ UNCHANGED <<main, isStopping, stopper, restarter, stopWait, routeVars, remote>>

\* ... or a clone, an install or a disk error ends the attempt.
StagingFails ==
    /\ updater.pc = "staging"
    /\ updater' = Idle
    /\ UNCHANGED <<main, isStopping, stopper, restarter, stopWait, routeVars, childVars, remote>>

\* mutant: the child is stored where its target belongs.
PromoteChildNoTarget(c) ==
    /\ updater.pc = "starting"
    /\ owner[c] = "updater" /\ Healthy(c)
    /\ updater' = Idle
    /\ active' = c
    /\ activeRevision' = c
    /\ draining' = IF Serving THEN Append(draining, active) ELSE draining
    /\ BecomesReady(c)
    /\ UNCHANGED <<main, isStopping, stopper, restarter, stopWait,
                   abandoned, revision, stopping, signalled, remote>>

\* promoteChild: the replacement becomes active, the previous child drains.
PromoteChild(c) ==
    /\ updater.pc = "starting"
    /\ owner[c] = "updater" /\ Healthy(c)
    /\ updater' = Idle
    /\ active' = c
    /\ activeRevision' = revision[c]
    /\ draining' = IF Serving THEN Append(draining, active) ELSE draining
    /\ BecomesReady(c)
    /\ UNCHANGED <<main, isStopping, stopper, restarter, stopWait,
                   abandoned, revision, stopping, signalled, remote>>

\* mutant: a failed replacement leaves isCheckingUpdate set.
ReplacementFailsStuck(c) ==
    /\ updater.pc = "starting"
    /\ owner[c] = "updater"
    /\ Discard(c)
    /\ UNCHANGED <<main, isStopping, stopper, updater, restarter, stopWait, routeVars, remote>>

\* An unhealthy replacement is discarded and the active child kept.
ReplacementFails(c) ==
    /\ updater.pc = "starting"
    /\ owner[c] = "updater"
    /\ updater' = Idle
    /\ Discard(c)
    /\ UNCHANGED <<main, isStopping, stopper, restarter, stopWait, routeVars, remote>>

-----------------------------------------------------------------------------
(* drainChild().                                                           *)

\* The proxied streams of a replaced child ended, went quiet or timed out.
DrainEnds(c) ==
    /\ \E i \in DOMAIN draining : draining[i] = c /\ draining' = RemoveAt(draining, i)
    /\ StopChildren({c})
    /\ UNCHANGED <<loopVars, active, activeRevision, abandoned, proc, owner, revision, remote>>

\* The same for a child the crash handler or stop() took back: nothing to do.
DrainAbandoned(c) ==
    /\ c \in abandoned
    /\ abandoned' = abandoned \ {c}
    /\ UNCHANGED <<loopVars, active, activeRevision, draining, childVars, remote>>

-----------------------------------------------------------------------------
(* The exit handler, tryFallbackToDrainingChild and restartFromTarget.     *)

\* mutant: the newest draining child is taken whether it runs or not.
FallbackIndexesAny == DOMAIN draining
\* The records tryFallbackToDrainingChild may take.
FallbackIndexes == {i \in DOMAIN draining : Running(draining[i])}

Gone(c) == [proc EXCEPT ![c] = "gone"]

\* An exit the supervisor has no use for: a child that is not active, or that
\* it is stopping.
ChildExits(c) ==
    /\ Running(c)
    /\ isStopping \/ stopping[c] \/ c # active
    /\ proc' = Gone(c)
    /\ UNCHANGED <<loopVars, routeVars, owner, revision, stopping, signalled, remote>>

ActiveCrashes(c) ==
    /\ c = active /\ Running(c)
    /\ ~isStopping /\ ~stopping[c]

\* The active child crashes and the newest child still draining takes over.
FallBack(c) ==
    /\ ActiveCrashes(c)
    /\ \E i \in FallbackIndexes :
          /\ \A j \in FallbackIndexes : j <= i
          /\ active' = draining[i]
          /\ activeRevision' = revision[draining[i]]
          /\ draining' = RemoveAt(draining, i)
          /\ abandoned' = abandoned \cup {draining[i]}
    /\ proc' = Gone(c)
    /\ UNCHANGED <<loopVars, owner, revision, stopping, signalled, remote>>

\* The active child crashes with nothing to fall back to: its own target is
\* restarted at once, unless a restart is still under way.
CrashRestarts(c) ==
    /\ ActiveCrashes(c)
    /\ FallbackIndexes = {}
    /\ active' = NoChild
    /\ IF restarter.pc = "idle"
       THEN /\ restarter' = [pc |-> "starting", revision |-> revision[c]]
            /\ \E next \in Child : Spawn(next, "restarter", revision[c], Gone(c))
       ELSE /\ proc' = Gone(c)
            /\ UNCHANGED <<restarter, owner, revision, stopping, signalled>>
    /\ UNCHANGED <<main, isStopping, stopper, updater, stopWait,
                   activeRevision, draining, abandoned, remote>>

Restarting(c) == restarter.pc = "starting" /\ owner[c] = "restarter"

RestartSucceeds(c) ==
    /\ Restarting(c) /\ Healthy(c)
    /\ active = NoChild
    /\ active' = c
    /\ activeRevision' = revision[c]
    /\ restarter' = Idle
    /\ BecomesReady(c)
    /\ UNCHANGED <<main, isStopping, stopper, updater, stopWait,
                   draining, abandoned, revision, stopping, signalled, remote>>

\* mutant: the surplus child is forgotten instead of stopped.
RestartOvertakenLeaks(c) ==
    /\ Restarting(c) /\ Healthy(c)
    /\ active # NoChild
    /\ restarter' = Idle
    /\ BecomesReady(c)
    /\ UNCHANGED <<main, isStopping, stopper, updater, stopWait, routeVars,
                   revision, stopping, signalled, remote>>

\* An update was promoted meanwhile: the restarted child is not needed, and the
\* restart lasts until its process is gone.
RestartOvertaken(c) ==
    /\ Restarting(c) /\ Healthy(c)
    /\ active # NoChild
    /\ restarter' = [restarter EXCEPT !.pc = "stopping"]
    /\ proc' = [proc EXCEPT ![c] = "up"]
    /\ StopChildren({c})
    /\ UNCHANGED <<main, isStopping, stopper, updater, stopWait, routeVars,
                   owner, revision, remote>>

RestartStopped(c) ==
    /\ restarter.pc = "stopping"
    /\ owner[c] = "restarter" /\ ~Running(c)
    /\ restarter' = Idle
    /\ owner' = [owner EXCEPT ![c] = "nobody"]
    /\ UNCHANGED <<main, isStopping, stopper, updater, stopWait, routeVars,
                   proc, revision, stopping, signalled, remote>>

\* mutant: one failed attempt ends the restart.
RestartFailsForGood(c) ==
    /\ Restarting(c)
    /\ Discard(c)
    /\ restarter' = Idle
    /\ UNCHANGED <<main, isStopping, stopper, updater, stopWait, routeVars, remote>>

\* The loop condition is read right after a failure, before the backoff.
RestartFails(c) ==
    /\ Restarting(c)
    /\ Discard(c)
    /\ restarter' = IF isStopping \/ active # NoChild
                    THEN Idle
                    ELSE [restarter EXCEPT !.pc = "backoff"]
    /\ UNCHANGED <<main, isStopping, stopper, updater, stopWait, routeVars, remote>>

\* The backoff is over: the target is started whatever happened meanwhile.
RestartAgain(c) ==
    /\ restarter.pc = "backoff"
    /\ restarter' = [restarter EXCEPT !.pc = "starting"]
    /\ Spawn(c, "restarter", restarter.revision, proc)
    /\ UNCHANGED <<main, isStopping, stopper, updater, stopWait, routeVars, remote>>

-----------------------------------------------------------------------------
(* stop() and the world outside.                                           *)

Stoppable == {c \in Child : Running(c) /\ (c = active \/ InDrain(c))}

\* mutant: only the active child is stopped.
StopActiveOnly ==
    /\ ~isStopping /\ main # "failed"
    /\ isStopping' = TRUE /\ stopper' = "children"
    /\ stopWait' = Stoppable
    /\ StopChildren({active} \cap Child)
    /\ draining' = <<>>
    /\ abandoned' = abandoned \cup {c \in Child : InDrain(c)}
    /\ UNCHANGED <<main, updater, restarter, active, activeRevision,
                   proc, owner, revision, remote>>

\* SIGINT or SIGTERM: everything listed is stopped, nothing in flight is.
Stop ==
    /\ ~isStopping /\ main # "failed"
    /\ isStopping' = TRUE /\ stopper' = "children"
    /\ stopWait' = Stoppable
    /\ StopChildren(Stoppable)
    /\ draining' = <<>>
    /\ abandoned' = abandoned \cup {c \in Child : InDrain(c)}
    /\ UNCHANGED <<main, updater, restarter, active, activeRevision,
                   proc, owner, revision, remote>>

\* The children have exited: the public proxy, which start() created as the first
\* child came up, stops listening and waits for its clients.
StopProxy ==
    /\ stopper = "children"
    /\ \A c \in stopWait : ~Running(c)
    /\ stopper' = IF main = "running" THEN "proxy" ELSE "resolved"
    /\ stopWait' = {}
    /\ UNCHANGED <<main, isStopping, updater, restarter, routeVars, childVars, remote>>

\* The last connection of a client to the proxy ends, whenever the client likes.
StopResolves ==
    /\ stopper = "proxy"
    /\ stopper' = "resolved"
    /\ UNCHANGED <<main, isStopping, updater, restarter, stopWait, routeVars, childVars, remote>>

\* Someone pushes to the watched branch.
Push ==
    /\ remote < MaxRevision
    /\ remote' = remote + 1
    /\ UNCHANGED <<loopVars, routeVars, childVars>>

-----------------------------------------------------------------------------

ChildNext(c) ==
    \/ StartSucceeds(c) \/ StartFails(c)
    \/ StageRelease(c) \/ PromoteChild(c) \/ ReplacementFails(c)
    \/ DrainEnds(c) \/ DrainAbandoned(c)
    \/ ChildExits(c) \/ FallBack(c) \/ CrashRestarts(c)
    \/ RestartSucceeds(c) \/ RestartOvertaken(c) \/ RestartStopped(c)
    \/ RestartFails(c) \/ RestartAgain(c)

Next ==
    \/ CheckForUpdates \/ StagingFails
    \/ Stop \/ StopProxy \/ StopResolves
    \/ Push
    \/ \E c \in Child : ChildNext(c)

Spec == Init /\ [][Next]_vars

\* Timers and settled promises run, a signalled process exits, starts end one
\* way or the other, and a start tried again and again succeeds once.  (The
\* backoff's timer needs strong fairness only because Child bounds the processes
\* that may exist.)
Progress ==
    /\ WF_vars(StopProxy)
    /\ WF_vars(StagingFails \/ \E c \in Child : StageRelease(c))
    /\ WF_vars(\E c \in Child : PromoteChild(c) \/ ReplacementFails(c))
    /\ SF_vars(\E c \in Child : RestartAgain(c))
    /\ WF_vars(\E c \in Child : RestartOvertaken(c) \/ RestartStopped(c) \/ RestartFails(c))
    /\ SF_vars(\E c \in Child : RestartSucceeds(c))
    /\ \A c \in Child : WF_vars(DrainEnds(c)) /\ WF_vars(signalled[c] /\ ChildExits(c))

FairSpec == Spec /\ Progress

-----------------------------------------------------------------------------
(* Properties.                                                             *)

\* Until stop(), the proxy's child is a running one that nobody is stopping or
\* draining: every crash is noticed, and no drain ends a child that was taken
\* back as the active one.
ActiveIsUsable ==
    ~isStopping /\ active # NoChild =>
        proc[active] = "up" /\ ~signalled[active] /\ ~InDrain(active)

\* No serve process is left behind: each one is active, drains, is being started
\* or stopped by someone, or was told to exit.  That goes for the children still
\* being started as stop() lists the ones it stops, too: however many of them come
\* up after it, all but one, which stays active, are drained or told to exit.
NoOrphan ==
    \A c \in Child : Running(c) =>
        c = active \/ InDrain(c) \/ owner[c] # "nobody" \/ signalled[c]

\* A restart goes on until some child serves.
RestartGoesOn ==
    restarter.pc \in {"starting", "backoff"} ~> (Serving \/ isStopping)

\* No update attempt blocks the later ones.
UpdateChecksGoOn == []<>(updater.pc = "idle")

\* No child that stop() knows of holds it up: it comes to close the proxy, and only
\* the proxy's clients can keep it from its end.
StopReachesProxy == isStopping ~> stopper \in {"proxy", "resolved"}

\* A crash never ends the service: the active target is restarted when there
\* is nothing to fall back to.
ServiceRecovers == main = "running" ~> (Serving \/ isStopping)
=============================================================================
