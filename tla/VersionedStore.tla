--------------------------- MODULE VersionedStore ---------------------------
(***************************************************************************)
(* What the cluster promises its HTTP workers: one totally ordered history *)
(* of states, and for every worker that serves requests a view of it that  *)
(* is exactly one of those states and only moves forward.                  *)
(***************************************************************************)
EXTENDS Integers

CONSTANTS Worker, State, Away

VARIABLES
    history,   \* history[v] is the state at version v
    latest,    \* the last version
    view,      \* the version each worker shows, Away while it does not serve
    shown      \* the state each worker shows, Away while it does not serve

storeVars == <<history, latest, view, shown>>

StoreInit ==
    /\ latest = 0
    /\ history \in [{0} -> State]
    /\ view = [w \in Worker |-> Away]
    /\ shown = [w \in Worker |-> Away]

\* A new version is added; the old ones never change.
StoreCommit ==
    /\ latest' = latest + 1
    /\ \E s \in State : history' = [v \in 0 .. latest + 1 |->
                                      IF v = latest + 1 THEN s ELSE history[v]]
    /\ UNCHANGED <<view, shown>>

\* A worker starts to serve at some version, or moves to a later one.
Show(w, v) ==
    /\ view[w] # Away => view[w] < v
    /\ view' = [view EXCEPT ![w] = v]
    /\ shown' = [shown EXCEPT ![w] = history[v]]
    /\ UNCHANGED <<history, latest>>

Leave(w) ==
    /\ view' = [view EXCEPT ![w] = Away]
    /\ shown' = [shown EXCEPT ![w] = Away]
    /\ UNCHANGED <<history, latest>>

StoreNext ==
    \/ StoreCommit
    \/ \E w \in Worker : Leave(w) \/ \E v \in 0 .. latest : Show(w, v)

StoreSpec == StoreInit /\ [][StoreNext]_storeVars
=============================================================================
