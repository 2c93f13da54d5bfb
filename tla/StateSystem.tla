---------------------------- MODULE StateSystem ----------------------------
(***************************************************************************)
(* The replicated half of createStateSystem (state_system.js): the calls a *)
(* primary answers by committing and a replica answers by applying.        *)
(*                                                                         *)
(* The entries of all areas are one function from keys (an area and an id) *)
(* to values; Absent stands for a key with no entry.  A change set is a    *)
(* function on the keys it touches, a deletion being a change to Absent.   *)
(* Primary-only entries (replicated: false) never reach a delta or a       *)
(* snapshot and are left out: LoginChallenge, the only area that has them, *)
(* never turns one of its keys into a replicated one.                      *)
(***************************************************************************)
EXTENDS Integers, Sequences, FiniteSets

CONSTANTS
    Key,             \* area:id pairs
    Value,           \* values an entry may hold
    Absent,          \* "no entry"
    DeltaRetention   \* deltas kept for replay (options.deltaRetention)

ASSUME StateAssumption ==
    /\ Absent \notin Value
    /\ DeltaRetention \in Nat \ {0}

Content == Value \cup {Absent}
Entries == [Key -> Content]
Empty == [k \in Key |-> Absent]

\* Change sets: a value or Absent for some of the keys.
Changes == UNION {[K -> Content] : K \in SUBSET Key}

NoChanges == [k \in {} |-> Absent]

\* What travels from the primary to a replica.  A delta holds the keys touched
\* between two versions; a snapshot of version v is the update from v to v that
\* holds every key.
Update == [from : Nat, to : Nat, changes : Changes]

Snapshot(version, entries) == [from |-> version, to |-> version, changes |-> entries]

\* getDeltaSince answers null when the log no longer reaches back far enough.
NoDelta == [from |-> 1, to |-> 0, changes |-> NoChanges]

\* Entries after a change set has been written over them.
Overlay(entries, changes) ==
    [k \in Key |-> IF k \in DOMAIN changes THEN changes[k] ELSE entries[k]]

-----------------------------------------------------------------------------
(* The primary: commitEntries, trimDeltaLog, getDeltaSince.                *)

\* commitEntries drops a write of the value already there and a deletion of
\* a missing entry; what is left is the delta.
Effective(entries, changes) ==
    [k \in {j \in DOMAIN changes : changes[j] # entries[j]} |-> changes[k]]

Trim(log) ==
    IF Len(log) <= DeltaRetention
    THEN log
    ELSE SubSeq(log, Len(log) - DeltaRetention + 1, Len(log))

\* The deltas after a version, flattened in order: the last one that touches
\* a key decides its value.
Since(log, version) == {i \in DOMAIN log : log[i].to > version}
TouchedSince(log, version) == UNION {DOMAIN log[i].changes : i \in Since(log, version)}
\* mutant: the oldest delta that touches a key wins.
LastTouchOldest(log, key) ==
    CHOOSE i \in DOMAIN log :
        /\ key \in DOMAIN log[i].changes
        /\ \A j \in DOMAIN log : key \in DOMAIN log[j].changes => i <= j
LastTouch(log, key) ==
    CHOOSE i \in DOMAIN log :
        /\ key \in DOMAIN log[i].changes
        /\ \A j \in DOMAIN log : key \in DOMAIN log[j].changes => j <= i
MergedSince(log, version) ==
    [k \in TouchedSince(log, version) |-> log[LastTouch(log, k)].changes[k]]

\* The first delta after a version must start exactly there.
Reaches(log, version) ==
    \E i \in Since(log, version) :
        /\ log[i].from = version
        /\ \A j \in Since(log, version) : i <= j

DeltaSince(log, current, version) ==
    IF version >= current
    THEN [from |-> version, to |-> current, changes |-> NoChanges]
    ELSE IF Reaches(log, version)
         THEN [from |-> version, to |-> current, changes |-> MergedSince(log, version)]
         ELSE NoDelta

-----------------------------------------------------------------------------
(* A replica: applyDelta has three outcomes.                               *)

\* mutant: a delta that ends one version later counts as old.
IsStaleOffByOne(delta, version) == delta.to <= version + 1
IsStale(delta, version) == delta.to <= version
IsGap(delta, version) == ~IsStale(delta, version) /\ delta.from # version
\* mutant: the version a delta starts from is not checked.
FitsFromAnywhere(delta, version) == ~IsStale(delta, version)
Fits(delta, version) == ~IsStale(delta, version) /\ delta.from = version
=============================================================================
