------------------------- MODULE ClusterSyncProofs -------------------------
(***************************************************************************)
(* ClusterSync for every number of workers, keys, values and commits: the  *)
(* types, what a delta or a snapshot on its way says, and what a replica   *)
(* therefore holds.                                                        *)
(***************************************************************************)
EXTENDS ClusterSync, TLAPS

-----------------------------------------------------------------------------
(* Sequences and change sets.                                              *)

\* Removing one element of a sequence leaves a sequence of its elements.
LEMMA RemoveAtFacts ==
    ASSUME NEW S, NEW s \in Seq(S), NEW i \in 1 .. Len(s)
    PROVE  /\ RemoveAt(s, i) \in Seq(S)
           /\ \A j \in DOMAIN RemoveAt(s, i) : \E m \in DOMAIN s : RemoveAt(s, i)[j] = s[m]
<1> DEFINE left == SubSeq(s, 1, i - 1)
           right == SubSeq(s, i + 1, Len(s))
<1>1. /\ left \in Seq(S)
      /\ Len(left) = i - 1
      /\ \A j \in 1 .. (i - 1) : left[j] = s[j]
  OBVIOUS
<1>2. /\ right \in Seq(S)
      /\ Len(right) = Len(s) - i
      /\ \A j \in 1 .. (Len(s) - i) : right[j] = s[i + j]
  OBVIOUS
<1>3. RemoveAt(s, i) = left \o right
  BY DEF RemoveAt
<1> HIDE DEF left, right
<1>4. /\ RemoveAt(s, i) \in Seq(S)
      /\ Len(RemoveAt(s, i)) = Len(s) - 1
      /\ \A j \in 1 .. (Len(s) - 1) :
            RemoveAt(s, i)[j] = IF j <= i - 1 THEN left[j] ELSE right[j - (i - 1)]
  <2>1. left \o right \in Seq(S)
    BY <1>1, <1>2
  <2>2. Len(left \o right) = Len(s) - 1
    BY <1>1, <1>2
  <2>3. ASSUME NEW j \in 1 .. (Len(s) - 1)
        PROVE  (left \o right)[j] = IF j <= i - 1 THEN left[j] ELSE right[j - (i - 1)]
    BY <1>1, <1>2
  <2> QED BY <1>3, <2>1, <2>2, <2>3
<1>5. ASSUME NEW j \in DOMAIN RemoveAt(s, i)
      PROVE  \E m \in DOMAIN s : RemoveAt(s, i)[j] = s[m]
  <2>1. j \in 1 .. (Len(s) - 1)
    BY <1>4
  <2>2. CASE j <= i - 1
    <3>1. RemoveAt(s, i)[j] = s[j]
      BY <1>1, <1>4, <2>1, <2>2
    <3> QED BY <3>1, <2>1
  <2>3. CASE j > i - 1
    <3>1. RemoveAt(s, i)[j] = s[j + 1]
      <4>1. j - (i - 1) \in 1 .. (Len(s) - i)
        BY <2>1, <2>3
      <4>2. right[j - (i - 1)] = s[i + (j - (i - 1))]
        BY <1>2, <4>1
      <4>3. RemoveAt(s, i)[j] = right[j - (i - 1)]
        BY <1>4, <2>1, <2>3
      <4> QED BY <4>2, <4>3, <2>1
    <3> QED BY <3>1, <2>1
  <2> QED BY <2>1, <2>2, <2>3
<1> QED BY <1>4, <1>5

\* A change set is a function with values in Content on some of the keys.
LEMMA ChangesIntro ==
    ASSUME NEW K \in SUBSET Key, NEW c \in [K -> Content]
    PROVE  c \in Changes
  BY DEF Changes

LEMMA ChangesElim ==
    ASSUME NEW c \in Changes
    PROVE  /\ DOMAIN c \in SUBSET Key
           /\ \A k \in DOMAIN c : c[k] \in Content
  BY DEF Changes

LEMMA EmptyChanges == NoChanges \in Changes /\ DOMAIN NoChanges = {}
<1>1. NoChanges \in [{} -> Content]
  BY DEF NoChanges
<1> QED BY <1>1, ChangesIntro DEF NoChanges

LEMMA EntriesAreChanges ==
    ASSUME NEW e \in Entries
    PROVE  e \in Changes /\ DOMAIN e = Key
<1>1. e \in [Key -> Content]
  BY DEF Entries
<1> QED BY <1>1, ChangesIntro

LEMMA OverlayType ==
    ASSUME NEW e \in Entries, NEW c \in Changes
    PROVE  Overlay(e, c) \in Entries
  BY ChangesElim DEF Overlay, Entries

LEMMA EffectiveType ==
    ASSUME NEW e \in Entries, NEW c \in Changes
    PROVE  Effective(e, c) \in Changes
<1> DEFINE K == {j \in DOMAIN c : c[j] # e[j]}
<1>1. K \in SUBSET Key /\ Effective(e, c) \in [K -> Content]
  BY ChangesElim DEF Effective
<1> QED BY <1>1, ChangesIntro

LEMMA NoDeltaType == NoDelta \in Update
  BY EmptyChanges DEF NoDelta, Update

LEMMA SnapshotType ==
    ASSUME NEW v \in Nat, NEW e \in Entries
    PROVE  Snapshot(v, e) \in Update
  BY EntriesAreChanges DEF Snapshot, Update

-----------------------------------------------------------------------------
(* The delta log.                                                          *)

Touches(i, k) == k \in DOMAIN deltaLog[i].changes
IsLast(i, k) == Touches(i, k) /\ \A j \in 1 .. Len(deltaLog) : Touches(j, k) => j <= i

\* The log is the last deltas, one per version; for a key, the last delta that
\* touches it gives the current value, and a key no delta after v touches has
\* not changed since v.
LogOK ==
    /\ Len(deltaLog) <= DeltaRetention
    /\ Len(deltaLog) <= version
    /\ Len(deltaLog) < DeltaRetention => Len(deltaLog) = version
    /\ \A i \in 1 .. Len(deltaLog) :
          /\ deltaLog[i].to = version - Len(deltaLog) + i
          /\ deltaLog[i].from = version - Len(deltaLog) + i - 1
    /\ history[version] = entries
    /\ \A k \in Key, i \in 1 .. Len(deltaLog) :
          Touches(i, k) => \E l \in 1 .. Len(deltaLog) : IsLast(l, k)
    /\ \A k \in Key, i \in 1 .. Len(deltaLog) :
          IsLast(i, k) => deltaLog[i].changes[k] = entries[k]
    /\ \A k \in Key, v \in 0 .. version :
          \/ v < version - Len(deltaLog)
          \/ \E i \in 1 .. Len(deltaLog) : deltaLog[i].to > v /\ Touches(i, k)
          \/ history[v][k] = entries[k]

\* Appending to a log within the retention drops at most its first delta.
LEMMA TrimmedAppend ==
    ASSUME NEW log \in Seq(Update), Len(log) <= DeltaRetention, NEW d \in Update,
           NEW off, off = IF Len(log) < DeltaRetention THEN 0 ELSE 1
    PROVE  /\ Trim(Append(log, d)) \in Seq(Update)
           /\ Len(Trim(Append(log, d))) = Len(log) + 1 - off
           /\ \A i \in 1 .. (Len(log) + 1 - off) :
                 Trim(Append(log, d))[i] = IF i = Len(log) + 1 - off THEN d ELSE log[i + off]
<1> DEFINE L == Append(log, d)
<1>0. DeltaRetention \in Nat /\ DeltaRetention >= 1
  BY StateAssumption
<1>1. /\ L \in Seq(Update)
      /\ Len(L) = Len(log) + 1
      /\ \A i \in 1 .. (Len(log) + 1) : L[i] = IF i = Len(log) + 1 THEN d ELSE log[i]
  OBVIOUS
<1>2. CASE Len(log) < DeltaRetention
  <2>1. off = 0 /\ Trim(L) = L
    BY <1>0, <1>1, <1>2 DEF Trim
  <2> QED BY <1>1, <2>1
<1>3. CASE Len(log) = DeltaRetention
  <2>1. off = 1 /\ Trim(L) = SubSeq(L, 2, Len(L))
    BY <1>0, <1>1, <1>3 DEF Trim
  <2> HIDE DEF L
  <2>2. /\ SubSeq(L, 2, Len(L)) \in Seq(Update)
        /\ Len(SubSeq(L, 2, Len(L))) = Len(L) - 1
        /\ \A i \in 1 .. (Len(L) - 1) : SubSeq(L, 2, Len(L))[i] = L[i + 1]
    BY <1>0, <1>1, <1>3
  <2>3. ASSUME NEW i \in 1 .. Len(log)
        PROVE  Trim(L)[i] = IF i = Len(log) THEN d ELSE log[i + 1]
    BY <1>0, <1>1, <1>3, <2>1, <2>2
  <2>4. Trim(L) \in Seq(Update) /\ Len(Trim(L)) = Len(log)
    BY <1>0, <1>1, <1>3, <2>1, <2>2
  <2>5. /\ Trim(Append(log, d)) \in Seq(Update)
        /\ Len(Trim(Append(log, d))) = Len(log)
        /\ \A i \in 1 .. Len(log) :
              Trim(Append(log, d))[i] = IF i = Len(log) THEN d ELSE log[i + 1]
    BY <2>3, <2>4 DEF L
  <2>6. Len(log) \in Nat /\ off = 1 /\ Len(log) + 1 - off = Len(log)
    BY <1>0, <1>3, <2>1
  <2> QED BY <2>5, <2>6
<1> QED BY <1>0, <1>2, <1>3

\* A commit extends the history by one version and keeps the log right.
LEMMA CommitKeepsLog ==
    ASSUME TypeOK, LogOK, NEW changes \in Changes, CommitChanges(changes)
    PROVE  /\ NewDelta(changes) \in Update
           /\ version' \in Nat /\ version' = version + 1
           /\ entries' \in Entries
           /\ deltaLog' \in Seq(Update)
           /\ history' \in [0 .. version' -> Entries]
           /\ \A v \in 0 .. version : history'[v] = history[v]
           /\ history'[version'] = entries'
           /\ entries' = Overlay(entries, changes)
           /\ LogOK'
<1> DEFINE d == NewDelta(changes)
<1>a. PICK off : off = IF Len(deltaLog) < DeltaRetention THEN 0 ELSE 1
  OBVIOUS
<1>b. PICK n : n = Len(deltaLog) + 1 - off
  OBVIOUS
<1>1. /\ version \in Nat /\ version' = version + 1 /\ version' \in Nat
      /\ entries \in Entries /\ deltaLog \in Seq(Update)
      /\ history \in [0 .. version -> Entries]
  BY DEF TypeOK, CommitChanges
<1>2. Effective(entries, changes) \in Changes /\ d \in Update
  BY <1>1, EffectiveType DEF NewDelta, Update
<1>3. entries' = Overlay(entries, changes) /\ entries' \in Entries
  BY <1>1, OverlayType DEF CommitChanges
<1>4. /\ history' \in [0 .. version' -> Entries]
      /\ history'[version'] = entries'
      /\ \A v \in 0 .. version : history'[v] = history[v]
  BY <1>1, <1>3 DEF CommitChanges
<1>5. /\ deltaLog' \in Seq(Update)
      /\ Len(deltaLog') = n
      /\ \A i \in 1 .. n : deltaLog'[i] = IF i = n THEN d ELSE deltaLog[i + off]
  <2>1. Len(deltaLog) <= DeltaRetention /\ deltaLog' = Trim(Append(deltaLog, d))
    BY DEF CommitChanges, LogOK
  <2> HIDE DEF d
  <2> QED BY <1>1, <1>2, <1>a, <1>b, <2>1, TrimmedAppend
<1>6. /\ DeltaRetention \in Nat /\ DeltaRetention >= 1 /\ Len(deltaLog) \in Nat
      /\ off \in {0, 1} /\ n \in Nat /\ n = Len(deltaLog) + 1 - off
      /\ off = 0 <=> Len(deltaLog) < DeltaRetention
      /\ Len(deltaLog) <= DeltaRetention
  BY StateAssumption, <1>1, <1>a, <1>b DEF LogOK
<1>7. /\ d.from = version /\ d.to = version + 1
      /\ d.changes = Effective(entries, changes)
  BY DEF NewDelta
<1>8. ASSUME NEW k \in Key
      PROVE  IF k \in DOMAIN d.changes THEN d.changes[k] = entries'[k]
                                       ELSE entries'[k] = entries[k]
  BY <1>3, <1>7 DEF Effective, Overlay
<1>9. LogOK'
  <2> HIDE DEF d
  <2>1. n <= DeltaRetention /\ n <= version' /\ (n < DeltaRetention => n = version')
    BY <1>1, <1>6 DEF LogOK
  <2>2. ASSUME NEW i \in 1 .. n
        PROVE  deltaLog'[i].to = version' - n + i /\ deltaLog'[i].from = version' - n + i - 1
    <3>1. CASE i = n
      BY <1>1, <1>5, <1>6, <1>7, <3>1
    <3>2. CASE i # n
      <4>1. i + off \in 1 .. Len(deltaLog) /\ deltaLog'[i] = deltaLog[i + off]
        BY <1>5, <1>6, <3>2
      <4> QED BY <1>1, <1>6, <4>1 DEF LogOK
    <3> QED BY <3>1, <3>2
  <2>3. ASSUME NEW k \in Key, NEW i \in 1 .. n, Touches(i, k)'
        PROVE  \E l \in 1 .. n : IsLast(l, k)'
    <3>1. CASE k \in DOMAIN d.changes
      <4>1. n \in 1 .. n /\ Touches(n, k)'
        BY <1>5, <1>6, <3>1 DEF Touches
      <4> QED BY <1>5, <1>6, <4>1 DEF IsLast
    <3>2. CASE k \notin DOMAIN d.changes
      <4>1. i # n /\ i + off \in 1 .. Len(deltaLog) /\ Touches(i + off, k)
        BY <1>5, <1>6, <2>3, <3>2 DEF Touches
      <4>2. PICK l \in 1 .. Len(deltaLog) : IsLast(l, k)
        BY <4>1 DEF LogOK
      <4>3. l - off \in 1 .. n /\ l - off # n /\ deltaLog'[l - off] = deltaLog[l]
        BY <1>5, <1>6, <4>1, <4>2 DEF IsLast
      <4>4. IsLast(l - off, k)'
        <5>1. Touches(l - off, k)'
          BY <4>2, <4>3 DEF IsLast, Touches
        <5>2. ASSUME NEW j \in 1 .. n, Touches(j, k)'
              PROVE  j <= l - off
          <6>1. j # n /\ j + off \in 1 .. Len(deltaLog) /\ Touches(j + off, k)
            BY <1>5, <1>6, <3>2, <5>2 DEF Touches
          <6> QED BY <1>6, <4>2, <6>1 DEF IsLast
        <5> QED BY <1>5, <5>1, <5>2 DEF IsLast
      <4> QED BY <4>3, <4>4
    <3> QED BY <3>1, <3>2
  <2>4. ASSUME NEW k \in Key, NEW i \in 1 .. n, IsLast(i, k)'
        PROVE  deltaLog'[i].changes[k] = entries'[k]
    <3>1. CASE i = n
      BY <1>5, <1>8, <2>4, <3>1 DEF IsLast, Touches
    <3>2. CASE i # n
      <4>1. i + off \in 1 .. Len(deltaLog) /\ deltaLog'[i] = deltaLog[i + off]
        BY <1>5, <1>6, <3>2
      <4>2. k \notin DOMAIN d.changes
        BY <1>5, <1>6, <2>4, <3>2 DEF IsLast, Touches
      <4>3. ASSUME NEW j \in 1 .. Len(deltaLog), Touches(j, k), j > i + off
            PROVE  FALSE
        <5>1. j - off \in 1 .. n /\ j - off # n /\ deltaLog'[j - off] = deltaLog[j]
          BY <1>5, <1>6, <4>3
        <5> QED BY <1>5, <1>6, <2>4, <4>3, <5>1 DEF IsLast, Touches
      <4>4. IsLast(i + off, k)
        BY <1>6, <2>4, <4>1, <4>3 DEF IsLast, Touches
      <4>5. deltaLog[i + off].changes[k] = entries[k]
        BY <4>1, <4>4 DEF LogOK
      <4> QED BY <1>8, <4>1, <4>2, <4>5
    <3> QED BY <3>1, <3>2
  <2>5. ASSUME NEW k \in Key, NEW v \in 0 .. version', v >= version' - n,
               \A i \in 1 .. n : ~(deltaLog'[i].to > v /\ Touches(i, k)')
        PROVE  history'[v][k] = entries'[k]
    <3>1. CASE v = version'
      BY <1>4, <3>1
    <3>2. CASE v # version'
      <4>1. v \in 0 .. version /\ v >= version - Len(deltaLog)
        BY <1>1, <1>6, <2>5, <3>2
      <4>2. k \notin DOMAIN d.changes
        <5>1. n \in 1 .. n /\ deltaLog'[n] = d
          BY <1>5, <1>6
        <5>2. ~(deltaLog'[n].to > v /\ Touches(n, k)')
          BY <2>5, <5>1
        <5> QED BY <1>1, <1>7, <4>1, <5>1, <5>2 DEF Touches
      <4>3. ASSUME NEW i \in 1 .. Len(deltaLog), deltaLog[i].to > v, Touches(i, k)
            PROVE  FALSE
        <5>1. deltaLog[i].to = version - Len(deltaLog) + i
          BY DEF LogOK
        <5>2. i - off >= 1
          BY <1>1, <1>6, <2>5, <4>3, <5>1
        <5>3. i - off \in 1 .. n /\ i - off # n /\ deltaLog'[i - off] = deltaLog[i]
          BY <1>5, <1>6, <5>2
        <5> QED BY <2>5, <4>3, <5>3 DEF Touches
      <4>4. history[v][k] = entries[k]
        <5>1. \/ v < version - Len(deltaLog)
              \/ \E i \in 1 .. Len(deltaLog) : deltaLog[i].to > v /\ Touches(i, k)
              \/ history[v][k] = entries[k]
          BY <4>1 DEF LogOK
        <5>2. ~(v < version - Len(deltaLog))
          BY <1>1, <1>6, <4>1
        <5> QED BY <4>3, <5>1, <5>2
      <4> QED BY <1>4, <1>8, <4>1, <4>2, <4>4
    <3> QED BY <3>1, <3>2
  <2>6. ASSUME NEW k \in Key, NEW v \in 0 .. version'
        PROVE  \/ v < version' - n
               \/ \E i \in 1 .. n : deltaLog'[i].to > v /\ Touches(i, k)'
               \/ history'[v][k] = entries'[k]
    <3>1. v < version' - n \/ v >= version' - n
      BY <1>1, <1>6
    <3>2. CASE v >= version' - n
      BY <2>5, <3>2, Zenon
    <3> QED BY <3>1, <3>2
  <2> QED BY <1>4, <1>5, <2>1, <2>2, <2>3, <2>4, <2>6 DEF LogOK
<1> QED BY <1>1, <1>2, <1>3, <1>4, <1>5, <1>9

\* What getDeltaSince answers: the keys touched since a version with their
\* current values, or null when the version is out of the log's reach.
LEMMA DeltaSinceFacts ==
    ASSUME TypeOK, LogOK, NEW v \in 0 .. version
    PROVE  LET d == DeltaSince(deltaLog, version, v)
           IN /\ d \in Update
              /\ d # NoDelta =>
                    /\ d.to = version
                    /\ \A k \in DOMAIN d.changes : d.changes[k] = entries[k]
                    /\ \A k \in Key \ DOMAIN d.changes : history[v][k] = entries[k]
              /\ d = NoDelta => version - v > DeltaRetention
<1> DEFINE n == Len(deltaLog)
           K == TouchedSince(deltaLog, v)
<1>1. /\ version \in Nat /\ deltaLog \in Seq(Update) /\ n \in Nat
      /\ DOMAIN deltaLog = 1 .. n
      /\ DeltaRetention \in Nat
  BY StateAssumption DEF TypeOK
<1>a. /\ n <= DeltaRetention /\ n <= version
      /\ n < DeltaRetention => n = version
      /\ \A i \in 1 .. n :
            /\ deltaLog[i].to = version - n + i
            /\ deltaLog[i].from = version - n + i - 1
      /\ history[version] = entries
  BY DEF LogOK
<1>b. \A i \in 1 .. n : deltaLog[i] \in Update
  BY <1>1
<1>c. \A k \in Key :
         \/ v < version - n
         \/ \E i \in 1 .. n : deltaLog[i].to > v /\ Touches(i, k)
         \/ history[v][k] = entries[k]
  BY DEF LogOK
<1>d. \A k \in Key, i \in 1 .. n :
         /\ Touches(i, k) => \E l \in 1 .. n : IsLast(l, k)
         /\ IsLast(i, k) => deltaLog[i].changes[k] = entries[k]
  BY DEF LogOK
<1> HIDE DEF n
<1>2. CASE v >= version
  <2>1. DeltaSince(deltaLog, version, v) = [from |-> v, to |-> version, changes |-> NoChanges]
    BY <1>2 DEF DeltaSince
  <2>2. v = version
    BY <1>1, <1>2
  <2>3. [from |-> v, to |-> version, changes |-> NoChanges] # NoDelta
    BY <1>1, <2>2 DEF NoDelta
  <2> QED BY <1>1, <1>a, <2>1, <2>2, <2>3, EmptyChanges DEF Update
<1>3. CASE v < version /\ Reaches(deltaLog, v)
  <2>1. DeltaSince(deltaLog, version, v) =
          [from |-> v, to |-> version, changes |-> MergedSince(deltaLog, v)]
    BY <1>1, <1>3 DEF DeltaSince
  <2>2. PICK b \in 1 .. n : deltaLog[b].from = v
    BY <1>1, <1>3 DEF Reaches, Since
  <2>3. v >= version - n
    BY <1>1, <1>a, <2>2
  <2>4. K \in SUBSET Key
    <3>1. \A i \in 1 .. n : DOMAIN deltaLog[i].changes \in SUBSET Key
      BY <1>b, ChangesElim DEF Update
    <3> QED BY <1>1, <3>1 DEF TouchedSince, Since
  <2>5. ASSUME NEW k \in K
        PROVE  deltaLog[LastTouch(deltaLog, k)].changes[k] = entries[k]
    <3>1. PICK i \in 1 .. n : Touches(i, k)
      BY <1>1 DEF TouchedSince, Since, Touches
    <3>2. PICK l \in 1 .. n : IsLast(l, k)
      BY <1>d, <2>4, <3>1
    <3>3. /\ LastTouch(deltaLog, k) \in 1 .. n
          /\ IsLast(LastTouch(deltaLog, k), k)
      BY <1>1, <3>2 DEF LastTouch, IsLast, Touches, n
    <3> QED BY <1>d, <2>4, <3>3
  <2>6. /\ DOMAIN MergedSince(deltaLog, v) = K
        /\ \A k \in K : MergedSince(deltaLog, v)[k] = entries[k]
    BY <2>5 DEF MergedSince
  <2>7. MergedSince(deltaLog, v) \in Changes
    <3>1. \A k \in Key : entries[k] \in Content
      BY DEF TypeOK, Entries
    <3>2. MergedSince(deltaLog, v) = [k \in K |-> entries[k]]
      BY <2>5 DEF MergedSince
    <3>3. [k \in K |-> entries[k]] \in [K -> Content]
      BY <2>4, <3>1
    <3> QED BY <2>4, <3>2, <3>3, ChangesIntro
  <2>8. ASSUME NEW k \in Key \ K
        PROVE  history[v][k] = entries[k]
    <3>1. ~ \E i \in 1 .. n : deltaLog[i].to > v /\ Touches(i, k)
      BY <1>1, <2>8 DEF TouchedSince, Since, Touches
    <3> QED BY <1>1, <1>c, <2>3, <3>1
  <2>9. DeltaSince(deltaLog, version, v) # NoDelta
    BY <1>1, <1>3, <2>1 DEF NoDelta
  <2> QED BY <1>1, <2>1, <2>6, <2>7, <2>8, <2>9 DEF Update
<1>4. CASE v < version /\ ~Reaches(deltaLog, v)
  <2>1. DeltaSince(deltaLog, version, v) = NoDelta
    BY <1>1, <1>4 DEF DeltaSince
  <2>2. ASSUME version - v <= DeltaRetention
        PROVE  FALSE
    <3>1. v >= version - n /\ n >= 1
      BY <1>1, <1>a, <1>4, <2>2
    <3>2. PICK b \in 1 .. n : b = v - version + n + 1
      BY <1>1, <1>4, <3>1
    <3>3. deltaLog[b].from = v /\ deltaLog[b].to > v
      BY <1>1, <1>a, <3>2
    <3>4. ASSUME NEW j \in 1 .. n, deltaLog[j].to > v
          PROVE  b <= j
      BY <1>1, <1>a, <3>2, <3>4
    <3> QED BY <1>1, <1>4, <3>3, <3>4 DEF Reaches, Since
  <2> QED BY <1>1, <2>1, <2>2, NoDeltaType
<1> QED BY <1>1, <1>2, <1>3, <1>4

-----------------------------------------------------------------------------
(* What is in flight, and what a replica holds.                            *)

\* An update tells the truth: the keys it holds have the values of its last
\* version, and the others did not change between its two versions.
Sound(u) ==
    /\ u.to <= version
    /\ \A k \in Key : IF k \in DOMAIN u.changes
                      THEN u.changes[k] = history[u.to][k]
                      ELSE u.from < u.to => history[u.from][k] = history[u.to][k]

Full(u) == DOMAIN u.changes = Key

SnapshotTypes == {"STATE_SNAPSHOT", "SYNC_SNAPSHOT"}

SoundMessage(m) ==
    /\ Sound(m.update)
    /\ m.type \in SnapshotTypes => Full(m.update)

Flight ==
    /\ \A w \in Worker : \A i \in DOMAIN inbox[w] : SoundMessage(inbox[w][i])
    /\ \A w \in Worker : \A i \in DOMAIN requests[w] : requests[w][i].from <= version
    /\ \A i \in DOMAIN unpublished : Sound(unpublished[i].update)

\* A worker that has its bootstrap snapshot has a true one; a replica is empty
\* until there is a watchdog, and sound from then on.
SoundAt(e, v) ==
    /\ v <= version
    /\ \A k \in Key : e[k] \in {history[v][k], Absent}

ReplicasOK ==
    \A w \in Worker :
        /\ phase[w] # "forked" => Sound(initial[w]) /\ Full(initial[w])
        /\ ~HasWatchdog(w) => replica[w] = Empty
        /\ HasWatchdog(w) => SoundAt(replica[w], replicaVersion[w])

Inv == TypeOK /\ LogOK /\ Flight /\ ReplicasOK

\* History is never rewritten, so what was sound stays so.
LEMMA SoundStays ==
    ASSUME version \in Nat, version' \in Nat, version <= version',
           \A v \in 0 .. version : history'[v] = history[v]
    PROVE  /\ \A u \in Update : Sound(u) => Sound(u)'
           /\ \A e \in Entries, v \in Nat : SoundAt(e, v) => SoundAt(e, v)'
<1>1. ASSUME NEW u \in Update, Sound(u)
      PROVE  Sound(u)'
  <2>1. u.from \in Nat /\ u.to \in Nat /\ u.to \in 0 .. version
    BY <1>1 DEF Update, Sound
  <2>2. history'[u.to] = history[u.to] /\ (u.from < u.to => history'[u.from] = history[u.from])
    BY <2>1
  <2> QED BY <1>1, <2>1, <2>2 DEF Sound
<1>2. ASSUME NEW e \in Entries, NEW v \in Nat, SoundAt(e, v)
      PROVE  SoundAt(e, v)'
  <2>1. v \in 0 .. version
    BY <1>2 DEF SoundAt
  <2> QED BY <1>2, <2>1 DEF SoundAt
<1> QED BY <1>1, <1>2

\* Applying a sound delta that starts at the replica's version, or a sound
\* snapshot at any version, leaves a sound replica.
LEMMA ApplySound ==
    ASSUME TypeOK, NEW e \in Entries, NEW v \in Nat, NEW u \in Update, Sound(u),
           Full(u) \/ (SoundAt(e, v) /\ Fits(u, v))
    PROVE  Overlay(e, u.changes) \in Entries /\ SoundAt(Overlay(e, u.changes), u.to)
<1>1. u.changes \in Changes /\ u.to \in Nat /\ u.from \in Nat
  BY DEF Update
<1>2. Overlay(e, u.changes) \in Entries
  BY <1>1, OverlayType
<1>3. ASSUME NEW k \in Key
      PROVE  Overlay(e, u.changes)[k] \in {history[u.to][k], Absent}
  <2>1. CASE k \in DOMAIN u.changes
    BY <2>1 DEF Overlay, Sound
  <2>2. CASE k \notin DOMAIN u.changes
    <3>1. SoundAt(e, v) /\ u.from = v /\ u.from < u.to
      BY <1>1, <2>2 DEF Full, Fits, IsStale
    <3> QED BY <2>2, <3>1 DEF Overlay, Sound, SoundAt
  <2> QED BY <2>1, <2>2
<1> QED BY <1>2, <1>3 DEF Sound, SoundAt

LEMMA InitInv == Init => Inv
<1> SUFFICES ASSUME Init PROVE Inv
  OBVIOUS
<1>1. Empty \in Entries
  BY DEF Empty, Entries, Content
<1>2. TypeOK
  BY <1>1, NoDeltaType DEF Init, TypeOK, Phase, Request, Ready
<1>3. LogOK
  <2>1. Len(deltaLog) = 0 /\ version = 0 /\ history[0] = entries
    BY DEF Init
  <2> QED BY <2>1, StateAssumption DEF LogOK
<1>4. Flight
  BY DEF Init, Flight, Ready
<1>5. ReplicasOK
  BY DEF Init, ReplicasOK, HasWatchdog
<1> QED BY <1>2, <1>3, <1>4, <1>5 DEF Inv

-----------------------------------------------------------------------------
(* The primary's steps.                                                    *)

LEMMA AppendFacts ==
    ASSUME NEW S, NEW s \in Seq(S), NEW m \in S
    PROVE  /\ Append(s, m) \in Seq(S)
           /\ \A i \in DOMAIN Append(s, m) :
                 Append(s, m)[i] = m \/ \E j \in DOMAIN s : Append(s, m)[i] = s[j]
  OBVIOUS

\* What every commit has in common: the new delta and the new snapshot are
\* sound, and so is still everything that was.
LEMMA CommitCommon ==
    ASSUME Inv, NEW changes \in Changes, CommitChanges(changes),
           UNCHANGED <<phase, initial, replicaVersion, replica>>,
           NEW d, d = NewDelta(changes),
           NEW s, s = Snapshot(version + 1, Overlay(entries, changes))
    PROVE  /\ d \in Update /\ Sound(d)'
           /\ s \in Update /\ Sound(s)' /\ Full(s)
           /\ \A u \in Update : Sound(u) => Sound(u)'
           /\ version' \in Nat /\ version <= version'
           /\ entries' \in Entries /\ deltaLog' \in Seq(Update)
           /\ history' \in [0 .. version' -> Entries]
           /\ LogOK' /\ ReplicasOK'
<1>1. /\ d \in Update
      /\ version \in Nat /\ version' \in Nat /\ version' = version + 1
      /\ entries' \in Entries /\ entries' = Overlay(entries, changes)
      /\ deltaLog' \in Seq(Update)
      /\ history' \in [0 .. version' -> Entries]
      /\ \A v \in 0 .. version : history'[v] = history[v]
      /\ history'[version'] = entries'
      /\ LogOK'
  <2>1. TypeOK /\ LogOK
    BY DEF Inv
  <2>2. version \in Nat
    BY <2>1 DEF TypeOK
  <2> QED BY <2>1, <2>2, CommitKeepsLog
<1>2. /\ \A u \in Update : Sound(u) => Sound(u)'
      /\ \A e \in Entries, v \in Nat : SoundAt(e, v) => SoundAt(e, v)'
  BY <1>1, SoundStays
<1>3. history'[version] = entries
  <2>1. history[version] = entries
    BY DEF Inv, LogOK
  <2>2. version \in 0 .. version
    BY <1>1
  <2> QED BY <1>1, <2>1, <2>2
<1>4. d.from = version /\ d.to = version' /\ d.changes = Effective(entries, changes)
  BY <1>1 DEF NewDelta
<1>5. Sound(d)'
  BY <1>1, <1>3, <1>4 DEF Sound, Effective, Overlay
<1>6. s.from = version' /\ s.to = version' /\ s.changes = entries' /\ s \in Update
  BY <1>1, SnapshotType DEF Snapshot
<1>7. Full(s) /\ Sound(s)'
  BY <1>1, <1>6 DEF Full, Sound, Entries
<1>8. ReplicasOK'
  BY <1>2 DEF Inv, ReplicasOK, TypeOK, HasWatchdog
<1> QED BY <1>1, <1>2, <1>5, <1>6, <1>7, <1>8

\* What the type invariant says of what is in flight.
LEMMA FlightTypes ==
    ASSUME TypeOK
    PROVE  /\ \A w \in Worker : \A i \in DOMAIN inbox[w] :
                 inbox[w][i] \in Message /\ inbox[w][i].update \in Update
           /\ \A w \in Worker : \A i \in DOMAIN requests[w] :
                 requests[w][i] \in Request /\ requests[w][i].from \in Nat
           /\ \A i \in DOMAIN unpublished :
                 unpublished[i] \in Commit /\ unpublished[i].update \in Update
<1>1. /\ \A m \in Message : m.update \in Update
      /\ \A r \in Request : r.from \in Nat
      /\ \A c \in Commit : c.update \in Update
  BY DEF Message, Request, Commit
<1>2. /\ \A w \in Worker : inbox[w] \in Seq(Message) /\ requests[w] \in Seq(Request)
      /\ unpublished \in Seq(Commit)
  BY DEF TypeOK
<1>3. /\ \A w \in Worker : \A i \in DOMAIN inbox[w] : inbox[w][i] \in Message
      /\ \A w \in Worker : \A i \in DOMAIN requests[w] : requests[w][i] \in Request
      /\ \A i \in DOMAIN unpublished : unpublished[i] \in Commit
  BY <1>2
<1> QED BY <1>1, <1>3

\* What is in flight stays true when everything in flight was there before or
\* is true itself.
LEMMA FlightStep ==
    ASSUME Inv, version' \in Nat, version <= version',
           \A u \in Update : Sound(u) => Sound(u)',
           \A w \in Worker : \A i \in DOMAIN inbox'[w] :
              \/ \E j \in DOMAIN inbox[w] : inbox'[w][i] = inbox[w][j]
              \/ \E m \in Message : inbox'[w][i] = m /\ SoundMessage(m)',
           \A w \in Worker : \A i \in DOMAIN requests'[w] :
              \/ \E j \in DOMAIN requests[w] : requests'[w][i] = requests[w][j]
              \/ requests'[w][i].from <= version,
           \A w \in Worker : \A i \in DOMAIN requests'[w] : requests'[w][i].from \in Nat,
           \A i \in DOMAIN unpublished' :
              \/ \E j \in DOMAIN unpublished : unpublished'[i].update = unpublished[j].update
              \/ \E u \in Update : unpublished'[i].update = u /\ Sound(u)'
    PROVE  Flight'
<1>0. version \in Nat
  BY DEF Inv, TypeOK
<1>1. \A w \in Worker : \A j \in DOMAIN inbox[w] :
         inbox[w][j] \in Message /\ SoundMessage(inbox[w][j])
  BY DEF Inv, TypeOK, Flight
<1>2. \A m \in Message : SoundMessage(m) => SoundMessage(m)'
  BY DEF SoundMessage, Message
<1>3. (\A w \in Worker : \A i \in DOMAIN inbox[w] : SoundMessage(inbox[w][i]))'
  BY <1>1, <1>2
<1>4. (\A w \in Worker : \A i \in DOMAIN requests[w] : requests[w][i].from <= version)'
  <2>1. \A w \in Worker : \A j \in DOMAIN requests[w] : requests[w][j].from <= version
    BY DEF Inv, Flight
  <2>2. ASSUME NEW w \in Worker, NEW i \in DOMAIN requests'[w]
        PROVE  requests'[w][i].from <= version'
    <3>1. requests'[w][i].from <= version
      BY <2>1
    <3> QED BY <1>0, <3>1
  <2> QED BY <2>2
<1>5. (\A i \in DOMAIN unpublished : Sound(unpublished[i].update))'
  <2>1. \A j \in DOMAIN unpublished :
           unpublished[j].update \in Update /\ Sound(unpublished[j].update)
    BY FlightTypes DEF Inv, Flight
  <2> QED BY <2>1
<1> QED BY <1>3, <1>4, <1>5 DEF Flight

LEMMA BroadcastInv ==
    ASSUME Inv, CommitAndBroadcast \/ CommitAndBroadcastSnapshot
    PROVE  Inv'
<1>1. PICK changes \in Changes, m \in Message :
         /\ CommitChanges(changes)
         /\ m = Broadcasted("STATE_DELTA", NewDelta(changes))
            \/ m = Broadcasted("STATE_SNAPSHOT", Snapshot(version + 1, Overlay(entries, changes)))
         /\ ToAll(m)
         /\ UNCHANGED <<unpublished, workerVars, requests, exits>>
  <2>1. CASE CommitAndBroadcast
    <3>1. PICK changes \in Changes :
             /\ CommitChanges(changes)
             /\ ToAll(Broadcasted("STATE_DELTA", NewDelta(changes)))
             /\ UNCHANGED <<unpublished, workerVars, requests, exits>>
      BY <2>1 DEF CommitAndBroadcast
    <3>2. NewDelta(changes) \in Update
      BY <3>1, CommitKeepsLog DEF Inv
    <3>3. Broadcasted("STATE_DELTA", NewDelta(changes)) \in Message
      BY <3>2 DEF Broadcasted, Message
    <3> QED BY <3>1, <3>3
  <2>2. CASE CommitAndBroadcastSnapshot
    <3>1. PICK changes \in Changes :
             /\ CommitChanges(changes)
             /\ ToAll(Broadcasted("STATE_SNAPSHOT", Snapshot(version + 1, Overlay(entries, changes))))
             /\ UNCHANGED <<unpublished, workerVars, requests, exits>>
      BY <2>2 DEF CommitAndBroadcastSnapshot
    <3>2. Snapshot(version + 1, Overlay(entries, changes)) \in Update
      BY OverlayType, SnapshotType DEF Inv, TypeOK
    <3>3. Broadcasted("STATE_SNAPSHOT", Snapshot(version + 1, Overlay(entries, changes))) \in Message
      BY <3>2 DEF Broadcasted, Message
    <3> QED BY <3>1, <3>3
  <2> QED BY <2>1, <2>2
<1>2. PICK d, s : d = NewDelta(changes) /\ s = Snapshot(version + 1, Overlay(entries, changes))
  OBVIOUS
<1>3. /\ d \in Update /\ Sound(d)'
      /\ s \in Update /\ Sound(s)' /\ Full(s)
      /\ \A u \in Update : Sound(u) => Sound(u)'
      /\ version' \in Nat /\ version <= version'
      /\ entries' \in Entries /\ deltaLog' \in Seq(Update)
      /\ history' \in [0 .. version' -> Entries]
      /\ LogOK' /\ ReplicasOK'
  BY <1>1, <1>2, CommitCommon DEF workerVars
<1>4. SoundMessage(m)'
  BY <1>1, <1>2, <1>3 DEF SoundMessage, Broadcasted, SnapshotTypes
<1>5. inbox' \in [Worker -> Seq(Message)]
  BY <1>1, AppendFacts DEF Inv, TypeOK, ToAll
<1>6. /\ requests' = requests /\ unpublished' = unpublished /\ exits' = exits
      /\ phase' = phase /\ initial' = initial
      /\ replicaVersion' = replicaVersion /\ replica' = replica
  BY <1>1 DEF workerVars
<1>7. TypeOK'
  BY <1>3, <1>5, <1>6 DEF Inv, TypeOK
<1>8. \A w \in Worker : \A i \in DOMAIN inbox'[w] :
         \/ \E j \in DOMAIN inbox[w] : inbox'[w][i] = inbox[w][j]
         \/ inbox'[w][i] = m
  <2>1. ASSUME NEW w \in Worker
        PROVE  inbox'[w] = Append(inbox[w], m) /\ inbox[w] \in Seq(Message)
    BY <1>1 DEF Inv, TypeOK, ToAll
  <2>2. ASSUME NEW w \in Worker, NEW i \in DOMAIN inbox'[w]
        PROVE  \/ \E j \in DOMAIN inbox[w] : inbox'[w][i] = inbox[w][j]
               \/ inbox'[w][i] = m
    <3>1. m \in Message /\ i \in DOMAIN Append(inbox[w], m)
      BY <1>1, <2>1, <2>2
    <3> QED BY <2>1, <3>1, AppendFacts
  <2> QED BY <2>2
<1>9. Flight'
  <2>1. \A w \in Worker : \A i \in DOMAIN requests[w] : requests[w][i].from \in Nat
    BY FlightTypes DEF Inv
  <2> QED BY <1>3, <1>4, <1>6, <1>8, <2>1, FlightStep
<1> QED BY <1>3, <1>7, <1>9 DEF Inv

\* A commit another worker asked for is also kept until its requester is told.
LEMMA RequestedCommitInv ==
    ASSUME Inv, NEW w \in Worker, CommitOnDemand(w) \/ CommitProjectPaths(w)
    PROVE  Inv'
<1>1. PICK changes \in Changes, b \in BOOLEAN :
         /\ CommitChanges(changes)
         /\ \/ ToAll(Broadcasted("STATE_DELTA", NewDelta(changes)))
            \/ inbox' = inbox
         /\ unpublished' = Append(unpublished,
                [update |-> NewDelta(changes), worker |-> w, broadcast |-> b])
         /\ UNCHANGED <<workerVars, requests, exits>>
  BY DEF CommitOnDemand, CommitProjectPaths
<1>2. PICK d, s : d = NewDelta(changes) /\ s = Snapshot(version + 1, Overlay(entries, changes))
  OBVIOUS
<1>3. /\ d \in Update /\ Sound(d)'
      /\ \A u \in Update : Sound(u) => Sound(u)'
      /\ version' \in Nat /\ version <= version'
      /\ entries' \in Entries /\ deltaLog' \in Seq(Update)
      /\ history' \in [0 .. version' -> Entries]
      /\ LogOK' /\ ReplicasOK'
  BY <1>1, <1>2, CommitCommon DEF workerVars
<1>4. PICK m \in Message : m = Broadcasted("STATE_DELTA", d)
  BY <1>3 DEF Broadcasted, Message
<1>5. SoundMessage(m)'
  BY <1>3, <1>4 DEF SoundMessage, Broadcasted, SnapshotTypes
<1>6. /\ requests' = requests /\ exits' = exits
      /\ phase' = phase /\ initial' = initial
      /\ replicaVersion' = replicaVersion /\ replica' = replica
  BY <1>1 DEF workerVars
<1>7. /\ inbox' \in [Worker -> Seq(Message)]
      /\ \A x \in Worker : \A i \in DOMAIN inbox'[x] :
            \/ \E j \in DOMAIN inbox[x] : inbox'[x][i] = inbox[x][j]
            \/ inbox'[x][i] = m
  <2>1. inbox \in [Worker -> Seq(Message)]
    BY DEF Inv, TypeOK
  <2>2. CASE inbox' = inbox
    BY <2>1, <2>2
  <2>3. CASE ToAll(m)
    BY <2>1, <2>3, AppendFacts DEF ToAll
  <2> QED BY <1>1, <1>2, <1>4, <2>2, <2>3
<1>8. /\ unpublished' \in Seq(Commit)
      /\ \A i \in DOMAIN unpublished' :
            \/ \E j \in DOMAIN unpublished : unpublished'[i].update = unpublished[j].update
            \/ unpublished'[i].update = d
  <2>1. PICK c \in Commit : c = [update |-> d, worker |-> w, broadcast |-> b]
    BY <1>3 DEF Commit
  <2>2. unpublished' = Append(unpublished, c) /\ unpublished \in Seq(Commit) /\ c.update = d
    BY <1>1, <1>2, <2>1 DEF Inv, TypeOK
  <2> QED BY <2>2, AppendFacts
<1>9. TypeOK'
  BY <1>3, <1>6, <1>7, <1>8 DEF Inv, TypeOK
<1>10. Flight'
  <2>1. \A x \in Worker : \A i \in DOMAIN requests[x] : requests[x][i].from \in Nat
    BY FlightTypes DEF Inv
  <2> QED BY <1>3, <1>5, <1>6, <1>7, <1>8, <2>1, FlightStep
<1> QED BY <1>3, <1>9, <1>10 DEF Inv

\* Without a commit, all that was true of the state system stays true.
LEMMA NoCommit ==
    ASSUME Inv, UNCHANGED <<version, entries, deltaLog, history>>
    PROVE  /\ version' \in Nat /\ version <= version'
           /\ entries' \in Entries /\ deltaLog' \in Seq(Update)
           /\ history' \in [0 .. version' -> Entries]
           /\ LogOK'
           /\ \A u \in Update : Sound(u) => Sound(u)'
           /\ \A e \in Entries, v \in Nat : SoundAt(e, v) => SoundAt(e, v)'
<1>1. LogOK'
  BY DEF Inv, LogOK, IsLast, Touches
<1>2. /\ \A u \in Update : Sound(u) => Sound(u)'
      /\ \A e \in Entries, v \in Nat : SoundAt(e, v) => SoundAt(e, v)'
  BY DEF Sound, SoundAt
<1> QED BY <1>1, <1>2 DEF Inv, TypeOK

\* The primary sends messages that are true, and touches no worker.
LEMMA PrimarySends ==
    ASSUME Inv, UNCHANGED <<version, entries, deltaLog, history, workerVars, exits>>,
           inbox' \in [Worker -> Seq(Message)],
           \A w \in Worker : \A i \in DOMAIN inbox'[w] :
              \/ \E j \in DOMAIN inbox[w] : inbox'[w][i] = inbox[w][j]
              \/ \E m \in Message : inbox'[w][i] = m /\ SoundMessage(m),
           requests' \in [Worker -> Seq(Request)],
           \A w \in Worker : \A i \in DOMAIN requests'[w] :
              \E j \in DOMAIN requests[w] : requests'[w][i] = requests[w][j],
           unpublished' \in Seq(Commit),
           \A i \in DOMAIN unpublished' :
              \E j \in DOMAIN unpublished : unpublished'[i] = unpublished[j]
    PROVE  Inv'
<1>1. /\ exits' = exits /\ phase' = phase /\ initial' = initial
      /\ replicaVersion' = replicaVersion /\ replica' = replica
  BY DEF workerVars
<1>2. TypeOK'
  BY <1>1, NoCommit DEF Inv, TypeOK
<1>3. \A m \in Message : SoundMessage(m) => SoundMessage(m)'
  BY NoCommit DEF SoundMessage, Message
<1>4. Flight'
  <2>1. \A w \in Worker : \A i \in DOMAIN requests'[w] : requests'[w][i].from \in Nat
    BY FlightTypes DEF Inv
  <2> QED BY <1>3, <2>1, NoCommit, FlightStep
<1>5. ReplicasOK'
  BY <1>1, NoCommit DEF Inv, ReplicasOK, TypeOK, HasWatchdog
<1> QED BY <1>2, <1>4, <1>5, NoCommit DEF Inv

LEMMA PublishInv ==
    ASSUME Inv, Publish
    PROVE  Inv'
<1>1. PICK n \in DOMAIN unpublished :
        /\ unpublished' = RemoveAt(unpublished, n)
        /\ inbox' = [w \in Worker |->
              LET sent == IF unpublished[n].broadcast
                          THEN Append(inbox[w], Broadcasted("STATE_DELTA", unpublished[n].update))
                          ELSE inbox[w]
              IN IF w = unpublished[n].worker
                 THEN Append(sent, Committed(unpublished[n].update)) ELSE sent]
  BY DEF Publish
<1>0. UNCHANGED <<version, entries, deltaLog, history, workerVars, requests, exits>>
  BY DEF Publish
<1>2. PICK c : c = unpublished[n]
  OBVIOUS
<1>3. /\ unpublished \in Seq(Commit) /\ c \in Commit
      /\ c.update \in Update /\ Sound(c.update)
  <2>1. unpublished \in Seq(Commit)
    BY DEF Inv, TypeOK
  <2>2. c \in Commit
    BY <1>1, <1>2, <2>1
  <2> QED BY <1>1, <1>2, <2>1, <2>2, FlightTypes DEF Inv, Flight
<1>a. PICK delta \in Message : delta = Broadcasted("STATE_DELTA", c.update)
  BY <1>3 DEF Broadcasted, Message
<1>b. PICK done \in Message : done = Committed(c.update)
  BY <1>3 DEF Committed, Message
<1>4. /\ delta = Broadcasted("STATE_DELTA", c.update) /\ SoundMessage(delta)
      /\ done = Committed(c.update) /\ SoundMessage(done)
  BY <1>3, <1>a, <1>b DEF Broadcasted, Committed, SoundMessage, SnapshotTypes
<1>5. ASSUME NEW w \in Worker
      PROVE  /\ inbox'[w] \in Seq(Message)
             /\ \A i \in DOMAIN inbox'[w] :
                   \/ \E j \in DOMAIN inbox[w] : inbox'[w][i] = inbox[w][j]
                   \/ inbox'[w][i] \in {delta, done}
  <2>1. PICK sent : sent = IF c.broadcast THEN Append(inbox[w], delta) ELSE inbox[w]
    OBVIOUS
  <2>2. inbox'[w] = IF w = c.worker THEN Append(sent, done) ELSE sent
    BY <1>1, <1>2, <1>4, <2>1
  <2>3. inbox[w] \in Seq(Message)
    BY DEF Inv, TypeOK
  <2>4. /\ sent \in Seq(Message)
        /\ \A i \in DOMAIN sent : \/ \E j \in DOMAIN inbox[w] : sent[i] = inbox[w][j]
                                  \/ sent[i] = delta
    BY <1>4, <2>1, <2>3, AppendFacts
  <2>5. /\ Append(sent, done) \in Seq(Message)
        /\ \A i \in DOMAIN Append(sent, done) :
              Append(sent, done)[i] = done \/ \E j \in DOMAIN sent : Append(sent, done)[i] = sent[j]
    BY <1>4, <2>4, AppendFacts
  <2> QED BY <2>2, <2>4, <2>5
<1>6. inbox' \in [Worker -> Seq(Message)]
  <2>1. inbox' = [w \in Worker |-> inbox'[w]]
    BY <1>1
  <2> QED BY <1>5, <2>1
<1>7. /\ requests' \in [Worker -> Seq(Request)]
      /\ \A w \in Worker : \A i \in DOMAIN requests'[w] :
            \E j \in DOMAIN requests[w] : requests'[w][i] = requests[w][j]
  BY <1>0 DEF Inv, TypeOK
<1>8. /\ unpublished' \in Seq(Commit)
      /\ \A i \in DOMAIN unpublished' :
            \E j \in DOMAIN unpublished : unpublished'[i] = unpublished[j]
  BY <1>1, <1>3, RemoveAtFacts
<1>9. \A w \in Worker : \A i \in DOMAIN inbox'[w] :
         \/ \E j \in DOMAIN inbox[w] : inbox'[w][i] = inbox[w][j]
         \/ \E m \in Message : inbox'[w][i] = m /\ SoundMessage(m)
  BY <1>4, <1>5
<1> QED BY <1>0, <1>6, <1>7, <1>8, <1>9, PrimarySends

\* The primary answers with a true delta or snapshot.
LEMMA AnswerSound ==
    ASSUME Inv, NEW request \in Request, request.from <= version
    PROVE  PrimaryAnswers(request) \in Message /\ SoundMessage(PrimaryAnswers(request))
<1>1. /\ version \in Nat /\ entries \in Entries /\ history[version] = entries
      /\ request.from \in 0 .. version
      /\ request.op \in {"WORKER_READY", "getDeltaSince", "getSnapshot"}
      /\ request.why \in Why \cup {"none"}
  BY DEF Inv, TypeOK, LogOK, Request
<1>2. PICK s, d : /\ s = Snapshot(version, entries)
                  /\ d = DeltaSince(deltaLog, version, request.from)
  OBVIOUS
<1>3. s \in Update /\ Sound(s) /\ Full(s)
  <2>1. s \in Update
    BY <1>1, <1>2, SnapshotType
  <2>2. s.from = version /\ s.to = version /\ s.changes = entries /\ DOMAIN entries = Key
    BY <1>1, <1>2, EntriesAreChanges DEF Snapshot
  <2> QED BY <1>1, <2>1, <2>2 DEF Sound, Full
<1>4. d \in Update /\ Sound(d)
  <2>1. /\ d \in Update
        /\ d # NoDelta =>
              /\ d.to = version
              /\ \A k \in DOMAIN d.changes : d.changes[k] = entries[k]
              /\ \A k \in Key \ DOMAIN d.changes : history[request.from][k] = entries[k]
    BY <1>1, <1>2, DeltaSinceFacts DEF Inv
  <2>2. CASE d = NoDelta
    BY <1>1, <2>1, <2>2, EmptyChanges DEF Sound, NoDelta
  <2>3. CASE d # NoDelta
    <3>1. d.from = request.from
      BY <1>2, <2>3 DEF DeltaSince
    <3> QED BY <1>1, <2>1, <2>3, <3>1 DEF Sound
  <2> QED BY <2>1, <2>2, <2>3
<1>5. CASE request.op = "WORKER_READY"
  BY <1>2, <1>3, <1>5 DEF PrimaryAnswers, Broadcasted, Message, SoundMessage
<1>6. CASE request.op = "getDeltaSince"
  BY <1>1, <1>2, <1>4, <1>6 DEF PrimaryAnswers, Answer, Message, SoundMessage, SnapshotTypes
<1>7. CASE request.op = "getSnapshot"
  BY <1>1, <1>2, <1>3, <1>7 DEF PrimaryAnswers, Answer, Message, SoundMessage
<1> QED BY <1>1, <1>5, <1>6, <1>7

LEMMA PrimaryReceiveInv ==
    ASSUME Inv, NEW w \in Worker, PrimaryReceive(w)
    PROVE  Inv'
<1>1. PICK request, m : request = Head(requests[w]) /\ m = PrimaryAnswers(request)
  OBVIOUS
<1>2. /\ requests[w] # <<>>
      /\ inbox' = [inbox EXCEPT ![w] = Append(@, m)]
      /\ requests' = [requests EXCEPT ![w] = Tail(@)]
      /\ unpublished' = unpublished
      /\ UNCHANGED <<version, entries, deltaLog, history, workerVars, exits>>
  BY <1>1 DEF PrimaryReceive, primaryVars
<1>3. /\ inbox \in [Worker -> Seq(Message)] /\ requests \in [Worker -> Seq(Request)]
      /\ unpublished \in Seq(Commit)
      /\ \A x \in Worker : inbox[x] \in Seq(Message) /\ requests[x] \in Seq(Request)
  BY DEF Inv, TypeOK
<1>4. m \in Message /\ SoundMessage(m)
  <2>1. 1 \in DOMAIN requests[w] /\ request = requests[w][1] /\ request \in Request
    BY <1>1, <1>2, <1>3
  <2> QED BY <1>1, <2>1, AnswerSound DEF Inv, Flight
<1>5. /\ Append(inbox[w], m) \in Seq(Message)
      /\ \A i \in DOMAIN Append(inbox[w], m) :
            Append(inbox[w], m)[i] = m
            \/ \E j \in DOMAIN inbox[w] : Append(inbox[w], m)[i] = inbox[w][j]
  BY <1>3, <1>4, AppendFacts
<1>6. /\ Tail(requests[w]) \in Seq(Request)
      /\ \A i \in DOMAIN Tail(requests[w]) :
            \E j \in DOMAIN requests[w] : Tail(requests[w])[i] = requests[w][j]
  BY <1>2, <1>3
<1>7. /\ inbox' \in [Worker -> Seq(Message)]
      /\ \A x \in Worker : \A i \in DOMAIN inbox'[x] :
            \/ \E j \in DOMAIN inbox[x] : inbox'[x][i] = inbox[x][j]
            \/ \E n \in Message : inbox'[x][i] = n /\ SoundMessage(n)
  BY <1>2, <1>3, <1>4, <1>5
<1>8. /\ requests' \in [Worker -> Seq(Request)]
      /\ \A x \in Worker : \A i \in DOMAIN requests'[x] :
            \E j \in DOMAIN requests[x] : requests'[x][i] = requests[x][j]
  BY <1>2, <1>3, <1>6
<1>9. /\ unpublished' \in Seq(Commit)
      /\ \A i \in DOMAIN unpublished' :
            \E j \in DOMAIN unpublished : unpublished'[i] = unpublished[j]
  BY <1>2, <1>3
<1> QED BY <1>2, <1>7, <1>8, <1>9, PrimarySends

-----------------------------------------------------------------------------
(* The workers' steps.                                                     *)

\* A step of one worker: it handles or drops messages, may ask for what lies
\* no later than the primary, and its replica becomes one that is right.
LEMMA WorkerStep ==
    ASSUME Inv, NEW w \in Worker, UNCHANGED <<version, entries, deltaLog, history>>,
           NEW p \in Phase, NEW u \in Update, NEW v \in Nat, NEW e \in Entries,
           phase' = [phase EXCEPT ![w] = p],
           initial' = [initial EXCEPT ![w] = u],
           replicaVersion' = [replicaVersion EXCEPT ![w] = v],
           replica' = [replica EXCEPT ![w] = e],
           p # "forked" => Sound(u) /\ Full(u),
           IF p \in {"forked", "resolved"} THEN e = Empty ELSE SoundAt(e, v),
           inbox' \in [Worker -> Seq(Message)],
           \A x \in Worker : \A i \in DOMAIN inbox'[x] :
              \E j \in DOMAIN inbox[x] : inbox'[x][i] = inbox[x][j],
           requests' \in [Worker -> Seq(Request)],
           \A x \in Worker : \A i \in DOMAIN requests'[x] :
              \/ \E j \in DOMAIN requests[x] : requests'[x][i] = requests[x][j]
              \/ requests'[x][i].from <= version,
           unpublished' \in Seq(Commit),
           \A i \in DOMAIN unpublished' :
              \E j \in DOMAIN unpublished : unpublished'[i].update = unpublished[j].update,
           exits' \in Nat
    PROVE  Inv'
<1>1. TypeOK'
  BY NoCommit DEF Inv, TypeOK
<1>2. Flight'
  <2>1. \A x \in Worker : \A i \in DOMAIN requests'[x] : requests'[x][i].from \in Nat
    <3>1. \A r \in Request : r.from \in Nat
      BY DEF Request
    <3>2. \A x \in Worker : \A i \in DOMAIN requests'[x] : requests'[x][i] \in Request
      OBVIOUS
    <3> QED BY <3>1, <3>2
  <2> QED BY <2>1, NoCommit, FlightStep
<1>3. ReplicasOK'
  <2>1. /\ phase \in [Worker -> Phase] /\ initial \in [Worker -> Update]
        /\ replicaVersion \in [Worker -> Nat] /\ replica \in [Worker -> Entries]
    BY DEF Inv, TypeOK
  <2>2. \A x \in Worker :
           /\ phase[x] # "forked" => Sound(initial[x]) /\ Full(initial[x])
           /\ IF phase[x] \in {"forked", "resolved"}
              THEN replica[x] = Empty
              ELSE SoundAt(replica[x], replicaVersion[x])
    BY <2>1 DEF Inv, ReplicasOK, HasWatchdog, Phase
  <2>3. /\ phase[w]' = p /\ initial[w]' = u /\ replicaVersion[w]' = v /\ replica[w]' = e
        /\ \A x \in Worker \ {w} :
              /\ phase[x]' = phase[x] /\ initial[x]' = initial[x]
              /\ replicaVersion[x]' = replicaVersion[x] /\ replica[x]' = replica[x]
    BY <2>1
  <2>4. /\ \A a \in Update : (Sound(a) => Sound(a)') /\ (Full(a) => Full(a)')
        /\ \A f \in Entries, n \in Nat : SoundAt(f, n) => SoundAt(f, n)'
    BY NoCommit DEF Full
  <2>5. (\A x \in Worker :
           /\ phase[x] # "forked" => Sound(initial[x]) /\ Full(initial[x])
           /\ IF phase[x] \in {"forked", "resolved"}
              THEN replica[x] = Empty
              ELSE SoundAt(replica[x], replicaVersion[x]))'
    BY <2>1, <2>2, <2>3, <2>4
  <2> QED BY <1>1, <2>5 DEF ReplicasOK, HasWatchdog, TypeOK, Phase
<1> QED BY <1>1, <1>2, <1>3, NoCommit DEF Inv

\* What the type invariant says of one worker.
LEMMA WorkerTypes ==
    ASSUME TypeOK, NEW w \in Worker
    PROVE  /\ phase[w] \in Phase /\ initial[w] \in Update
           /\ replicaVersion[w] \in Nat /\ replica[w] \in Entries
           /\ inbox[w] \in Seq(Message) /\ requests[w] \in Seq(Request)
           /\ phase = [phase EXCEPT ![w] = phase[w]]
           /\ initial = [initial EXCEPT ![w] = initial[w]]
           /\ replicaVersion = [replicaVersion EXCEPT ![w] = replicaVersion[w]]
           /\ replica = [replica EXCEPT ![w] = replica[w]]
  BY DEF TypeOK

\* Handling one message leaves a part of the old inbox.
LEMMA ConsumeFacts ==
    ASSUME TypeOK, NEW w \in Worker, NEW i \in Deliverable(w), Consume(w, i)
    PROVE  /\ inbox[w][i] \in Message /\ i \in DOMAIN inbox[w]
           /\ inbox' \in [Worker -> Seq(Message)]
           /\ \A x \in Worker : \A j \in DOMAIN inbox'[x] :
                 \E m \in DOMAIN inbox[x] : inbox'[x][j] = inbox[x][m]
<1>1. inbox \in [Worker -> Seq(Message)] /\ inbox[w] \in Seq(Message)
  BY DEF TypeOK
<1>2. i \in DOMAIN inbox[w] /\ i \in 1 .. Len(inbox[w])
  BY <1>1 DEF Deliverable
<1>3. PICK rest : rest = RemoveAt(inbox[w], i)
  OBVIOUS
<1>4. /\ rest \in Seq(Message)
      /\ \A j \in DOMAIN rest : \E m \in DOMAIN inbox[w] : rest[j] = inbox[w][m]
  BY <1>1, <1>2, <1>3, RemoveAtFacts
<1>5. inbox' = [inbox EXCEPT ![w] = rest]
  BY <1>3 DEF Consume
<1> QED BY <1>1, <1>2, <1>4, <1>5

\* A worker sends a request from no later version than the primary's, or none.
LEMMA SendFacts ==
    ASSUME TypeOK, NEW w \in Worker, NEW r \in Request, r.from <= version,
           Send(w, r) \/ requests' = requests
    PROVE  /\ requests' \in [Worker -> Seq(Request)]
           /\ \A x \in Worker : \A i \in DOMAIN requests'[x] :
                 \/ \E j \in DOMAIN requests[x] : requests'[x][i] = requests[x][j]
                 \/ requests'[x][i].from <= version
<1>1. requests \in [Worker -> Seq(Request)]
  BY DEF TypeOK
<1>2. CASE requests' = requests
  BY <1>1, <1>2
<1>3. CASE Send(w, r)
  BY <1>1, <1>3, AppendFacts DEF Send
<1> QED BY <1>2, <1>3

\* Handling a message: the replica keeps its state or takes a sound one.
LEMMA ReceiveStep ==
    ASSUME Inv, NEW w \in Worker, NEW i \in Deliverable(w), Consume(w, i),
           UNCHANGED <<primaryVars, exits>>,
           NEW p \in Phase, NEW u \in Update, NEW v \in Nat, NEW e \in Entries,
           phase' = [phase EXCEPT ![w] = p],
           initial' = [initial EXCEPT ![w] = u],
           replicaVersion' = [replicaVersion EXCEPT ![w] = v],
           replica' = [replica EXCEPT ![w] = e],
           p # "forked" => Sound(u) /\ Full(u),
           IF p \in {"forked", "resolved"} THEN e = Empty ELSE SoundAt(e, v),
           NEW r \in Request, r.from <= version,
           Send(w, r) \/ requests' = requests
    PROVE  Inv'
<1>1. /\ unpublished' = unpublished /\ exits' = exits
      /\ UNCHANGED <<version, entries, deltaLog, history>>
  BY DEF primaryVars
<1>2. /\ unpublished' \in Seq(Commit) /\ exits' \in Nat
      /\ \A j \in DOMAIN unpublished' :
            \E m \in DOMAIN unpublished : unpublished'[j].update = unpublished[m].update
  BY <1>1 DEF Inv, TypeOK
<1>3. TypeOK
  BY DEF Inv
<1> QED BY <1>1, <1>2, <1>3, ConsumeFacts, SendFacts, WorkerStep

LEMMA WorkerReceiveInv ==
    ASSUME Inv, NEW w \in Worker, WorkerReceive(w)
    PROVE  Inv'
<1>1. PICK i \in Deliverable(w) :
         \/ ReceiveBootstrap(w, i)
         \/ DropBroadcast(w, i)
         \/ ReceiveDelta(w, i)
         \/ ReceiveSnapshot(w, i)
         \/ ReceiveSyncDelta(w, i)
         \/ SyncFails(w, i)
  BY DEF WorkerReceive
<1>2. TypeOK /\ UNCHANGED <<primaryVars, exits>> /\ Consume(w, i)
  <2>1. TypeOK /\ UNCHANGED <<primaryVars, exits>>
    BY DEF Inv, WorkerReceive
  <2>2. Consume(w, i)
    BY <1>1, Zenon DEF ReceiveBootstrap, DropBroadcast, ReceiveDelta,
                       ReceiveSnapshot, ReceiveSyncDelta, SyncFails
  <2> QED BY <2>1, <2>2
<1>3. PICK m : m = inbox[w][i]
  OBVIOUS
<1>4. /\ m \in Message /\ m.update \in Update /\ m.why \in Why \cup {"none"}
      /\ SoundMessage(m)
  <2>1. m \in Message /\ i \in DOMAIN inbox[w]
    BY <1>2, <1>3, ConsumeFacts
  <2> QED BY <1>3, <2>1 DEF Message, Inv, Flight
<1>5. PICK p, u, v, e :
         p = phase[w] /\ u = initial[w] /\ v = replicaVersion[w] /\ e = replica[w]
  OBVIOUS
<1>6. /\ p \in Phase /\ u \in Update /\ v \in Nat /\ e \in Entries
      /\ phase = [phase EXCEPT ![w] = p]
      /\ initial = [initial EXCEPT ![w] = u]
      /\ replicaVersion = [replicaVersion EXCEPT ![w] = v]
      /\ replica = [replica EXCEPT ![w] = e]
  BY <1>2, <1>5, WorkerTypes
<1>7. /\ p # "forked" => Sound(u) /\ Full(u)
      /\ IF p \in {"forked", "resolved"} THEN e = Empty ELSE SoundAt(e, v)
      /\ version \in Nat
  BY <1>2, <1>5, <1>6 DEF Inv, TypeOK, ReplicasOK, HasWatchdog, Phase
<1>8. PICK none \in Request : none.from <= version
  <2>1. Ready \in Request /\ Ready.from = 0
    BY DEF Ready, Request
  <2> QED BY <1>7, <2>1
<1>9. CASE ReceiveBootstrap(w, i)
  <2>1. /\ Full(m.update) /\ Sound(m.update) /\ p = "forked"
        /\ "resolved" \in Phase
        /\ initial' = [initial EXCEPT ![w] = m.update]
        /\ phase' = [phase EXCEPT ![w] = "resolved"]
        /\ replicaVersion' = replicaVersion /\ replica' = replica /\ requests' = requests
    BY <1>3, <1>4, <1>5, <1>9 DEF ReceiveBootstrap, SoundMessage, SnapshotTypes, Phase
  <2> QED BY <1>2, <1>4, <1>6, <1>7, <1>8, <2>1, ReceiveStep
<1>10. CASE DropBroadcast(w, i) \/ SyncFails(w, i)
  <2>1. /\ phase' = phase /\ initial' = initial /\ requests' = requests
        /\ replicaVersion' = replicaVersion /\ replica' = replica
    BY <1>10 DEF DropBroadcast, SyncFails, workerVars
  <2> QED BY <1>2, <1>6, <1>7, <1>8, <2>1, ReceiveStep
<1>11. CASE ReceiveDelta(w, i)
  <2>1. PICK r : r = SyncRequest("gap", v)
    OBVIOUS
  <2>2. /\ p \notin {"forked", "resolved"} /\ v <= version /\ SoundAt(e, v)
        /\ r \in Request /\ r.from = v
        /\ phase' = phase /\ initial' = initial
        /\ Send(w, r) \/ requests' = requests
    BY <1>5, <1>6, <1>7, <1>11, <2>1
       DEF ReceiveDelta, HasWatchdog, SyncRequest, Request, Why, SoundAt
  <2>3. CASE Fits(m.update, v)
    <3>1. PICK f : f = Overlay(e, m.update.changes)
      OBVIOUS
    <3>2. f \in Entries /\ SoundAt(f, m.update.to) /\ m.update.to \in Nat
      BY <1>2, <1>4, <1>6, <2>2, <2>3, <3>1, ApplySound DEF SoundMessage, Update
    <3>3. /\ replica' = [replica EXCEPT ![w] = f]
          /\ replicaVersion' = [replicaVersion EXCEPT ![w] = m.update.to]
      BY <1>3, <1>5, <1>11, <2>3, <3>1 DEF ReceiveDelta, ApplyUpdate
    <3> QED BY <1>2, <1>6, <1>7, <2>2, <3>2, <3>3, ReceiveStep
  <2>4. CASE ~Fits(m.update, v)
    <3>1. replica' = replica /\ replicaVersion' = replicaVersion
      BY <1>3, <1>5, <1>11, <2>4 DEF ReceiveDelta
    <3> QED BY <1>2, <1>6, <1>7, <2>2, <3>1, ReceiveStep
  <2> QED BY <2>3, <2>4
<1>12. CASE ReceiveSnapshot(w, i)
  <2>1. PICK q \in Phase : q \notin {"forked", "resolved"} /\ phase' = [phase EXCEPT ![w] = q]
    BY <1>3, <1>5, <1>6, <1>12 DEF ReceiveSnapshot, AfterSync, HasWatchdog, Phase
  <2>2. /\ p \notin {"forked", "resolved"} /\ initial' = initial /\ requests' = requests
        /\ Sound(m.update) /\ Full(m.update)
    BY <1>3, <1>4, <1>5, <1>12
       DEF ReceiveSnapshot, HasWatchdog, SoundMessage, SnapshotTypes
  <2>3. CASE m.update.to < v
    <3>1. replica' = replica /\ replicaVersion' = replicaVersion
      BY <1>3, <1>5, <1>12, <2>3 DEF ReceiveSnapshot
    <3> QED BY <1>2, <1>6, <1>7, <1>8, <2>1, <2>2, <3>1, ReceiveStep
  <2>4. CASE ~(m.update.to < v)
    <3>1. PICK f : f = Overlay(e, m.update.changes)
      OBVIOUS
    <3>2. f \in Entries /\ SoundAt(f, m.update.to) /\ m.update.to \in Nat
      BY <1>2, <1>4, <1>6, <2>2, <3>1, ApplySound DEF Update
    <3>3. /\ replica' = [replica EXCEPT ![w] = f]
          /\ replicaVersion' = [replicaVersion EXCEPT ![w] = m.update.to]
      BY <1>3, <1>5, <1>12, <2>4, <3>1 DEF ReceiveSnapshot, ApplyUpdate
    <3> QED BY <1>2, <1>6, <1>7, <1>8, <2>1, <2>2, <3>2, <3>3, ReceiveStep
  <2> QED BY <2>3, <2>4
<1>13. CASE ReceiveSyncDelta(w, i)
  <2>1. PICK q \in Phase : q \notin {"forked", "resolved"} /\ phase' = [phase EXCEPT ![w] = q]
    BY <1>3, <1>5, <1>6, <1>13 DEF ReceiveSyncDelta, AfterSync, HasWatchdog, Phase
  <2>2. PICK r : r = SnapshotRequest(m.why)
    OBVIOUS
  <2>3. /\ p \notin {"forked", "resolved"} /\ initial' = initial /\ SoundAt(e, v)
        /\ r \in Request /\ r.from <= version
        /\ Send(w, r) \/ requests' = requests
    BY <1>3, <1>4, <1>5, <1>7, <1>13, <2>2
       DEF ReceiveSyncDelta, HasWatchdog, SnapshotRequest, Request
  <2>4. CASE Fits(m.update, v)
    <3>1. PICK f : f = Overlay(e, m.update.changes)
      OBVIOUS
    <3>2. f \in Entries /\ SoundAt(f, m.update.to) /\ m.update.to \in Nat
      BY <1>2, <1>4, <1>6, <2>3, <2>4, <3>1, ApplySound DEF SoundMessage, Update
    <3>3. /\ replica' = [replica EXCEPT ![w] = f]
          /\ replicaVersion' = [replicaVersion EXCEPT ![w] = m.update.to]
      BY <1>3, <1>5, <1>13, <2>4, <3>1 DEF ReceiveSyncDelta, ApplyUpdate
    <3> QED BY <1>2, <1>6, <1>7, <2>1, <2>3, <3>2, <3>3, ReceiveStep
  <2>5. CASE ~Fits(m.update, v)
    <3>1. replica' = replica /\ replicaVersion' = replicaVersion
      BY <1>3, <1>5, <1>13, <2>5 DEF ReceiveSyncDelta
    <3> QED BY <1>2, <1>6, <1>7, <2>1, <2>3, <3>1, ReceiveStep
  <2> QED BY <2>4, <2>5
<1> QED BY <1>1, <1>9, <1>10, <1>11, <1>12, <1>13

\* The steps of a worker's start.
LEMMA StartInv ==
    ASSUME Inv, NEW w \in Worker, CreateWatchdog(w) \/ StartCheck(w) \/ StartApply(w)
    PROVE  Inv'
<1>1. PICK p, u, v, e :
         p = phase[w] /\ u = initial[w] /\ v = replicaVersion[w] /\ e = replica[w]
  OBVIOUS
<1>2. /\ TypeOK
      /\ p \in Phase /\ u \in Update /\ v \in Nat /\ e \in Entries
      /\ phase = [phase EXCEPT ![w] = p]
      /\ initial = [initial EXCEPT ![w] = u]
      /\ replicaVersion = [replicaVersion EXCEPT ![w] = v]
      /\ replica = [replica EXCEPT ![w] = e]
  BY <1>1, WorkerTypes DEF Inv
<1>3. /\ p # "forked" => Sound(u) /\ Full(u)
      /\ IF p \in {"forked", "resolved"} THEN e = Empty ELSE SoundAt(e, v)
      /\ version \in Nat /\ u.to \in Nat
  BY <1>1, <1>2 DEF Inv, TypeOK, ReplicasOK, HasWatchdog, Phase, Update
<1>4. /\ inbox' \in [Worker -> Seq(Message)] /\ inbox' = inbox
      /\ unpublished' \in Seq(Commit) /\ unpublished' = unpublished
      /\ exits' \in Nat
      /\ UNCHANGED <<version, entries, deltaLog, history>>
  BY DEF Inv, TypeOK, CreateWatchdog, StartCheck, StartApply, primaryVars
<1>5. PICK r : r = SyncRequest("boot", u.to)
  OBVIOUS
<1>6. CASE CreateWatchdog(w)
  <2>1. /\ p = "resolved" /\ Sound(u) /\ Full(u) /\ e = Empty
        /\ phase' = [phase EXCEPT ![w] = "created"]
        /\ replicaVersion' = [replicaVersion EXCEPT ![w] = u.to]
        /\ initial' = initial /\ replica' = replica
    BY <1>1, <1>3, <1>6 DEF CreateWatchdog
  <2>2. r \in Request /\ r.from <= version /\ Send(w, r)
    BY <1>1, <1>3, <1>5, <1>6, <2>1 DEF CreateWatchdog, SyncRequest, Request, Why, Sound
  <2>3. SoundAt(e, u.to)
    BY <2>1 DEF Sound, SoundAt, Empty
  <2>4. "created" \in Phase
    BY DEF Phase
  <2> QED BY <1>2, <1>3, <1>4, <2>1, <2>2, <2>3, <2>4, SendFacts, WorkerStep
<1>7. CASE StartCheck(w)
  <2>1. PICK q \in {"serving", "starting"} : phase' = [phase EXCEPT ![w] = q]
    BY <1>7 DEF StartCheck
  <2>2. /\ p = "synced" /\ q \in Phase
        /\ initial' = initial /\ replicaVersion' = replicaVersion
        /\ replica' = replica /\ requests' = requests
    BY <1>1, <1>7 DEF StartCheck, Phase
  <2>3. requests' \in [Worker -> Seq(Request)]
    BY <2>2 DEF Inv, TypeOK
  <2>4. Sound(u) /\ Full(u) /\ SoundAt(e, v) /\ q \notin {"forked", "resolved"}
    BY <1>3, <2>1, <2>2
  <2> QED BY <1>2, <1>4, <2>1, <2>2, <2>3, <2>4, WorkerStep
<1>8. CASE StartApply(w)
  <2>1. PICK f : f = Overlay(e, u.changes)
    OBVIOUS
  <2>2. /\ p = "starting" /\ "serving" \in Phase /\ Sound(u) /\ Full(u)
        /\ phase' = [phase EXCEPT ![w] = "serving"]
        /\ initial' = initial /\ requests' = requests
        /\ replica' = [replica EXCEPT ![w] = f]
        /\ replicaVersion' = [replicaVersion EXCEPT ![w] = u.to]
    BY <1>1, <1>3, <1>8, <2>1 DEF StartApply, ApplyUpdate, Phase
  <2>3. f \in Entries /\ SoundAt(f, u.to)
    BY <1>2, <2>1, <2>2, ApplySound
  <2>4. requests' \in [Worker -> Seq(Request)]
    BY <2>2 DEF Inv, TypeOK
  <2> QED BY <1>2, <1>3, <1>4, <2>2, <2>3, <2>4, WorkerStep
<1> QED BY <1>6, <1>7, <1>8

LEMMA FenceSyncInv ==
    ASSUME Inv, NEW w \in Worker, FenceSync(w)
    PROVE  Inv'
<1>1. /\ workerVars' = workerVars /\ inbox' = inbox /\ exits' = exits
      /\ unpublished' = unpublished
      /\ UNCHANGED <<version, entries, deltaLog, history>>
      /\ phase' = phase /\ initial' = initial
      /\ replicaVersion' = replicaVersion /\ replica' = replica
  BY DEF FenceSync, primaryVars, workerVars
<1>2. PICK r : r = SyncRequest("fence", replicaVersion[w])
  OBVIOUS
<1>3. /\ TypeOK /\ version \in Nat /\ replicaVersion[w] \in Nat
      /\ inbox \in [Worker -> Seq(Message)] /\ unpublished \in Seq(Commit) /\ exits \in Nat
  BY DEF Inv, TypeOK
<1>4. r \in Request /\ r.from <= version /\ Send(w, r)
  BY <1>2, <1>3 DEF FenceSync, SyncRequest, Request, Why
<1>5. /\ requests' \in [Worker -> Seq(Request)]
      /\ \A x \in Worker : \A i \in DOMAIN requests'[x] :
            \/ \E j \in DOMAIN requests[x] : requests'[x][i] = requests[x][j]
            \/ requests'[x][i].from <= version
  BY <1>3, <1>4, SendFacts
<1>6. TypeOK'
  BY <1>1, <1>3, <1>5, NoCommit DEF TypeOK
<1>7. Flight'
  <2>1. \A x \in Worker : \A i \in DOMAIN requests'[x] : requests'[x][i].from \in Nat
    <3>1. \A q \in Request : q.from \in Nat
      BY DEF Request
    <3> QED BY <1>5, <3>1
  <2> QED BY <1>1, <1>5, <2>1, NoCommit, FlightStep
<1>8. ReplicasOK'
  BY <1>1, NoCommit DEF Inv, ReplicasOK, TypeOK, HasWatchdog
<1> QED BY <1>1, <1>6, <1>7, <1>8, NoCommit DEF Inv

LEMMA WorkerExitInv ==
    ASSUME Inv, NEW w \in Worker, WorkerExit(w)
    PROVE  Inv'
<1>1. /\ phase' = [phase EXCEPT ![w] = "forked"]
      /\ initial' = [initial EXCEPT ![w] = NoDelta]
      /\ replicaVersion' = [replicaVersion EXCEPT ![w] = 0]
      /\ replica' = [replica EXCEPT ![w] = Empty]
      /\ inbox' = [inbox EXCEPT ![w] = <<>>]
      /\ requests' = [requests EXCEPT ![w] = <<Ready>>]
      /\ UNCHANGED <<version, entries, deltaLog, history>>
  BY DEF WorkerExit
<1>2. /\ inbox \in [Worker -> Seq(Message)] /\ requests \in [Worker -> Seq(Request)]
      /\ unpublished \in Seq(Commit) /\ version \in Nat /\ exits \in Nat
  BY DEF Inv, TypeOK
<1>3. "forked" \in Phase /\ NoDelta \in Update /\ Empty \in Entries
  BY NoDeltaType DEF Phase, Empty, Entries, Content
<1>4. /\ inbox' \in [Worker -> Seq(Message)]
      /\ \A x \in Worker : \A i \in DOMAIN inbox'[x] :
            \E j \in DOMAIN inbox[x] : inbox'[x][i] = inbox[x][j]
  BY <1>1, <1>2
<1>5. /\ requests' \in [Worker -> Seq(Request)]
      /\ \A x \in Worker : \A i \in DOMAIN requests'[x] :
            \/ \E j \in DOMAIN requests[x] : requests'[x][i] = requests[x][j]
            \/ requests'[x][i].from <= version
  <2>1. Ready \in Request /\ Ready.from = 0
    BY DEF Ready, Request
  <2>2. <<Ready>> \in Seq(Request) /\ \A i \in DOMAIN <<Ready>> : <<Ready>>[i] = Ready
    BY <2>1
  <2> QED BY <1>1, <1>2, <2>1, <2>2
<1>6. /\ unpublished' \in Seq(Commit)
      /\ \A i \in DOMAIN unpublished' :
            \E j \in DOMAIN unpublished : unpublished'[i].update = unpublished[j].update
  <2>1. \A i \in DOMAIN unpublished : unpublished[i] \in Commit
    BY <1>2
  <2>2. unpublished' = [i \in DOMAIN unpublished |->
           IF unpublished[i].worker = w
           THEN [unpublished[i] EXCEPT !.worker = NoWorker]
           ELSE unpublished[i]]
    BY DEF WorkerExit
  <2>3. \A i \in DOMAIN unpublished :
           unpublished'[i] \in Commit /\ unpublished'[i].update = unpublished[i].update
    BY <2>1, <2>2 DEF Commit
  <2>4. DOMAIN unpublished' = DOMAIN unpublished /\ DOMAIN unpublished = 1 .. Len(unpublished)
    BY <1>2, <2>2
  <2>5. unpublished' \in Seq(Commit)
    <3>1. unpublished' \in [1 .. Len(unpublished) -> Commit] /\ Len(unpublished) \in Nat
      BY <1>2, <2>2, <2>3, <2>4
    <3> QED BY <3>1
  <2> QED BY <2>3, <2>4, <2>5
<1>7. exits' \in Nat
  BY <1>2 DEF WorkerExit
<1> QED BY <1>1, <1>3, <1>4, <1>5, <1>6, <1>7, WorkerStep

-----------------------------------------------------------------------------
(* The invariant.                                                          *)

LEMMA StepInv == Inv /\ [Next]_vars => Inv'
<1> SUFFICES ASSUME Inv, [Next]_vars
             PROVE  Inv'
  OBVIOUS
<1>1. CASE CommitAndBroadcast \/ CommitAndBroadcastSnapshot
  BY <1>1, BroadcastInv
<1>2. CASE Publish
  BY <1>2, PublishInv
<1>3. ASSUME NEW w \in Worker, CommitOnDemand(w) \/ CommitProjectPaths(w)
      PROVE  Inv'
  BY <1>3, RequestedCommitInv
<1>4. ASSUME NEW w \in Worker, PrimaryReceive(w)
      PROVE  Inv'
  BY <1>4, PrimaryReceiveInv
<1>5. ASSUME NEW w \in Worker, WorkerReceive(w)
      PROVE  Inv'
  BY <1>5, WorkerReceiveInv
<1>6. ASSUME NEW w \in Worker, CreateWatchdog(w) \/ StartCheck(w) \/ StartApply(w)
      PROVE  Inv'
  BY <1>6, StartInv
<1>7. ASSUME NEW w \in Worker, FenceSync(w)
      PROVE  Inv'
  BY <1>7, FenceSyncInv
<1>8. ASSUME NEW w \in Worker, WorkerExit(w)
      PROVE  Inv'
  BY <1>8, WorkerExitInv
<1>9. CASE UNCHANGED vars
  <2>1. /\ UNCHANGED <<version, entries, deltaLog, history, workerVars, exits>>
        /\ inbox' = inbox /\ requests' = requests /\ unpublished' = unpublished
    BY <1>9 DEF vars, primaryVars, workerVars
  <2> QED BY <2>1, PrimarySends DEF Inv, TypeOK
<1> QED BY <1>1, <1>2, <1>3, <1>4, <1>5, <1>6, <1>7, <1>8, <1>9
        DEF Next, PrimaryNext, WorkerNext

LEMMA InvAlways == Spec => []Inv
  BY InitInv, StepInv, PTL DEF Spec

\* Every reachable state of the cluster has the types TypeOK gives it.
THEOREM TypeCorrect == Spec => []TypeOK
<1>1. Inv => TypeOK
  BY DEF Inv
<1> QED BY <1>1, InvAlways, PTL

\* getDeltaSince is exact for every retention and every number of commits: what
\* it answers turns the state of the asked version into the current one, and it
\* refuses only versions more than the retention behind.
THEOREM ReplayIsExact == Spec => []ReplayExact
<1>1. Inv => ReplayExact
  <2> SUFFICES ASSUME Inv, NEW v \in 0 .. version
               PROVE  LET delta == DeltaSince(deltaLog, version, v)
                      IN IF delta = NoDelta
                         THEN version - v > DeltaRetention
                         ELSE /\ delta.to = version
                              /\ Overlay(history[v], delta.changes) = entries
    BY DEF ReplayExact
  <2>1. PICK d : d = DeltaSince(deltaLog, version, v)
    OBVIOUS
  <2>2. /\ d # NoDelta =>
              /\ d.to = version
              /\ \A k \in DOMAIN d.changes : d.changes[k] = entries[k]
              /\ \A k \in Key \ DOMAIN d.changes : history[v][k] = entries[k]
        /\ d = NoDelta => version - v > DeltaRetention
    BY <2>1, DeltaSinceFacts DEF Inv
  <2>3. entries = [k \in Key |-> entries[k]]
    BY DEF Inv, TypeOK, Entries
  <2>4. d # NoDelta => Overlay(history[v], d.changes) = entries
    BY <2>2, <2>3 DEF Overlay
  <2> QED BY <2>1, <2>2, <2>4
<1> QED BY <1>1, InvAlways, PTL

\* No replica is ahead of the primary or holds an entry the primary did not
\* hold at the replica's version: for any number of workers, with messages in
\* any order the channels allow, through exits and starts.
THEOREM ReplicasAreSound == Spec => []ReplicaSound
<1>1. Inv => ReplicaSound
  BY DEF Inv, ReplicasOK, SoundAt, ReplicaSound
<1> QED BY <1>1, InvAlways, PTL

\* A serving worker never goes back to an earlier version: of the steps that
\* change its replica, a delta fits only when it ends later, a snapshot is
\* taken only when it is no older, and the start applies its initial snapshot
\* before it serves.
THEOREM VersionsGoForward == Spec => ServingVersionMonotone
<1>1. ASSUME Inv, Next, NEW w \in Worker, Serving(w), Serving(w)'
      PROVE  replicaVersion[w] <= replicaVersion'[w]
  <2>1. /\ replicaVersion \in [Worker -> Nat] /\ phase \in [Worker -> Phase]
        /\ phase[w] = "serving" /\ phase'[w] = "serving"
    BY <1>1 DEF Inv, TypeOK, Serving
  <2>2. CASE UNCHANGED replicaVersion
    BY <2>1, <2>2
  <2>3. CASE PrimaryNext
    <3>1. UNCHANGED replicaVersion
      BY <2>3, Zenon DEF PrimaryNext, CommitAndBroadcast, CommitAndBroadcastSnapshot,
                 CommitOnDemand, CommitProjectPaths, PrimaryReceive, Publish, workerVars
    <3> QED BY <2>2, <3>1
  <2>4. ASSUME NEW x \in Worker, WorkerReceive(x)
        PROVE  replicaVersion[w] <= replicaVersion'[w]
    <3>1. PICK i \in Deliverable(x) :
             \/ ReceiveBootstrap(x, i)
             \/ DropBroadcast(x, i)
             \/ ReceiveDelta(x, i)
             \/ ReceiveSnapshot(x, i)
             \/ ReceiveSyncDelta(x, i)
             \/ SyncFails(x, i)
      BY <2>4 DEF WorkerReceive
    <3>2. PICK u \in Update : u = inbox[x][i].update
      <4>1. i \in DOMAIN inbox[x]
        BY DEF Deliverable
      <4> QED BY <1>1, <4>1, FlightTypes DEF Inv
    <3>3. CASE ReceiveBootstrap(x, i) \/ DropBroadcast(x, i) \/ SyncFails(x, i)
      BY <2>2, <3>3 DEF ReceiveBootstrap, DropBroadcast, SyncFails, workerVars
    <3>4. CASE ReceiveDelta(x, i) \/ ReceiveSyncDelta(x, i)
      <4>1. \/ UNCHANGED replicaVersion
            \/ /\ Fits(u, replicaVersion[x])
               /\ replicaVersion' = [replicaVersion EXCEPT ![x] = u.to]
        BY <3>2, <3>4 DEF ReceiveDelta, ReceiveSyncDelta, ApplyUpdate
      <4> QED BY <2>1, <2>2, <4>1 DEF Fits, IsStale, Update
    <3>5. CASE ReceiveSnapshot(x, i)
      <4>1. \/ UNCHANGED replicaVersion
            \/ /\ ~(u.to < replicaVersion[x])
               /\ replicaVersion' = [replicaVersion EXCEPT ![x] = u.to]
        BY <3>2, <3>5 DEF ReceiveSnapshot, ApplyUpdate
      <4> QED BY <2>1, <2>2, <4>1 DEF Update
    <3> QED BY <3>1, <3>3, <3>4, <3>5
  <2>5. ASSUME NEW x \in Worker, CreateWatchdog(x) \/ StartApply(x) \/ WorkerExit(x)
        PROVE  replicaVersion[w] <= replicaVersion'[w]
    <3>1. w # x
      BY <2>1, <2>5 DEF CreateWatchdog, StartApply, WorkerExit
    <3>2. replicaVersion'[w] = replicaVersion[w]
      BY <2>1, <2>5, <3>1 DEF CreateWatchdog, StartApply, ApplyUpdate, WorkerExit
    <3> QED BY <2>1, <3>2
  <2>6. ASSUME NEW x \in Worker, StartCheck(x) \/ FenceSync(x)
        PROVE  replicaVersion[w] <= replicaVersion'[w]
    BY <2>2, <2>6 DEF StartCheck, FenceSync, workerVars
  <2> QED BY <1>1, <2>3, <2>4, <2>5, <2>6 DEF Next, WorkerNext
<1>2. Inv /\ [Next]_vars =>
         [\A w \in Worker :
            Serving(w) /\ Serving(w)' => replicaVersion[w] <= replicaVersion'[w]]_vars
  BY <1>1
<1> QED BY <1>2, InvAlways, PTL DEF Spec, ServingVersionMonotone
-----------------------------------------------------------------------------
(* Views without commits during a start: every serving worker shows a state *)
(* of the history exactly, and the cluster implements VersionedStore.       *)

\* While a worker starts nothing is committed, so its bootstrap snapshot and its
\* replica's version are the current ones: nothing fits, and start() applies the
\* snapshot.
StartsCurrent(w) ==
    ~Serving(w) =>
        /\ phase[w] # "forked" => initial[w].to = version
        /\ HasWatchdog(w) => replicaVersion[w] = version
        /\ \A i \in DOMAIN inbox[w] :
              inbox[w][i].type = "STATE_SNAPSHOT" => inbox[w][i].update.to = version

ShowsExactly(w) == Serving(w) => replica[w] = history[replicaVersion[w]]

Exact == \A w \in Worker : StartsCurrent(w) /\ ShowsExactly(w)

\* A delta that fits, or a snapshot, takes a replica from one state of the history
\* to another.
LEMMA ApplyExact ==
    ASSUME TypeOK, NEW e \in Entries, NEW v \in 0 .. version, NEW u \in Update, Sound(u),
           Full(u) \/ (e = history[v] /\ Fits(u, v))
    PROVE  Overlay(e, u.changes) = history[u.to]
<1>1. /\ u.from \in Nat /\ u.to \in Nat /\ u.to \in 0 .. version
      /\ history \in [0 .. version -> Entries]
  BY DEF Update, Sound, TypeOK
<1>2. history[u.to] = [k \in Key |-> history[u.to][k]]
  BY <1>1 DEF Entries
<1>3. ASSUME NEW k \in Key
      PROVE  (IF k \in DOMAIN u.changes THEN u.changes[k] ELSE e[k]) = history[u.to][k]
  <2>1. CASE k \in DOMAIN u.changes
    BY <2>1 DEF Sound
  <2>2. CASE k \notin DOMAIN u.changes
    <3>1. e = history[v] /\ u.from = v /\ u.from < u.to
      BY <1>1, <2>2 DEF Full, Fits, IsStale
    <3> QED BY <2>2, <3>1 DEF Sound
  <2> QED BY <2>1, <2>2
<1> QED BY <1>2, <1>3 DEF Overlay

\* What a step of one worker does to what it shows: nothing, or it starts to show
\* a state of the history or a later one, or it leaves.
Stays(w) ==
    /\ Serving(w)' <=> Serving(w)
    /\ Serving(w) => replicaVersion'[w] = replicaVersion[w] /\ replica'[w] = replica[w]

Shows(w) ==
    /\ Serving(w)'
    /\ replicaVersion'[w] \in 0 .. version
    /\ replica'[w] = history[replicaVersion'[w]]
    /\ Serving(w) => replicaVersion[w] < replicaVersion'[w]

Leaves(w) == ~Serving(w)'

WorkerEffect(w) ==
    /\ UNCHANGED <<version, history>>
    /\ \A x \in Worker \ {w} :
          /\ phase'[x] = phase[x] /\ initial'[x] = initial[x] /\ inbox'[x] = inbox[x]
          /\ replicaVersion'[x] = replicaVersion[x] /\ replica'[x] = replica[x]
    /\ StartsCurrent(w)'
    /\ Stays(w) \/ Shows(w) \/ Leaves(w)

\* What one worker has, by the invariants.
LEMMA ExactFacts ==
    ASSUME Inv, Exact, NEW w \in Worker
    PROVE  /\ phase \in [Worker -> Phase] /\ initial \in [Worker -> Update]
           /\ replicaVersion \in [Worker -> Nat] /\ replica \in [Worker -> Entries]
           /\ inbox \in [Worker -> Seq(Message)]
           /\ version \in Nat
           /\ HasWatchdog(w) => replicaVersion[w] \in 0 .. version
           /\ phase[w] # "forked" => Sound(initial[w]) /\ Full(initial[w])
           /\ StartsCurrent(w) /\ ShowsExactly(w)
  BY DEF Inv, TypeOK, Exact, ReplicasOK, SoundAt

\* Handling one message.
LEMMA ReceiveEffect ==
    ASSUME Inv, Exact, NEW w \in Worker, WorkerReceive(w)
    PROVE  WorkerEffect(w)
<1>1. PICK i \in Deliverable(w) :
         \/ ReceiveBootstrap(w, i)
         \/ DropBroadcast(w, i)
         \/ ReceiveDelta(w, i)
         \/ ReceiveSnapshot(w, i)
         \/ ReceiveSyncDelta(w, i)
         \/ SyncFails(w, i)
  BY DEF WorkerReceive
<1>2. PICK m : m = inbox[w][i]
  OBVIOUS
<1>3. TypeOK /\ UNCHANGED <<version, history>> /\ Consume(w, i)
  <2>1. TypeOK /\ UNCHANGED <<version, history>>
    BY DEF Inv, WorkerReceive, primaryVars
  <2>2. Consume(w, i)
    BY <1>1, Zenon DEF ReceiveBootstrap, DropBroadcast, ReceiveDelta,
                       ReceiveSnapshot, ReceiveSyncDelta, SyncFails
  <2> QED BY <2>1, <2>2
<1>4. /\ i \in DOMAIN inbox[w] /\ m \in Message /\ m.update \in Update
      /\ SoundMessage(m) /\ Sound(m.update)
      /\ m.update.to \in 0 .. version
      /\ \A j \in DOMAIN inbox'[w] : \E n \in DOMAIN inbox[w] : inbox'[w][j] = inbox[w][n]
  <2>1. i \in DOMAIN inbox[w] /\ m \in Message
    BY <1>2, <1>3, ConsumeFacts
  <2>2. Sound(m.update) /\ SoundMessage(m)
    BY <1>2, <2>1 DEF Inv, Flight, SoundMessage
  <2> QED BY <1>3, <2>1, <2>2, ConsumeFacts DEF Sound, Message, Update
<1>5. /\ phase \in [Worker -> Phase] /\ initial \in [Worker -> Update]
      /\ replicaVersion \in [Worker -> Nat] /\ replica \in [Worker -> Entries]
      /\ inbox \in [Worker -> Seq(Message)] /\ version \in Nat
      /\ HasWatchdog(w) => replicaVersion[w] \in 0 .. version
      /\ StartsCurrent(w) /\ ShowsExactly(w)
  BY ExactFacts
<1>6. \A x \in Worker \ {w} : inbox'[x] = inbox[x]
  BY <1>3, <1>5 DEF Consume
<1>7. ~Serving(w) => \A j \in DOMAIN inbox'[w] :
         inbox'[w][j].type = "STATE_SNAPSHOT" => inbox'[w][j].update.to = version
  BY <1>4, <1>5 DEF StartsCurrent
<1>8. CASE ReceiveBootstrap(w, i) \/ DropBroadcast(w, i) \/ SyncFails(w, i)
  <2>1. /\ replicaVersion' = replicaVersion /\ replica' = replica
        /\ \A x \in Worker \ {w} : phase'[x] = phase[x] /\ initial'[x] = initial[x]
    BY <1>5, <1>8 DEF ReceiveBootstrap, DropBroadcast, SyncFails, workerVars
  <2>2. \/ phase' = phase /\ initial' = initial
        \/ /\ phase[w] = "forked" /\ phase'[w] = "resolved"
           /\ initial'[w] = m.update /\ m.type = "STATE_SNAPSHOT"
    BY <1>2, <1>5, <1>8 DEF ReceiveBootstrap, DropBroadcast, SyncFails, workerVars
  <2>3. Stays(w)
    BY <2>1, <2>2 DEF Stays, Serving
  <2>4. StartsCurrent(w)'
    BY <1>2, <1>3, <1>4, <1>5, <1>7, <2>1, <2>2 DEF StartsCurrent, Serving, HasWatchdog
  <2> QED BY <1>3, <1>6, <2>1, <2>3, <2>4 DEF WorkerEffect
<1>9. ASSUME HasWatchdog(w), initial' = initial,
             NEW q \in Phase, phase' = [phase EXCEPT ![w] = q],
             q \in {"created", "synced", "starting", "serving"},
             (q = "serving") <=> Serving(w),
             \/ replicaVersion' = replicaVersion /\ replica' = replica
             \/ ApplyUpdate(w, m.update)
                /\ (Fits(m.update, replicaVersion[w])
                    \/ (Full(m.update) /\ ~(m.update.to < replicaVersion[w])))
      PROVE  WorkerEffect(w)
  <2>1. /\ phase'[w] = q /\ \A x \in Worker \ {w} : phase'[x] = phase[x]
        /\ Serving(w)' <=> Serving(w)
        /\ HasWatchdog(w)'
    BY <1>5, <1>9 DEF Serving, HasWatchdog
  <2>2. CASE replicaVersion' = replicaVersion /\ replica' = replica
    <3>1. StartsCurrent(w)'
      BY <1>3, <1>5, <1>7, <1>9, <2>1, <2>2 DEF StartsCurrent, HasWatchdog
    <3> QED BY <1>3, <1>6, <1>9, <2>1, <2>2, <3>1 DEF WorkerEffect, Stays
  <2>3. CASE /\ ApplyUpdate(w, m.update)
             /\ \/ Fits(m.update, replicaVersion[w])
                \/ Full(m.update) /\ ~(m.update.to < replicaVersion[w])
    <3>1. /\ replicaVersion'[w] = m.update.to
          /\ replica'[w] = Overlay(replica[w], m.update.changes)
          /\ \A x \in Worker \ {w} :
                replicaVersion'[x] = replicaVersion[x] /\ replica'[x] = replica[x]
      BY <1>5, <2>3 DEF ApplyUpdate
    <3>2. /\ replicaVersion[w] <= m.update.to /\ replicaVersion[w] \in 0 .. version
          /\ Fits(m.update, replicaVersion[w]) => replicaVersion[w] < m.update.to
      BY <1>4, <1>5, <1>9, <2>3 DEF Fits, IsStale
    <3>3. StartsCurrent(w)'
      BY <1>3, <1>4, <1>5, <1>7, <1>9, <2>1, <3>1, <3>2 DEF StartsCurrent, HasWatchdog
    <3>4. Serving(w) => Overlay(replica[w], m.update.changes) = history[m.update.to]
      <4>1. replica[w] \in Entries /\ (Serving(w) => replica[w] = history[replicaVersion[w]])
        BY <1>5 DEF ShowsExactly
      <4> QED BY <1>3, <1>4, <2>3, <3>2, <4>1, ApplyExact
    <3>5. Stays(w) \/ Shows(w)
      <4>1. CASE ~Serving(w)
        BY <2>1, <4>1 DEF Stays
      <4>2. CASE Serving(w) /\ replicaVersion[w] = m.update.to
        BY <1>5, <2>1, <3>1, <3>4, <4>2 DEF Stays, ShowsExactly
      <4>3. CASE Serving(w) /\ replicaVersion[w] < m.update.to
        BY <1>4, <2>1, <3>1, <3>4, <4>3 DEF Shows
      <4> QED BY <1>4, <3>2, <4>1, <4>2, <4>3
    <3> QED BY <1>3, <1>6, <1>9, <2>1, <3>1, <3>3, <3>5 DEF WorkerEffect
  <2> QED BY <1>9, <2>2, <2>3
<1>10. phase = [phase EXCEPT ![w] = phase[w]] /\ phase[w] \in Phase
  BY <1>5
<1>11. CASE ReceiveDelta(w, i)
  <2>1. /\ HasWatchdog(w) /\ initial' = initial /\ phase' = phase
        /\ \/ replicaVersion' = replicaVersion /\ replica' = replica
           \/ ApplyUpdate(w, m.update) /\ Fits(m.update, replicaVersion[w])
    BY <1>2, <1>11 DEF ReceiveDelta
  <2> QED BY <1>9, <1>10, <2>1 DEF HasWatchdog, Serving
<1>12. CASE ReceiveSnapshot(w, i)
  <2>1. /\ HasWatchdog(w) /\ initial' = initial /\ AfterSync(w, m.why)
        /\ \/ replicaVersion' = replicaVersion /\ replica' = replica
           \/ ApplyUpdate(w, m.update) /\ ~(m.update.to < replicaVersion[w])
        /\ Full(m.update)
    BY <1>2, <1>4, <1>12 DEF ReceiveSnapshot, SoundMessage, SnapshotTypes
  <2>2. PICK q \in Phase :
           /\ phase' = [phase EXCEPT ![w] = q]
           /\ q \in {"created", "synced", "starting", "serving"}
           /\ (q = "serving") <=> Serving(w)
    BY <1>10, <2>1 DEF AfterSync, HasWatchdog, Serving, Phase
  <2> QED BY <1>9, <2>1, <2>2
<1>13. CASE ReceiveSyncDelta(w, i)
  <2>1. /\ HasWatchdog(w) /\ initial' = initial
        /\ AfterSync(w, m.why) \/ phase' = phase
        /\ \/ replicaVersion' = replicaVersion /\ replica' = replica
           \/ ApplyUpdate(w, m.update) /\ Fits(m.update, replicaVersion[w])
    BY <1>2, <1>13 DEF ReceiveSyncDelta
  <2>2. PICK q \in Phase :
           /\ phase' = [phase EXCEPT ![w] = q]
           /\ q \in {"created", "synced", "starting", "serving"}
           /\ (q = "serving") <=> Serving(w)
    BY <1>10, <2>1 DEF AfterSync, HasWatchdog, Serving, Phase
  <2> QED BY <1>9, <2>1, <2>2
<1> QED BY <1>1, <1>8, <1>11, <1>12, <1>13

\* The other steps of a worker.
LEMMA StartEffect ==
    ASSUME Inv, Exact, NEW w \in Worker,
           \/ CreateWatchdog(w) \/ StartCheck(w) \/ StartApply(w)
           \/ FenceSync(w) \/ WorkerExit(w)
    PROVE  WorkerEffect(w)
<1>1. /\ phase \in [Worker -> Phase] /\ initial \in [Worker -> Update]
      /\ replicaVersion \in [Worker -> Nat] /\ replica \in [Worker -> Entries]
      /\ inbox \in [Worker -> Seq(Message)] /\ version \in Nat
      /\ phase[w] # "forked" => Sound(initial[w]) /\ Full(initial[w])
      /\ StartsCurrent(w) /\ ShowsExactly(w) /\ TypeOK
  BY ExactFacts DEF Inv
<1>2. CASE CreateWatchdog(w) \/ StartCheck(w) \/ StartApply(w)
  <2>1. /\ UNCHANGED <<version, history>> /\ inbox' = inbox /\ initial' = initial
        /\ ~Serving(w) /\ phase[w] # "forked" /\ initial[w].to = version
        /\ \A x \in Worker \ {w} :
              /\ phase'[x] = phase[x]
              /\ replicaVersion'[x] = replicaVersion[x] /\ replica'[x] = replica[x]
    BY <1>1, <1>2 DEF CreateWatchdog, StartCheck, StartApply, ApplyUpdate, primaryVars,
                      Serving, StartsCurrent
  <2>2. CASE CreateWatchdog(w) \/ StartCheck(w)
    <3>1. /\ replicaVersion'[w] = version /\ phase'[w] \in {"created", "starting"}
          /\ HasWatchdog(w)'
      BY <1>1, <2>1, <2>2 DEF CreateWatchdog, StartCheck, StartsCurrent, HasWatchdog
    <3>2. StartsCurrent(w)' /\ Leaves(w)
      BY <1>1, <2>1, <3>1 DEF StartsCurrent, Serving, HasWatchdog, Leaves
    <3> QED BY <2>1, <3>2 DEF WorkerEffect
  <2>3. CASE StartApply(w)
    <3>1. /\ phase'[w] = "serving" /\ replicaVersion'[w] = initial[w].to
          /\ replica'[w] = Overlay(replica[w], initial[w].changes)
      BY <1>1, <2>3 DEF StartApply, ApplyUpdate
    <3>2. Overlay(replica[w], initial[w].changes) = history[initial[w].to]
      <4>1. replica[w] \in Entries /\ initial[w] \in Update /\ 0 \in 0 .. version
        BY <1>1
      <4> QED BY <1>1, <2>1, <4>1, ApplyExact
    <3>3. StartsCurrent(w)' /\ Shows(w)
      BY <1>1, <2>1, <3>1, <3>2 DEF StartsCurrent, Serving, Shows
    <3> QED BY <2>1, <3>3 DEF WorkerEffect
  <2> QED BY <1>2, <2>2, <2>3
<1>3. CASE FenceSync(w)
  <2>1. /\ UNCHANGED <<version, history, phase, initial, replicaVersion, replica, inbox>>
    BY <1>3 DEF FenceSync, primaryVars, workerVars
  <2>2. StartsCurrent(w)' /\ Stays(w)
    BY <1>1, <2>1 DEF StartsCurrent, Stays, Serving, HasWatchdog
  <2> QED BY <2>1, <2>2 DEF WorkerEffect
<1>4. CASE WorkerExit(w)
  <2>1. /\ UNCHANGED <<version, history>>
        /\ phase'[w] = "forked" /\ inbox'[w] = <<>>
        /\ \A x \in Worker \ {w} :
              /\ phase'[x] = phase[x] /\ initial'[x] = initial[x] /\ inbox'[x] = inbox[x]
              /\ replicaVersion'[x] = replicaVersion[x] /\ replica'[x] = replica[x]
    BY <1>1, <1>4 DEF WorkerExit
  <2>2. StartsCurrent(w)' /\ Leaves(w)
    BY <2>1 DEF StartsCurrent, Serving, HasWatchdog, Leaves
  <2> QED BY <2>1, <2>2 DEF WorkerEffect
<1> QED BY <1>2, <1>3, <1>4
\* What a step of the primary does to what the workers show: nothing.  It commits
\* only while every worker serves, and what it sends a worker that does not serve
\* is no snapshot or the current one.
Commits ==
    /\ \A w \in Worker : Serving(w)
    /\ UNCHANGED workerVars
    /\ version' = version + 1
    /\ \E s \in Entries :
          history' = [v \in 0 .. version + 1 |-> IF v = version + 1 THEN s ELSE history[v]]

SnapshotIsCurrent(m) == m.type = "STATE_SNAPSHOT" => m.update.to = version

Sends ==
    /\ UNCHANGED <<version, history, workerVars>>
    /\ \A w \in Worker : \A i \in DOMAIN inbox'[w] :
          \/ \E j \in DOMAIN inbox[w] : inbox'[w][i] = inbox[w][j]
          \/ SnapshotIsCurrent(inbox'[w][i])

LEMMA CommitEffect ==
    ASSUME Inv, CommitDuringBoot = FALSE,
           \/ CommitAndBroadcast \/ CommitAndBroadcastSnapshot
           \/ \E w \in Worker : CommitOnDemand(w) \/ CommitProjectPaths(w)
    PROVE  Commits
<1>1. PICK changes \in Changes : CanCommit /\ CommitChanges(changes) /\ UNCHANGED workerVars
  BY Zenon DEF CommitAndBroadcast, CommitAndBroadcastSnapshot, CommitOnDemand, CommitProjectPaths
<1>2. \A w \in Worker : Serving(w)
  BY <1>1 DEF CanCommit
<1>3. Overlay(entries, changes) \in Entries
  BY OverlayType DEF Inv, TypeOK
<1> QED BY <1>1, <1>2, <1>3 DEF CommitChanges, Commits

LEMMA PublishSends ==
    ASSUME Inv, Publish
    PROVE  Sends
<1>1. PICK n \in DOMAIN unpublished :
        inbox' = [w \in Worker |->
              LET sent == IF unpublished[n].broadcast
                          THEN Append(inbox[w], Broadcasted("STATE_DELTA", unpublished[n].update))
                          ELSE inbox[w]
              IN IF w = unpublished[n].worker
                 THEN Append(sent, Committed(unpublished[n].update)) ELSE sent]
  BY DEF Publish
<1>2. UNCHANGED <<version, history, workerVars>>
  BY DEF Publish
<1>3. PICK c : c = unpublished[n]
  OBVIOUS
<1>4. c \in Commit /\ c.update \in Update
  BY <1>3, FlightTypes DEF Inv
<1>5. PICK delta \in Message : delta = Broadcasted("STATE_DELTA", c.update)
  BY <1>4 DEF Broadcasted, Message
<1>6. PICK done \in Message : done = Committed(c.update)
  BY <1>4 DEF Committed, Message
<1>7. SnapshotIsCurrent(delta) /\ SnapshotIsCurrent(done)
  BY <1>5, <1>6 DEF Broadcasted, Committed, SnapshotIsCurrent
<1>8. ASSUME NEW w \in Worker, NEW i \in DOMAIN inbox'[w]
      PROVE  \/ \E j \in DOMAIN inbox[w] : inbox'[w][i] = inbox[w][j]
             \/ inbox'[w][i] \in {delta, done}
  <2>1. PICK sent : sent = IF c.broadcast THEN Append(inbox[w], delta) ELSE inbox[w]
    OBVIOUS
  <2>2. inbox'[w] = IF w = c.worker THEN Append(sent, done) ELSE sent
    BY <1>1, <1>3, <1>5, <1>6, <2>1
  <2>3. inbox[w] \in Seq(Message)
    BY DEF Inv, TypeOK
  <2>4. /\ sent \in Seq(Message)
        /\ \A m \in DOMAIN sent : \/ \E j \in DOMAIN inbox[w] : sent[m] = inbox[w][j]
                                  \/ sent[m] = delta
    BY <2>1, <2>3, AppendFacts
  <2>5. \A m \in DOMAIN Append(sent, done) :
           \/ Append(sent, done)[m] = done
           \/ \E j \in DOMAIN sent : Append(sent, done)[m] = sent[j]
    BY <2>4, AppendFacts
  <2> QED BY <2>2, <2>4, <2>5
<1> QED BY <1>2, <1>7, <1>8 DEF Sends

LEMMA ReceiveSends ==
    ASSUME Inv, NEW w \in Worker, PrimaryReceive(w)
    PROVE  Sends
<1>1. PICK request, m : request = Head(requests[w]) /\ m = PrimaryAnswers(request)
  OBVIOUS
<1>2. /\ requests[w] # <<>>
      /\ inbox' = [inbox EXCEPT ![w] = Append(@, m)]
      /\ UNCHANGED <<version, history, workerVars>>
  BY <1>1 DEF PrimaryReceive, primaryVars
<1>3. /\ inbox \in [Worker -> Seq(Message)] /\ requests[w] \in Seq(Request)
  BY DEF Inv, TypeOK
<1>4. /\ 1 \in DOMAIN requests[w] /\ request = requests[w][1] /\ request \in Request
      /\ request.from <= version
  BY <1>1, <1>2, <1>3 DEF Inv, Flight
<1>5. m \in Message
  BY <1>1, <1>4, AnswerSound
<1>6. SnapshotIsCurrent(m)
  BY <1>1, <1>4 DEF PrimaryAnswers, Broadcasted, Answer, Snapshot, Request, SnapshotIsCurrent
<1>7. \A i \in DOMAIN Append(inbox[w], m) :
         \/ Append(inbox[w], m)[i] = m
         \/ \E j \in DOMAIN inbox[w] : Append(inbox[w], m)[i] = inbox[w][j]
  BY <1>3, <1>5, AppendFacts
<1>8. ASSUME NEW x \in Worker, NEW i \in DOMAIN inbox'[x]
      PROVE  inbox'[x][i] = m \/ \E j \in DOMAIN inbox[x] : inbox'[x][i] = inbox[x][j]
  BY <1>2, <1>3, <1>7
<1> QED BY <1>2, <1>6, <1>8 DEF Sends

\* Every step does one of the three.
LEMMA StepEffect ==
    ASSUME Inv, Exact, CommitDuringBoot = FALSE, [Next]_vars
    PROVE  Commits \/ Sends \/ \E w \in Worker : WorkerEffect(w)
<1>1. CASE UNCHANGED vars
  BY <1>1 DEF vars, primaryVars, Sends
<1>2. CASE PrimaryNext
  BY <1>2, CommitEffect, PublishSends, ReceiveSends DEF PrimaryNext
<1>3. ASSUME NEW w \in Worker, WorkerNext(w)
      PROVE  WorkerEffect(w)
  BY <1>3, ReceiveEffect, StartEffect DEF WorkerNext
<1> QED BY <1>1, <1>2, <1>3 DEF Next

LEMMA InitExact == Init => Exact
  BY DEF Init, Exact, StartsCurrent, ShowsExactly, Serving, HasWatchdog

\* Exact, with the invariant of every cluster, is inductive.
LEMMA StepExact ==
    ASSUME Inv, Exact, CommitDuringBoot = FALSE, [Next]_vars
    PROVE  Exact'
<1>1. /\ version \in Nat
      /\ \A w \in Worker : HasWatchdog(w) => replicaVersion[w] \in 0 .. version
      /\ \A w \in Worker : StartsCurrent(w) /\ ShowsExactly(w)
  BY ExactFacts DEF Inv, TypeOK
<1>2. CASE Commits
  <2>1. ASSUME NEW w \in Worker
        PROVE  StartsCurrent(w)' /\ ShowsExactly(w)'
    <3>1. /\ Serving(w)' /\ Serving(w) /\ replicaVersion[w] \in 0 .. version
          /\ replica'[w] = replica[w] /\ replicaVersion'[w] = replicaVersion[w]
      BY <1>1, <1>2 DEF Commits, workerVars, Serving, HasWatchdog
    <3>2. history'[replicaVersion[w]] = history[replicaVersion[w]]
      BY <1>1, <1>2, <3>1 DEF Commits
    <3> QED BY <1>1, <3>1, <3>2 DEF StartsCurrent, ShowsExactly
  <2> QED BY <2>1 DEF Exact
<1>3. CASE Sends
  BY <1>1, <1>3 DEF Exact, Sends, SnapshotIsCurrent, workerVars, StartsCurrent, ShowsExactly,
                    Serving, HasWatchdog
<1>4. ASSUME NEW w \in Worker, WorkerEffect(w), NEW x \in Worker
      PROVE  StartsCurrent(x)' /\ ShowsExactly(x)'
  <2>1. CASE x # w
    BY <1>1, <1>4, <2>1 DEF WorkerEffect, StartsCurrent, ShowsExactly, Serving, HasWatchdog
  <2>2. CASE x = w
    <3>1. ShowsExactly(w)'
      BY <1>1, <1>4 DEF WorkerEffect, ShowsExactly, Stays, Shows, Leaves
    <3> QED BY <1>4, <2>2, <3>1 DEF WorkerEffect
  <2> QED BY <2>1, <2>2
<1> QED BY <1>2, <1>3, <1>4, StepEffect DEF Exact

LEMMA ExactAlways ==
    ASSUME CommitDuringBoot = FALSE
    PROVE  Spec => [](Inv /\ Exact)
<1>1. Init => Inv /\ Exact
  BY InitInv, InitExact
<1>2. Inv /\ Exact /\ [Next]_vars => (Inv /\ Exact)'
  BY StepInv, StepExact
<1> QED BY <1>1, <1>2, PTL DEF Spec

\* When nothing is committed while a worker starts, a serving worker holds every
\* entry of the version it advertises: its replica is that state of the history.
THEOREM ReplicasAreComplete ==
    ASSUME CommitDuringBoot = FALSE
    PROVE  Spec => []ReplicaComplete
<1>1. Inv /\ Exact => ReplicaComplete
  BY DEF Exact, ShowsExactly, ReplicaComplete
<1> QED BY <1>1, ExactAlways, PTL
-----------------------------------------------------------------------------
(* The refinement of VersionedStore.                                       *)

Views == [w \in Worker |-> IF Serving(w) THEN replicaVersion[w] ELSE Absent]
States == [w \in Worker |-> IF Serving(w) THEN replica[w] ELSE Absent]

\* A commit is a commit of the store, what one worker does is a view that starts,
\* moves forward or goes away, and every other step changes nothing of the store.
LEMMA StepImplements ==
    ASSUME Inv, Exact, CommitDuringBoot = FALSE, [Next]_vars
    PROVE  [Store!StoreNext]_(Store!storeVars)
<1>1. CASE Commits
  <2>1. Views' = Views /\ States' = States
    BY <1>1 DEF Commits, workerVars, Views, States, Serving
  <2>2. Store!StoreCommit
    BY <1>1, <2>1 DEF Commits, Store!StoreCommit, Views, States
  <2> QED BY <2>2 DEF Store!StoreNext
<1>2. CASE Sends
  BY <1>2 DEF Sends, workerVars, Serving, Store!storeVars
<1>3. ASSUME NEW w \in Worker, WorkerEffect(w)
      PROVE  [Store!StoreNext]_(Store!storeVars)
  <2>1. UNCHANGED <<version, history>>
    BY <1>3 DEF WorkerEffect
  <2>2. \A x \in Worker \ {w} : Views'[x] = Views[x] /\ States'[x] = States[x]
    BY <1>3 DEF WorkerEffect, Views, States, Serving
  <2>3. /\ Views'[w] = IF Serving(w)' THEN replicaVersion'[w] ELSE Absent
        /\ States'[w] = IF Serving(w)' THEN replica'[w] ELSE Absent
        /\ Views[w] = IF Serving(w) THEN replicaVersion[w] ELSE Absent
        /\ States[w] = IF Serving(w) THEN replica[w] ELSE Absent
    BY DEF Views, States
  <2>4. ASSUME NEW a, NEW b, Views'[w] = a, States'[w] = b
        PROVE  Views' = [Views EXCEPT ![w] = a] /\ States' = [States EXCEPT ![w] = b]
    BY <2>2, <2>4 DEF Views, States
  <2>5. CASE Stays(w)
    <3>1. Views'[w] = Views[w] /\ States'[w] = States[w]
      BY <2>3, <2>5 DEF Stays
    <3>2. Views' = Views /\ States' = States
      BY <2>2, <3>1 DEF Views, States
    <3> QED BY <2>1, <3>2 DEF Store!storeVars, Views, States
  <2>6. CASE Shows(w)
    <3>1. PICK v \in 0 .. version : v = replicaVersion'[w]
      BY <2>6 DEF Shows
    <3>2. Views'[w] = v /\ States'[w] = history[v] /\ (Views[w] # Absent => Views[w] < v)
      BY <2>3, <2>6, <3>1 DEF Shows
    <3>3. Store!Show(w, v)
      BY <2>1, <2>4, <3>2 DEF Store!Show, Views, States
    <3> QED BY <3>1, <3>3 DEF Store!StoreNext
  <2>7. CASE Leaves(w)
    <3>1. Views'[w] = Absent /\ States'[w] = Absent
      BY <2>3, <2>7 DEF Leaves
    <3>2. Store!Leave(w)
      BY <2>1, <2>4, <3>1 DEF Store!Leave, Views, States
    <3> QED BY <3>2 DEF Store!StoreNext
  <2> QED BY <1>3, <2>5, <2>6, <2>7 DEF WorkerEffect
<1> QED BY <1>1, <1>2, <1>3, StepEffect

\* When nothing is committed while a worker starts, the cluster implements
\* VersionedStore: one history, and for each serving worker an exact view of it
\* that only moves forward, for any number of workers, commits and exits.
THEOREM ClusterImplementsStore ==
    ASSUME CommitDuringBoot = FALSE
    PROVE  Spec => ImplementsStore
<1>1. Init => Store!StoreInit
  BY DEF Init, Serving, Store!StoreInit
<1>2. Inv /\ Exact /\ [Next]_vars => [Store!StoreNext]_(Store!storeVars)
  BY StepImplements
<1> QED BY <1>1, <1>2, ExactAlways, PTL DEF Spec, ImplementsStore, Store!StoreSpec
=============================================================================
