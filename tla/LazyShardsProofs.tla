-------------------------- MODULE LazyShardsProofs --------------------------
(***************************************************************************)
(* LazyShards for every number of shards, workers, files, edits and calls: *)
(* the types, the versions that name the files of a shard, the order of    *)
(* what the primary's index holds, and the versions a worker's commits     *)
(* made and it keeps.                                                      *)
(***************************************************************************)
EXTENDS LazyShards, SequenceLemmas

-----------------------------------------------------------------------------
(* Types.                                                                  *)

MessageType == {"STATE_DELTA", "STATE_SNAPSHOT", "SYNC_DELTA", "SYNC_SNAPSHOT", "ANSWER"}
Bundle == UNION {[K -> Shard] : K \in SUBSET Key}
Sent == [type : MessageType, update : Update, shards : Bundle, confirms : Confirmation]
Settled == [worker : Worker, broadcast : BOOLEAN, message : Sent]

\* The operations with their callers: only the reconcile has none.
Queued ==
    [op : {"commit", "auth", "load"}, worker : Worker, key : Key,
     files : SUBSET File, known : Nat]
    \cup [op : {"refresh"}, worker : {NoWorker}, key : Key, files : SUBSET File, known : Nat]

Scan ==
    [op : {"load"}, worker : Worker, key : Key, scanned : Files]
    \cup [op : {"refresh"}, worker : {NoWorker}, key : Key, scanned : Files]

PrimaryTypes ==
    /\ disk \in [Key -> Files] /\ edits \in Nat
    /\ version \in Nat /\ markers \in [Key -> Nat] /\ deltaLog \in Seq(Update)
    /\ index \in [Key -> Shard] /\ shardCounter \in Nat
    /\ queue \in Seq(Queued)
    /\ running \in {Idle} \cup Scan
    /\ joined \in [Key -> Seq(Worker)]
    /\ unpublished \in Seq(Settled)

WorkerTypes ==
    /\ replicaVersion \in [Worker -> Nat]
    /\ replica \in [Worker -> [Key -> Nat]]
    /\ shards \in [Worker -> [Key -> [shard : Shard, stale : BOOLEAN]]]
    /\ confirmed \in [Worker -> Confirmation]

ChannelTypes ==
    /\ inbox \in [Worker -> Seq(Sent)]
    /\ requests \in [Worker -> Seq(Request)]

Types == PrimaryTypes /\ WorkerTypes /\ ChannelTypes

LEMMA ContentIs == Content = Nat
  BY DEF Content

LEMMA ChangesIntro ==
    ASSUME NEW K \in SUBSET Key, NEW c \in [K -> Nat]
    PROVE  c \in Changes
  BY ContentIs DEF Changes

LEMMA ChangesElim ==
    ASSUME NEW c \in Changes
    PROVE  /\ DOMAIN c \in SUBSET Key
           /\ \A k \in DOMAIN c : c[k] \in Nat
  BY ContentIs DEF Changes

LEMMA BundleElim ==
    ASSUME NEW b \in Bundle
    PROVE  /\ DOMAIN b \in SUBSET Key
           /\ \A k \in DOMAIN b : b[k] \in Shard
  BY DEF Bundle

LEMMA NoFilesType == NoFiles \in Files /\ Unloaded \in Shard
  BY DEF NoFiles, Files, Unloaded, Shard

LEMMA NoShardsType == NoShards \in Bundle /\ DOMAIN NoShards = {}
<1>1. NoShards \in [{} -> Shard] /\ {} \in SUBSET Key
  BY NoFilesType DEF NoShards
<1> QED BY <1>1 DEF Bundle, NoShards

LEMMA OnlyType ==
    ASSUME NEW k \in Key, NEW s \in Shard
    PROVE  Only(k, s) \in Bundle /\ DOMAIN Only(k, s) = {k} /\ Only(k, s)[k] = s
<1>1. Only(k, s) \in [{k} -> Shard] /\ {k} \in SUBSET Key
  BY DEF Only
<1> QED BY <1>1 DEF Bundle, Only

LEMMA UnconfirmedType == Unconfirmed \in Confirmation /\ \A k \in Key : Unconfirmed[k] = 0
  BY DEF Unconfirmed, Confirmation

LEMMA NoDeltaFacts ==
    /\ NoDelta \in Update /\ NoDelta.from = 1 /\ NoDelta.to = 0
    /\ DOMAIN NoDelta.changes = {}
<1>1. NoChanges \in [{} -> Nat] /\ {} \in SUBSET Key
  BY DEF NoChanges
<1>2. NoChanges \in Changes /\ DOMAIN NoChanges = {}
  BY <1>1, ChangesIntro DEF NoChanges
<1> QED BY <1>2 DEF NoDelta, Update

LEMMA MarkerFacts ==
    ASSUME version \in Nat, NEW k \in Key, NEW v \in Nat
    PROVE  /\ Marker(k, v) \in Update
           /\ Marker(k, v).from = version /\ Marker(k, v).to = version + 1
           /\ DOMAIN Marker(k, v).changes = {k} /\ Marker(k, v).changes[k] = v
<1>1. [j \in {k} |-> v] \in [{k} -> Nat] /\ {k} \in SUBSET Key
  OBVIOUS
<1>2. [j \in {k} |-> v] \in Changes
  BY <1>1, ChangesIntro
<1> QED BY <1>2 DEF Marker, Update

LEMMA SnapshotFacts ==
    ASSUME NEW v \in Nat, NEW e \in [Key -> Nat]
    PROVE  /\ Snapshot(v, e) \in Update
           /\ Snapshot(v, e).from = v /\ Snapshot(v, e).to = v
<1>1. e \in Changes
  BY ChangesIntro
<1> QED BY <1>1 DEF Snapshot, Update

LEMMA OverlayType ==
    ASSUME NEW e \in [Key -> Nat], NEW c \in Changes
    PROVE  Overlay(e, c) \in [Key -> Nat]
  BY ChangesElim DEF Overlay

\* What an update is, field by field.
LEMMA UpdateElim ==
    ASSUME NEW u \in Update
    PROVE  /\ u.from \in Nat /\ u.to \in Nat /\ u.changes \in Changes
           /\ DOMAIN u.changes \in SUBSET Key
           /\ \A k \in DOMAIN u.changes : u.changes[k] \in Nat
  BY ChangesElim DEF Update

LEMMA AppendIs ==
    ASSUME NEW S, NEW s \in Seq(S), NEW e \in S
    PROVE  /\ Append(s, e) \in Seq(S)
           /\ DOMAIN Append(s, e) = 1 .. (Len(s) + 1)
           /\ \A i \in 1 .. Len(s) : Append(s, e)[i] = s[i]
           /\ Append(s, e)[Len(s) + 1] = e
  OBVIOUS

LEMMA TailIs ==
    ASSUME NEW S, NEW s \in Seq(S), s # <<>>
    PROVE  /\ Tail(s) \in Seq(S) /\ Head(s) \in S /\ Head(s) = s[1] /\ 1 \in DOMAIN s
           /\ DOMAIN Tail(s) = 1 .. (Len(s) - 1)
           /\ \A i \in 1 .. (Len(s) - 1) : Tail(s)[i] = s[i + 1] /\ i + 1 \in DOMAIN s
  OBVIOUS

LEMMA ConcatIs ==
    ASSUME NEW S, NEW s \in Seq(S), NEW t \in Seq(S)
    PROVE  /\ s \o t \in Seq(S)
           /\ DOMAIN (s \o t) = 1 .. (Len(s) + Len(t))
           /\ \A i \in 1 .. Len(s) : (s \o t)[i] = s[i]
           /\ \A i \in 1 .. Len(t) : (s \o t)[Len(s) + i] = t[i]
<1>1. s \o t \in Seq(S) /\ Len(s \o t) = Len(s) + Len(t)
  OBVIOUS
<1>2. \A i \in 1 .. (Len(s) + Len(t)) :
         (s \o t)[i] = IF i <= Len(s) THEN s[i] ELSE t[i - Len(s)]
  OBVIOUS
<1>3. Len(s) \in Nat /\ Len(t) \in Nat
  OBVIOUS
<1>4. ASSUME NEW i \in 1 .. Len(t)
      PROVE  (s \o t)[Len(s) + i] = t[i]
  <2>1. Len(s) + i \in 1 .. (Len(s) + Len(t)) /\ ~(Len(s) + i <= Len(s)) /\ (Len(s) + i) - Len(s) = i
    BY <1>3
  <2> QED BY <1>2, <2>1
<1>5. \A i \in 1 .. Len(s) : (s \o t)[i] = s[i]
  BY <1>2, <1>3
<1> QED BY <1>1, <1>3, <1>4, <1>5
-----------------------------------------------------------------------------
(* The markers committed so far, and the log that keeps the last of them.  *)

\* H[n]: the shard and the shard version of the marker committed as version n.
\* Shard versions only grow.
Recorded(H) ==
    /\ H \in [1 .. version -> [key : Key, value : Nat]]
    /\ \A m, n \in 1 .. version : m < n => H[m].value < H[n].value
    /\ \A n \in 1 .. version : H[n].value > 0 /\ H[n].value <= shardCounter

Entry(H, n) == [from |-> n - 1, to |-> n, changes |-> [j \in {H[n].key} |-> H[n].value]]

Touches(i, k) == k \in DOMAIN deltaLog[i].changes
IsLast(i, k) == Touches(i, k) /\ \A j \in 1 .. Len(deltaLog) : Touches(j, k) => j <= i

LogRecords(H) ==
    /\ Len(deltaLog) <= version
    /\ Len(deltaLog) <= DeltaRetention
    /\ \A i \in 1 .. Len(deltaLog) : deltaLog[i] = Entry(H, version - Len(deltaLog) + i)
    /\ \A k \in Key, i \in 1 .. Len(deltaLog) :
          Touches(i, k) => \E l \in 1 .. Len(deltaLog) : IsLast(l, k)

\* An update tells of every marker between its two versions, or of a later one of
\* the same shard.
Tells(H, u) ==
    /\ u.to <= version
    /\ \A n \in (u.from + 1) .. u.to :
          H[n].key \in DOMAIN u.changes /\ u.changes[H[n].key] >= H[n].value

\* The history after one more marker.
With(H, k, v) ==
    [n \in 1 .. version + 1 |-> IF n = version + 1 THEN [key |-> k, value |-> v] ELSE H[n]]

\* The deltas that leave a log when one joins it.
Dropped(log) == IF Len(log) < DeltaRetention THEN 0 ELSE 1

LEMMA TrimmedAppend ==
    ASSUME NEW log \in Seq(Update), Len(log) <= DeltaRetention, NEW d \in Update
    PROVE  /\ Trim(Append(log, d)) \in Seq(Update)
           /\ Len(Trim(Append(log, d))) = Len(log) + 1 - Dropped(log)
           /\ \A i \in 1 .. (Len(log) + 1 - Dropped(log)) :
                 Trim(Append(log, d))[i]
                     = IF i = Len(log) + 1 - Dropped(log) THEN d ELSE log[i + Dropped(log)]
<1> SUFFICES ASSUME NEW off, off = Dropped(log)
             PROVE  /\ Trim(Append(log, d)) \in Seq(Update)
                    /\ Len(Trim(Append(log, d))) = Len(log) + 1 - off
                    /\ \A i \in 1 .. (Len(log) + 1 - off) :
                          Trim(Append(log, d))[i] = IF i = Len(log) + 1 - off THEN d ELSE log[i + off]
  OBVIOUS
<1> DEFINE L == Append(log, d)
<1>0. DeltaRetention \in Nat /\ DeltaRetention >= 1 /\ Len(log) \in Nat
  BY ShardAssumption
<1>1. /\ L \in Seq(Update) /\ Len(L) = Len(log) + 1
      /\ \A i \in 1 .. (Len(log) + 1) : L[i] = IF i = Len(log) + 1 THEN d ELSE log[i]
  OBVIOUS
<1> HIDE DEF L
<1>2. CASE Len(log) < DeltaRetention
  <2>1. off = 0 /\ Trim(L) = L
    BY <1>0, <1>1, <1>2 DEF Trim, Dropped
  <2> QED BY <1>0, <1>1, <2>1 DEF L
<1>3. CASE Len(log) = DeltaRetention
  <2>1. off = 1 /\ Trim(L) = SubSeq(L, 2, Len(L))
    BY <1>0, <1>1, <1>3 DEF Trim, Dropped
  <2>2. /\ SubSeq(L, 2, Len(L)) \in Seq(Update)
        /\ Len(SubSeq(L, 2, Len(L))) = Len(log)
        /\ \A i \in 1 .. Len(log) : SubSeq(L, 2, Len(L))[i] = L[i + 1]
    BY <1>0, <1>1, <1>3
  <2>3. ASSUME NEW i \in 1 .. Len(log)
        PROVE  SubSeq(L, 2, Len(L))[i] = IF i = Len(log) THEN d ELSE log[i + 1]
    BY <1>0, <1>1, <2>2
  <2>4. Len(log) + 1 - off = Len(log)
    BY <1>0, <2>1
  <2> QED BY <2>1, <2>2, <2>3, <2>4 DEF L
<1> QED BY <1>0, <1>2, <1>3

\* Committing a marker.
LEMMA CommitKeepsLog ==
    ASSUME PrimaryTypes, NEW H, Recorded(H), LogRecords(H),
           NEW k \in Key, CommitMarker(k, shardCounter + 1), shardCounter' = shardCounter + 1,
           NEW G, G = With(H, k, shardCounter + 1)
    PROVE  /\ version' = version + 1
           /\ markers' \in [Key -> Nat] /\ deltaLog' \in Seq(Update)
           /\ Recorded(G)' /\ LogRecords(G)'
           /\ \A n \in 1 .. version : G[n] = H[n]
           /\ G[version + 1] = [key |-> k, value |-> shardCounter + 1]
<1>1. /\ version \in Nat /\ shardCounter \in Nat /\ deltaLog \in Seq(Update)
      /\ markers \in [Key -> Nat] /\ DeltaRetention \in Nat /\ DeltaRetention >= 1
      /\ Len(deltaLog) <= DeltaRetention /\ Len(deltaLog) <= version /\ Len(deltaLog) \in Nat
  BY ShardAssumption DEF PrimaryTypes, LogRecords
<1>2. /\ \A n \in 1 .. version : G[n] = H[n]
      /\ G[version + 1] = [key |-> k, value |-> shardCounter + 1]
      /\ G \in [1 .. version + 1 -> [key : Key, value : Nat]]
  BY <1>1 DEF With, Recorded
<1>3. version' = version + 1 /\ markers' \in [Key -> Nat]
  BY <1>1 DEF CommitMarker
<1>4. Recorded(G)'
  <2>0. /\ \A n \in 1 .. version : G[n].value = H[n].value
        /\ \A n \in 1 .. version : H[n].value \in Nat /\ H[n].value > 0 /\ H[n].value <= shardCounter
        /\ \A m, n \in 1 .. version : m < n => H[m].value < H[n].value
        /\ G[version + 1].value = shardCounter + 1
    BY <1>2 DEF Recorded
  <2>1. ASSUME NEW m \in 1 .. version + 1, NEW n \in 1 .. version + 1, m < n
        PROVE  G[m].value < G[n].value
    <3>1. m \in 1 .. version /\ (n \in 1 .. version \/ n = version + 1)
      BY <1>1, <2>1
    <3>2. CASE n \in 1 .. version
      BY <2>0, <2>1, <3>1, <3>2
    <3>3. CASE n = version + 1
      <4>1. G[m].value \in Nat /\ G[m].value <= shardCounter /\ G[n].value = shardCounter + 1
        BY <2>0, <3>1, <3>3
      <4> QED BY <1>1, <4>1
    <3> QED BY <3>1, <3>2, <3>3
  <2>2. ASSUME NEW n \in 1 .. version + 1
        PROVE  G[n].value > 0 /\ G[n].value <= shardCounter + 1
    <3>1. CASE n \in 1 .. version
      <4>1. G[n].value \in Nat /\ G[n].value > 0 /\ G[n].value <= shardCounter
        BY <2>0, <3>1
      <4> QED BY <1>1, <4>1
    <3>2. CASE n = version + 1
      <4>1. G[n].value = shardCounter + 1
        BY <2>0, <3>2
      <4> QED BY <1>1, <4>1
    <3> QED BY <1>1, <3>1, <3>2
  <2> QED BY <1>2, <1>3, <2>1, <2>2 DEF Recorded
<1>5. PICK d : d = Marker(k, shardCounter + 1)
  OBVIOUS
<1>6. d \in Update /\ d = Entry(G, version + 1) /\ DOMAIN d.changes = {k}
  <2>1. d \in Update /\ DOMAIN d.changes = {k}
    BY <1>1, <1>5, MarkerFacts
  <2>2. G[version + 1].key = k /\ G[version + 1].value = shardCounter + 1
        /\ (version + 1) - 1 = version
    BY <1>1, <1>2
  <2>3. d = Entry(G, version + 1)
    BY <1>5, <2>2 DEF Entry, Marker
  <2> QED BY <2>1, <2>3
<1>7. PICK off : off = Dropped(deltaLog)
  OBVIOUS
<1>8. PICK n : n = Len(deltaLog) + 1 - off
  OBVIOUS
<1>9. /\ deltaLog' \in Seq(Update) /\ Len(deltaLog') = n
      /\ \A i \in 1 .. n : deltaLog'[i] = IF i = n THEN d ELSE deltaLog[i + off]
  <2>1. deltaLog' = Trim(Append(deltaLog, d))
    BY <1>5 DEF CommitMarker
  <2>2. /\ Trim(Append(deltaLog, d)) \in Seq(Update) /\ Len(Trim(Append(deltaLog, d))) = n
        /\ \A i \in 1 .. n : Trim(Append(deltaLog, d))[i] = IF i = n THEN d ELSE deltaLog[i + off]
    <3>1. deltaLog \in Seq(Update) /\ Len(deltaLog) <= DeltaRetention /\ d \in Update
      BY <1>1, <1>6
    <3>2. /\ Trim(Append(deltaLog, d)) \in Seq(Update)
          /\ Len(Trim(Append(deltaLog, d))) = Len(deltaLog) + 1 - Dropped(deltaLog)
          /\ \A i \in 1 .. (Len(deltaLog) + 1 - Dropped(deltaLog)) :
                Trim(Append(deltaLog, d))[i]
                    = IF i = Len(deltaLog) + 1 - Dropped(deltaLog) THEN d
                      ELSE deltaLog[i + Dropped(deltaLog)]
      BY <3>1, TrimmedAppend, Zenon
    <3> QED BY <1>7, <1>8, <3>2, Zenon
  <2> QED BY <2>1, <2>2, Zenon
<1>10. off \in {0, 1} /\ n \in Nat /\ n = Len(deltaLog) + 1 - off /\ n >= 1
       /\ n <= DeltaRetention /\ n <= version + 1
  BY <1>1, <1>7, <1>8 DEF Dropped
<1>11. ASSUME NEW i \in 1 .. n
       PROVE  deltaLog'[i] = Entry(G, version + 1 - n + i)
  <2>1. CASE i = n
    BY <1>1, <1>6, <1>9, <1>10, <2>1
  <2>2. CASE i # n
    <3>1. i + off \in 1 .. Len(deltaLog) /\ deltaLog'[i] = deltaLog[i + off]
      BY <1>1, <1>9, <1>10, <2>2
    <3>2. deltaLog[i + off] = Entry(H, version - Len(deltaLog) + (i + off))
      BY <3>1 DEF LogRecords
    <3>3. /\ version - Len(deltaLog) + (i + off) = version + 1 - n + i
          /\ version + 1 - n + i \in 1 .. version
      BY <1>1, <1>10, <3>1
    <3> QED BY <1>2, <3>1, <3>2, <3>3 DEF Entry
  <2> QED BY <2>1, <2>2
<1>a. ASSUME NEW i \in 1 .. n, NEW j \in Key
      PROVE  Touches(i, j)' <=> (i = n /\ j = k) \/ (i # n /\ Touches(i + off, j))
  <2>1. CASE i = n
    BY <1>6, <1>9, <2>1 DEF Touches
  <2>2. CASE i # n
    BY <1>9, <2>2 DEF Touches
  <2> QED BY <2>1, <2>2
<1>c. ASSUME NEW i \in 1 .. n, i # n
      PROVE  i + off \in 1 .. Len(deltaLog) /\ deltaLog'[i] = deltaLog[i + off]
  <2>1. i + off \in 1 .. Len(deltaLog)
    BY <1>1, <1>10, <1>c
  <2>2. deltaLog'[i] = deltaLog[i + off]
    BY <1>9, <1>c
  <2> QED BY <2>1, <2>2
<1>b. Len(deltaLog') = n /\ n \in 1 .. n
  BY <1>9, <1>10
<1>12. ASSUME NEW j \in Key, NEW i \in 1 .. n, Touches(i, j)'
       PROVE  \E l \in 1 .. n : IsLast(l, j)'
  <2>1. CASE j = k
    <3>1. n \in 1 .. n /\ Touches(n, j)'
      BY <1>a, <1>b, <2>1
    <3>2. \A m \in 1 .. n : m <= n
      BY <1>10
    <3> QED BY <1>b, <3>1, <3>2 DEF IsLast
  <2>2. CASE j # k
    <3>1. i # n /\ i + off \in 1 .. Len(deltaLog) /\ Touches(i + off, j)
      <4>1. i # n /\ Touches(i + off, j)
        BY <1>a, <1>12, <2>2
      <4>2. i + off \in 1 .. Len(deltaLog)
        BY <1>1, <1>10, <4>1
      <4> QED BY <4>1, <4>2
    <3>2. PICK l \in 1 .. Len(deltaLog) : IsLast(l, j)
      BY <3>1 DEF LogRecords
    <3>3. l >= i + off
      BY <3>1, <3>2 DEF IsLast
    <3>4. l - off \in 1 .. n /\ l - off # n /\ deltaLog'[l - off] = deltaLog[l]
      <4>1. l - off \in 1 .. n /\ l - off # n /\ (l - off) + off = l
        BY <1>1, <1>10, <3>1, <3>2, <3>3
      <4> QED BY <1>c, <4>1
    <3>5. Touches(l - off, j)'
      BY <3>2, <3>4 DEF IsLast, Touches
    <3>6. ASSUME NEW m \in 1 .. n, Touches(m, j)'
          PROVE  m <= l - off
      <4>0. m # n
        BY <1>a, <2>2, <3>6
      <4>1. m + off \in 1 .. Len(deltaLog) /\ deltaLog'[m] = deltaLog[m + off]
        BY <1>c, <4>0
      <4>2. Touches(m + off, j)
        BY <1>a, <2>2, <3>6
      <4> QED BY <1>1, <1>10, <3>2, <4>1, <4>2 DEF IsLast
    <3>7. IsLast(l - off, j)'
      BY <1>9, <3>5, <3>6 DEF IsLast
    <3> QED BY <3>4, <3>7
  <2> QED BY <2>1, <2>2
<1>13. LogRecords(G)'
  <2>0. Len(deltaLog') = n /\ version' = version + 1
    BY <1>3, <1>9
  <2>1. \A i \in 1 .. Len(deltaLog') : deltaLog'[i] = Entry(G, version' - Len(deltaLog') + i)
    <3>1. ASSUME NEW i \in 1 .. Len(deltaLog')
          PROVE  deltaLog'[i] = Entry(G, version' - Len(deltaLog') + i)
      <4>1. i \in 1 .. n /\ version + 1 - n + i = version' - Len(deltaLog') + i
        BY <1>1, <1>10, <2>0
      <4>2. deltaLog'[i] = Entry(G, version + 1 - n + i)
        BY <1>11, <4>1
      <4> QED BY <4>1, <4>2
    <3> QED BY <3>1
  <2>2. \A j \in Key, i \in 1 .. Len(deltaLog') :
           Touches(i, j)' => \E l \in 1 .. Len(deltaLog') : IsLast(l, j)'
    BY <1>9, <1>12
  <2>3. Len(deltaLog') <= version' /\ Len(deltaLog') <= DeltaRetention
    BY <1>3, <1>9, <1>10
  <2> QED BY <2>1, <2>2, <2>3 DEF LogRecords, Entry
<1> QED BY <1>2, <1>3, <1>4, <1>9, <1>13

\* What told of the markers before tells of them after; the new marker tells of itself.
LEMMA CommitKeepsTelling ==
    ASSUME version \in Nat, shardCounter \in Nat, NEW H, NEW G, NEW k \in Key,
           version' = version + 1, \A n \in 1 .. version : G[n] = H[n],
           G[version + 1] = [key |-> k, value |-> shardCounter + 1],
           NEW d, d = Marker(k, shardCounter + 1)
    PROVE  /\ \A u \in Update : Tells(H, u) => Tells(G, u)'
           /\ Tells(G, d)'
<1>1. ASSUME NEW u \in Update, Tells(H, u)
      PROVE  Tells(G, u)'
  <2>1. u.from \in Nat /\ u.to \in Nat /\ u.to <= version
    BY <1>1, UpdateElim DEF Tells
  <2>2. \A n \in (u.from + 1) .. u.to : n \in 1 .. version /\ G[n] = H[n]
    BY <2>1
  <2> QED BY <1>1, <2>1, <2>2 DEF Tells
<1>3. /\ d.from = version /\ d.to = version + 1 /\ DOMAIN d.changes = {k}
      /\ d.changes[k] = shardCounter + 1
  BY MarkerFacts
<1>4. \A n \in (d.from + 1) .. d.to : n = version + 1
  BY <1>3
<1>5. d.to <= version'
  BY <1>3
<1>6. \A n \in (d.from + 1) .. d.to : G[n].key = k /\ G[n].value = shardCounter + 1
  BY <1>4
<1>7. \A n \in (d.from + 1) .. d.to :
         G[n].key \in DOMAIN d.changes /\ d.changes[G[n].key] >= G[n].value
  BY <1>3, <1>6
<1>8. Tells(G, d)'
  BY <1>5, <1>7 DEF Tells
<1> QED BY <1>1, <1>8
\* getDeltaSince tells of every marker since the version it is asked for, up to the
\* current one, or answers null.
LEMMA DeltaSinceTells ==
    ASSUME PrimaryTypes, NEW H, Recorded(H), LogRecords(H), NEW r \in Nat,
           NEW d, d = DeltaSince(deltaLog, version, r)
    PROVE  d \in Update /\ Tells(H, d) /\ (d # NoDelta => d.to = version)
<1> DEFINE n == Len(deltaLog)
           K == TouchedSince(deltaLog, r)
           last(k) == LastTouch(deltaLog, k)
<1>1. /\ version \in Nat /\ deltaLog \in Seq(Update) /\ n \in Nat /\ n <= version
      /\ DOMAIN deltaLog = 1 .. n
      /\ \A i \in 1 .. n : deltaLog[i] \in Update /\ deltaLog[i] = Entry(H, version - n + i)
  BY DEF PrimaryTypes, LogRecords
<1>2. \A k \in Key, i \in 1 .. n : Touches(i, k) => \E l \in 1 .. n : IsLast(l, k)
  BY DEF LogRecords
<1>3. ASSUME NEW k \in Key, NEW i \in 1 .. n, Touches(i, k)
      PROVE  last(k) \in 1 .. n /\ IsLast(last(k), k)
  <2>1. PICK l \in 1 .. n : IsLast(l, k)
    BY <1>2, <1>3
  <2> QED BY <1>1, <2>1 DEF LastTouch, IsLast, Touches
<1>4. ASSUME NEW i \in 1 .. n
      PROVE  /\ deltaLog[i].from = version - n + i - 1 /\ deltaLog[i].to = version - n + i
             /\ DOMAIN deltaLog[i].changes = {H[version - n + i].key}
             /\ \A k \in DOMAIN deltaLog[i].changes :
                   deltaLog[i].changes[k] = H[version - n + i].value
  <2>1. PICK m : m = version - n + i
    OBVIOUS
  <2>2. deltaLog[i] = [from |-> m - 1, to |-> m, changes |-> [j \in {H[m].key} |-> H[m].value]]
    BY <1>1, <2>1 DEF Entry
  <2>3. m \in Int /\ m - 1 = version - n + i - 1
    BY <1>1, <2>1
  <2> QED BY <2>1, <2>2, <2>3
<1> HIDE DEF n
<1>5. CASE r >= version
  <2>1. d = [from |-> r, to |-> version, changes |-> NoChanges]
    BY <1>5 DEF DeltaSince
  <2>2. d \in Update
    BY <1>1, <2>1, NoDeltaFacts DEF NoDelta, Update
  <2>3. \A m \in (d.from + 1) .. d.to : FALSE
    BY <1>1, <1>5, <2>1
  <2> QED BY <1>1, <2>1, <2>2, <2>3 DEF Tells
<1>6. CASE r < version /\ Reaches(deltaLog, r)
  <2>1. d = [from |-> r, to |-> version, changes |-> MergedSince(deltaLog, r)]
    BY <1>1, <1>6 DEF DeltaSince
  <2>2. PICK b \in 1 .. n : deltaLog[b].from = r
    BY <1>1, <1>6 DEF Reaches, Since
  <2>3. r = version - n + b - 1
    BY <1>4, <2>2
  <2>4. K \in SUBSET Key
    BY <1>1, UpdateElim DEF TouchedSince, Since
  <2>5. ASSUME NEW k \in K
        PROVE  last(k) \in 1 .. n /\ IsLast(last(k), k)
    <3>1. PICK i \in 1 .. n : Touches(i, k)
      BY <1>1 DEF TouchedSince, Since, Touches
    <3> QED BY <1>3, <2>4, <3>1
  <2>6. ASSUME NEW k \in K
        PROVE  deltaLog[last(k)].changes[k] \in Nat
    BY <1>1, <2>5, UpdateElim DEF IsLast, Touches
  <2>7. MergedSince(deltaLog, r) \in [K -> Nat] /\ DOMAIN MergedSince(deltaLog, r) = K
        /\ \A k \in K : MergedSince(deltaLog, r)[k] = deltaLog[last(k)].changes[k]
    BY <2>6 DEF MergedSince
  <2>8. d \in Update
    <3>1. MergedSince(deltaLog, r) \in Changes
      BY <2>4, <2>7, ChangesIntro
    <3> QED BY <1>1, <2>1, <3>1 DEF Update
  <2>9. ASSUME NEW m \in (r + 1) .. version
        PROVE  H[m].key \in K /\ deltaLog[last(H[m].key)].changes[H[m].key] >= H[m].value
    <3>1. PICK i \in 1 .. n : i = m - version + n
      BY <1>1, <2>3
    <3>2. version - n + i = m /\ m \in 1 .. version
      BY <1>1, <2>3, <3>1
    <3>3. deltaLog[i].to = m /\ Touches(i, H[m].key) /\ m > r
      BY <1>4, <3>2 DEF Touches
    <3>4. H[m].key \in K
      BY <1>1, <3>3 DEF TouchedSince, Since, Touches
    <3>5. PICK l \in 1 .. n : l = last(H[m].key)
      BY <2>5, <3>4
    <3>6. IsLast(l, H[m].key) /\ i <= l
      BY <2>5, <3>3, <3>4, <3>5 DEF IsLast, n
    <3>7. deltaLog[l].changes[H[m].key] = H[version - n + l].value
      BY <1>4, <3>6 DEF IsLast, Touches
    <3>8. PICK q \in 1 .. version : q = version - n + l
      BY <1>1
    <3>9. m <= q
      BY <1>1, <3>2, <3>6, <3>8
    <3>10. H[q].value >= H[m].value
      <4>1. H[q].value \in Nat /\ H[m].value \in Nat
        BY <3>2 DEF Recorded
      <4>2. CASE m = q
        BY <4>1, <4>2
      <4>3. CASE m < q
        BY <3>2, <4>1, <4>3 DEF Recorded
      <4> QED BY <1>1, <3>2, <3>9, <4>2, <4>3
    <3> QED BY <3>4, <3>5, <3>7, <3>8, <3>10
  <2>10. Tells(H, d)
    <3>1. d.from = r /\ d.to = version /\ d.changes = MergedSince(deltaLog, r)
      BY <2>1
    <3>2. ASSUME NEW m \in (d.from + 1) .. d.to
          PROVE  H[m].key \in DOMAIN d.changes /\ d.changes[H[m].key] >= H[m].value
      BY <2>7, <2>9, <3>1
    <3> QED BY <1>1, <3>1, <3>2 DEF Tells
  <2> QED BY <2>1, <2>8, <2>10
<1>7. CASE r < version /\ ~Reaches(deltaLog, r)
  <2>1. d = NoDelta
    BY <1>1, <1>7 DEF DeltaSince
  <2>2. \A m \in (d.from + 1) .. d.to : FALSE
    BY <2>1, NoDeltaFacts
  <2> QED BY <1>1, <2>1, <2>2, NoDeltaFacts DEF Tells
<1> QED BY <1>1, <1>5, <1>6, <1>7
-----------------------------------------------------------------------------
(* The invariant.                                                          *)

\* The primary's shard, or an older one: of one version there is one content.
Dated(k, s) ==
    /\ s.version <= index[k].version
    /\ s.version = index[k].version => s.files = index[k].files

IndexOK ==
    \A k \in Key :
        /\ index[k].version <= shardCounter
        /\ index[k].version = 0 => index[k].files = NoFiles

\* What is on disk is as new as what a scan under way read, and that as new as what
\* the index holds: path changes wait for the scan.
AsNew(a, b) == a = 0 \/ a >= b

ContentsOK ==
    /\ \A k \in Key, f \in File :
          /\ disk[k][f] <= edits /\ index[k].files[f] <= edits
          /\ AsNew(disk[k][f], index[k].files[f])
    /\ running # Idle =>
          LET k == running.key
          IN \A f \in File :
                /\ running.scanned[f] <= edits
                /\ AsNew(running.scanned[f], index[k].files[f])
                /\ AsNew(disk[k][f], running.scanned[f])

\* All the messages a worker is still to receive.
InFlight(w) ==
    {inbox[w][i] : i \in DOMAIN inbox[w]}
    \cup {unpublished[i].message : i \in {j \in DOMAIN unpublished : unpublished[j].worker = w}}

\* A write confirmed as version c: the worker does not take an older copy for
\* current, and no older shard is on its way to it.
Safe(w, k, c) == Current(w, k) => shards[w][k].shard.version >= c
NotUndone(w, k, c) ==
    \A m \in InFlight(w) : k \in DOMAIN m.shards => m.shards[k].version >= c

CopiesOK(w) ==
    \A k \in Key :
        /\ Dated(k, shards[w][k].shard)
        /\ confirmed[w][k] <= index[k].version
        /\ Safe(w, k, confirmed[w][k])
        /\ NotUndone(w, k, confirmed[w][k])

\* Confirmations that wait for a pull: each has its marker no later than top, and
\* a replica that has reached the marker does not take an older copy for current.
Owed(H, w, confirms, top) ==
    \A k \in Key : confirms[k] > 0 =>
        /\ \E n \in 1 .. top :
              /\ H[n] = [key |-> k, value |-> confirms[k]]
              /\ replicaVersion[w] >= n => Safe(w, k, confirms[k])
        /\ NotUndone(w, k, confirms[k])

Bounded(confirms) == \A k \in Key : confirms[k] <= index[k].version

\* The answer of a write holds the shard and the marker of what it confirms.
Confirms(H, m) ==
    \A k \in Key : m.confirms[k] > 0 =>
        /\ k \in DOMAIN m.shards /\ m.shards[k].version = m.confirms[k]
        /\ m.update.to \in 1 .. version /\ m.update.from = m.update.to - 1
        /\ H[m.update.to] = [key |-> k, value |-> m.confirms[k]]

MessageOK(H, m) ==
    /\ Tells(H, m.update)
    /\ \A k \in DOMAIN m.shards : Dated(k, m.shards[k])
    /\ Bounded(m.confirms)
    /\ m.type = "ANSWER" => Confirms(H, m)
    /\ m.type # "ANSWER" => m.shards = NoShards
    /\ m.type \in {"STATE_DELTA", "STATE_SNAPSHOT"} => m.confirms = Unconfirmed

Top(m) == IF m.type = "SYNC_DELTA" /\ m.update = NoDelta THEN version ELSE m.update.to

ChannelsOK(H, w) ==
    /\ \A m \in InFlight(w) :
          /\ MessageOK(H, m)
          /\ m.type \in {"SYNC_DELTA", "SYNC_SNAPSHOT"} => Owed(H, w, m.confirms, Top(m))
    /\ \A i \in DOMAIN requests[w] :
          requests[w][i].op \in {"getDeltaSince", "getSnapshot"} =>
              /\ Bounded(requests[w][i].confirms)
              /\ Owed(H, w, requests[w][i].confirms, version)

\* No answer follows with an older shard than a write confirmed: answers arrive in
\* order, and a write whose answer may overtake another's confirms nothing.
Before(a, b) == \A k \in DOMAIN b.shards : b.shards[k].version >= a.confirms[k]

OrderOK ==
    /\ \A w \in Worker : \A i, j \in DOMAIN inbox[w] :
          i < j => Before(inbox[w][i], inbox[w][j])
    /\ \A w \in Worker : \A i \in DOMAIN inbox[w], j \in DOMAIN unpublished :
          unpublished[j].worker = w => Before(inbox[w][i], unpublished[j].message)
    /\ \A i, j \in DOMAIN unpublished :
          i # j /\ unpublished[i].worker = unpublished[j].worker =>
              \/ j < i /\ unpublished[j].broadcast
              \/ Before(unpublished[i].message, unpublished[j].message)
    /\ \A i \in DOMAIN unpublished : unpublished[i].message.type = "ANSWER"

\* All of it, for the markers H committed so far: the shards' state machine keeps only
\* the tail of them, in the log, but a confirmed write has its marker before that too.
Kept(H) ==
    /\ Types /\ Recorded(H) /\ LogRecords(H) /\ IndexOK /\ ContentsOK /\ OrderOK
    /\ \A w \in Worker : CopiesOK(w) /\ ChannelsOK(H, w)

ShardIInv == \E H : Kept(H)

LEMMA InitInv == ShardInit => ShardIInv
<1> SUFFICES ASSUME ShardInit PROVE ShardIInv
  OBVIOUS
<1>1. PICK H : H = [n \in {} |-> [key |-> 0, value |-> 0]]
  OBVIOUS
<1>2. Types
  <2>1. Empty \in [Key -> Nat]
    BY DEF Empty
  <2>2. PrimaryTypes
    BY <2>1, NoFilesType DEF ShardInit, PrimaryTypes, Files
  <2>3. WorkerTypes
    BY <2>1, NoFilesType, UnconfirmedType DEF ShardInit, WorkerTypes
  <2>4. ChannelTypes
    BY DEF ShardInit, ChannelTypes
  <2> QED BY <2>2, <2>3, <2>4 DEF Types
<1>3. /\ version = 0 /\ deltaLog = <<>> /\ running = Idle /\ shardCounter = 0 /\ edits = 1
      /\ DeltaRetention \in Nat
  BY ShardAssumption DEF ShardInit
<1>a. \A k \in Key : index[k] = Unloaded /\ disk[k] = [f \in File |-> 1]
  BY DEF ShardInit
<1>b. /\ \A w \in Worker : confirmed[w] = Unconfirmed
      /\ \A w \in Worker, k \in Key : shards[w][k].shard = Unloaded
  BY DEF ShardInit
<1>c. /\ unpublished = <<>> /\ DOMAIN unpublished = {}
      /\ \A w \in Worker : DOMAIN inbox[w] = {} /\ DOMAIN requests[w] = {}
  <2>1. DOMAIN <<>> = {}
    OBVIOUS
  <2> QED BY <2>1 DEF ShardInit
<1>4. Recorded(H) /\ LogRecords(H)
  <2>1. 1 .. version = {} /\ Len(deltaLog) = 0
    BY <1>3
  <2>2. H \in [1 .. version -> [key : Key, value : Nat]]
    BY <1>1, <2>1
  <2> QED BY <1>3, <2>1, <2>2 DEF Recorded, LogRecords
<1>5. IndexOK /\ ContentsOK
  <2>1. /\ Unloaded.version = 0 /\ Unloaded.files = NoFiles
        /\ \A f \in File : NoFiles[f] = 0
    BY DEF Unloaded, NoFiles
  <2>2. IndexOK
    BY <1>3, <1>a, <2>1 DEF IndexOK
  <2>3. \A k \in Key, f \in File : disk[k][f] = 1 /\ index[k].files[f] = 0
    BY <1>a, <2>1
  <2>4. \A k \in Key, f \in File :
           /\ disk[k][f] <= edits /\ index[k].files[f] <= edits
           /\ AsNew(disk[k][f], index[k].files[f])
    BY <1>3, <2>3 DEF AsNew
  <2> QED BY <1>3, <2>2, <2>4 DEF ContentsOK
<1>6. OrderOK
  BY <1>c DEF OrderOK
<1>7. ASSUME NEW w \in Worker
      PROVE  CopiesOK(w) /\ ChannelsOK(H, w)
  <2>1. InFlight(w) = {}
    BY <1>c DEF InFlight
  <2>2. CopiesOK(w)
    BY <1>3, <1>a, <1>b, <2>1, UnconfirmedType DEF CopiesOK, Dated, Unloaded, Safe, Current, NotUndone
  <2> QED BY <1>c, <2>1, <2>2 DEF ChannelsOK
<1> QED BY <1>2, <1>4, <1>5, <1>6, <1>7 DEF Kept, ShardIInv
-----------------------------------------------------------------------------
(* What time does to what the invariant says.                              *)

LEMMA SentElim ==
    ASSUME NEW m \in Sent
    PROVE  /\ m.type \in MessageType /\ m.update \in Update
           /\ m.shards \in Bundle /\ DOMAIN m.shards \in SUBSET Key
           /\ \A k \in DOMAIN m.shards : m.shards[k] \in Shard /\ m.shards[k].version \in Nat
           /\ m.confirms \in Confirmation /\ \A k \in Key : m.confirms[k] \in Nat
<1>1. m.type \in MessageType /\ m.update \in Update /\ m.shards \in Bundle
      /\ m.confirms \in Confirmation
  BY DEF Sent
<1>2. \A s \in Shard : s.version \in Nat
  BY DEF Shard
<1> QED BY <1>1, <1>2, BundleElim DEF Confirmation

LEMMA FlightTypes ==
    ASSUME Types, NEW w \in Worker
    PROVE  InFlight(w) \subseteq Sent
<1>1. \A i \in DOMAIN inbox[w] : inbox[w][i] \in Sent
  BY DEF Types, ChannelTypes
<1>2. \A i \in DOMAIN unpublished : unpublished[i].message \in Sent
  <2>1. \A i \in DOMAIN unpublished : unpublished[i] \in Settled
    BY DEF Types, PrimaryTypes
  <2> QED BY <2>1 DEF Settled
<1> QED BY <1>1, <1>2 DEF InFlight

\* The index moves forward: one shard gets a new version or keeps its content.
IndexMoves ==
    \E k \in Key :
        /\ \A j \in Key \ {k} : index'[j] = index[j]
        /\ \/ index'[k].version = shardCounter + 1 /\ shardCounter' = shardCounter + 1
           \/ /\ index'[k].version = index[k].version /\ index'[k].files = index[k].files
              /\ shardCounter' = shardCounter

\* What stays true: the history goes on, what told of it still does, and the index
\* does not go back.
Onward(H, G) ==
    /\ version \in Nat /\ version' \in Nat /\ version <= version'
    /\ \A n \in 1 .. version : G[n] = H[n]
    /\ \A u \in Update : Tells(H, u) => Tells(G, u)'
    /\ \A k \in Key :
          /\ index[k].version \in Nat /\ index'[k].version \in Nat
          /\ index[k].version <= index'[k].version
    /\ \A k \in Key, s \in Shard : Dated(k, s) => Dated(k, s)'

LEMMA IndexLater ==
    ASSUME index \in [Key -> Shard], index' \in [Key -> Shard], shardCounter \in Nat,
           IndexOK, IndexMoves
    PROVE  /\ IndexOK'
           /\ \A k \in Key :
                 /\ index[k].version \in Nat /\ index'[k].version \in Nat
                 /\ index[k].version <= index'[k].version
           /\ \A k \in Key, s \in Shard : Dated(k, s) => Dated(k, s)'
<1>1. PICK k \in Key :
        /\ \A j \in Key \ {k} : index'[j] = index[j]
        /\ \/ index'[k].version = shardCounter + 1 /\ shardCounter' = shardCounter + 1
           \/ /\ index'[k].version = index[k].version /\ index'[k].files = index[k].files
              /\ shardCounter' = shardCounter
  BY DEF IndexMoves
<1>2. \A j \in Key : index[j].version \in Nat /\ index'[j].version \in Nat
                     /\ index[j].version <= shardCounter
  BY DEF Shard, IndexOK
<1>3. \A s \in Shard : s.version \in Nat
  BY DEF Shard
<1>4. IndexOK'
  BY <1>1, <1>2 DEF IndexOK
<1>5. \A j \in Key : index[j].version <= index'[j].version
  BY <1>1, <1>2
<1>6. ASSUME NEW j \in Key, NEW s \in Shard, Dated(j, s)
      PROVE  Dated(j, s)'
  <2>1. CASE j # k
    BY <1>1, <1>6, <2>1 DEF Dated
  <2>2. CASE j = k
    BY <1>1, <1>2, <1>3, <1>6, <2>2 DEF Dated
  <2> QED BY <2>1, <2>2
<1> QED BY <1>2, <1>4, <1>5, <1>6

LEMMA StillOnward ==
    ASSUME Types, NEW H, UNCHANGED <<version, index>>
    PROVE  Onward(H, H)
<1>1. version \in Nat /\ \A k \in Key : index[k].version \in Nat
  BY DEF Types, PrimaryTypes, Shard
<1>2. \A u \in Update : Tells(H, u) => Tells(H, u)'
  BY DEF Tells
<1>3. \A k \in Key, s \in Shard : Dated(k, s) => Dated(k, s)'
  BY DEF Dated
<1> QED BY <1>1, <1>2, <1>3 DEF Onward

LEMMA MessageStays ==
    ASSUME NEW H, NEW G, Onward(H, G), NEW m \in Sent, MessageOK(H, m)
    PROVE  MessageOK(G, m)'
<1>1. /\ m.update \in Update
      /\ \A k \in DOMAIN m.shards : k \in Key /\ m.shards[k] \in Shard
      /\ \A k \in Key : m.confirms[k] \in Nat
  BY SentElim
<1>2. Tells(G, m.update)'
  BY <1>1 DEF Onward, MessageOK
<1>3. \A k \in DOMAIN m.shards : Dated(k, m.shards[k])'
  BY <1>1 DEF Onward, MessageOK
<1>4. Bounded(m.confirms)'
  BY <1>1 DEF Onward, MessageOK, Bounded
<1>5. m.type = "ANSWER" => Confirms(G, m)'
  BY <1>1 DEF Onward, MessageOK, Confirms
<1> QED BY <1>2, <1>3, <1>4, <1>5 DEF MessageOK

\* Everything that is newly on its way to a worker holds shards of the index.
Newest(m) == \A k \in DOMAIN m.shards : m.shards[k].version >= index[k].version
OnlyNewest(w) == \A m \in InFlight(w)' : m \in InFlight(w) \/ (m \in Sent /\ Newest(m))
CopyStays(w) == replicaVersion'[w] = replicaVersion[w] /\ shards'[w] = shards[w]

LEMMA NotUndoneStays ==
    ASSUME NEW w \in Worker, NEW k \in Key, NEW c \in Nat, c <= index[k].version,
           index[k].version \in Nat, NotUndone(w, k, c), OnlyNewest(w)
    PROVE  NotUndone(w, k, c)'
<1>1. ASSUME NEW m \in InFlight(w)', k \in DOMAIN m.shards
      PROVE  m.shards[k].version >= c
  <2>1. CASE m \in InFlight(w)
    BY <1>1, <2>1 DEF NotUndone
  <2>2. CASE m \in Sent /\ Newest(m)
    BY <1>1, <2>2, SentElim DEF Newest
  <2> QED BY <2>1, <2>2 DEF OnlyNewest
<1> QED BY <1>1 DEF NotUndone

LEMMA OwedStays ==
    ASSUME NEW H, NEW G, Onward(H, G), NEW w \in Worker, OnlyNewest(w), CopyStays(w),
           NEW confirms \in Confirmation, Bounded(confirms),
           NEW top \in Nat, NEW later \in Nat, top <= version, top <= later,
           Owed(H, w, confirms, top)
    PROVE  Owed(G, w, confirms, later)'
<1>1. ASSUME NEW k \in Key, confirms[k] > 0
      PROVE  /\ \E n \in 1 .. later :
                   /\ G[n] = [key |-> k, value |-> confirms[k]]
                   /\ replicaVersion'[w] >= n => Safe(w, k, confirms[k])'
             /\ NotUndone(w, k, confirms[k])'
  <2>1. PICK n \in 1 .. top :
           /\ H[n] = [key |-> k, value |-> confirms[k]]
           /\ replicaVersion[w] >= n => Safe(w, k, confirms[k])
    BY <1>1 DEF Owed
  <2>2. Safe(w, k, confirms[k]) => Safe(w, k, confirms[k])'
    BY DEF CopyStays, Safe, Current
  <2>3. n \in 1 .. later /\ n \in 1 .. version /\ G[n] = H[n]
    BY DEF Onward
  <2>4. NotUndone(w, k, confirms[k])'
    <3>1. confirms[k] \in Nat /\ confirms[k] <= index[k].version /\ index[k].version \in Nat
      BY DEF Confirmation, Bounded, Onward
    <3>2. NotUndone(w, k, confirms[k])
      BY <1>1 DEF Owed
    <3>3. PICK c \in Nat : c = confirms[k]
      BY <3>1
    <3> QED BY <3>1, <3>2, <3>3, NotUndoneStays
  <2> QED BY <2>1, <2>2, <2>3, <2>4 DEF CopyStays
<1> QED BY <1>1 DEF Owed
\* A worker that handles nothing: its copies stand, and so does what it waits for.
LEMMA WorkerKeeps ==
    ASSUME Types, NEW H, NEW G, Onward(H, G), NEW w \in Worker,
           CopiesOK(w), ChannelsOK(H, w),
           OnlyNewest(w), CopyStays(w), confirmed'[w] = confirmed[w],
           \A m \in InFlight(w)' \ InFlight(w) :
              /\ MessageOK(G, m)'
              /\ m.type \in {"SYNC_DELTA", "SYNC_SNAPSHOT"} => Owed(G, w, m.confirms, Top(m))',
           \A i \in DOMAIN requests'[w] :
              \/ \E j \in DOMAIN requests[w] : requests'[w][i] = requests[w][j]
              \/ requests'[w][i].op \in {"getDeltaSince", "getSnapshot"} =>
                    requests'[w][i].confirms = Unconfirmed
    PROVE  CopiesOK(w)' /\ ChannelsOK(G, w)'
<1>1. /\ shards[w] \in [Key -> [shard : Shard, stale : BOOLEAN]]
      /\ confirmed[w] \in Confirmation
      /\ requests[w] \in Seq(Request)
      /\ version \in Nat /\ version' \in Nat /\ version <= version'
      /\ \A k \in Key : index[k].version \in Nat
  BY DEF Types, WorkerTypes, ChannelTypes, Onward
<1>2. CopiesOK(w)'
  <2>1. ASSUME NEW k \in Key
        PROVE  /\ Dated(k, shards[w][k].shard)'
               /\ confirmed'[w][k] <= index'[k].version
               /\ Safe(w, k, confirmed[w][k])'
               /\ NotUndone(w, k, confirmed[w][k])'
    <3>1. PICK c \in Nat : c = confirmed[w][k]
      BY <1>1 DEF Confirmation
    <3>2. shards[w][k].shard \in Shard /\ shards'[w] = shards[w]
      BY <1>1 DEF CopyStays
    <3>3. Dated(k, shards[w][k].shard) /\ c <= index[k].version
          /\ Safe(w, k, c) /\ NotUndone(w, k, c)
      BY <3>1 DEF CopiesOK
    <3>4. PICK s \in Shard : s = shards[w][k].shard
      BY <3>2
    <3>5. Dated(k, s)'
      BY <3>3, <3>4 DEF Onward
    <3>6. Dated(k, shards[w][k].shard)'
      BY <3>2, <3>4, <3>5 DEF Dated
    <3>7. c <= index'[k].version
      BY <3>3 DEF Onward
    <3>8. Safe(w, k, c)'
      BY <3>2, <3>3 DEF Safe, Current
    <3>9. NotUndone(w, k, c)'
      BY <1>1, <3>3, NotUndoneStays
    <3>10. Safe(w, k, confirmed[w][k])' /\ NotUndone(w, k, confirmed[w][k])'
      BY <3>1, <3>8, <3>9 DEF Safe, NotUndone
    <3> QED BY <3>1, <3>6, <3>7, <3>10
  <2> QED BY <2>1 DEF CopiesOK
<1>3. ASSUME NEW m \in InFlight(w)'
      PROVE  /\ MessageOK(G, m)'
             /\ m.type \in {"SYNC_DELTA", "SYNC_SNAPSHOT"} => Owed(G, w, m.confirms, Top(m))'
  <2>1. CASE m \notin InFlight(w)
    BY <2>1
  <2>2. CASE m \in InFlight(w)
    <3>1. m \in Sent /\ MessageOK(H, m)
      BY <2>2, FlightTypes DEF ChannelsOK
    <3>2. MessageOK(G, m)'
      BY <3>1, MessageStays
    <3>3. ASSUME m.type \in {"SYNC_DELTA", "SYNC_SNAPSHOT"}
          PROVE  Owed(G, w, m.confirms, Top(m))'
      <4>1. PICK top : top = Top(m)
        OBVIOUS
      <4>2. PICK later : later = Top(m)'
        OBVIOUS
      <4>3. PICK c \in Confirmation : c = m.confirms
        BY <3>1, SentElim
      <4>4. m.update.to \in Nat /\ m.update.to <= version
        BY <3>1, SentElim, UpdateElim DEF MessageOK, Tells
      <4>5. top \in Nat /\ later \in Nat /\ top <= version /\ top <= later
        BY <1>1, <4>1, <4>2, <4>4 DEF Top
      <4>6. Bounded(c) /\ Owed(H, w, c, top)
        BY <2>2, <3>1, <3>3, <4>1, <4>3 DEF MessageOK, ChannelsOK
      <4>7. Owed(G, w, c, later)'
        BY <4>5, <4>6, OwedStays
      <4> QED BY <4>2, <4>3, <4>7 DEF Owed
    <3> QED BY <3>2, <3>3
  <2> QED BY <2>1, <2>2
<1>4. ASSUME NEW i \in DOMAIN requests'[w],
             requests'[w][i].op \in {"getDeltaSince", "getSnapshot"}
      PROVE  /\ Bounded(requests[w][i].confirms)'
             /\ Owed(G, w, requests[w][i].confirms, version)'
  <2>1. PICK c : c = requests'[w][i].confirms
    OBVIOUS
  <2>2. PICK later \in Nat : later = version'
    BY <1>1
  <2>3. CASE c = Unconfirmed
    <3>1. \A k \in Key : c[k] = 0 /\ index'[k].version \in Nat
      BY <2>3, UnconfirmedType DEF Onward
    <3>2. Bounded(c)' /\ Owed(G, w, c, later)'
      BY <3>1 DEF Bounded, Owed
    <3> QED BY <2>1, <2>2, <3>2 DEF Bounded, Owed
  <2>4. CASE \E j \in DOMAIN requests[w] : requests'[w][i] = requests[w][j]
    <3>1. PICK j \in DOMAIN requests[w] : requests'[w][i] = requests[w][j]
      BY <2>4
    <3>2. c \in Confirmation /\ Bounded(c) /\ Owed(H, w, c, version)
      <4>1. requests[w][j] \in Request
        BY <1>1
      <4> QED BY <1>4, <2>1, <3>1, <4>1 DEF ChannelsOK, Request
    <3>3. PICK top \in Nat : top = version
      BY <1>1
    <3>4. Owed(G, w, c, later)'
      BY <1>1, <2>2, <3>2, <3>3, OwedStays
    <3>5. Bounded(c)'
      BY <3>2 DEF Bounded, Onward, Confirmation
    <3> QED BY <2>1, <2>2, <3>4, <3>5 DEF Bounded, Owed
  <2> QED BY <1>4, <2>1, <2>3, <2>4
<1> QED BY <1>2, <1>3, <1>4 DEF ChannelsOK
-----------------------------------------------------------------------------
(* Steps that send and settle nothing: calls of a worker, edits, the       *)
(* reconcile's request.                                                    *)

\* Requests that are new in the channel ask for no confirmation.
CallsOnly ==
    \A w \in Worker : \A i \in DOMAIN requests'[w] :
        \/ \E j \in DOMAIN requests[w] : requests'[w][i] = requests[w][j]
        \/ requests'[w][i].op \in {"getDeltaSince", "getSnapshot"} =>
              requests'[w][i].confirms = Unconfirmed

LEMMA QuietStep ==
    ASSUME NEW H, Kept(H), UNCHANGED <<primaryVars, running, joined, unpublished, workerVars, inbox>>,
           disk' \in [Key -> Files], edits' \in Nat, queue' \in Seq(Queued), ContentsOK',
           requests' \in [Worker -> Seq(Request)], CallsOnly
    PROVE  Kept(H)'
<1>1. /\ Types /\ Recorded(H) /\ LogRecords(H) /\ IndexOK /\ OrderOK
      /\ \A w \in Worker : CopiesOK(w) /\ ChannelsOK(H, w)
  BY DEF Kept
<1>2. /\ version' = version /\ markers' = markers /\ deltaLog' = deltaLog /\ index' = index
      /\ shardCounter' = shardCounter /\ replicaVersion' = replicaVersion
      /\ replica' = replica /\ shards' = shards /\ confirmed' = confirmed
      /\ running' = running /\ joined' = joined /\ unpublished' = unpublished /\ inbox' = inbox
  BY DEF primaryVars, workerVars
<1>3. Types'
  BY <1>1, <1>2 DEF Types, PrimaryTypes, WorkerTypes, ChannelTypes
<1>4. Recorded(H)' /\ LogRecords(H)' /\ IndexOK' /\ OrderOK'
  <2>1. Recorded(H)' /\ LogRecords(H)'
    BY <1>1, <1>2 DEF Recorded, LogRecords, IsLast, Touches
  <2>2. IndexOK' /\ OrderOK'
    BY <1>1, <1>2 DEF IndexOK, OrderOK
  <2> QED BY <2>1, <2>2
<1>5. Onward(H, H)
  BY <1>1, <1>2, StillOnward
<1>6. ASSUME NEW w \in Worker
      PROVE  CopiesOK(w)' /\ ChannelsOK(H, w)'
  <2>1. InFlight(w)' = InFlight(w)
    BY <1>2 DEF InFlight
  <2>2. OnlyNewest(w) /\ CopyStays(w) /\ confirmed'[w] = confirmed[w]
    BY <1>2, <2>1 DEF OnlyNewest, CopyStays
  <2> QED BY <1>1, <1>5, <2>1, <2>2, WorkerKeeps DEF CallsOnly
<1> QED BY <1>3, <1>4, <1>6 DEF Kept

\* A file is written or deleted.
LEMMA EditFacts ==
    ASSUME NEW H, Kept(H), UNCHANGED <<primaryVars, running>>,
           NEW k \in Key, NEW f \in File, NEW content \in {0, edits + 1}, Edit(k, f, content)
    PROVE  disk' \in [Key -> Files] /\ edits' \in Nat /\ ContentsOK'
<1>1. /\ disk \in [Key -> Files] /\ edits \in Nat /\ index \in [Key -> Shard]
      /\ running \in {Idle} \cup Scan
      /\ index' = index /\ running' = running /\ ContentsOK
  BY DEF Kept, Types, PrimaryTypes, primaryVars
<1>2. /\ disk' = [disk EXCEPT ![k][f] = content] /\ edits' = edits + 1
      /\ content \in Nat /\ content <= edits + 1 /\ (content = 0 \/ content = edits + 1)
  BY <1>1 DEF Edit
<1>3. disk' \in [Key -> Files]
  BY <1>1, <1>2 DEF Files
<1>4. \A j \in Key, g \in File :
         disk'[j][g] = IF j = k /\ g = f THEN content ELSE disk[j][g]
  BY <1>1, <1>2 DEF Files
<1>5. \A j \in Key, g \in File :
         disk[j][g] \in Nat /\ index[j].files[g] \in Nat
  BY <1>1 DEF Files, Shard
<1>6. ASSUME NEW j \in Key, NEW g \in File
      PROVE  /\ disk'[j][g] <= edits' /\ index'[j].files[g] <= edits'
             /\ AsNew(disk'[j][g], index'[j].files[g])
  BY <1>1, <1>2, <1>4, <1>5 DEF ContentsOK, AsNew
<1>7. ASSUME running' # Idle, NEW g \in File
      PROVE  /\ running'.scanned[g] <= edits'
             /\ AsNew(running'.scanned[g], index'[running'.key].files[g])
             /\ AsNew(disk'[running'.key][g], running'.scanned[g])
  <2>1. running \in Scan
    BY <1>1, <1>7
  <2>2. running.key \in Key /\ running.scanned \in Files
    BY <2>1 DEF Scan
  <2>3. running.scanned[g] \in Nat
    BY <2>2 DEF Files
  <2>4. /\ running.scanned[g] <= edits
        /\ AsNew(running.scanned[g], index[running.key].files[g])
        /\ AsNew(disk[running.key][g], running.scanned[g])
    BY <1>1, <1>7 DEF ContentsOK
  <2>5. AsNew(disk'[running.key][g], running.scanned[g])
    BY <1>1, <1>2, <1>4, <2>2, <2>3, <2>4 DEF AsNew
  <2> QED BY <1>1, <1>2, <2>3, <2>4, <2>5
<1> QED BY <1>1, <1>2, <1>3, <1>6, <1>7 DEF ContentsOK

\* A call of the worker joins its channel.
LEMMA CallFacts ==
    ASSUME Types, NEW w \in Worker, NEW q \in Request, Send(w, q),
           q.op \in {"getDeltaSince", "getSnapshot"} => q.confirms = Unconfirmed
    PROVE  requests' \in [Worker -> Seq(Request)] /\ CallsOnly
<1>1. requests \in [Worker -> Seq(Request)] /\ requests[w] \in Seq(Request)
      /\ requests' = [requests EXCEPT ![w] = Append(@, q)]
  BY DEF Types, ChannelTypes, Send
<1>2. /\ Append(requests[w], q) \in Seq(Request)
      /\ \A i \in DOMAIN Append(requests[w], q) :
            Append(requests[w], q)[i] = q
            \/ \E j \in DOMAIN requests[w] : Append(requests[w], q)[i] = requests[w][j]
  BY <1>1
<1> QED BY <1>1, <1>2 DEF CallsOnly

LEMMA QuietSteps ==
    ASSUME NEW H, Kept(H),
           \/ UNCHANGED shardVars
           \/ \E k \in Key : Reconcile(k) \/ EditOutside(k)
           \/ \E w \in Worker : WorkerCall(w)
    PROVE  Kept(H)'
<1>1. Types /\ ContentsOK /\ edits \in Nat /\ requests \in [Worker -> Seq(Request)]
      /\ queue \in Seq(Queued) /\ disk \in [Key -> Files]
  BY DEF Kept, Types, PrimaryTypes, ChannelTypes
<1>2. CASE UNCHANGED shardVars
  <2>1. /\ UNCHANGED <<primaryVars, running, joined, unpublished, workerVars, inbox>>
        /\ disk' = disk /\ edits' = edits /\ queue' = queue /\ requests' = requests
    BY <1>2 DEF shardVars, diskVars, operationVars
  <2>2. ContentsOK' /\ CallsOnly
    BY <1>1, <2>1 DEF ContentsOK, CallsOnly, primaryVars
  <2> QED BY <1>1, <2>1, <2>2, QuietStep
<1>3. ASSUME NEW k \in Key, Reconcile(k)
      PROVE  Kept(H)'
  <2>1. /\ UNCHANGED <<primaryVars, running, joined, unpublished, workerVars, inbox>>
        /\ disk' = disk /\ edits' = edits /\ requests' = requests
        /\ queue' = Append(queue, Call("refresh", NoWorker, k, File, 0))
    BY <1>3 DEF Reconcile, diskVars
  <2>2. Call("refresh", NoWorker, k, File, 0) \in Queued
    BY DEF Call, Queued
  <2>3. queue' \in Seq(Queued)
    BY <1>1, <2>1, <2>2
  <2>4. ContentsOK' /\ CallsOnly
    BY <1>1, <2>1 DEF ContentsOK, CallsOnly, primaryVars
  <2> QED BY <1>1, <2>1, <2>3, <2>4, QuietStep
<1>4. ASSUME NEW k \in Key, EditOutside(k)
      PROVE  Kept(H)'
  <2>1. PICK f \in File : Edit(k, f, edits + 1)
    BY <1>4 DEF EditOutside
  <2>2. /\ UNCHANGED <<primaryVars, running, joined, unpublished, workerVars, inbox>>
        /\ queue' = queue /\ requests' = requests
    BY <1>4 DEF EditOutside, operationVars
  <2>3. disk' \in [Key -> Files] /\ edits' \in Nat /\ ContentsOK'
    BY <2>1, <2>2, EditFacts
  <2>4. CallsOnly
    BY <1>1, <2>2 DEF CallsOnly
  <2> QED BY <1>1, <2>2, <2>3, <2>4, QuietStep
<1>5. ASSUME NEW w \in Worker, WorkerCall(w)
      PROVE  Kept(H)'
  <2>1. ASSUME NEW q \in Request, CallsPrimary(w, q),
               q.op \in {"getDeltaSince", "getSnapshot"} => q.confirms = Unconfirmed,
               disk' \in [Key -> Files] /\ edits' \in Nat /\ ContentsOK'
        PROVE  Kept(H)'
    <3>1. /\ UNCHANGED <<primaryVars, running, joined, unpublished, workerVars, inbox>>
          /\ queue' = queue /\ Send(w, q)
      BY <2>1 DEF CallsPrimary, operationVars
    <3>2. requests' \in [Worker -> Seq(Request)] /\ CallsOnly
      BY <1>1, <2>1, <3>1, CallFacts
    <3> QED BY <1>1, <2>1, <3>1, <3>2, QuietStep
  <2>2. ASSUME UNCHANGED diskVars, UNCHANGED <<primaryVars, operationVars>>
        PROVE  disk' \in [Key -> Files] /\ edits' \in Nat /\ ContentsOK'
    BY <1>1, <2>2 DEF ContentsOK, diskVars, primaryVars, operationVars
  <2>3. CASE FencePull(w)
    <3>1. PICK q : q = Pull("getDeltaSince", w, replicaVersion[w], Unconfirmed)
      OBVIOUS
    <3>2. replicaVersion[w] \in Nat /\ Unconfirmed \in Confirmation
      BY <1>1, UnconfirmedType DEF Types, WorkerTypes
    <3>3. q \in Request /\ q.confirms = Unconfirmed
      BY <3>1, <3>2 DEF Pull, Request
    <3>4. CallsPrimary(w, q) /\ UNCHANGED diskVars
      BY <2>3, <3>1 DEF FencePull
    <3> QED BY <2>1, <2>2, <3>3, <3>4 DEF CallsPrimary
  <2>4. ASSUME NEW op \in {"commit", "auth", "load"}, NEW k \in Key, NEW files \in SUBSET File,
               NEW known \in Nat
        PROVE  /\ Call(op, w, k, files, known) \in Request
               /\ Call(op, w, k, files, known).op \notin {"getDeltaSince", "getSnapshot"}
    BY DEF Call, Request
  <2>5. ASSUME NEW k \in Key, EnsureUserFileIndex(w, k)
        PROVE  Kept(H)'
    <3>1. shards[w][k].shard.version \in Nat
      BY <1>1 DEF Types, WorkerTypes, Shard
    <3>2. PICK q : q = Call("load", w, k, File, shards[w][k].shard.version)
      OBVIOUS
    <3>3. q \in Request /\ q.op \notin {"getDeltaSince", "getSnapshot"}
      BY <2>4, <3>1, <3>2
    <3>4. CallsPrimary(w, q) /\ UNCHANGED diskVars
      BY <2>5, <3>2 DEF EnsureUserFileIndex
    <3> QED BY <2>1, <2>2, <3>3, <3>4 DEF CallsPrimary
  <2>6. ASSUME NEW k \in Key, EnsureUserAuthState(w, k)
        PROVE  Kept(H)'
    <3>1. AuthFile \in SUBSET File
      BY ShardAssumption
    <3>2. PICK q : q = Call("auth", w, k, AuthFile, 0)
      OBVIOUS
    <3>3. q \in Request /\ q.op \notin {"getDeltaSince", "getSnapshot"}
      BY <2>4, <3>1, <3>2
    <3>4. CallsPrimary(w, q) /\ UNCHANGED diskVars
      BY <2>6, <3>2 DEF EnsureUserAuthState
    <3> QED BY <2>1, <2>2, <3>3, <3>4 DEF CallsPrimary
  <2>7. ASSUME NEW k \in Key, Write(w, k)
        PROVE  Kept(H)'
    <3>1. PICK f \in File, content \in {0, edits + 1} :
             Edit(k, f, content) /\ CallsPrimary(w, Call("commit", w, k, {f}, 0))
      BY <2>7 DEF Write
    <3>2. PICK q : q = Call("commit", w, k, {f}, 0)
      OBVIOUS
    <3>3. q \in Request /\ q.op \notin {"getDeltaSince", "getSnapshot"}
      BY <2>4, <3>2
    <3>4. UNCHANGED <<primaryVars, running>>
      BY <3>1 DEF CallsPrimary, operationVars
    <3>5. disk' \in [Key -> Files] /\ edits' \in Nat /\ ContentsOK'
      BY <3>1, <3>4, EditFacts
    <3> QED BY <2>1, <3>1, <3>2, <3>3, <3>5
  <2> QED BY <1>5, <2>3, <2>5, <2>6, <2>7 DEF WorkerCall
<1> QED BY <1>2, <1>3, <1>4, <1>5
-----------------------------------------------------------------------------
(* A worker handles a message.                                             *)

Copies == [Key -> [shard : Shard, stale : BOOLEAN]]

LEMMA InvalidatedFacts ==
    ASSUME NEW copies \in Copies, NEW changes, NEW r, r = Invalidated(copies, changes)
    PROVE  /\ r \in Copies
           /\ \A k \in Key :
                 /\ r[k].shard = copies[k].shard
                 /\ copies[k].stale => r[k].stale
                 /\ /\ k \in DOMAIN changes /\ copies[k].shard.version < changes[k]
                    /\ copies[k].shard.loaded
                    => r[k].stale
  BY DEF Copies, Invalidated

LEMMA WithShardsFacts ==
    ASSUME NEW copies \in Copies, NEW bundle \in Bundle, NEW r, r = WithShards(copies, bundle)
    PROVE  /\ r \in Copies
           /\ \A k \in Key :
                 IF k \in DOMAIN bundle
                 THEN /\ r[k].shard.version = bundle[k].version
                      /\ r[k].shard.files = bundle[k].files
                 ELSE r[k] = copies[k]
<1>1. ASSUME NEW copy \in [shard : Shard, stale : BOOLEAN], NEW s \in Shard, NEW x, x = WithShard(copy, s)
      PROVE  /\ x \in [shard : Shard, stale : BOOLEAN]
             /\ x.shard.version = s.version /\ x.shard.files = s.files
  BY <1>1 DEF WithShard, Shard
<1>2. ASSUME NEW k \in Key
      PROVE  /\ r[k] \in [shard : Shard, stale : BOOLEAN]
             /\ IF k \in DOMAIN bundle
                THEN /\ r[k].shard.version = bundle[k].version
                     /\ r[k].shard.files = bundle[k].files
                ELSE r[k] = copies[k]
  <2>1. copies[k] \in [shard : Shard, stale : BOOLEAN]
    BY DEF Copies
  <2>2. CASE k \in DOMAIN bundle
    <3>1. r[k] = WithShard(copies[k], bundle[k]) /\ bundle[k] \in Shard
      BY <2>2, BundleElim DEF WithShards
    <3> QED BY <1>1, <2>1, <2>2, <3>1
  <2>3. CASE k \notin DOMAIN bundle
    BY <2>1, <2>3 DEF WithShards
  <2> QED BY <2>2, <2>3
<1>3. r = [k \in Key |-> r[k]]
  BY DEF WithShards
<1> QED BY <1>2, <1>3 DEF Copies

\* What a message does to the copies of its worker: it brings some shards and makes
\* others stale, it drops them all, or it does nothing.
Merges(w, m) ==
    /\ replicaVersion'[w] = IF Fits(m.update, replicaVersion[w]) THEN m.update.to
                                                                 ELSE replicaVersion[w]
    /\ \A k \in Key :
          IF k \in DOMAIN m.shards
          THEN /\ shards'[w][k].shard.version = m.shards[k].version
               /\ shards'[w][k].shard.files = m.shards[k].files
          ELSE /\ shards'[w][k].shard = shards[w][k].shard
               /\ shards[w][k].stale => shards'[w][k].stale
               /\ /\ Fits(m.update, replicaVersion[w]) /\ k \in DOMAIN m.update.changes
                  /\ shards[w][k].shard.version < m.update.changes[k]
                  /\ shards[w][k].shard.loaded
                  => shards'[w][k].stale

Drops(w) == \A k \in Key : shards'[w][k].shard = Unloaded

\* An older shard of k than c does not come with the message.
NoOlder(m, k, c) == k \in DOMAIN m.shards => m.shards[k].version >= c

\* Copies stay shards of the index, a confirmed write stays so, and a replica that
\* reaches a marker learns of it.
CopyEffect(H, w, m) ==
    /\ \A k \in Key : Dated(k, shards[w][k].shard)'
    /\ \A k \in Key, c \in Nat : Safe(w, k, c) /\ NoOlder(m, k, c) => Safe(w, k, c)'
    /\ \A k \in Key, c \in Nat, n \in 1 .. version :
          /\ H[n] = [key |-> k, value |-> c] /\ NoOlder(m, k, c)
          /\ replicaVersion[w] < n /\ n <= replicaVersion'[w]
          => Safe(w, k, c)'

LEMMA CopyMoves ==
    ASSUME NEW H, Types, NEW w \in Worker, NEW m \in Sent, MessageOK(H, m),
           Recorded(H), IndexOK, CopiesOK(w), UNCHANGED <<version, index>>,
           shards'[w] \in Copies,
           Merges(w, m) \/ Drops(w) \/ CopyStays(w)
    PROVE  CopyEffect(H, w, m)
<1>1. /\ shards[w] \in Copies /\ replicaVersion[w] \in Nat
      /\ \A k \in Key : index[k].version \in Nat
      /\ m.update.from \in Nat /\ m.update.to \in Nat
      /\ \A k \in DOMAIN m.update.changes : m.update.changes[k] \in Nat
      /\ \A k \in Key : shards[w][k].shard.version \in Nat /\ shards'[w][k].shard.version \in Nat
  <2>1. m.update \in Update
    BY SentElim
  <2> QED BY <2>1, UpdateElim DEF Types, PrimaryTypes, WorkerTypes, Shard, Copies
<1>2. CASE CopyStays(w)
  BY <1>1, <1>2 DEF CopyStays, CopyEffect, CopiesOK, Dated, Safe, Current
<1>3. CASE Drops(w)
  <2>1. Unloaded.version = 0 /\ Unloaded.loaded = FALSE /\ Unloaded.files = NoFiles
    BY DEF Unloaded
  <2>2. \A k \in Key : ~Current(w, k)'
    BY <1>3, <2>1 DEF Drops, Current
  <2>3. \A k \in Key : Dated(k, shards[w][k].shard)'
    BY <1>1, <1>3, <2>1 DEF Drops, Dated, IndexOK
  <2> QED BY <2>2, <2>3 DEF CopyEffect, Safe
<1>4. CASE Merges(w, m)
  <2>1. ASSUME NEW k \in Key
        PROVE  Dated(k, shards[w][k].shard)'
    <3>1. CASE k \in DOMAIN m.shards
      BY <1>4, <3>1 DEF Merges, MessageOK, Dated
    <3>2. CASE k \notin DOMAIN m.shards
      BY <1>4, <3>2 DEF Merges, CopiesOK, Dated
    <3> QED BY <3>1, <3>2
  <2>2. ASSUME NEW k \in Key, NEW c \in Nat, Safe(w, k, c), NoOlder(m, k, c)
        PROVE  Safe(w, k, c)'
    <3>1. CASE k \in DOMAIN m.shards
      BY <1>4, <2>2, <3>1 DEF Merges, NoOlder, Safe
    <3>2. CASE k \notin DOMAIN m.shards
      BY <1>4, <2>2, <3>2 DEF Merges, Safe, Current
    <3> QED BY <3>1, <3>2
  <2>3. ASSUME NEW k \in Key, NEW c \in Nat, NEW n \in 1 .. version,
               H[n] = [key |-> k, value |-> c], NoOlder(m, k, c),
               replicaVersion[w] < n, n <= replicaVersion'[w]
        PROVE  Safe(w, k, c)'
    <3>1. CASE k \in DOMAIN m.shards
      BY <1>4, <2>3, <3>1 DEF Merges, NoOlder, Safe
    <3>2. CASE k \notin DOMAIN m.shards
      <4>1. Fits(m.update, replicaVersion[w]) /\ replicaVersion'[w] = m.update.to
        BY <1>1, <1>4, <2>3 DEF Merges
      <4>2. n \in (m.update.from + 1) .. m.update.to
        BY <1>1, <2>3, <4>1 DEF Fits
      <4>3. k \in DOMAIN m.update.changes /\ m.update.changes[k] >= c
        BY <2>3, <4>2 DEF MessageOK, Tells
      <4>4. /\ shards'[w][k].shard = shards[w][k].shard
            /\ /\ shards[w][k].shard.version < m.update.changes[k] /\ shards[w][k].shard.loaded
               => shards'[w][k].stale
        BY <1>4, <3>2, <4>1, <4>3 DEF Merges
      <4> QED BY <1>1, <4>3, <4>4 DEF Safe, Current
    <3> QED BY <3>1, <3>2
  <2> QED BY <2>1, <2>2, <2>3 DEF CopyEffect
<1> QED BY <1>2, <1>3, <1>4
\* A message leaves its channel: the order of the others stands, and what follows a
\* response was sent after it.
LEMMA ConsumeFacts ==
    ASSUME Types, OrderOK, NEW w \in Worker, NEW i \in Deliverable(w),
           NEW m, m = inbox[w][i], Consume(w, i), UNCHANGED unpublished
    PROVE  /\ inbox' \in [Worker -> Seq(Sent)]
           /\ m \in Sent /\ m \in InFlight(w) /\ InFlight(w)' \subseteq InFlight(w)
           /\ \A x \in Worker \ {w} : InFlight(x)' = InFlight(x)
           /\ OrderOK'
           /\ IsResponse(m) => \A x \in InFlight(w)' : Before(m, x)
<1>1. /\ inbox \in [Worker -> Seq(Sent)] /\ inbox[w] \in Seq(Sent)
      /\ i \in DOMAIN inbox[w] /\ i \in 1 .. Len(inbox[w]) /\ Len(inbox[w]) \in Nat
      /\ DOMAIN inbox[w] = 1 .. Len(inbox[w])
  BY DEF Types, ChannelTypes, Deliverable
<1>2. PICK r : r = RemoveAt(inbox[w], i)
  OBVIOUS
<1>3. /\ r \in Seq(Sent) /\ DOMAIN r = 1 .. (Len(inbox[w]) - 1)
      /\ \A j \in 1 .. (Len(inbox[w]) - 1) :
            r[j] = IF j < i THEN inbox[w][j] ELSE inbox[w][j + 1]
  BY <1>1, <1>2, RemoveAtIs
<1>4. /\ inbox' = [inbox EXCEPT ![w] = r]
      /\ inbox'[w] = r /\ \A x \in Worker \ {w} : inbox'[x] = inbox[x]
  BY <1>1, <1>2 DEF Consume
<1>5. ASSUME NEW j \in DOMAIN r
      PROVE  /\ j \in Nat
             /\ \E jj \in DOMAIN inbox[w] :
                   r[j] = inbox[w][jj] /\ jj = (IF j < i THEN j ELSE j + 1)
  BY <1>1, <1>3
<1>6. m \in Sent /\ m \in InFlight(w)
  BY <1>1 DEF InFlight
<1>7. InFlight(w)' \subseteq InFlight(w)
  BY <1>4, <1>5 DEF InFlight
<1>8. \A x \in Worker \ {w} : InFlight(x)' = InFlight(x)
  BY <1>4 DEF InFlight
<1>9. OrderOK'
  <2>1. ASSUME NEW x \in Worker, NEW a \in DOMAIN inbox'[x], NEW b \in DOMAIN inbox'[x], a < b
        PROVE  Before(inbox'[x][a], inbox'[x][b])
    <3>1. CASE x # w
      BY <1>4, <2>1, <3>1 DEF OrderOK
    <3>2. CASE x = w
      <4>1. PICK aa \in DOMAIN inbox[w] :
               r[a] = inbox[w][aa] /\ aa = (IF a < i THEN a ELSE a + 1)
        BY <1>4, <1>5, <3>2
      <4>2. PICK bb \in DOMAIN inbox[w] :
               r[b] = inbox[w][bb] /\ bb = (IF b < i THEN b ELSE b + 1)
        BY <1>4, <1>5, <3>2
      <4>3. aa < bb
        BY <1>1, <1>4, <1>5, <2>1, <3>2, <4>1, <4>2
      <4> QED BY <1>4, <3>2, <4>1, <4>2, <4>3 DEF OrderOK
    <3> QED BY <3>1, <3>2
  <2>2. ASSUME NEW x \in Worker, NEW a \in DOMAIN inbox'[x], NEW j \in DOMAIN unpublished,
               unpublished[j].worker = x
        PROVE  Before(inbox'[x][a], unpublished[j].message)
    <3>1. PICK aa \in DOMAIN inbox[x] : inbox'[x][a] = inbox[x][aa]
      BY <1>4, <1>5, <2>2
    <3> QED BY <2>2, <3>1 DEF OrderOK
  <2>3. unpublished' = unpublished
    OBVIOUS
  <2> QED BY <2>1, <2>2, <2>3 DEF OrderOK, Before
<1>10. ASSUME IsResponse(m), NEW x \in InFlight(w)'
       PROVE  Before(m, x)
  <2>1. i = 1
    BY <1>1, <1>10 DEF Deliverable
  <2>2. CASE \E j \in DOMAIN r : x = r[j]
    <3>1. PICK j \in DOMAIN r : x = r[j]
      BY <2>2
    <3>2. PICK jj \in DOMAIN inbox[w] : x = inbox[w][jj] /\ jj = j + 1 /\ j \in 1 .. Len(inbox[w])
      BY <1>1, <1>3, <2>1, <3>1
    <3>3. 1 < jj
      BY <1>1, <3>2
    <3> QED BY <1>1, <2>1, <3>2, <3>3 DEF OrderOK
  <2>3. CASE \E j \in DOMAIN unpublished : unpublished[j].worker = w /\ x = unpublished[j].message
    BY <1>1, <2>3 DEF OrderOK
  <2> QED BY <1>4, <1>10, <2>2, <2>3 DEF InFlight
<1> QED BY <1>3, <1>4, <1>1, <1>6, <1>7, <1>8, <1>9, <1>10

\* What waits for a pull, as its worker handles a message.
LEMMA OwedMoves ==
    ASSUME NEW H, NEW w \in Worker, NEW m \in InFlight(w), CopyEffect(H, w, m),
           InFlight(w)' \subseteq InFlight(w), version \in Nat,
           replicaVersion[w] \in Nat, replicaVersion'[w] \in Nat,
           NEW confirms \in Confirmation, NEW top \in Nat, top <= version,
           Owed(H, w, confirms, top)
    PROVE  Owed(H, w, confirms, top)'
<1>1. ASSUME NEW k \in Key, confirms[k] > 0
      PROVE  /\ \E n \in 1 .. top :
                   /\ H[n] = [key |-> k, value |-> confirms[k]]
                   /\ replicaVersion'[w] >= n => Safe(w, k, confirms[k])'
             /\ NotUndone(w, k, confirms[k])'
  <2>1. PICK c \in Nat : c = confirms[k]
    BY DEF Confirmation
  <2>2. PICK n \in 1 .. top :
           H[n] = [key |-> k, value |-> c] /\ (replicaVersion[w] >= n => Safe(w, k, c))
    BY <1>1, <2>1 DEF Owed
  <2>3. NotUndone(w, k, c)
    BY <1>1, <2>1 DEF Owed
  <2>4. NoOlder(m, k, c)
    BY <2>3 DEF NotUndone, NoOlder
  <2>5. NotUndone(w, k, c)'
    BY <2>3 DEF NotUndone
  <2>6. ASSUME replicaVersion'[w] >= n
        PROVE  Safe(w, k, c)'
    <3>1. n \in 1 .. version /\ n \in Nat
      OBVIOUS
    <3>2. CASE replicaVersion[w] >= n
      BY <2>2, <2>4, <3>2 DEF CopyEffect
    <3>3. CASE replicaVersion[w] < n
      <4>1. n <= replicaVersion'[w]
        BY <2>6, <3>1
      <4> QED BY <2>2, <2>4, <3>1, <3>3, <4>1 DEF CopyEffect
    <3> QED BY <3>1, <3>2, <3>3
  <2>7. /\ Safe(w, k, c)' => Safe(w, k, confirms[k])'
        /\ NotUndone(w, k, c)' => NotUndone(w, k, confirms[k])'
    BY <2>1
  <2> QED BY <2>1, <2>2, <2>5, <2>6, <2>7
<1> QED BY <1>1 DEF Owed

\* The write that a message confirms is in the copy, and no older shard follows.
Confirmable(w, m) ==
    \A k \in Key, c \in Nat : c = m.confirms[k] /\ c > 0 => Safe(w, k, c)' /\ NotUndone(w, k, c)'

LEMMA ReachConfirms ==
    ASSUME NEW H, NEW w \in Worker, NEW m \in Sent, NEW top \in Nat,
           Owed(H, w, m.confirms, top)', replicaVersion'[w] \in Nat, replicaVersion'[w] >= top
    PROVE  Confirmable(w, m)
<1>1. ASSUME NEW k \in Key, NEW c \in Nat, c = m.confirms[k], c > 0
      PROVE  Safe(w, k, c)' /\ NotUndone(w, k, c)'
  <2>1. PICK n \in 1 .. top : replicaVersion'[w] >= n => Safe(w, k, m.confirms[k])'
    BY <1>1 DEF Owed
  <2>2. NotUndone(w, k, m.confirms[k])'
    BY <1>1 DEF Owed
  <2>3. replicaVersion'[w] >= n
    OBVIOUS
  <2>4. Safe(w, k, m.confirms[k])' => Safe(w, k, c)'
    BY <1>1
  <2>5. NotUndone(w, k, m.confirms[k])' => NotUndone(w, k, c)'
    BY <1>1
  <2> QED BY <2>1, <2>2, <2>3, <2>4, <2>5
<1> QED BY <1>1 DEF Confirmable
\* A worker takes one message and does something with it that fits the message: it
\* may confirm writes, and it may pull for those it cannot confirm yet.
LEMMA ReceiveKeeps ==
    ASSUME NEW H, Kept(H), NEW w \in Worker, NEW i \in Deliverable(w),
           NEW m, m = inbox[w][i], Consume(w, i),
           UNCHANGED <<diskVars, primaryVars, operationVars>>,
           replicaVersion' \in [Worker -> Nat], replica' \in [Worker -> [Key -> Nat]],
           shards' \in [Worker -> Copies],
           \A x \in Worker \ {w} : replicaVersion'[x] = replicaVersion[x] /\ shards'[x] = shards[x],
           CopyEffect(H, w, m),
           UNCHANGED confirmed \/ (Confirm(w, m.confirms) /\ Confirmable(w, m)),
           \/ UNCHANGED requests
           \/ \E q \in Request :
                 /\ Send(w, q) /\ q.op \in {"getDeltaSince", "getSnapshot"}
                 /\ Bounded(q.confirms) /\ Owed(H, w, q.confirms, version)'
    PROVE  Kept(H)'
<1>1. /\ Types /\ Recorded(H) /\ LogRecords(H) /\ IndexOK /\ ContentsOK /\ OrderOK
      /\ \A x \in Worker : CopiesOK(x) /\ ChannelsOK(H, x)
  BY DEF Kept
<1>2. /\ version' = version /\ markers' = markers /\ deltaLog' = deltaLog /\ index' = index
      /\ shardCounter' = shardCounter /\ disk' = disk /\ edits' = edits /\ queue' = queue
      /\ running' = running /\ joined' = joined /\ unpublished' = unpublished
  BY DEF primaryVars, diskVars, operationVars
<1>3. /\ inbox' \in [Worker -> Seq(Sent)]
      /\ m \in Sent /\ m \in InFlight(w) /\ InFlight(w)' \subseteq InFlight(w)
      /\ \A x \in Worker \ {w} : InFlight(x)' = InFlight(x)
      /\ OrderOK'
  BY <1>1, <1>2, ConsumeFacts
<1>4. MessageOK(H, m) /\ m.confirms \in Confirmation /\ \A k \in Key : m.confirms[k] \in Nat
  BY <1>1, <1>3, SentElim DEF ChannelsOK
<1>5. /\ version \in Nat /\ confirmed \in [Worker -> Confirmation]
      /\ requests \in [Worker -> Seq(Request)] /\ replicaVersion \in [Worker -> Nat]
      /\ \A k \in Key : index[k].version \in Nat
  BY <1>1 DEF Types, PrimaryTypes, WorkerTypes, ChannelTypes, Shard
<1>6. Onward(H, H)
  BY <1>1, <1>2, StillOnward
<1>7. /\ confirmed' \in [Worker -> Confirmation]
      /\ \A x \in Worker \ {w} : confirmed'[x] = confirmed[x]
      /\ \A k \in Key :
            \/ confirmed'[w][k] = confirmed[w][k]
            \/ /\ confirmed'[w][k] = m.confirms[k] /\ m.confirms[k] > 0 /\ Confirmable(w, m)
  <2>1. CASE UNCHANGED confirmed
    BY <1>5, <2>1
  <2>2. CASE Confirm(w, m.confirms) /\ Confirmable(w, m)
    <3>1. PICK c : c = [k \in Key |-> IF m.confirms[k] > confirmed[w][k]
                                      THEN m.confirms[k] ELSE confirmed[w][k]]
      OBVIOUS
    <3>2. confirmed' = [confirmed EXCEPT ![w] = c]
      BY <2>2, <3>1 DEF Confirm
    <3>3. \A k \in Key : confirmed[w][k] \in Nat
      BY <1>5 DEF Confirmation
    <3>4. /\ c \in Confirmation
          /\ \A k \in Key : c[k] = confirmed[w][k] \/ (c[k] = m.confirms[k] /\ m.confirms[k] > 0)
      BY <1>4, <3>1, <3>3 DEF Confirmation
    <3> QED BY <1>5, <2>2, <3>2, <3>4
  <2> QED BY <2>1, <2>2
<1>8. /\ requests' \in [Worker -> Seq(Request)]
      /\ \A x \in Worker \ {w} : requests'[x] = requests[x]
      /\ \A j \in DOMAIN requests'[w] :
            \/ \E l \in DOMAIN requests[w] : requests'[w][j] = requests[w][l]
            \/ /\ Bounded(requests'[w][j].confirms)
               /\ Owed(H, w, requests[w][j].confirms, version)'
  <2>1. CASE UNCHANGED requests
    BY <1>5, <2>1
  <2>2. CASE \E q \in Request :
                /\ Send(w, q) /\ q.op \in {"getDeltaSince", "getSnapshot"}
                /\ Bounded(q.confirms) /\ Owed(H, w, q.confirms, version)'
    <3>1. PICK q \in Request :
             /\ Send(w, q) /\ q.op \in {"getDeltaSince", "getSnapshot"}
             /\ Bounded(q.confirms) /\ Owed(H, w, q.confirms, version)'
      BY <2>2
    <3>2. /\ Append(requests[w], q) \in Seq(Request)
          /\ \A j \in DOMAIN Append(requests[w], q) :
                Append(requests[w], q)[j] = q
                \/ \E l \in DOMAIN requests[w] : Append(requests[w], q)[j] = requests[w][l]
      BY <1>5
    <3>3. requests' = [requests EXCEPT ![w] = Append(requests[w], q)]
      BY <3>1 DEF Send
    <3>4. /\ requests' \in [Worker -> Seq(Request)] /\ requests'[w] = Append(requests[w], q)
          /\ \A x \in Worker \ {w} : requests'[x] = requests[x]
      BY <1>5, <3>2, <3>3
    <3>5. ASSUME NEW j \in DOMAIN requests'[w]
          PROVE  \/ \E l \in DOMAIN requests[w] : requests'[w][j] = requests[w][l]
                 \/ /\ Bounded(requests'[w][j].confirms)
                    /\ Owed(H, w, requests[w][j].confirms, version)'
      <4>1. requests'[w][j] = q \/ \E l \in DOMAIN requests[w] : requests'[w][j] = requests[w][l]
        BY <3>2, <3>4
      <4>2. CASE requests'[w][j] = q
        <5>1. Bounded(requests'[w][j].confirms)
          BY <3>1, <4>2
        <5>2. Owed(H, w, q.confirms, version)' => Owed(H, w, requests[w][j].confirms, version)'
          BY <4>2
        <5> QED BY <3>1, <5>1, <5>2
      <4> QED BY <4>1, <4>2
    <3> QED BY <3>4, <3>5
  <2> QED BY <2>1, <2>2
<1>9. Types'
  BY <1>1, <1>2, <1>3, <1>7, <1>8 DEF Types, PrimaryTypes, WorkerTypes, ChannelTypes, Copies
<1>10. Recorded(H)' /\ LogRecords(H)' /\ IndexOK' /\ ContentsOK'
  <2>1. Recorded(H)' /\ LogRecords(H)'
    BY <1>1, <1>2 DEF Recorded, LogRecords, IsLast, Touches
  <2>2. IndexOK' /\ ContentsOK'
    BY <1>1, <1>2 DEF IndexOK, ContentsOK
  <2> QED BY <2>1, <2>2
<1>11. ASSUME NEW x \in Worker, x # w
       PROVE  CopiesOK(x)' /\ ChannelsOK(H, x)'
  <2>1. InFlight(x)' = InFlight(x)
    BY <1>3, <1>11
  <2>2. OnlyNewest(x) /\ CopyStays(x) /\ confirmed'[x] = confirmed[x] /\ requests'[x] = requests[x]
    BY <1>7, <1>8, <1>11, <2>1 DEF OnlyNewest, CopyStays
  <2> QED BY <1>1, <1>6, <2>1, <2>2, WorkerKeeps
<1>12. CopiesOK(w)'
  <2>1. ASSUME NEW k \in Key
        PROVE  /\ Dated(k, shards[w][k].shard)'
               /\ confirmed'[w][k] <= index'[k].version
               /\ Safe(w, k, confirmed[w][k])'
               /\ NotUndone(w, k, confirmed[w][k])'
    <3>1. PICK c \in Nat : c = confirmed'[w][k]
      BY <1>7 DEF Confirmation
    <3>2. c <= index[k].version /\ Safe(w, k, c)' /\ NotUndone(w, k, c)'
      <4>1. CASE c = confirmed[w][k]
        <5>1. c <= index[k].version /\ Safe(w, k, c) /\ NotUndone(w, k, c)
          BY <1>1, <4>1 DEF CopiesOK
        <5>2. NoOlder(m, k, c)
          BY <1>3, <5>1 DEF NotUndone, NoOlder
        <5>3. Safe(w, k, c)'
          BY <5>1, <5>2 DEF CopyEffect
        <5>4. NotUndone(w, k, c)'
          BY <1>3, <5>1 DEF NotUndone
        <5> QED BY <5>1, <5>3, <5>4
      <4>2. CASE c = m.confirms[k] /\ m.confirms[k] > 0 /\ Confirmable(w, m)
        BY <1>4, <4>2 DEF Confirmable, MessageOK, Bounded
      <4> QED BY <1>7, <3>1, <4>1, <4>2
    <3>3. Safe(w, k, c)' => Safe(w, k, confirmed[w][k])'
      BY <3>1
    <3>4. NotUndone(w, k, c)' => NotUndone(w, k, confirmed[w][k])'
      BY <3>1
    <3>5. Dated(k, shards[w][k].shard)'
      BY DEF CopyEffect
    <3> QED BY <1>2, <3>1, <3>2, <3>3, <3>4, <3>5
  <2> QED BY <2>1 DEF CopiesOK
<1>13. ASSUME NEW c \in Confirmation, NEW top \in Nat, top <= version, Owed(H, w, c, top)
       PROVE  Owed(H, w, c, top)'
  <2>1. replicaVersion[w] \in Nat /\ replicaVersion'[w] \in Nat
    BY <1>5
  <2> QED BY <1>3, <1>5, <1>13, <2>1, OwedMoves
<1>14. ASSUME NEW y \in InFlight(w)'
       PROVE  /\ MessageOK(H, y)'
              /\ y.type \in {"SYNC_DELTA", "SYNC_SNAPSHOT"} => Owed(H, w, y.confirms, Top(y))'
  <2>1. y \in InFlight(w) /\ y \in Sent /\ MessageOK(H, y)
    BY <1>1, <1>3, FlightTypes DEF ChannelsOK
  <2>2. MessageOK(H, y)'
    BY <1>6, <2>1, MessageStays
  <2>3. ASSUME y.type \in {"SYNC_DELTA", "SYNC_SNAPSHOT"}
        PROVE  Owed(H, w, y.confirms, Top(y))'
    <3>1. y.update.to \in Nat /\ y.update.to <= version
      BY <2>1, SentElim, UpdateElim DEF MessageOK, Tells
    <3>2. PICK top \in Nat : top = Top(y) /\ top <= version
      BY <1>5, <3>1 DEF Top
    <3>3. PICK c \in Confirmation : c = y.confirms
      BY <2>1, SentElim
    <3>4. Owed(H, w, c, top)
      BY <1>1, <2>1, <2>3, <3>2, <3>3 DEF ChannelsOK
    <3>5. Owed(H, w, c, top)'
      BY <1>13, <3>2, <3>4
    <3>6. Top(y)' = top
      BY <1>2, <3>2 DEF Top
    <3>7. Owed(H, w, c, top)' => Owed(H, w, y.confirms, Top(y))'
      BY <3>3, <3>6
    <3> QED BY <3>5, <3>7
  <2> QED BY <2>2, <2>3
<1>15. ASSUME NEW j \in DOMAIN requests'[w],
              requests'[w][j].op \in {"getDeltaSince", "getSnapshot"}
       PROVE  /\ Bounded(requests[w][j].confirms)'
              /\ Owed(H, w, requests[w][j].confirms, version)'
  <2>1. CASE \E l \in DOMAIN requests[w] : requests'[w][j] = requests[w][l]
    <3>1. PICK l \in DOMAIN requests[w] : requests'[w][j] = requests[w][l]
      BY <2>1
    <3>2. PICK c : c = requests[w][l].confirms
      OBVIOUS
    <3>3. requests[w][l] \in Request
      BY <1>5
    <3>4. c \in Confirmation /\ Bounded(c) /\ Owed(H, w, c, version)
      BY <1>1, <1>15, <3>1, <3>2, <3>3 DEF ChannelsOK, Request
    <3>5. PICK top \in Nat : top = version
      BY <1>5
    <3>6. Owed(H, w, c, top)'
      BY <1>13, <3>4, <3>5
    <3>7. Bounded(c)'
      BY <1>2, <3>4 DEF Bounded
    <3>8. requests'[w][j].confirms = c /\ version' = top
      BY <1>2, <3>1, <3>2, <3>5
    <3>9. /\ Bounded(c)' => Bounded(requests[w][j].confirms)'
          /\ Owed(H, w, c, top)' => Owed(H, w, requests[w][j].confirms, version)'
      BY <3>8
    <3> QED BY <3>6, <3>7, <3>9
  <2>2. CASE Bounded(requests'[w][j].confirms) /\ Owed(H, w, requests[w][j].confirms, version)'
    BY <1>2, <2>2 DEF Bounded
  <2> QED BY <1>8, <2>1, <2>2
<1>16. ChannelsOK(H, w)'
  BY <1>14, <1>15 DEF ChannelsOK
<1> QED BY <1>3, <1>9, <1>10, <1>11, <1>12, <1>16 DEF Kept
LEMMA ReceiveInv ==
    ASSUME NEW H, Kept(H), NEW w \in Worker, WorkerReceive(w)
    PROVE  Kept(H)'
<1>1. PICK i \in Deliverable(w) :
         ReceivePayload(w, i) \/ ReceiveGap(w, i) \/ ReceiveSnapshot(w, i)
         \/ ReceiveSyncDelta(w, i) \/ SyncFails(w, i)
  BY DEF WorkerReceive
<1>2. UNCHANGED <<diskVars, primaryVars, operationVars>>
  BY DEF WorkerReceive
<1>3. PICK m : m = inbox[w][i]
  OBVIOUS
<1>4. Consume(w, i)
  BY <1>1 DEF ReceivePayload, ReceiveGap, ReceiveSnapshot, ReceiveSyncDelta, SyncFails
<1>5. /\ Types /\ Recorded(H) /\ IndexOK /\ OrderOK /\ CopiesOK(w) /\ ChannelsOK(H, w)
  BY DEF Kept
<1>6. version' = version /\ index' = index /\ unpublished' = unpublished
  BY <1>2 DEF primaryVars, operationVars
<1>7. /\ m \in Sent /\ m \in InFlight(w) /\ InFlight(w)' \subseteq InFlight(w)
      /\ IsResponse(m) => \A x \in InFlight(w)' : Before(m, x)
  BY <1>3, <1>4, <1>5, <1>6, ConsumeFacts
<1>8. /\ MessageOK(H, m)
      /\ m.type \in {"SYNC_DELTA", "SYNC_SNAPSHOT"} => Owed(H, w, m.confirms, Top(m))
  BY <1>5, <1>7 DEF ChannelsOK
<1>9. /\ m.update \in Update /\ m.shards \in Bundle /\ m.confirms \in Confirmation
      /\ m.update.from \in Nat /\ m.update.to \in Nat /\ m.update.changes \in Changes
      /\ \A k \in Key : m.confirms[k] \in Nat
      /\ m.type \in MessageType
  BY <1>7, SentElim, UpdateElim
<1>10. /\ version \in Nat /\ replicaVersion \in [Worker -> Nat]
       /\ replica \in [Worker -> [Key -> Nat]] /\ shards \in [Worker -> Copies]
       /\ shards[w] \in Copies /\ replicaVersion[w] \in Nat /\ replica[w] \in [Key -> Nat]
       /\ \A k \in Key : index[k].version \in Nat
  BY <1>5 DEF Types, PrimaryTypes, WorkerTypes, Copies, Shard
<1>11. Overlay(replica[w], m.update.changes) \in [Key -> Nat]
  BY <1>9, <1>10, OverlayType
<1>12. ASSUME UNCHANGED <<replicaVersion, replica, shards>>
       PROVE  /\ CopyStays(w) /\ shards'[w] \in Copies
              /\ replicaVersion' \in [Worker -> Nat] /\ replica' \in [Worker -> [Key -> Nat]]
              /\ shards' \in [Worker -> Copies]
              /\ \A x \in Worker \ {w} : replicaVersion'[x] = replicaVersion[x] /\ shards'[x] = shards[x]
              /\ replicaVersion'[w] = replicaVersion[w]
  BY <1>10, <1>12 DEF CopyStays
<1>13. ASSUME ApplyUpdate(w, m.update), NEW s \in Copies, shards' = [shards EXCEPT ![w] = s]
       PROVE  /\ shards'[w] = s /\ shards'[w] \in Copies /\ replicaVersion'[w] = m.update.to
              /\ replicaVersion' \in [Worker -> Nat] /\ replica' \in [Worker -> [Key -> Nat]]
              /\ shards' \in [Worker -> Copies]
              /\ \A x \in Worker \ {w} : replicaVersion'[x] = replicaVersion[x] /\ shards'[x] = shards[x]
  BY <1>9, <1>10, <1>11, <1>13 DEF ApplyUpdate
<1>14. ASSUME shards'[w] \in Copies, Merges(w, m) \/ Drops(w) \/ CopyStays(w)
       PROVE  CopyEffect(H, w, m)
  BY <1>5, <1>6, <1>7, <1>8, <1>14, CopyMoves
<1>15. ASSUME m.type \in {"STATE_DELTA", "STATE_SNAPSHOT"}
       PROVE  Confirmable(w, m) /\ \A k \in Key : m.confirms[k] = 0
  <2>1. \A k \in Key : m.confirms[k] = 0
    BY <1>8, <1>15, UnconfirmedType DEF MessageOK
  <2> QED BY <2>1 DEF Confirmable
<1>16. ASSUME CopyEffect(H, w, m), m.type \in {"SYNC_DELTA", "SYNC_SNAPSHOT"},
              NEW top \in Nat, top = Top(m), top <= version, replicaVersion'[w] \in Nat
       PROVE  Owed(H, w, m.confirms, top)'
  <2>1. Owed(H, w, m.confirms, top)
    BY <1>8, <1>16
  <2>2. PICK c \in Confirmation : c = m.confirms
    BY <1>9
  <2>3. Owed(H, w, c, top)'
    BY <1>7, <1>10, <1>16, <2>1, <2>2, OwedMoves
  <2>4. Owed(H, w, c, top)' => Owed(H, w, m.confirms, top)'
    BY <2>2
  <2> QED BY <2>3, <2>4
<1>17. ASSUME m.type = "ANSWER", NEW k \in Key, NEW c \in Nat, c = m.confirms[k], c > 0
       PROVE  /\ k \in DOMAIN m.shards /\ m.shards[k].version = c
              /\ m.update.to \in 1 .. version /\ m.update.from = m.update.to - 1
              /\ H[m.update.to] = [key |-> k, value |-> c]
              /\ NotUndone(w, k, c)'
  <2>1. Confirms(H, m)
    BY <1>8, <1>17 DEF MessageOK
  <2>2. \A x \in InFlight(w)' : Before(m, x)
    BY <1>7, <1>17 DEF IsResponse
  <2>3. NotUndone(w, k, c)'
    BY <1>17, <2>2 DEF NotUndone, Before
  <2> QED BY <1>17, <2>1, <2>3 DEF Confirms
<1>18. m.update.to <= version
  BY <1>8 DEF MessageOK, Tells
<1>20. CASE ReceivePayload(w, i)
  <2>1. /\ m.type \in {"STATE_DELTA", "ANSWER"} /\ Confirm(w, m.confirms) /\ UNCHANGED requests
    BY <1>3, <1>20 DEF ReceivePayload
  <2>2. PICK c0 : c0 = IF Fits(m.update, replicaVersion[w]) THEN m.update.changes ELSE NoChanges
    OBVIOUS
  <2>3. PICK s0 : s0 = Invalidated(shards[w], c0)
    OBVIOUS
  <2>4. PICK s1 : s1 = WithShards(s0, m.shards)
    OBVIOUS
  <2>5. PICK s2 : s2 = Invalidated(s1, m.update.changes)
    OBVIOUS
  <2>6. shards' = [shards EXCEPT ![w] = s2]
    BY <1>3, <1>20, <2>2, <2>3, <2>4, <2>5 DEF ReceivePayload
  <2>7. /\ s0 \in Copies
        /\ \A k \in Key :
              /\ s0[k].shard = shards[w][k].shard
              /\ shards[w][k].stale => s0[k].stale
              /\ /\ k \in DOMAIN c0 /\ shards[w][k].shard.version < c0[k]
                 /\ shards[w][k].shard.loaded
                 => s0[k].stale
    BY <1>10, <2>3, InvalidatedFacts
  <2>8. /\ s1 \in Copies
        /\ \A k \in Key :
              IF k \in DOMAIN m.shards
              THEN /\ s1[k].shard.version = m.shards[k].version
                   /\ s1[k].shard.files = m.shards[k].files
              ELSE s1[k] = s0[k]
    BY <1>9, <2>4, <2>7, WithShardsFacts
  <2>9. /\ s2 \in Copies
        /\ \A k \in Key : s2[k].shard = s1[k].shard /\ (s1[k].stale => s2[k].stale)
    BY <2>5, <2>8, InvalidatedFacts
  <2>10. /\ \A k \in Key :
               IF k \in DOMAIN m.shards
               THEN s2[k].shard.version = m.shards[k].version /\ s2[k].shard.files = m.shards[k].files
               ELSE /\ s2[k].shard = shards[w][k].shard
                    /\ shards[w][k].stale => s2[k].stale
                    /\ /\ Fits(m.update, replicaVersion[w]) /\ k \in DOMAIN m.update.changes
                       /\ shards[w][k].shard.version < m.update.changes[k]
                       /\ shards[w][k].shard.loaded
                       => s2[k].stale
    BY <2>2, <2>7, <2>8, <2>9
  <2>11. /\ shards'[w] = s2 /\ shards' \in [Worker -> Copies]
         /\ \A x \in Worker \ {w} : shards'[x] = shards[x]
    BY <1>10, <2>6, <2>9
  <2>12. /\ replicaVersion' \in [Worker -> Nat] /\ replica' \in [Worker -> [Key -> Nat]]
         /\ \A x \in Worker \ {w} : replicaVersion'[x] = replicaVersion[x]
         /\ replicaVersion'[w] = IF Fits(m.update, replicaVersion[w]) THEN m.update.to
                                                                      ELSE replicaVersion[w]
    <3>1. CASE Fits(m.update, replicaVersion[w])
      <4>1. ApplyUpdate(w, m.update)
        BY <1>3, <1>20, <3>1 DEF ReceivePayload
      <4> QED BY <1>9, <1>10, <1>11, <3>1, <4>1 DEF ApplyUpdate
    <3>2. CASE ~Fits(m.update, replicaVersion[w])
      <4>1. UNCHANGED <<replicaVersion, replica>>
        BY <1>3, <1>20, <3>2 DEF ReceivePayload
      <4> QED BY <1>10, <3>2, <4>1
    <3> QED BY <3>1, <3>2
  <2>13. Merges(w, m)
    BY <2>10, <2>11, <2>12 DEF Merges
  <2>14. CopyEffect(H, w, m)
    BY <1>14, <2>9, <2>11, <2>13
  <2>15. Confirmable(w, m)
    <3>1. CASE m.type = "STATE_DELTA"
      BY <1>15, <3>1
    <3>2. CASE m.type = "ANSWER"
      <4>1. ASSUME NEW k \in Key, NEW c \in Nat, c = m.confirms[k], c > 0
            PROVE  Safe(w, k, c)' /\ NotUndone(w, k, c)'
        <5>1. k \in DOMAIN m.shards /\ m.shards[k].version = c /\ NotUndone(w, k, c)'
          BY <1>17, <3>2, <4>1
        <5>2. shards'[w][k].shard.version = c
          BY <2>10, <2>11, <5>1
        <5> QED BY <5>1, <5>2 DEF Safe
      <4> QED BY <4>1 DEF Confirmable
    <3> QED BY <2>1, <3>1, <3>2
  <2> QED BY <1>2, <1>3, <1>4, <2>1, <2>11, <2>12, <2>14, <2>15, ReceiveKeeps
<1>21. CASE ReceiveGap(w, i)
  <2>1. /\ m.type \in {"STATE_DELTA", "ANSWER"} /\ IsGap(m.update, replicaVersion[w])
        /\ UNCHANGED <<replicaVersion, replica, shards>> /\ UNCHANGED confirmed
    BY <1>3, <1>21 DEF ReceiveGap, workerVars
  <2>2. PICK q : q = Pull("getDeltaSince", w, replicaVersion[w], m.confirms)
    OBVIOUS
  <2>3. /\ q \in Request /\ q.op \in {"getDeltaSince", "getSnapshot"} /\ q.confirms = m.confirms
        /\ Send(w, q)
    BY <1>3, <1>9, <1>10, <1>21, <2>2 DEF ReceiveGap, Pull, Request
  <2>4. CopyEffect(H, w, m)
    BY <1>12, <1>14, <2>1
  <2>5. Bounded(q.confirms)
    BY <1>8, <2>3 DEF MessageOK
  <2>6. Owed(H, w, m.confirms, version)'
    <3>1. CASE m.type = "STATE_DELTA"
      BY <1>15, <3>1 DEF Owed
    <3>2. CASE m.type = "ANSWER"
      <4>1. ASSUME NEW k \in Key, m.confirms[k] > 0
            PROVE  /\ \E n \in 1 .. version' :
                         /\ H[n] = [key |-> k, value |-> m.confirms[k]]
                         /\ replicaVersion'[w] >= n => Safe(w, k, m.confirms[k])'
                   /\ NotUndone(w, k, m.confirms[k])'
        <5>1. PICK c \in Nat : c = m.confirms[k]
          BY <1>9
        <5>2. /\ m.update.to \in 1 .. version /\ H[m.update.to] = [key |-> k, value |-> c]
              /\ NotUndone(w, k, c)'
          BY <1>17, <3>2, <4>1, <5>1
        <5>3. ~(replicaVersion'[w] >= m.update.to)
          BY <1>9, <1>10, <2>1 DEF IsGap, IsStale
        <5>4. NotUndone(w, k, c)' => NotUndone(w, k, m.confirms[k])'
          BY <5>1
        <5> QED BY <1>6, <5>1, <5>2, <5>3, <5>4
      <4> QED BY <4>1 DEF Owed
    <3> QED BY <2>1, <3>1, <3>2
  <2>7. Owed(H, w, m.confirms, version)' => Owed(H, w, q.confirms, version)'
    BY <2>3
  <2> QED BY <1>2, <1>3, <1>4, <1>12, <2>1, <2>3, <2>4, <2>5, <2>6, <2>7, ReceiveKeeps
<1>22. CASE ReceiveSnapshot(w, i)
  <2>1. /\ m.type \in {"STATE_SNAPSHOT", "SYNC_SNAPSHOT"} /\ Confirm(w, m.confirms)
        /\ UNCHANGED requests
    BY <1>3, <1>22 DEF ReceiveSnapshot
  <2>2. /\ CopyEffect(H, w, m)
        /\ replicaVersion' \in [Worker -> Nat] /\ replica' \in [Worker -> [Key -> Nat]]
        /\ shards' \in [Worker -> Copies]
        /\ \A x \in Worker \ {w} : replicaVersion'[x] = replicaVersion[x] /\ shards'[x] = shards[x]
        /\ replicaVersion'[w] >= m.update.to
    <3>1. CASE m.update.to < replicaVersion[w]
      <4>1. UNCHANGED <<replicaVersion, replica, shards>>
        BY <1>3, <1>22, <3>1 DEF ReceiveSnapshot
      <4>2. CopyEffect(H, w, m)
        BY <1>12, <1>14, <4>1
      <4> QED BY <1>9, <1>10, <1>12, <3>1, <4>1, <4>2
    <3>2. CASE ~(m.update.to < replicaVersion[w])
      <4>1. PICK s : s = [k \in Key |-> [shard |-> Unloaded, stale |-> FALSE]]
        OBVIOUS
      <4>2. s \in Copies /\ \A k \in Key : s[k].shard = Unloaded
        BY <4>1, NoFilesType DEF Copies
      <4>3. ApplyUpdate(w, m.update) /\ shards' = [shards EXCEPT ![w] = s]
        BY <1>3, <1>22, <3>2, <4>1 DEF ReceiveSnapshot
      <4>4. /\ shards'[w] = s /\ shards'[w] \in Copies /\ replicaVersion'[w] = m.update.to
            /\ replicaVersion' \in [Worker -> Nat] /\ replica' \in [Worker -> [Key -> Nat]]
            /\ shards' \in [Worker -> Copies]
            /\ \A x \in Worker \ {w} : replicaVersion'[x] = replicaVersion[x] /\ shards'[x] = shards[x]
        BY <1>13, <4>2, <4>3
      <4>5. Drops(w)
        BY <4>2, <4>4 DEF Drops
      <4>6. CopyEffect(H, w, m)
        BY <1>14, <4>4, <4>5
      <4> QED BY <1>9, <4>4, <4>6
    <3> QED BY <3>1, <3>2
  <2>3. Confirmable(w, m)
    <3>1. CASE m.type = "STATE_SNAPSHOT"
      BY <1>15, <3>1
    <3>2. CASE m.type = "SYNC_SNAPSHOT"
      <4>1. PICK top \in Nat : top = Top(m) /\ top = m.update.to
        BY <1>9, <3>2 DEF Top
      <4>2. replicaVersion'[w] \in Nat
        BY <2>2
      <4>3. Owed(H, w, m.confirms, top)'
        BY <1>16, <1>18, <2>2, <3>2, <4>1, <4>2
      <4> QED BY <1>7, <2>2, <4>1, <4>2, <4>3, ReachConfirms
    <3> QED BY <2>1, <3>1, <3>2
  <2> QED BY <1>2, <1>3, <1>4, <2>1, <2>2, <2>3, ReceiveKeeps
<1>23. CASE ReceiveSyncDelta(w, i)
  <2>1. /\ m.type = "SYNC_DELTA" /\ ~IsGap(m.update, replicaVersion[w])
    BY <1>3, <1>23 DEF ReceiveSyncDelta
  <2>2. /\ CopyEffect(H, w, m)
        /\ replicaVersion' \in [Worker -> Nat] /\ replica' \in [Worker -> [Key -> Nat]]
        /\ shards' \in [Worker -> Copies]
        /\ \A x \in Worker \ {w} : replicaVersion'[x] = replicaVersion[x] /\ shards'[x] = shards[x]
        /\ replicaVersion'[w] >= m.update.to
    <3>1. CASE Fits(m.update, replicaVersion[w])
      <4>1. PICK s : s = Invalidated(shards[w], m.update.changes)
        OBVIOUS
      <4>2. /\ s \in Copies
            /\ \A k \in Key :
                  /\ s[k].shard = shards[w][k].shard
                  /\ shards[w][k].stale => s[k].stale
                  /\ /\ k \in DOMAIN m.update.changes
                     /\ shards[w][k].shard.version < m.update.changes[k]
                     /\ shards[w][k].shard.loaded
                     => s[k].stale
        BY <1>10, <4>1, InvalidatedFacts
      <4>3. ApplyUpdate(w, m.update) /\ shards' = [shards EXCEPT ![w] = s]
        BY <1>3, <1>23, <3>1, <4>1 DEF ReceiveSyncDelta
      <4>4. /\ shards'[w] = s /\ shards'[w] \in Copies /\ replicaVersion'[w] = m.update.to
            /\ replicaVersion' \in [Worker -> Nat] /\ replica' \in [Worker -> [Key -> Nat]]
            /\ shards' \in [Worker -> Copies]
            /\ \A x \in Worker \ {w} : replicaVersion'[x] = replicaVersion[x] /\ shards'[x] = shards[x]
        BY <1>13, <4>2, <4>3
      <4>5. DOMAIN m.shards = {}
        BY <1>8, <2>1, NoShardsType DEF MessageOK
      <4>6. Merges(w, m)
        BY <3>1, <4>2, <4>4, <4>5 DEF Merges
      <4>7. CopyEffect(H, w, m)
        BY <1>14, <4>4, <4>6
      <4> QED BY <1>9, <4>4, <4>7
    <3>2. CASE ~Fits(m.update, replicaVersion[w])
      <4>1. UNCHANGED <<replicaVersion, replica, shards>>
        BY <1>3, <1>23, <3>2 DEF ReceiveSyncDelta
      <4>2. CopyEffect(H, w, m)
        BY <1>12, <1>14, <4>1
      <4>3. m.update.to <= replicaVersion[w]
        BY <2>1, <3>2 DEF IsGap, Fits, IsStale
      <4> QED BY <1>9, <1>10, <1>12, <4>1, <4>2, <4>3
    <3> QED BY <3>1, <3>2
  <2>3. replicaVersion'[w] \in Nat
    BY <2>2
  <2>4. CASE m.update = NoDelta
    <3>1. PICK q : q = Pull("getSnapshot", w, 0, m.confirms)
      OBVIOUS
    <3>2. /\ q \in Request /\ q.op \in {"getDeltaSince", "getSnapshot"} /\ q.confirms = m.confirms
          /\ Send(w, q) /\ UNCHANGED confirmed
      BY <1>3, <1>9, <1>23, <2>4, <3>1 DEF ReceiveSyncDelta, Pull, Request
    <3>3. PICK top \in Nat : top = Top(m) /\ top = version
      BY <1>10, <2>1, <2>4 DEF Top
    <3>4. Owed(H, w, m.confirms, top)'
      BY <1>10, <1>16, <2>1, <2>2, <2>3, <3>3
    <3>5. Owed(H, w, m.confirms, top)' => Owed(H, w, q.confirms, version)'
      BY <1>6, <3>2, <3>3
    <3>6. Bounded(q.confirms)
      BY <1>8, <3>2 DEF MessageOK
    <3> QED BY <1>2, <1>3, <1>4, <2>2, <3>2, <3>4, <3>5, <3>6, ReceiveKeeps
  <2>5. CASE m.update # NoDelta
    <3>1. Confirm(w, m.confirms) /\ UNCHANGED requests
      BY <1>3, <1>23, <2>5 DEF ReceiveSyncDelta
    <3>2. PICK top \in Nat : top = Top(m) /\ top = m.update.to
      BY <1>9, <2>5 DEF Top
    <3>3. Owed(H, w, m.confirms, top)'
      BY <1>16, <1>18, <2>1, <2>2, <2>3, <3>2
    <3>4. Confirmable(w, m)
      BY <1>7, <2>2, <2>3, <3>2, <3>3, ReachConfirms
    <3> QED BY <1>2, <1>3, <1>4, <2>2, <3>1, <3>4, ReceiveKeeps
  <2> QED BY <2>4, <2>5
<1>24. CASE SyncFails(w, i)
  <2>1. UNCHANGED <<replicaVersion, replica, shards>> /\ UNCHANGED confirmed /\ UNCHANGED requests
    BY <1>24 DEF SyncFails, workerVars
  <2>2. CopyEffect(H, w, m)
    BY <1>12, <1>14, <2>1
  <2> QED BY <1>2, <1>3, <1>4, <1>12, <2>1, <2>2, ReceiveKeeps
<1> QED BY <1>1, <1>20, <1>21, <1>22, <1>23, <1>24
-----------------------------------------------------------------------------
(* The primary sends and settles, and no worker handles anything.          *)

LEMMA SendStep ==
    ASSUME NEW H, Kept(H), NEW G, Onward(H, G), UNCHANGED workerVars,
           Types', Recorded(G)', LogRecords(G)', IndexOK', ContentsOK', OrderOK',
           \A w \in Worker : OnlyNewest(w),
           \A w \in Worker : \A m \in InFlight(w)' \ InFlight(w) :
              /\ MessageOK(G, m)'
              /\ m.type \in {"SYNC_DELTA", "SYNC_SNAPSHOT"} => Owed(G, w, m.confirms, Top(m))',
           \A w \in Worker : \A i \in DOMAIN requests'[w] :
              \E j \in DOMAIN requests[w] : requests'[w][i] = requests[w][j]
    PROVE  Kept(G)'
<1>1. /\ Types /\ \A w \in Worker : CopiesOK(w) /\ ChannelsOK(H, w)
      /\ replicaVersion' = replicaVersion /\ shards' = shards /\ confirmed' = confirmed
  BY DEF Kept, workerVars
<1>2. ASSUME NEW w \in Worker
      PROVE  CopiesOK(w)' /\ ChannelsOK(G, w)'
  <2>1. CopyStays(w) /\ confirmed'[w] = confirmed[w] /\ OnlyNewest(w)
    BY <1>1 DEF CopyStays
  <2>2. \A m \in InFlight(w)' \ InFlight(w) :
              /\ MessageOK(G, m)'
              /\ m.type \in {"SYNC_DELTA", "SYNC_SNAPSHOT"} => Owed(G, w, m.confirms, Top(m))'
    OBVIOUS
  <2> QED BY <1>1, <2>1, <2>2, WorkerKeeps
<1> QED BY <1>2 DEF Kept

\* What a result leaves in the inbox of a worker: the broadcast, if it has one, and
\* the answer, if it is this worker's.
LEMMA PublishedInbox ==
    ASSUME NEW s \in Seq(Sent), NEW b \in Sent, NEW m \in Sent,
           NEW bc \in BOOLEAN, NEW mine \in BOOLEAN,
           NEW base, base = IF bc THEN Append(s, b) ELSE s,
           NEW t, t = IF mine THEN Append(base, m) ELSE base
    PROVE  /\ t \in Seq(Sent)
           /\ \A a \in DOMAIN t :
                 \/ a \in DOMAIN s /\ t[a] = s[a]
                 \/ a > Len(s) /\ t[a] = b
                 \/ a > Len(s) /\ t[a] = m /\ mine /\ \A c \in DOMAIN t : c <= a
           /\ DOMAIN s = 1 .. Len(s) /\ Len(s) \in Nat /\ \A a \in DOMAIN t : a \in Nat
<1>1. /\ base \in Seq(Sent) /\ Len(base) >= Len(s)
      /\ \A a \in DOMAIN base :
            \/ a \in DOMAIN s /\ base[a] = s[a]
            \/ a > Len(s) /\ base[a] = b
  <2>1. CASE bc
    BY <2>1, AppendIs
  <2>2. CASE ~bc
    BY <2>2
  <2> QED BY <2>1, <2>2
<1>2. Len(s) \in Nat /\ Len(base) \in Nat /\ DOMAIN base = 1 .. Len(base) /\ DOMAIN s = 1 .. Len(s)
  BY <1>1
<1>3. CASE mine
  <2>1. /\ t \in Seq(Sent) /\ DOMAIN t = 1 .. (Len(base) + 1)
        /\ \A a \in 1 .. Len(base) : t[a] = base[a]
        /\ t[Len(base) + 1] = m
    BY <1>1, <1>3, AppendIs
  <2>2. ASSUME NEW a \in DOMAIN t
        PROVE  \/ a \in DOMAIN s /\ t[a] = s[a]
               \/ a > Len(s) /\ t[a] = b
               \/ a > Len(s) /\ t[a] = m /\ mine /\ \A c \in DOMAIN t : c <= a
    <3>1. CASE a \in 1 .. Len(base)
      BY <1>1, <1>2, <2>1, <3>1
    <3>2. CASE a = Len(base) + 1
      BY <1>1, <1>2, <1>3, <2>1, <3>2
    <3> QED BY <1>2, <2>1, <3>1, <3>2
  <2> QED BY <1>2, <2>1, <2>2
<1>4. CASE ~mine
  BY <1>1, <1>2, <1>4
<1> QED BY <1>3, <1>4

LEMMA PublishInv ==
    ASSUME NEW H, Kept(H), Publish
    PROVE  Kept(H)'
<1>1. PICK i \in DOMAIN unpublished :
        /\ \A j \in 1 .. (i - 1) : ~unpublished[j].broadcast
        /\ inbox' = [w \in Worker |->
              IF w = unpublished[i].worker
              THEN Append(IF unpublished[i].broadcast
                          THEN Append(inbox[w], Broadcast("STATE_DELTA", unpublished[i].message.update))
                          ELSE inbox[w], unpublished[i].message)
              ELSE IF unpublished[i].broadcast
                   THEN Append(inbox[w], Broadcast("STATE_DELTA", unpublished[i].message.update))
                   ELSE inbox[w]]
        /\ unpublished' = RemoveAt(unpublished, i)
  BY DEF Publish
<1>2. /\ disk' = disk /\ edits' = edits /\ version' = version /\ markers' = markers
      /\ deltaLog' = deltaLog /\ index' = index /\ shardCounter' = shardCounter
      /\ queue' = queue /\ running' = running /\ joined' = joined /\ requests' = requests
      /\ UNCHANGED workerVars
  BY DEF Publish, diskVars, primaryVars
<1>3. /\ Types /\ Recorded(H) /\ LogRecords(H) /\ IndexOK /\ ContentsOK /\ OrderOK
      /\ \A w \in Worker : CopiesOK(w) /\ ChannelsOK(H, w)
  BY DEF Kept
<1>4. /\ inbox \in [Worker -> Seq(Sent)] /\ unpublished \in Seq(Settled)
      /\ DOMAIN unpublished = 1 .. Len(unpublished) /\ Len(unpublished) \in Nat
      /\ i \in 1 .. Len(unpublished)
  BY <1>3 DEF Types, PrimaryTypes, ChannelTypes
<1>5. PICK r : r = unpublished[i]
  OBVIOUS
<1>6. PICK m : m = r.message
  OBVIOUS
<1>7. /\ r.worker \in Worker /\ r.broadcast \in BOOLEAN /\ m \in Sent
  <2>1. r \in Settled
    BY <1>4, <1>5
  <2> QED BY <1>6, <2>1 DEF Settled
<1>8. m \in InFlight(r.worker) /\ MessageOK(H, m)
  BY <1>3, <1>5, <1>6, <1>7 DEF InFlight, ChannelsOK
<1>9. PICK b : b = Broadcast("STATE_DELTA", m.update)
  OBVIOUS
<1>10. /\ b \in Sent /\ b.shards = NoShards /\ b.confirms = Unconfirmed /\ b.type = "STATE_DELTA"
       /\ b.update = m.update /\ DOMAIN b.shards = {}
  BY <1>7, <1>9, SentElim, NoShardsType, UnconfirmedType DEF Broadcast, Sent, MessageType
<1>11. ASSUME NEW x \in Sent
       PROVE  Before(x, b) /\ Before(b, x)
  <2>1. \A k \in DOMAIN x.shards : k \in Key /\ x.shards[k].version \in Nat
    BY SentElim
  <2> QED BY <1>10, <2>1, UnconfirmedType DEF Before
<1>12. ASSUME NEW w \in Worker
       PROVE  /\ inbox'[w] \in Seq(Sent)
              /\ \A a \in DOMAIN inbox'[w] :
                    \/ a \in DOMAIN inbox[w] /\ inbox'[w][a] = inbox[w][a]
                    \/ a > Len(inbox[w]) /\ inbox'[w][a] = b
                    \/ /\ a > Len(inbox[w]) /\ inbox'[w][a] = m /\ w = r.worker
                       /\ \A c \in DOMAIN inbox'[w] : c <= a
              /\ DOMAIN inbox[w] = 1 .. Len(inbox[w]) /\ Len(inbox[w]) \in Nat
              /\ \A a \in DOMAIN inbox'[w] : a \in Nat
  <2>1. PICK s \in Seq(Sent) : s = inbox[w]
    BY <1>4
  <2>2. PICK base : base = IF r.broadcast THEN Append(s, b) ELSE s
    OBVIOUS
  <2>3. PICK mine \in BOOLEAN : mine = (w = r.worker)
    OBVIOUS
  <2>4. PICK t : t = IF mine THEN Append(base, m) ELSE base
    OBVIOUS
  <2>5. inbox'[w] = t
    BY <1>1, <1>5, <1>6, <1>9, <2>1, <2>2, <2>3, <2>4
  <2>6. /\ t \in Seq(Sent)
        /\ \A a \in DOMAIN t :
              \/ a \in DOMAIN s /\ t[a] = s[a]
              \/ a > Len(s) /\ t[a] = b
              \/ a > Len(s) /\ t[a] = m /\ mine /\ \A c \in DOMAIN t : c <= a
        /\ DOMAIN s = 1 .. Len(s) /\ Len(s) \in Nat /\ \A a \in DOMAIN t : a \in Nat
    BY <1>7, <1>10, <2>2, <2>4, PublishedInbox
  <2> QED BY <2>1, <2>3, <2>5, <2>6
<1>13. PICK u : u = RemoveAt(unpublished, i)
  OBVIOUS
<1>14. /\ u \in Seq(Settled) /\ unpublished' = u
       /\ DOMAIN u = 1 .. (Len(unpublished) - 1)
       /\ \A j \in 1 .. (Len(unpublished) - 1) :
             u[j] = IF j < i THEN unpublished[j] ELSE unpublished[j + 1]
  BY <1>1, <1>4, <1>13, RemoveAtIs
<1>15. ASSUME NEW j \in DOMAIN u
       PROVE  /\ j \in Nat
              /\ \E jj \in DOMAIN unpublished :
                    /\ jj # i /\ u[j] = unpublished[jj] /\ jj = (IF j < i THEN j ELSE j + 1)
  BY <1>4, <1>14
<1>16. ASSUME NEW w \in Worker, NEW x \in InFlight(w)'
       PROVE  x \in InFlight(w) \/ x = b
  <2>1. CASE \E a \in DOMAIN inbox'[w] : x = inbox'[w][a]
    BY <1>8, <1>12, <2>1 DEF InFlight
  <2>2. CASE \E j \in DOMAIN u : u[j].worker = w /\ x = u[j].message
    BY <1>15, <2>2 DEF InFlight
  <2> QED BY <1>14, <1>16, <2>1, <2>2 DEF InFlight
<1>17. Types'
  <2>1. inbox' \in [Worker -> Seq(Sent)]
    <3>1. inbox' = [w \in Worker |-> inbox'[w]]
      BY <1>1
    <3> QED BY <1>12, <3>1
  <2> QED BY <1>2, <1>3, <1>14, <2>1 DEF Types, PrimaryTypes, WorkerTypes, ChannelTypes, workerVars
<1>18. Recorded(H)' /\ LogRecords(H)' /\ IndexOK' /\ ContentsOK'
  <2>1. Recorded(H)' /\ LogRecords(H)'
    BY <1>2, <1>3 DEF Recorded, LogRecords, IsLast, Touches
  <2>2. IndexOK' /\ ContentsOK'
    BY <1>2, <1>3 DEF IndexOK, ContentsOK
  <2> QED BY <2>1, <2>2
<1>19. OrderOK'
  <2>1. ASSUME NEW w \in Worker, NEW a \in DOMAIN inbox'[w], NEW c \in DOMAIN inbox'[w], a < c
        PROVE  Before(inbox'[w][a], inbox'[w][c])
    <3>0. a \in Nat /\ c \in Nat /\ inbox'[w][a] \in Sent /\ inbox'[w][c] \in Sent
          /\ Len(inbox[w]) \in Nat
      BY <1>12
    <3>1. CASE c \in DOMAIN inbox[w] /\ inbox'[w][c] = inbox[w][c]
      <4>1. a \in DOMAIN inbox[w] /\ inbox'[w][a] = inbox[w][a]
        BY <1>12, <2>1, <3>0, <3>1
      <4> QED BY <1>3, <2>1, <3>1, <4>1 DEF OrderOK
    <3>2. CASE inbox'[w][c] = b
      BY <1>11, <3>0, <3>2
    <3>3. CASE c > Len(inbox[w]) /\ inbox'[w][c] = m /\ w = r.worker
      <4>1. CASE a \in DOMAIN inbox[w] /\ inbox'[w][a] = inbox[w][a]
        BY <1>3, <1>5, <1>6, <3>3, <4>1 DEF OrderOK
      <4>2. CASE inbox'[w][a] = b
        BY <1>11, <3>0, <4>2
      <4>3. ~(\A d \in DOMAIN inbox'[w] : d <= a)
        BY <2>1, <3>0
      <4> QED BY <1>12, <4>1, <4>2, <4>3
    <3> QED BY <1>12, <3>1, <3>2, <3>3
  <2>2. ASSUME NEW w \in Worker, NEW a \in DOMAIN inbox'[w], NEW j \in DOMAIN u, u[j].worker = w
        PROVE  Before(inbox'[w][a], u[j].message)
    <3>1. PICK jj \in DOMAIN unpublished : jj # i /\ u[j] = unpublished[jj]
      BY <1>15
    <3>2. u[j].message \in Sent
      <4>1. u[j] \in Settled
        BY <1>14
      <4> QED BY <4>1 DEF Settled
    <3>3. CASE a \in DOMAIN inbox[w] /\ inbox'[w][a] = inbox[w][a]
      BY <1>3, <2>2, <3>1, <3>3 DEF OrderOK
    <3>4. CASE inbox'[w][a] = b
      BY <1>11, <3>2, <3>4
    <3>5. CASE inbox'[w][a] = m /\ w = r.worker
      <4>1. ~(jj < i /\ unpublished[jj].broadcast)
        BY <1>1, <1>4
      <4>2. Before(unpublished[i].message, unpublished[jj].message)
        BY <1>3, <1>5, <2>2, <3>1, <3>5, <4>1 DEF OrderOK
      <4> QED BY <1>5, <1>6, <3>1, <3>5, <4>2
    <3> QED BY <1>12, <3>3, <3>4, <3>5
  <2>3. ASSUME NEW j \in DOMAIN u, NEW l \in DOMAIN u, j # l, u[j].worker = u[l].worker
        PROVE  (l < j /\ u[l].broadcast) \/ Before(u[j].message, u[l].message)
    <3>1. PICK jj \in DOMAIN unpublished :
             u[j] = unpublished[jj] /\ jj = (IF j < i THEN j ELSE j + 1)
      BY <1>15
    <3>2. PICK ll \in DOMAIN unpublished :
             u[l] = unpublished[ll] /\ ll = (IF l < i THEN l ELSE l + 1)
      BY <1>15
    <3>3. j \in Nat /\ l \in Nat /\ i \in Nat
      BY <1>4, <1>15
    <3>4. jj # ll /\ (ll < jj => l < j)
      BY <2>3, <3>1, <3>2, <3>3
    <3> QED BY <1>3, <2>3, <3>1, <3>2, <3>4 DEF OrderOK
  <2>4. \A j \in DOMAIN u : u[j].message.type = "ANSWER"
    BY <1>3, <1>15 DEF OrderOK
  <2> QED BY <1>14, <2>1, <2>2, <2>3, <2>4 DEF OrderOK, Before
<1>20. Onward(H, H)
  BY <1>2, <1>3, StillOnward
<1>21. MessageOK(H, b)'
  <2>1. Tells(H, b.update)
    BY <1>8, <1>10 DEF MessageOK
  <2>2. \A k \in Key : index[k].version \in Nat
    BY <1>3 DEF Types, PrimaryTypes, Shard
  <2>3. MessageOK(H, b)
    BY <1>10, <2>1, <2>2, UnconfirmedType DEF MessageOK, Bounded
  <2> QED BY <1>10, <1>20, <2>3, MessageStays
<1>22. \A w \in Worker : OnlyNewest(w)
  BY <1>10, <1>16 DEF OnlyNewest, Newest
<1>23. \A w \in Worker : \A x \in InFlight(w)' \ InFlight(w) :
          /\ MessageOK(H, x)'
          /\ x.type \in {"SYNC_DELTA", "SYNC_SNAPSHOT"} => Owed(H, w, x.confirms, Top(x))'
  <2>1. ASSUME NEW w \in Worker, NEW x \in InFlight(w)' \ InFlight(w)
        PROVE  /\ MessageOK(H, x)' /\ x.type \notin {"SYNC_DELTA", "SYNC_SNAPSHOT"}
    <3>1. x = b
      BY <1>16, <2>1
    <3>2. MessageOK(H, b)' => MessageOK(H, x)'
      BY <3>1
    <3> QED BY <1>10, <1>21, <3>1, <3>2
  <2> QED BY <2>1
<1> QED BY <1>2, <1>17, <1>18, <1>19, <1>20, <1>22, <1>23, SendStep
LEMMA PrimaryReceiveInv ==
    ASSUME NEW H, Kept(H), NEW w \in Worker, PrimaryReceive(w)
    PROVE  Kept(H)'
<1>1. PICK q : q = Head(requests[w])
  OBVIOUS
<1>2. /\ requests[w] # <<>> /\ unpublished = <<>>
      /\ requests' = [requests EXCEPT ![w] = Tail(@)]
      /\ disk' = disk /\ edits' = edits /\ version' = version /\ markers' = markers
      /\ deltaLog' = deltaLog /\ index' = index /\ shardCounter' = shardCounter
      /\ running' = running /\ unpublished' = unpublished
      /\ UNCHANGED workerVars
  BY DEF PrimaryReceive, diskVars, primaryVars
<1>3. /\ Types /\ Recorded(H) /\ LogRecords(H) /\ IndexOK /\ ContentsOK /\ OrderOK
      /\ \A x \in Worker : CopiesOK(x) /\ ChannelsOK(H, x)
  BY DEF Kept
<1>4. /\ inbox \in [Worker -> Seq(Sent)] /\ inbox[w] \in Seq(Sent)
      /\ requests \in [Worker -> Seq(Request)] /\ requests[w] \in Seq(Request)
      /\ queue \in Seq(Queued) /\ joined \in [Key -> Seq(Worker)]
      /\ version \in Nat /\ markers \in [Key -> Nat] /\ index \in [Key -> Shard]
      /\ \A k \in Key : index[k].version \in Nat
  BY <1>3 DEF Types, PrimaryTypes, ChannelTypes, Shard
<1>5. /\ q \in Request /\ q = requests[w][1] /\ 1 \in DOMAIN requests[w]
      /\ Tail(requests[w]) \in Seq(Request)
      /\ \A j \in DOMAIN Tail(requests[w]) :
            j + 1 \in DOMAIN requests[w] /\ Tail(requests[w])[j] = requests[w][j + 1]
  BY <1>1, <1>2, <1>4, TailIs
<1>6. /\ requests' \in [Worker -> Seq(Request)]
      /\ \A x \in Worker : \A i \in DOMAIN requests'[x] :
            \E j \in DOMAIN requests[x] : requests'[x][i] = requests[x][j]
  BY <1>2, <1>4, <1>5
<1>7. /\ q.op \in {"commit", "auth", "load", "getDeltaSince", "getSnapshot"}
      /\ q.op \in {"commit", "auth", "load"} =>
            q.key \in Key /\ q.files \in SUBSET File /\ q.known \in Nat /\ q \in Queued
      /\ q.op \in {"getDeltaSince", "getSnapshot"} => q.from \in Nat /\ q.confirms \in Confirmation
  BY <1>5 DEF Request, Queued
<1>8. DOMAIN unpublished = {}
  <2>1. DOMAIN <<>> = {}
    OBVIOUS
  <2> QED BY <1>2, <2>1
<1>9. Onward(H, H)
  BY <1>2, <1>3, StillOnward
<1>10. Recorded(H)' /\ LogRecords(H)' /\ IndexOK' /\ ContentsOK'
  <2>1. Recorded(H)' /\ LogRecords(H)'
    BY <1>2, <1>3 DEF Recorded, LogRecords, IsLast, Touches
  <2>2. IndexOK' /\ ContentsOK'
    BY <1>2, <1>3 DEF IndexOK, ContentsOK
  <2> QED BY <2>1, <2>2
<1>11. ASSUME UNCHANGED inbox, queue' \in Seq(Queued), joined' \in [Key -> Seq(Worker)]
       PROVE  Kept(H)'
  <2>1. Types'
    BY <1>2, <1>3, <1>6, <1>11 DEF Types, PrimaryTypes, WorkerTypes, ChannelTypes, workerVars
  <2>2. OrderOK'
    BY <1>2, <1>3, <1>11 DEF OrderOK
  <2>3. \A x \in Worker : InFlight(x)' = InFlight(x)
    BY <1>2, <1>11 DEF InFlight
  <2>4. \A x \in Worker : OnlyNewest(x)
    BY <2>3 DEF OnlyNewest
  <2> QED BY <1>2, <1>6, <1>9, <1>10, <2>1, <2>2, <2>3, <2>4, SendStep
<1>12. CASE AnsweredAtOnce(q)
  <2>1. inbox' = [inbox EXCEPT ![w] = Append(@, Reply(q))] /\ queue' = queue /\ joined' = joined
    BY <1>1, <1>12 DEF PrimaryReceive
  <2>2. PICK m : m = Reply(q)
    OBVIOUS
  <2>3. ASSUME q.op \in {"getDeltaSince", "getSnapshot"}
        PROVE  Bounded(q.confirms) /\ Owed(H, w, q.confirms, version)
    BY <1>3, <1>5, <2>3 DEF ChannelsOK
  <2>4. /\ m \in Sent /\ Newest(m) /\ MessageOK(H, m)
        /\ m.type \in {"SYNC_DELTA", "SYNC_SNAPSHOT"} =>
              Top(m) = version /\ Bounded(m.confirms) /\ Owed(H, w, m.confirms, version)
    <3>1. CASE q.op = "load"
      <4>1. PICK bundle : bundle = CurrentShard(q)
        OBVIOUS
      <4>2. m = Answer("ANSWER", NoDelta, bundle, Unconfirmed)
        BY <2>2, <3>1, <4>1 DEF Reply
      <4>3. /\ bundle \in Bundle /\ DOMAIN bundle \in SUBSET Key
            /\ \A k \in DOMAIN bundle : bundle[k] = index[k]
        <5>1. CASE bundle = NoShards
          BY <5>1, NoShardsType
        <5>2. CASE bundle = Only(q.key, index[q.key])
          <6>1. PICK k \in Key, x \in Shard : k = q.key /\ x = index[k]
            BY <1>4, <1>7, <3>1
          <6>2. bundle = Only(k, x)
            BY <5>2, <6>1
          <6>3. bundle \in Bundle /\ DOMAIN bundle = {k} /\ bundle[k] = x
            BY <6>2, OnlyType
          <6> QED BY <6>1, <6>3
        <5> QED BY <4>1, <5>1, <5>2 DEF CurrentShard
      <4>4. /\ m.type = "ANSWER" /\ m.update = NoDelta /\ m.shards = bundle
            /\ m.confirms = Unconfirmed
        BY <4>2 DEF Answer
      <4>5. m \in Sent
        BY <4>2, <4>3, NoDeltaFacts, UnconfirmedType DEF Answer, Sent, MessageType
      <4>6. Tells(H, NoDelta)
        BY <1>4, NoDeltaFacts DEF Tells
      <4>7. Newest(m)
        BY <1>4, <4>3, <4>4 DEF Newest
      <4>8. MessageOK(H, m)
        BY <1>4, <4>3, <4>4, <4>6, UnconfirmedType DEF MessageOK, Confirms, Bounded, Dated
      <4> QED BY <4>4, <4>5, <4>7, <4>8
    <3>2. CASE q.op = "getDeltaSince"
      <4>1. PICK d : d = DeltaSince(deltaLog, version, q.from)
        OBVIOUS
      <4>2. m = Answer("SYNC_DELTA", d, NoShards, q.confirms)
        BY <2>2, <3>2, <4>1 DEF Reply
      <4>3. d \in Update /\ Tells(H, d) /\ (d # NoDelta => d.to = version)
        BY <1>3, <1>7, <3>2, <4>1, DeltaSinceTells DEF Types
      <4>4. /\ m.type = "SYNC_DELTA" /\ m.update = d /\ m.shards = NoShards
            /\ m.confirms = q.confirms
        BY <4>2 DEF Answer
      <4>5. m \in Sent
        BY <1>7, <3>2, <4>2, <4>3, NoShardsType DEF Answer, Sent, MessageType
      <4>6. Newest(m) /\ MessageOK(H, m)
        BY <2>3, <3>2, <4>3, <4>4, NoShardsType DEF Newest, MessageOK
      <4>7. Top(m) = version
        BY <4>3, <4>4 DEF Top
      <4> QED BY <2>3, <3>2, <4>4, <4>5, <4>6, <4>7
    <3>3. CASE q.op = "getSnapshot"
      <4>1. PICK d : d = Snapshot(version, markers)
        OBVIOUS
      <4>2. m = Answer("SYNC_SNAPSHOT", d, NoShards, q.confirms)
        BY <2>2, <3>3, <4>1 DEF Reply
      <4>3. d \in Update /\ d.from = version /\ d.to = version
        BY <1>4, <4>1, SnapshotFacts
      <4>4. Tells(H, d)
        BY <1>4, <4>3 DEF Tells
      <4>5. /\ m.type = "SYNC_SNAPSHOT" /\ m.update = d /\ m.shards = NoShards
            /\ m.confirms = q.confirms
        BY <4>2 DEF Answer
      <4>6. m \in Sent
        BY <1>7, <3>3, <4>2, <4>3, NoShardsType DEF Answer, Sent, MessageType
      <4>7. Newest(m) /\ MessageOK(H, m)
        BY <2>3, <3>3, <4>4, <4>5, NoShardsType DEF Newest, MessageOK
      <4>8. Top(m) = version
        BY <4>3, <4>5 DEF Top
      <4> QED BY <2>3, <3>3, <4>5, <4>6, <4>7, <4>8
    <3> QED BY <1>12, <3>1, <3>2, <3>3 DEF AnsweredAtOnce
  <2>5. PICK s : s = Append(inbox[w], m)
    OBVIOUS
  <2>6. /\ s \in Seq(Sent) /\ DOMAIN s = 1 .. (Len(inbox[w]) + 1)
        /\ \A i \in 1 .. Len(inbox[w]) : s[i] = inbox[w][i]
        /\ s[Len(inbox[w]) + 1] = m
        /\ DOMAIN inbox[w] = 1 .. Len(inbox[w]) /\ Len(inbox[w]) \in Nat
    BY <1>4, <2>4, <2>5, AppendIs
  <2>7. /\ inbox' \in [Worker -> Seq(Sent)] /\ inbox'[w] = s
        /\ \A x \in Worker \ {w} : inbox'[x] = inbox[x]
    BY <1>4, <2>1, <2>2, <2>5, <2>6
  <2>8. Types'
    BY <1>2, <1>3, <1>6, <2>1, <2>7 DEF Types, PrimaryTypes, WorkerTypes, ChannelTypes, workerVars
  <2>9. \A x \in Worker \ {w} : InFlight(x)' = InFlight(x)
    BY <1>2, <2>7 DEF InFlight
  <2>10. \A y \in InFlight(w)' : y \in InFlight(w) \/ y = m
    <3>1. ASSUME NEW i \in DOMAIN s
          PROVE  s[i] \in InFlight(w) \/ s[i] = m
      <4>1. i \in 1 .. Len(inbox[w]) \/ i = Len(inbox[w]) + 1
        BY <2>6
      <4> QED BY <2>6, <4>1 DEF InFlight
    <3> QED BY <1>2, <1>8, <2>7, <3>1 DEF InFlight
  <2>11. \A x \in Worker : OnlyNewest(x)
    BY <2>4, <2>9, <2>10 DEF OnlyNewest
  <2>12. OrderOK'
    <3>1. ASSUME NEW i \in DOMAIN inbox[w]
          PROVE  Before(inbox[w][i], m)
      <4>1. inbox[w][i] \in InFlight(w) /\ inbox[w][i] \in Sent
        BY <1>4 DEF InFlight
      <4>2. Bounded(inbox[w][i].confirms) /\ \A k \in Key : inbox[w][i].confirms[k] \in Nat
        BY <1>3, <4>1, SentElim DEF ChannelsOK, MessageOK
      <4>3. \A k \in DOMAIN m.shards :
               k \in Key /\ m.shards[k].version \in Nat /\ m.shards[k].version >= index[k].version
        BY <2>4, SentElim DEF Newest
      <4>4. ASSUME NEW k \in DOMAIN m.shards
            PROVE  m.shards[k].version >= inbox[w][i].confirms[k]
        <5>1. inbox[w][i].confirms[k] <= index[k].version /\ k \in Key
          BY <4>2, <4>3 DEF Bounded
        <5> QED BY <1>4, <4>2, <4>3, <5>1
      <4> QED BY <4>4 DEF Before
    <3>2. ASSUME NEW x \in Worker, NEW i \in DOMAIN inbox'[x], NEW j \in DOMAIN inbox'[x], i < j
          PROVE  Before(inbox'[x][i], inbox'[x][j])
      <4>1. CASE x # w
        BY <1>3, <2>7, <3>2, <4>1 DEF OrderOK
      <4>2. CASE x = w /\ j = Len(inbox[w]) + 1
        <5>1. i \in DOMAIN inbox[w]
          BY <2>6, <2>7, <3>2, <4>2
        <5> QED BY <2>6, <2>7, <3>1, <4>2, <5>1
      <4>3. CASE x = w /\ j # Len(inbox[w]) + 1
        <5>1. i \in DOMAIN inbox[w] /\ j \in DOMAIN inbox[w]
          BY <2>6, <2>7, <3>2, <4>3
        <5> QED BY <1>3, <2>6, <2>7, <3>2, <4>3, <5>1 DEF OrderOK
      <4> QED BY <4>1, <4>2, <4>3
    <3> QED BY <1>2, <1>8, <3>2 DEF OrderOK, Before
  <2>13. MessageOK(H, m)'
    BY <1>9, <2>4, MessageStays
  <2>14. ASSUME m.type \in {"SYNC_DELTA", "SYNC_SNAPSHOT"}
         PROVE  Owed(H, w, m.confirms, Top(m))'
    <3>1. PICK top \in Nat : top = version
      BY <1>4
    <3>2. PICK c \in Confirmation : c = m.confirms
      BY <2>4, SentElim
    <3>3. CopyStays(w)
      BY <1>2 DEF CopyStays, workerVars
    <3>4. Bounded(c) /\ Owed(H, w, c, top)
      BY <2>4, <2>14, <3>1, <3>2
    <3>5. OnlyNewest(w)
      BY <2>11
    <3>6. Owed(H, w, c, top)'
      BY <1>4, <1>9, <3>1, <3>3, <3>4, <3>5, OwedStays
    <3>7. Top(m)' = top
      BY <1>2, <2>4, <2>14, <3>1 DEF Top
    <3>8. Owed(H, w, c, top)' => Owed(H, w, m.confirms, Top(m))'
      BY <3>2, <3>7
    <3> QED BY <3>6, <3>8
  <2>15. \A x \in Worker : \A y \in InFlight(x)' \ InFlight(x) :
            /\ MessageOK(H, y)'
            /\ y.type \in {"SYNC_DELTA", "SYNC_SNAPSHOT"} => Owed(H, x, y.confirms, Top(y))'
    <3>1. ASSUME NEW x \in Worker, NEW y \in InFlight(x)' \ InFlight(x)
          PROVE  /\ MessageOK(H, y)'
                 /\ y.type \in {"SYNC_DELTA", "SYNC_SNAPSHOT"} => Owed(H, x, y.confirms, Top(y))'
      <4>1. x = w /\ y = m
        BY <2>9, <2>10, <3>1
      <4>2. MessageOK(H, m)' => MessageOK(H, y)'
        BY <4>1
      <4>3. Owed(H, w, m.confirms, Top(m))' => Owed(H, x, y.confirms, Top(y))'
        BY <4>1
      <4> QED BY <2>13, <2>14, <4>1, <4>2, <4>3
    <3> QED BY <3>1
  <2> QED BY <1>2, <1>6, <1>9, <1>10, <2>8, <2>11, <2>12, <2>15, SendStep
<1>13. CASE ~AnsweredAtOnce(q) /\ q.op = "load" /\ Loading(q.key)
  <2>1. joined' = [joined EXCEPT ![q.key] = Append(@, w)] /\ UNCHANGED <<queue, inbox>>
    BY <1>1, <1>13 DEF PrimaryReceive
  <2>2. joined' \in [Key -> Seq(Worker)]
    BY <1>4, <1>7, <1>13, <2>1
  <2> QED BY <1>4, <1>11, <2>1, <2>2
<1>14. CASE ~AnsweredAtOnce(q) /\ ~(q.op = "load" /\ Loading(q.key))
  <2>1. queue' = Append(queue, q) /\ UNCHANGED <<joined, inbox>>
    BY <1>1, <1>14 DEF PrimaryReceive
  <2>2. q \in Queued
    BY <1>7, <1>14 DEF AnsweredAtOnce
  <2>3. queue' \in Seq(Queued)
    BY <1>4, <2>1, <2>2
  <2> QED BY <1>4, <1>11, <2>1, <2>3
<1> QED BY <1>12, <1>13, <1>14
-----------------------------------------------------------------------------
(* An operation ends: its result settles for its callers, and a broadcast  *)
(* may go to everyone.                                                     *)

Quiet(b) == b.shards = NoShards /\ b.confirms = Unconfirmed /\ b.type \in {"STATE_DELTA", "STATE_SNAPSHOT"}

\* What is sent to every worker is quiet: it brings no shard and confirms nothing.
LEMMA QuietOrder ==
    ASSUME NEW b \in Sent, Quiet(b), NEW x \in Sent
    PROVE  Before(x, b) /\ Before(b, x)
<1>1. \A k \in DOMAIN x.shards : k \in Key /\ x.shards[k].version \in Nat
  BY SentElim
<1> QED BY <1>1, NoShardsType, UnconfirmedType DEF Before, Quiet

LEMMA BroadcastFacts ==
    ASSUME NEW H, Kept(H), NEW b \in Sent, Quiet(b), UNCHANGED inbox \/ ToAll(b)
    PROVE  /\ inbox' \in [Worker -> Seq(Sent)]
           /\ \A w \in Worker : \A i \in DOMAIN inbox'[w] :
                 \/ i \in DOMAIN inbox[w] /\ inbox'[w][i] = inbox[w][i]
                 \/ inbox'[w][i] = b
           /\ \A w \in Worker : \A i, j \in DOMAIN inbox'[w] :
                 i < j => Before(inbox'[w][i], inbox'[w][j])
<1>1. inbox \in [Worker -> Seq(Sent)] /\ OrderOK
  BY DEF Kept, Types, ChannelTypes
<1>2. CASE UNCHANGED inbox
  BY <1>1, <1>2 DEF OrderOK
<1>3. CASE ToAll(b)
  <2>2. inbox' = [w \in Worker |-> Append(inbox[w], b)]
    BY <1>3 DEF ToAll
  <2>3. ASSUME NEW w \in Worker
        PROVE  /\ inbox'[w] \in Seq(Sent) /\ Len(inbox[w]) \in Nat
               /\ DOMAIN inbox[w] = 1 .. Len(inbox[w])
               /\ DOMAIN inbox'[w] = 1 .. (Len(inbox[w]) + 1)
               /\ \A i \in 1 .. Len(inbox[w]) : inbox'[w][i] = inbox[w][i] /\ inbox[w][i] \in Sent
               /\ inbox'[w][Len(inbox[w]) + 1] = b
    <3>1. PICK s \in Seq(Sent) : s = inbox[w]
      BY <1>1
    <3>2. /\ Append(s, b) \in Seq(Sent) /\ DOMAIN Append(s, b) = 1 .. (Len(s) + 1)
          /\ \A i \in 1 .. Len(s) : Append(s, b)[i] = s[i]
          /\ Append(s, b)[Len(s) + 1] = b
      BY AppendIs
    <3>3. inbox'[w] = Append(s, b)
      BY <2>2, <3>1
    <3> QED BY <3>1, <3>2, <3>3
  <2>4. inbox' \in [Worker -> Seq(Sent)]
    BY <2>2, <2>3
  <2>5. ASSUME NEW w \in Worker, NEW i \in DOMAIN inbox'[w]
        PROVE  \/ i \in DOMAIN inbox[w] /\ inbox'[w][i] = inbox[w][i]
               \/ inbox'[w][i] = b
    <3>1. i \in 1 .. Len(inbox[w]) \/ i = Len(inbox[w]) + 1
      BY <2>3
    <3> QED BY <2>3, <3>1
  <2>6. ASSUME NEW w \in Worker, NEW i \in DOMAIN inbox'[w], NEW j \in DOMAIN inbox'[w], i < j
        PROVE  Before(inbox'[w][i], inbox'[w][j])
    <3>1. i \in 1 .. Len(inbox[w])
      BY <2>3, <2>6
    <3>2. CASE j \in 1 .. Len(inbox[w])
      BY <1>1, <2>3, <2>6, <3>1, <3>2 DEF OrderOK
    <3>3. CASE j = Len(inbox[w]) + 1
      <4>1. inbox'[w][i] \in Sent /\ inbox'[w][j] = b
        BY <2>3, <3>1, <3>3
      <4> QED BY <4>1, QuietOrder
    <3> QED BY <2>3, <3>2, <3>3
  <2> QED BY <2>4, <2>5, <2>6
<1> QED BY <1>2, <1>3

LEMMA SettleStep ==
    ASSUME NEW H, Kept(H), NEW G, Onward(H, G), UNCHANGED <<workerVars, requests>>,
           PrimaryTypes', Recorded(G)', LogRecords(G)', IndexOK', ContentsOK',
           NEW b \in Sent, Quiet(b), Tells(G, b.update)', UNCHANGED inbox \/ ToAll(b),
           NEW m \in Sent, m.type = "ANSWER", Newest(m), MessageOK(G, m)', Before(m, m),
           NEW new \in Seq(Settled), unpublished' = unpublished \o new,
           \A j \in DOMAIN new :
              /\ new[j].message = m
              /\ \A k \in Key : m.confirms[k] > 0 => ~LoadUnanswered(new[j].worker, k)
    PROVE  Kept(G)'
<1>1. /\ Types /\ OrderOK /\ \A w \in Worker : CopiesOK(w) /\ ChannelsOK(H, w)
  BY DEF Kept
<1>2. /\ inbox \in [Worker -> Seq(Sent)] /\ unpublished \in Seq(Settled)
      /\ DOMAIN unpublished = 1 .. Len(unpublished) /\ Len(unpublished) \in Nat
      /\ DOMAIN new = 1 .. Len(new) /\ Len(new) \in Nat
      /\ \A k \in Key : index[k].version \in Nat
  BY <1>1 DEF Types, PrimaryTypes, ChannelTypes, Shard
<1>3. PICK u : u = unpublished \o new
  OBVIOUS
<1>4. /\ u \in Seq(Settled) /\ unpublished' = u
      /\ DOMAIN u = 1 .. (Len(unpublished) + Len(new))
      /\ \A i \in 1 .. Len(unpublished) : u[i] = unpublished[i]
      /\ \A i \in 1 .. Len(new) : u[Len(unpublished) + i] = new[i]
  BY <1>2, <1>3, ConcatIs
<1>5. ASSUME NEW i \in DOMAIN u
      PROVE  /\ u[i].worker \in Worker /\ u[i].message \in Sent /\ i \in Nat
             /\ \/ i \in DOMAIN unpublished /\ u[i] = unpublished[i]
                \/ /\ i > Len(unpublished) /\ u[i].message = m
                   /\ \A k \in Key : m.confirms[k] > 0 => ~LoadUnanswered(u[i].worker, k)
  <2>1. u[i] \in Settled
    BY <1>4
  <2>2. u[i].worker \in Worker /\ u[i].message \in Sent /\ i \in Nat
    BY <1>4, <2>1 DEF Settled
  <2>3. CASE i \in 1 .. Len(unpublished)
    BY <1>2, <1>4, <2>2, <2>3
  <2>4. CASE i > Len(unpublished)
    <3>1. PICK j \in 1 .. Len(new) : j = i - Len(unpublished)
      BY <1>2, <1>4, <2>4
    <3>2. i = Len(unpublished) + j
      BY <1>2, <2>2, <3>1
    <3>3. u[i] = new[j] /\ j \in DOMAIN new
      BY <1>2, <1>4, <3>2
    <3> QED BY <2>2, <2>4, <3>3
  <2> QED BY <1>2, <1>4, <2>2, <2>3, <2>4
<1>6. /\ inbox' \in [Worker -> Seq(Sent)]
      /\ \A w \in Worker : \A i \in DOMAIN inbox'[w] :
            \/ i \in DOMAIN inbox[w] /\ inbox'[w][i] = inbox[w][i]
            \/ inbox'[w][i] = b
      /\ \A w \in Worker : \A i, j \in DOMAIN inbox'[w] :
            i < j => Before(inbox'[w][i], inbox'[w][j])
  BY BroadcastFacts
<1>7. ASSUME NEW w \in Worker, NEW x \in InFlight(w)
      PROVE  Before(x, m)
  <2>1. x \in Sent /\ Bounded(x.confirms)
    BY <1>1, <1>7, FlightTypes DEF ChannelsOK, MessageOK
  <2>2. ASSUME NEW k \in DOMAIN m.shards
        PROVE  m.shards[k].version >= x.confirms[k]
    <3>1. k \in Key /\ m.shards[k].version \in Nat /\ m.shards[k].version >= index[k].version
      BY SentElim DEF Newest
    <3>2. x.confirms[k] \in Nat /\ x.confirms[k] <= index[k].version
      BY <2>1, <3>1, SentElim DEF Bounded
    <3> QED BY <1>2, <3>1, <3>2
  <2> QED BY <2>2 DEF Before
<1>8. OrderOK'
  <2>1. ASSUME NEW w \in Worker, NEW i \in DOMAIN inbox'[w], NEW j \in DOMAIN u, u[j].worker = w
        PROVE  Before(inbox'[w][i], u[j].message)
    <3>1. CASE inbox'[w][i] = b
      BY <1>5, <3>1, QuietOrder
    <3>2. CASE i \in DOMAIN inbox[w] /\ inbox'[w][i] = inbox[w][i]
      <4>1. CASE j \in DOMAIN unpublished /\ u[j] = unpublished[j]
        BY <1>1, <2>1, <3>2, <4>1 DEF OrderOK
      <4>2. CASE u[j].message = m
        <5>1. inbox[w][i] \in InFlight(w)
          BY <3>2 DEF InFlight
        <5> QED BY <1>7, <3>2, <4>2, <5>1
      <4> QED BY <1>5, <4>1, <4>2
    <3> QED BY <1>6, <3>1, <3>2
  <2>2. ASSUME NEW i \in DOMAIN u, NEW j \in DOMAIN u, i # j, u[i].worker = u[j].worker
        PROVE  (j < i /\ u[j].broadcast) \/ Before(u[i].message, u[j].message)
    <3>1. CASE i \in DOMAIN unpublished /\ u[i] = unpublished[i]
      <4>1. CASE j \in DOMAIN unpublished /\ u[j] = unpublished[j]
        BY <1>1, <2>2, <3>1, <4>1 DEF OrderOK
      <4>2. CASE u[j].message = m
        <5>1. u[i].message \in InFlight(u[i].worker)
          BY <3>1 DEF InFlight
        <5> QED BY <1>5, <1>7, <4>2, <5>1
      <4> QED BY <1>5, <4>1, <4>2
    <3>2. CASE /\ i > Len(unpublished) /\ u[i].message = m
               /\ \A k \in Key : m.confirms[k] > 0 => ~LoadUnanswered(u[i].worker, k)
      <4>1. CASE j \in DOMAIN unpublished /\ u[j] = unpublished[j]
        <5>1. j < i
          BY <1>2, <1>5, <3>2, <4>1
        <5>2. CASE u[j].broadcast
          BY <5>1, <5>2
        <5>3. CASE ~u[j].broadcast
          <6>1. ASSUME NEW k \in DOMAIN u[j].message.shards
                PROVE  u[j].message.shards[k].version >= m.confirms[k]
            <7>1. k \in Key /\ u[j].message.shards[k].version \in Nat /\ m.confirms[k] \in Nat
              BY <1>5, SentElim
            <7>2. LoadUnanswered(u[i].worker, k)
              BY <2>2, <4>1, <5>3 DEF LoadUnanswered
            <7>3. ~(m.confirms[k] > 0)
              BY <3>2, <7>1, <7>2
            <7> QED BY <7>1, <7>3
          <6> QED BY <3>2, <6>1 DEF Before
        <5> QED BY <5>2, <5>3
      <4>2. CASE u[j].message = m
        BY <3>2, <4>2
      <4> QED BY <1>5, <4>1, <4>2
    <3> QED BY <1>5, <3>1, <3>2
  <2>3. \A i \in DOMAIN u : u[i].message.type = "ANSWER"
    BY <1>1, <1>5 DEF OrderOK
  <2> QED BY <1>4, <1>6, <2>1, <2>2, <2>3 DEF OrderOK, Before
<1>9. ASSUME NEW w \in Worker, NEW x \in InFlight(w)'
      PROVE  x \in InFlight(w) \/ x = m \/ x = b
  <2>1. CASE \E i \in DOMAIN inbox'[w] : x = inbox'[w][i]
    BY <1>6, <2>1 DEF InFlight
  <2>2. CASE \E i \in DOMAIN u : u[i].worker = w /\ x = u[i].message
    BY <1>5, <2>2 DEF InFlight
  <2> QED BY <1>4, <1>9, <2>1, <2>2 DEF InFlight
<1>10. \A w \in Worker : OnlyNewest(w)
  <2>1. Newest(b)
    BY NoShardsType DEF Quiet, Newest
  <2> QED BY <1>9, <2>1 DEF OnlyNewest
<1>11. ASSUME NEW w \in Worker, NEW x \in InFlight(w)' \ InFlight(w)
       PROVE  MessageOK(G, x)' /\ x.type \notin {"SYNC_DELTA", "SYNC_SNAPSHOT"}
  <2>1. CASE x = m
    <3>1. MessageOK(G, m)' => MessageOK(G, x)'
      BY <2>1
    <3> QED BY <2>1, <3>1
  <2>2. CASE x = b
    <3>1. \A k \in Key : index'[k].version \in Nat
      BY DEF Onward
    <3>2. Bounded(b.confirms)'
      BY <3>1, UnconfirmedType DEF Bounded, Quiet
    <3>3. MessageOK(G, b)'
      BY <3>2, NoShardsType DEF MessageOK, Quiet
    <3>4. MessageOK(G, b)' => MessageOK(G, x)'
      BY <2>2
    <3> QED BY <2>2, <3>3, <3>4 DEF Quiet
  <2> QED BY <1>9, <1>11, <2>1, <2>2
<1>12. Types'
  BY <1>1, <1>6 DEF Types, WorkerTypes, ChannelTypes, workerVars
<1>13. \A w \in Worker : \A i \in DOMAIN requests'[w] :
          \E j \in DOMAIN requests[w] : requests'[w][i] = requests[w][j]
  OBVIOUS
<1>14. \A w \in Worker : \A x \in InFlight(w)' \ InFlight(w) :
          /\ MessageOK(G, x)'
          /\ x.type \in {"SYNC_DELTA", "SYNC_SNAPSHOT"} => Owed(G, w, x.confirms, Top(x))'
  BY <1>11
<1> QED BY <1>8, <1>10, <1>12, <1>13, <1>14, SendStep
\* The shard k is indexed anew and its marker committed.
LEMMA CommitFacts ==
    ASSUME NEW H, Kept(H), NEW k \in Key, NEW s \in Shard, s.version = shardCounter + 1,
           index' = [index EXCEPT ![k] = s], shardCounter' = shardCounter + 1,
           CommitMarker(k, shardCounter + 1),
           NEW G, G = With(H, k, shardCounter + 1),
           NEW d, d = Marker(k, shardCounter + 1)
    PROVE  /\ Onward(H, G) /\ Recorded(G)' /\ LogRecords(G)' /\ IndexOK'
           /\ version' = version + 1 /\ version' \in Nat /\ markers' \in [Key -> Nat]
           /\ deltaLog' \in Seq(Update) /\ index' \in [Key -> Shard] /\ shardCounter' \in Nat
           /\ index'[k] = s
           /\ d \in Update /\ Tells(G, d)' /\ d.from = version /\ d.to = version + 1
           /\ G[version + 1] = [key |-> k, value |-> shardCounter + 1]
<1>1. /\ PrimaryTypes /\ Recorded(H) /\ LogRecords(H) /\ IndexOK
      /\ version \in Nat /\ shardCounter \in Nat /\ index \in [Key -> Shard]
  BY DEF Kept, Types, PrimaryTypes
<1>2. /\ version' = version + 1
      /\ markers' \in [Key -> Nat] /\ deltaLog' \in Seq(Update)
      /\ Recorded(G)' /\ LogRecords(G)'
      /\ \A n \in 1 .. version : G[n] = H[n]
      /\ G[version + 1] = [key |-> k, value |-> shardCounter + 1]
  BY <1>1, CommitKeepsLog
<1>3. /\ \A u \in Update : Tells(H, u) => Tells(G, u)'
      /\ Tells(G, d)'
  BY <1>1, <1>2, CommitKeepsTelling
<1>4. d \in Update /\ d.from = version /\ d.to = version + 1
  BY <1>1, MarkerFacts
<1>5. index' \in [Key -> Shard] /\ index'[k] = s /\ \A j \in Key \ {k} : index'[j] = index[j]
  BY <1>1
<1>6. IndexMoves
  BY <1>5 DEF IndexMoves
<1>7. /\ IndexOK'
      /\ \A j \in Key :
            /\ index[j].version \in Nat /\ index'[j].version \in Nat
            /\ index[j].version <= index'[j].version
      /\ \A j \in Key, x \in Shard : Dated(j, x) => Dated(j, x)'
  BY <1>1, <1>5, <1>6, IndexLater
<1>8. Onward(H, G)
  BY <1>1, <1>2, <1>3, <1>7 DEF Onward
<1> QED BY <1>1, <1>2, <1>3, <1>4, <1>5, <1>7, <1>8

\* The index changes without a marker: a shard of the same files.
LEMMA IndexOnlyFacts ==
    ASSUME NEW H, Kept(H), NEW k \in Key, NEW s \in Shard,
           index' = [index EXCEPT ![k] = s],
           \/ s.version = shardCounter + 1 /\ shardCounter' = shardCounter + 1
           \/ s.version = index[k].version /\ s.files = index[k].files /\ shardCounter' = shardCounter,
           UNCHANGED <<version, markers, deltaLog>>
    PROVE  /\ Onward(H, H) /\ Recorded(H)' /\ LogRecords(H)' /\ IndexOK'
           /\ index' \in [Key -> Shard] /\ shardCounter' \in Nat
           /\ index'[k] = s
<1>1. /\ Recorded(H) /\ LogRecords(H) /\ IndexOK
      /\ version \in Nat /\ shardCounter \in Nat /\ index \in [Key -> Shard]
  BY DEF Kept, Types, PrimaryTypes
<1>2. index' \in [Key -> Shard] /\ index'[k] = s /\ \A j \in Key \ {k} : index'[j] = index[j]
  BY <1>1
<1>3. IndexMoves
  BY <1>2 DEF IndexMoves
<1>4. /\ IndexOK'
      /\ \A j \in Key :
            /\ index[j].version \in Nat /\ index'[j].version \in Nat
            /\ index[j].version <= index'[j].version
      /\ \A j \in Key, x \in Shard : Dated(j, x) => Dated(j, x)'
  BY <1>1, <1>2, <1>3, IndexLater
<1>5. Onward(H, H)
  BY <1>1, <1>4 DEF Onward, Tells
<1>6. shardCounter' \in Nat /\ shardCounter <= shardCounter'
  BY <1>1
<1>7. Recorded(H)'
  <2>1. \A n \in 1 .. version : H[n].value \in Nat /\ H[n].value > 0 /\ H[n].value <= shardCounter
    BY <1>1 DEF Recorded
  <2>2. \A n \in 1 .. version : H[n].value <= shardCounter'
    BY <1>1, <1>6, <2>1
  <2> QED BY <1>1, <2>1, <2>2 DEF Recorded
<1>8. LogRecords(H)'
  BY <1>1 DEF LogRecords, IsLast, Touches
<1> QED BY <1>2, <1>4, <1>5, <1>6, <1>7, <1>8

\* Every caller of a result gets the same message.
CallersGetIt(callers, m) ==
    \E new \in Seq(Settled) :
        /\ unpublished' = unpublished \o new
        /\ \A i \in DOMAIN new :
              new[i].message = m /\ i \in DOMAIN callers /\ new[i].worker = callers[i]

LEMMA CallersGet ==
    ASSUME NEW callers \in Seq(Worker), NEW update \in Update, NEW bundle \in Bundle,
           NEW confirms \in Confirmation, NEW broadcast \in BOOLEAN,
           NEW m, m = Answer("ANSWER", update, bundle, confirms),
           Settle(callers, update, bundle, confirms, broadcast)
    PROVE  /\ m \in Sent /\ m.type = "ANSWER" /\ m.update = update /\ m.shards = bundle
           /\ m.confirms = confirms
           /\ CallersGetIt(callers, m)
<1>1. /\ m \in Sent /\ m.type = "ANSWER" /\ m.update = update /\ m.shards = bundle
      /\ m.confirms = confirms
  BY DEF Answer, Sent, MessageType
<1>2. DOMAIN callers = 1 .. Len(callers) /\ Len(callers) \in Nat
  OBVIOUS
<1>3. PICK new : new = [i \in DOMAIN callers |-> Result(callers[i], update, bundle, confirms, broadcast)]
  OBVIOUS
<1>4. ASSUME NEW i \in 1 .. Len(callers)
      PROVE  /\ new[i] \in Settled /\ new[i].message = m /\ new[i].worker = callers[i]
  <2>1. callers[i] \in Worker /\ new[i] = [worker |-> callers[i], broadcast |-> broadcast, message |-> m]
    BY <1>2, <1>3 DEF Result
  <2> QED BY <1>1, <2>1 DEF Settled
<1>5. new = [i \in 1 .. Len(callers) |-> new[i]]
  BY <1>2, <1>3
<1>6. new \in [1 .. Len(callers) -> Settled]
  BY <1>4, <1>5
<1>7. new \in Seq(Settled)
  BY <1>2, <1>6
<1>8. unpublished' = unpublished \o new
  BY <1>3 DEF Settle
<1>9. CallersGetIt(callers, m)
  BY <1>2, <1>4, <1>5, <1>7, <1>8 DEF CallersGetIt
<1> QED BY <1>1, <1>9

\* The answer with the shard an operation left in the index.
LEMMA IndexedAnswer ==
    ASSUME NEW H, NEW G, Onward(H, G), NEW k \in Key, index'[k] \in Shard,
           NEW m \in Sent, m.type = "ANSWER", Tells(G, m.update)',
           m.shards = NoShards \/ (DOMAIN m.shards = {k} /\ m.shards[k] = index'[k]),
           \/ m.confirms = Unconfirmed
           \/ /\ m.confirms = [Unconfirmed EXCEPT ![k] = index'[k].version]
              /\ DOMAIN m.shards = {k} /\ m.shards[k] = index'[k]
              /\ m.update.to = version' /\ m.update.from = version' - 1 /\ version' >= 1
              /\ G[version'] = [key |-> k, value |-> index'[k].version]
    PROVE  Newest(m) /\ MessageOK(G, m)' /\ Before(m, m)
<1>1. /\ \A j \in Key : /\ index[j].version \in Nat /\ index'[j].version \in Nat
                        /\ index[j].version <= index'[j].version
      /\ version' \in Nat
  BY DEF Onward
<1>2. \A j \in DOMAIN m.shards : j = k /\ m.shards[j] = index'[k]
  BY NoShardsType
<1>3. Newest(m)
  BY <1>1, <1>2 DEF Newest
<1>4. \A j \in DOMAIN m.shards : Dated(j, m.shards[j])'
  BY <1>1, <1>2 DEF Dated
<1>5. CASE m.confirms = Unconfirmed
  <2>1. Bounded(m.confirms)' /\ Confirms(G, m)'
    BY <1>1, <1>5, UnconfirmedType DEF Bounded, Confirms
  <2>2. Before(m, m)
    BY <1>1, <1>2, <1>5, UnconfirmedType DEF Before
  <2> QED BY <1>3, <1>4, <2>1, <2>2 DEF MessageOK
<1>6. CASE /\ m.confirms = [Unconfirmed EXCEPT ![k] = index'[k].version]
           /\ DOMAIN m.shards = {k} /\ m.shards[k] = index'[k]
           /\ m.update.to = version' /\ m.update.from = version' - 1 /\ version' >= 1
           /\ G[version'] = [key |-> k, value |-> index'[k].version]
  <2>1. /\ m.confirms[k] = index'[k].version
        /\ \A j \in Key \ {k} : m.confirms[j] = 0
    BY <1>6, UnconfirmedType DEF Unconfirmed
  <2>2. Bounded(m.confirms)'
    BY <1>1, <2>1 DEF Bounded
  <2>3. Confirms(G, m)'
    <3>1. ASSUME NEW j \in Key, m.confirms[j] > 0
          PROVE  j = k
      BY <2>1, <3>1
    <3>2. version' \in 1 .. version'
      BY <1>1, <1>6
    <3> QED BY <1>6, <2>1, <3>1, <3>2 DEF Confirms
  <2>4. Before(m, m)
    BY <1>1, <1>6, <2>1 DEF Before
  <2> QED BY <1>3, <1>4, <2>2, <2>3, <2>4 DEF MessageOK
<1> QED BY <1>5, <1>6
\* No scan is under way after the operation, and it left in the index what is on
\* disk, or what a scan read before it changed.
LEMMA ContentsLater ==
    ASSUME NEW H, Kept(H), UNCHANGED diskVars, running' = Idle,
           NEW k \in Key, index' \in [Key -> Shard],
           \A j \in Key \ {k} : index'[j] = index[j],
           \A f \in File : /\ index'[k].files[f] <= edits
                           /\ AsNew(disk[k][f], index'[k].files[f])
    PROVE  ContentsOK'
<1>1. disk' = disk /\ edits' = edits /\ ContentsOK
  BY DEF Kept, diskVars
<1>2. ASSUME NEW j \in Key, NEW f \in File
      PROVE  /\ disk[j][f] <= edits /\ index'[j].files[f] <= edits
             /\ AsNew(disk[j][f], index'[j].files[f])
  <2>1. CASE j = k
    BY <1>1, <2>1 DEF ContentsOK
  <2>2. CASE j # k
    BY <1>1, <2>2 DEF ContentsOK
  <2> QED BY <2>1, <2>2
<1> QED BY <1>1, <1>2 DEF ContentsOK

\* What a delta tells everyone is quiet.
LEMMA BroadcastQuiet ==
    ASSUME NEW type \in {"STATE_DELTA", "STATE_SNAPSHOT"}, NEW u \in Update,
           NEW b, b = Broadcast(type, u)
    PROVE  b \in Sent /\ Quiet(b) /\ b.update = u
  BY NoShardsType, UnconfirmedType DEF Broadcast, Quiet, Sent, MessageType

LEMMA PathChangesInv ==
    ASSUME NEW H, Kept(H), running = Idle, NEW q \in Queued, PathChanges(q),
           queue' \in Seq(Queued), UNCHANGED <<diskVars, joined, workerVars, requests>>
    PROVE  ShardIInv'
<1>1. /\ PrimaryTypes /\ ContentsOK /\ version \in Nat /\ shardCounter \in Nat
      /\ index \in [Key -> Shard] /\ disk \in [Key -> Files] /\ edits \in Nat
      /\ running' = Idle
  BY DEF Kept, Types, PrimaryTypes, PathChanges
<1>2. /\ q.op \in {"commit", "auth"} /\ q.worker \in Worker /\ q.key \in Key
      /\ q.files \in SUBSET File
  BY DEF PathChanges, Queued
<1>3. PICK k \in Key, w \in Worker : k = q.key /\ w = q.worker
  BY <1>2
<1>4. PICK found : found = [f \in File |-> IF f \in q.files THEN disk[k][f] ELSE index[k].files[f]]
  OBVIOUS
<1>5. /\ found \in Files
      /\ \A f \in File : found[f] <= edits /\ AsNew(disk[k][f], found[f])
  <2>1. \A f \in File : disk[k][f] \in Nat /\ index[k].files[f] \in Nat
    BY <1>1 DEF Files, Shard
  <2>2. found \in Files
    BY <1>4, <2>1 DEF Files
  <2>3. ASSUME NEW f \in File
        PROVE  found[f] <= edits /\ AsNew(disk[k][f], found[f])
    <3>1. disk[k][f] <= edits /\ index[k].files[f] <= edits
          /\ AsNew(disk[k][f], index[k].files[f])
      BY <1>1 DEF ContentsOK
    <3>2. AsNew(disk[k][f], disk[k][f])
      BY <2>1 DEF AsNew
    <3> QED BY <1>4, <3>1, <3>2
  <2> QED BY <2>2, <2>3
<1>6. PICK callers : callers = <<w>>
  OBVIOUS
<1>a. callers \in Seq(Worker) /\ DOMAIN callers = {1} /\ callers[1] = w
  BY <1>6
<1>7. CASE found # index[k].files
  <2>1. PICK v : v = shardCounter + 1
    OBVIOUS
  <2>2. PICK s : s = Indexed(index[k], found, FALSE)
    OBVIOUS
  <2>3. s \in Shard /\ s.version = shardCounter + 1 /\ s.files = found
    BY <1>1, <1>5, <2>2 DEF Indexed, Shard
  <2>4. PICK d : d = Marker(k, shardCounter + 1)
    OBVIOUS
  <2>5. PICK G : G = With(H, k, shardCounter + 1)
    OBVIOUS
  <2>6. PICK bundle : bundle = IF q.op = "commit" THEN Only(k, s) ELSE NoShards
    OBVIOUS
  <2>7. PICK confirms : confirms = IF q.op = "commit" /\ ~LoadUnanswered(w, k)
                                   THEN [Unconfirmed EXCEPT ![k] = v] ELSE Unconfirmed
    OBVIOUS
  <2>8. PICK bc \in BOOLEAN : bc = (q.op = "commit")
    OBVIOUS
  <2>9. /\ index' = [index EXCEPT ![k] = s] /\ shardCounter' = shardCounter + 1
        /\ CommitMarker(k, shardCounter + 1)
    BY <1>3, <1>4, <1>7, <2>2 DEF PathChanges, Reindex, Indexed
  <2>10. IF q.op = "commit" THEN UNCHANGED inbox ELSE ToAll(Broadcast("STATE_DELTA", d))
    BY <1>3, <1>4, <1>7, <2>4 DEF PathChanges
  <2>11. Settle(callers, d, bundle, confirms, bc)
    BY <1>3, <1>4, <1>6, <1>7, <2>1, <2>2, <2>4, <2>6, <2>7, <2>8 DEF PathChanges
  <2>12. /\ Onward(H, G) /\ Recorded(G)' /\ LogRecords(G)' /\ IndexOK'
         /\ version' = version + 1 /\ version' \in Nat /\ markers' \in [Key -> Nat]
         /\ deltaLog' \in Seq(Update) /\ index' \in [Key -> Shard] /\ shardCounter' \in Nat
         /\ index'[k] = s
         /\ d \in Update /\ Tells(G, d)' /\ d.from = version /\ d.to = version + 1
         /\ G[version + 1] = [key |-> k, value |-> shardCounter + 1]
    BY <2>3, <2>4, <2>5, <2>9, CommitFacts
  <2>13. /\ bundle \in Bundle
         /\ IF q.op = "commit" THEN DOMAIN bundle = {k} /\ bundle[k] = s ELSE bundle = NoShards
    BY <2>3, <2>6, OnlyType, NoShardsType
  <2>14. confirms \in Confirmation
    BY <1>1, <2>1, <2>7, UnconfirmedType DEF Unconfirmed, Confirmation
  <2>15. PICK m : m = Answer("ANSWER", d, bundle, confirms)
    OBVIOUS
  <2>16. /\ m \in Sent /\ m.type = "ANSWER" /\ m.update = d /\ m.shards = bundle
         /\ m.confirms = confirms
         /\ CallersGetIt(callers, m)
    BY <1>a, <2>11, <2>12, <2>13, <2>14, <2>15, CallersGet
  <2>18. PICK new \in Seq(Settled) :
            /\ unpublished' = unpublished \o new
            /\ \A i \in DOMAIN new :
                  new[i].message = m /\ i \in DOMAIN callers /\ new[i].worker = callers[i]
    BY <2>16 DEF CallersGetIt
  <2>17. /\ m \in Sent /\ m.type = "ANSWER" /\ m.update = d /\ m.shards = bundle
         /\ m.confirms = confirms
         /\ \A i \in DOMAIN new : new[i].message = m /\ i \in DOMAIN callers /\ new[i].worker = callers[i]
    BY <2>16, <2>18
  <2>19. Tells(G, m.update)'
    <3>1. Tells(G, d)' => Tells(G, m.update)'
      BY <2>17
    <3> QED BY <2>12, <3>1
  <2>20. Newest(m) /\ MessageOK(G, m)' /\ Before(m, m)
    <3>1. m.shards = NoShards \/ (DOMAIN m.shards = {k} /\ m.shards[k] = index'[k])
      BY <2>12, <2>13, <2>17
    <3>2. CASE q.op = "commit" /\ ~LoadUnanswered(w, k)
      <4>1. /\ m.confirms = [Unconfirmed EXCEPT ![k] = index'[k].version]
            /\ DOMAIN m.shards = {k} /\ m.shards[k] = index'[k]
            /\ m.update.to = version' /\ m.update.from = version' - 1 /\ version' >= 1
            /\ G[version'] = [key |-> k, value |-> index'[k].version]
        <5>1. index'[k].version = v /\ v = shardCounter + 1
          BY <2>1, <2>3, <2>12
        <5>2. m.confirms = [Unconfirmed EXCEPT ![k] = v]
          BY <2>7, <2>17, <3>2
        <5>3. DOMAIN m.shards = {k} /\ m.shards[k] = index'[k]
          BY <2>12, <2>13, <2>17, <3>2
        <5>4. m.update.to = version' /\ m.update.from = version' - 1 /\ version' >= 1
          BY <1>1, <2>12, <2>17
        <5>5. G[version'] = [key |-> k, value |-> v]
          BY <2>1, <2>12
        <5> QED BY <5>1, <5>2, <5>3, <5>4, <5>5
      <4> QED BY <2>3, <2>12, <2>17, <2>19, <3>1, <4>1, IndexedAnswer
    <3>3. CASE ~(q.op = "commit" /\ ~LoadUnanswered(w, k))
      <4>1. m.confirms = Unconfirmed
        BY <2>7, <2>17, <3>3
      <4> QED BY <2>3, <2>12, <2>17, <2>19, <3>1, <4>1, IndexedAnswer
    <3> QED BY <3>2, <3>3
  <2>21. ASSUME NEW j \in DOMAIN new, NEW l \in Key, m.confirms[l] > 0
         PROVE  ~LoadUnanswered(new[j].worker, l)
    <3>1. new[j].worker = w
      BY <1>a, <2>17
    <3>2. q.op = "commit" /\ ~LoadUnanswered(w, k)
      BY <2>7, <2>17, <2>21, UnconfirmedType
    <3>3. l = k
      BY <2>7, <2>17, <2>21, <3>2, UnconfirmedType DEF Unconfirmed
    <3> QED BY <3>1, <3>2, <3>3
  <2>22. PICK b : b = Broadcast("STATE_DELTA", d)
    OBVIOUS
  <2>23. b \in Sent /\ Quiet(b) /\ Tells(G, b.update)' /\ (UNCHANGED inbox \/ ToAll(b))
    <3>1. b \in Sent /\ Quiet(b) /\ b.update = d
      BY <2>12, <2>22, BroadcastQuiet
    <3>2. Tells(G, d)' => Tells(G, b.update)'
      BY <3>1
    <3> QED BY <2>10, <2>12, <2>22, <3>1, <3>2
  <2>24. ContentsOK'
    <3>1. \A j \in Key \ {k} : index'[j] = index[j]
      BY <1>1, <2>9
    <3> QED BY <1>1, <1>5, <2>3, <2>12, <3>1, ContentsLater
  <2>25. PrimaryTypes'
    <3>1. unpublished' \in Seq(Settled)
      BY <1>1, <2>17, <2>18, ConcatIs DEF PrimaryTypes
    <3> QED BY <1>1, <2>12, <3>1 DEF PrimaryTypes, diskVars
  <2>26. Kept(G)'
    BY <2>12, <2>17, <2>18, <2>20, <2>21, <2>23, <2>24, <2>25, SettleStep
  <2> QED BY <2>26 DEF ShardIInv
<1>8. CASE found = index[k].files
  <2>1. /\ UNCHANGED <<primaryVars, inbox>>
        /\ Settle(callers, NoDelta, NoShards, Unconfirmed, FALSE)
    BY <1>3, <1>4, <1>6, <1>8 DEF PathChanges
  <2>2. /\ version' = version /\ markers' = markers /\ deltaLog' = deltaLog /\ index' = index
        /\ shardCounter' = shardCounter
    BY <2>1 DEF primaryVars
  <2>3. /\ Types /\ Recorded(H) /\ LogRecords(H) /\ IndexOK
    BY DEF Kept
  <2>4. Onward(H, H)
    BY <2>2, <2>3, StillOnward
  <2>5. Recorded(H)' /\ LogRecords(H)' /\ IndexOK' /\ ContentsOK'
    <3>1. Recorded(H)' /\ LogRecords(H)'
      BY <2>2, <2>3 DEF Recorded, LogRecords, IsLast, Touches
    <3>2. IndexOK' /\ ContentsOK'
      BY <1>1, <2>2, <2>3 DEF IndexOK, ContentsOK, diskVars
    <3> QED BY <3>1, <3>2
  <2>6. PICK m : m = Answer("ANSWER", NoDelta, NoShards, Unconfirmed)
    OBVIOUS
  <2>7. /\ m \in Sent /\ m.type = "ANSWER" /\ m.update = NoDelta /\ m.shards = NoShards
        /\ m.confirms = Unconfirmed
        /\ CallersGetIt(callers, m)
    <3>1. PICK bc \in BOOLEAN : bc = FALSE
      OBVIOUS
    <3>2. Settle(callers, NoDelta, NoShards, Unconfirmed, bc)
      BY <2>1, <3>1
    <3>3. NoDelta \in Update /\ NoShards \in Bundle /\ Unconfirmed \in Confirmation
      BY NoDeltaFacts, NoShardsType, UnconfirmedType
    <3> QED BY <1>a, <2>6, <3>2, <3>3, CallersGet
  <2>9. PICK new \in Seq(Settled) :
           unpublished' = unpublished \o new /\ \A i \in DOMAIN new : new[i].message = m
    BY <2>7 DEF CallersGetIt
  <2>8. /\ m \in Sent /\ m.type = "ANSWER" /\ m.update = NoDelta /\ m.shards = NoShards
        /\ m.confirms = Unconfirmed
        /\ \A i \in DOMAIN new : new[i].message = m
    BY <2>7, <2>9
  <2>10. Tells(H, NoDelta)'
    BY <1>1, <2>2, NoDeltaFacts DEF Tells
  <2>11. Tells(H, m.update)'
    BY <2>8, <2>10 DEF Tells
  <2>12. Newest(m) /\ MessageOK(H, m)' /\ Before(m, m)
    BY <1>1, <2>2, <2>4, <2>8, <2>11, IndexedAnswer
  <2>13. \A j \in DOMAIN new : \A l \in Key : ~(m.confirms[l] > 0)
    BY <2>8, UnconfirmedType
  <2>14. PICK b : b = Broadcast("STATE_DELTA", NoDelta)
    OBVIOUS
  <2>15. b \in Sent /\ Quiet(b) /\ Tells(H, b.update)'
    <3>1. b \in Sent /\ Quiet(b) /\ b.update = NoDelta
      BY <2>14, BroadcastQuiet, NoDeltaFacts
    <3> QED BY <2>10, <3>1 DEF Tells
  <2>16. PrimaryTypes'
    <3>1. unpublished' \in Seq(Settled)
      BY <1>1, <2>8, <2>9, ConcatIs DEF PrimaryTypes
    <3> QED BY <1>1, <2>2, <3>1 DEF PrimaryTypes, diskVars
  <2>17. Kept(H)'
    BY <2>1, <2>4, <2>5, <2>8, <2>9, <2>12, <2>13, <2>15, <2>16, SettleStep
  <2> QED BY <2>17 DEF ShardIInv
<1> QED BY <1>7, <1>8
\* An operation that has no caller.
LEMMA NothingSettles ==
    ASSUME NEW H, Kept(H), NEW G, Onward(H, G), UNCHANGED <<workerVars, requests, unpublished>>,
           PrimaryTypes', Recorded(G)', LogRecords(G)', IndexOK', ContentsOK',
           NEW b \in Sent, Quiet(b), Tells(G, b.update)', UNCHANGED inbox \/ ToAll(b)
    PROVE  Kept(G)'
<1>1. PICK m : m = Answer("ANSWER", NoDelta, NoShards, Unconfirmed)
  OBVIOUS
<1>2. /\ m \in Sent /\ m.type = "ANSWER" /\ m.update = NoDelta /\ m.shards = NoShards
      /\ m.confirms = Unconfirmed
  BY <1>1, NoDeltaFacts, NoShardsType, UnconfirmedType DEF Answer, Sent, MessageType
<1>3. /\ version' \in Nat /\ \A k \in Key : index'[k].version \in Nat
  BY DEF Onward
<1>4. Tells(G, m.update)'
  BY <1>2, <1>3, NoDeltaFacts DEF Tells
<1>5. Newest(m) /\ Before(m, m)
  BY <1>2, NoShardsType DEF Newest, Before
<1>6. MessageOK(G, m)'
  BY <1>2, <1>3, <1>4, NoShardsType, UnconfirmedType DEF MessageOK, Bounded, Confirms
<1>7. PICK new : new = <<>>
  OBVIOUS
<1>8. new \in Seq(Settled) /\ unpublished' = unpublished \o new /\ DOMAIN new = {}
  <2>1. unpublished \in Seq(Settled) /\ unpublished' = unpublished
    BY DEF Kept, Types, PrimaryTypes
  <2> QED BY <1>7, <2>1
<1> QED BY <1>2, <1>5, <1>6, <1>8, SettleStep

\* Without a broadcast, one of nothing stands for it.
LEMMA NoBroadcast ==
    ASSUME NEW G, version' \in Nat
    PROVE  \E b \in Sent : Quiet(b) /\ Tells(G, b.update)'
<1>1. PICK b : b = Broadcast("STATE_DELTA", NoDelta)
  OBVIOUS
<1>2. b \in Sent /\ Quiet(b) /\ b.update = NoDelta
  BY <1>1, BroadcastQuiet, NoDeltaFacts
<1>3. Tells(G, b.update)'
  BY <1>2, NoDeltaFacts DEF Tells
<1> QED BY <1>2, <1>3

LEMMA StartScanInv ==
    ASSUME NEW H, Kept(H), running = Idle, NEW q \in Queued, StartScan(q),
           queue' \in Seq(Queued), UNCHANGED <<diskVars, joined, workerVars, requests>>
    PROVE  ShardIInv'
<1>1. /\ Types /\ Recorded(H) /\ LogRecords(H) /\ IndexOK /\ ContentsOK
      /\ disk \in [Key -> Files] /\ edits \in Nat /\ version \in Nat
  BY DEF Kept, Types, PrimaryTypes
<1>2. /\ version' = version /\ markers' = markers /\ deltaLog' = deltaLog /\ index' = index
      /\ shardCounter' = shardCounter /\ disk' = disk /\ edits' = edits
      /\ unpublished' = unpublished /\ inbox' = inbox
  BY DEF StartScan, primaryVars, diskVars
<1>3. /\ q.op \in {"load", "refresh"} /\ q.key \in Key
      /\ q.op = "load" => q.worker \in Worker
      /\ q.op = "refresh" => q.worker = NoWorker
  BY DEF StartScan, Queued
<1>4. PICK k \in Key : k = q.key
  BY <1>3
<1>5. running' = [op |-> q.op, worker |-> q.worker, key |-> k, scanned |-> disk[k]]
  BY <1>4 DEF StartScan
<1>6. running' \in Scan /\ running'.key = k /\ running'.scanned = disk[k]
  BY <1>1, <1>3, <1>5 DEF Scan
<1>7. PrimaryTypes'
  BY <1>1, <1>2, <1>6 DEF Types, PrimaryTypes
<1>8. ContentsOK'
  <2>1. ASSUME NEW f \in File
        PROVE  /\ running'.scanned[f] <= edits
               /\ AsNew(running'.scanned[f], index[k].files[f])
               /\ AsNew(disk[k][f], running'.scanned[f])
    <3>1. disk[k][f] \in Nat
      BY <1>1 DEF Files
    <3> QED BY <1>1, <1>6, <3>1 DEF ContentsOK, AsNew
  <2> QED BY <1>1, <1>2, <1>6, <2>1 DEF ContentsOK
<1>9. Recorded(H)' /\ LogRecords(H)' /\ IndexOK'
  <2>1. Recorded(H)' /\ LogRecords(H)'
    BY <1>1, <1>2 DEF Recorded, LogRecords, IsLast, Touches
  <2> QED BY <1>1, <1>2, <2>1 DEF IndexOK
<1>10. Onward(H, H)
  BY <1>1, <1>2, StillOnward
<1>11. PICK b \in Sent : Quiet(b) /\ Tells(H, b.update)'
  BY <1>1, <1>2, NoBroadcast
<1>12. Kept(H)'
  BY <1>2, <1>7, <1>8, <1>9, <1>10, <1>11, NothingSettles
<1> QED BY <1>12 DEF ShardIInv

LEMMA StartOperationInv ==
    ASSUME NEW H, Kept(H), StartOperation
    PROVE  ShardIInv'
<1>1. queue \in Seq(Queued) /\ running = Idle
      /\ UNCHANGED <<diskVars, joined, workerVars, requests>>
  BY DEF Kept, Types, PrimaryTypes, StartOperation
<1>2. PICK i \in DOMAIN queue :
         (PathChanges(queue[i]) \/ StartScan(queue[i])) /\ queue' = RemoveAt(queue, i)
  BY DEF StartOperation
<1>3. PICK q \in Queued : q = queue[i]
  BY <1>1
<1>4. queue' \in Seq(Queued)
  BY <1>1, <1>2, RemoveAtIs
<1>5. PathChanges(q) \/ StartScan(q)
  BY <1>2, <1>3
<1> QED BY <1>1, <1>4, <1>5, PathChangesInv, StartScanInv

\* What a scan read is what the primary indexes when it ends.
LEMMA ScanFacts ==
    ASSUME NEW H, Kept(H), running # Idle, NEW op \in {"load", "refresh"}, ScanEnds(op)
    PROVE  /\ running.key \in Key /\ running.scanned \in Files
           /\ op = "load" => running.worker \in Worker
           /\ \A f \in File :
                 /\ running.scanned[f] <= edits
                 /\ AsNew(disk[running.key][f], running.scanned[f])
                 /\ index[running.key].files[f] <= edits
                 /\ AsNew(disk[running.key][f], index[running.key].files[f])
<1>1. running \in Scan /\ ContentsOK /\ running.op = op
  BY DEF Kept, Types, PrimaryTypes, ScanEnds
<1>2. /\ running.key \in Key /\ running.scanned \in Files
      /\ running.op = "load" => running.worker \in Worker
  BY <1>1 DEF Scan
<1> QED BY <1>1, <1>2 DEF ContentsOK
LEMMA FinishLoadInv ==
    ASSUME NEW H, Kept(H), FinishLoad
    PROVE  ShardIInv'
<1>1. ScanEnds("load") /\ running # Idle
  BY DEF FinishLoad, ScanEnds, Idle
<1>2. PICK k \in Key, w \in Worker, scanned \in Files :
         k = running.key /\ w = running.worker /\ scanned = running.scanned
  BY <1>1, ScanFacts
<1>3. \A f \in File :
         /\ scanned[f] <= edits /\ AsNew(disk[k][f], scanned[f])
         /\ index[k].files[f] <= edits /\ AsNew(disk[k][f], index[k].files[f])
  BY <1>1, <1>2, ScanFacts
<1>4. /\ PrimaryTypes /\ version \in Nat /\ shardCounter \in Nat /\ index \in [Key -> Shard]
      /\ joined \in [Key -> Seq(Worker)]
  BY DEF Kept, Types, PrimaryTypes
<1>5. /\ running' = Idle /\ UNCHANGED diskVars /\ disk' = disk /\ edits' = edits /\ queue' = queue
      /\ joined' = [joined EXCEPT ![k] = <<>>] /\ UNCHANGED <<workerVars, requests>>
  BY <1>1, <1>2 DEF FinishLoad, ScanEnds, diskVars
<1>6. joined' \in [Key -> Seq(Worker)]
  <2>1. <<>> \in Seq(Worker)
    OBVIOUS
  <2> QED BY <1>4, <1>5, <2>1
<1>7. PICK callers : callers = <<w>> \o joined[k]
  OBVIOUS
<1>8. callers \in Seq(Worker)
  <2>1. <<w>> \in Seq(Worker) /\ joined[k] \in Seq(Worker)
    BY <1>4
  <2> QED BY <1>7, <2>1, ConcatIs
<1>9. PICK bc \in BOOLEAN : bc = FALSE
  OBVIOUS
<1>10. unpublished \in Seq(Settled)
  BY <1>4 DEF PrimaryTypes
<1>11. ASSUME NEW G, Onward(H, G), Recorded(G)', LogRecords(G)', IndexOK',
              version' \in Nat, markers' \in [Key -> Nat], deltaLog' \in Seq(Update),
              index' \in [Key -> Shard], shardCounter' \in Nat,
              NEW s \in Shard, index' = [index EXCEPT ![k] = s],
              s.files = scanned \/ s.files = index[k].files,
              NEW u \in Update, Tells(G, u)', Settle(callers, u, Only(k, s), Unconfirmed, bc),
              NEW b \in Sent, Quiet(b), Tells(G, b.update)', UNCHANGED inbox \/ ToAll(b)
       PROVE  ShardIInv'
  <2>1. index'[k] = s /\ \A j \in Key \ {k} : index'[j] = index[j]
    BY <1>4, <1>11
  <2>2. Only(k, s) \in Bundle /\ DOMAIN Only(k, s) = {k} /\ Only(k, s)[k] = s
    BY <1>11, OnlyType
  <2>3. PICK m : m = Answer("ANSWER", u, Only(k, s), Unconfirmed)
    OBVIOUS
  <2>4. /\ m \in Sent /\ m.type = "ANSWER" /\ m.update = u /\ m.shards = Only(k, s)
        /\ m.confirms = Unconfirmed /\ CallersGetIt(callers, m)
    BY <1>8, <1>11, <2>2, <2>3, UnconfirmedType, CallersGet
  <2>5. PICK new \in Seq(Settled) :
           unpublished' = unpublished \o new /\ \A i \in DOMAIN new : new[i].message = m
    BY <2>4 DEF CallersGetIt
  <2>6. Tells(G, m.update)'
    <3>1. Tells(G, u)' => Tells(G, m.update)'
      BY <2>4
    <3> QED BY <1>11, <3>1
  <2>7. Newest(m) /\ MessageOK(G, m)' /\ Before(m, m)
    BY <1>11, <2>1, <2>2, <2>4, <2>6, IndexedAnswer
  <2>8. \A j \in DOMAIN new : \A l \in Key : ~(m.confirms[l] > 0)
    BY <2>4, UnconfirmedType
  <2>9. ContentsOK'
    <3>1. \A f \in File : index'[k].files[f] <= edits /\ AsNew(disk[k][f], index'[k].files[f])
      BY <1>3, <1>11, <2>1
    <3> QED BY <1>5, <1>11, <2>1, <3>1, ContentsLater
  <2>10. PrimaryTypes'
    <3>1. unpublished' \in Seq(Settled)
      BY <1>10, <2>5, ConcatIs
    <3> QED BY <1>4, <1>5, <1>6, <1>11, <3>1 DEF PrimaryTypes
  <2>11. Kept(G)'
    BY <1>5, <1>11, <2>4, <2>5, <2>7, <2>8, <2>9, <2>10, SettleStep
  <2> QED BY <2>11 DEF ShardIInv
<1>12. CASE scanned # index[k].files
  <2>1. PICK s : s = Indexed(index[k], scanned, TRUE)
    OBVIOUS
  <2>2. s \in Shard /\ s.version = shardCounter + 1 /\ s.files = scanned
    BY <1>4, <2>1 DEF Indexed, Shard
  <2>3. PICK d : d = Marker(k, shardCounter + 1)
    OBVIOUS
  <2>4. PICK G : G = With(H, k, shardCounter + 1)
    OBVIOUS
  <2>5. /\ index' = [index EXCEPT ![k] = s] /\ shardCounter' = shardCounter + 1
        /\ CommitMarker(k, shardCounter + 1) /\ ToAll(Broadcast("STATE_DELTA", d))
        /\ Settle(callers, d, Only(k, index'[k]), Unconfirmed, bc)
    BY <1>2, <1>7, <1>9, <1>12, <2>1, <2>3 DEF FinishLoad, Reindex, Indexed
  <2>6. /\ Onward(H, G) /\ Recorded(G)' /\ LogRecords(G)' /\ IndexOK'
        /\ version' \in Nat /\ markers' \in [Key -> Nat]
        /\ deltaLog' \in Seq(Update) /\ index' \in [Key -> Shard] /\ shardCounter' \in Nat
        /\ index'[k] = s
        /\ d \in Update /\ Tells(G, d)'
    BY <2>2, <2>3, <2>4, <2>5, CommitFacts
  <2>7. Settle(callers, d, Only(k, s), Unconfirmed, bc)
    BY <2>5, <2>6
  <2>8. PICK b : b = Broadcast("STATE_DELTA", d)
    OBVIOUS
  <2>9. b \in Sent /\ Quiet(b) /\ b.update = d
    BY <2>6, <2>8, BroadcastQuiet
  <2>10. Tells(G, b.update)'
    <3>1. Tells(G, d)' => Tells(G, b.update)'
      BY <2>9
    <3> QED BY <2>6, <3>1
  <2>11. ToAll(b)
    BY <2>5, <2>8
  <2> QED BY <1>11, <2>2, <2>5, <2>6, <2>7, <2>9, <2>10, <2>11
<1>13. CASE scanned = index[k].files
  <2>1. /\ Rescanned(k) /\ UNCHANGED <<version, markers, deltaLog, inbox>>
        /\ Settle(callers, NoDelta, Only(k, index'[k]), Unconfirmed, bc)
    BY <1>2, <1>7, <1>9, <1>13 DEF FinishLoad
  <2>2. PICK s : s = IF index[k].files = NoFiles THEN Indexed(index[k], NoFiles, TRUE)
                     ELSE [index[k] EXCEPT !.loaded = TRUE]
    OBVIOUS
  <2>3. index[k] \in Shard
    BY <1>4
  <2>4. /\ s \in Shard /\ s.files = index[k].files
        /\ index' = [index EXCEPT ![k] = s]
        /\ \/ s.version = shardCounter + 1 /\ shardCounter' = shardCounter + 1
           \/ s.version = index[k].version /\ s.files = index[k].files /\ shardCounter' = shardCounter
    <3>1. CASE index[k].files = NoFiles
      BY <1>4, <2>1, <2>2, <2>3, <3>1, NoFilesType DEF Rescanned, Reindex, Indexed, Shard
    <3>2. CASE index[k].files # NoFiles
      BY <1>4, <2>1, <2>2, <2>3, <3>2 DEF Rescanned, Shard
    <3> QED BY <3>1, <3>2
  <2>5. /\ Onward(H, H) /\ Recorded(H)' /\ LogRecords(H)' /\ IndexOK'
        /\ index' \in [Key -> Shard] /\ shardCounter' \in Nat
        /\ index'[k] = s
    BY <2>1, <2>4, IndexOnlyFacts
  <2>6. Settle(callers, NoDelta, Only(k, s), Unconfirmed, bc)
    BY <2>1, <2>5
  <2>7. version' \in Nat /\ markers' \in [Key -> Nat] /\ deltaLog' \in Seq(Update)
    BY <1>4, <2>1 DEF PrimaryTypes
  <2>8. PICK b \in Sent : Quiet(b) /\ Tells(H, b.update)'
    BY <2>7, NoBroadcast
  <2>9. NoDelta \in Update /\ Tells(H, NoDelta)'
    BY <2>7, NoDeltaFacts DEF Tells
  <2>10. UNCHANGED inbox
    BY <2>1
  <2> QED BY <1>11, <2>4, <2>5, <2>6, <2>7, <2>8, <2>9, <2>10
<1> QED BY <1>12, <1>13

LEMMA FinishRefreshInv ==
    ASSUME NEW H, Kept(H), FinishRefresh
    PROVE  ShardIInv'
<1>1. ScanEnds("refresh") /\ running # Idle
  BY DEF FinishRefresh, ScanEnds, Idle
<1>2. PICK k \in Key, scanned \in Files : k = running.key /\ scanned = running.scanned
  BY <1>1, ScanFacts
<1>3. \A f \in File :
         /\ scanned[f] <= edits /\ AsNew(disk[k][f], scanned[f])
         /\ index[k].files[f] <= edits /\ AsNew(disk[k][f], index[k].files[f])
  BY <1>1, <1>2, ScanFacts
<1>4. /\ PrimaryTypes /\ version \in Nat /\ shardCounter \in Nat /\ index \in [Key -> Shard]
      /\ markers \in [Key -> Nat]
      /\ Types /\ Recorded(H) /\ LogRecords(H) /\ IndexOK
  BY DEF Kept, Types, PrimaryTypes
<1>5. /\ running' = Idle /\ UNCHANGED diskVars /\ disk' = disk /\ edits' = edits /\ queue' = queue
      /\ joined' = joined /\ unpublished' = unpublished
      /\ UNCHANGED <<workerVars, requests, unpublished>>
  BY <1>1 DEF FinishRefresh, ScanEnds, diskVars
<1>6. CASE index[k].loaded /\ scanned # index[k].files
  <2>1. PICK s : s = Indexed(index[k], scanned, TRUE)
    OBVIOUS
  <2>2. s \in Shard /\ s.version = shardCounter + 1 /\ s.files = scanned
    BY <1>4, <2>1 DEF Indexed, Shard
  <2>3. PICK d : d = Marker(k, shardCounter + 1)
    OBVIOUS
  <2>4. PICK G : G = With(H, k, shardCounter + 1)
    OBVIOUS
  <2>5. PICK e : e = [markers EXCEPT ![k] = shardCounter + 1]
    OBVIOUS
  <2>6. PICK n : n = version + 1
    OBVIOUS
  <2>7. PICK full : full = Snapshot(n, e)
    OBVIOUS
  <2>8. /\ index' = [index EXCEPT ![k] = s] /\ shardCounter' = shardCounter + 1
        /\ CommitMarker(k, shardCounter + 1)
        /\ ToAll(Broadcast("STATE_DELTA", d)) \/ ToAll(Broadcast("STATE_SNAPSHOT", full))
    BY <1>2, <1>6, <2>1, <2>3, <2>5, <2>6, <2>7 DEF FinishRefresh, Reindex, Indexed
  <2>9. /\ Onward(H, G) /\ Recorded(G)' /\ LogRecords(G)' /\ IndexOK'
        /\ version' = version + 1 /\ version' \in Nat /\ markers' \in [Key -> Nat]
        /\ deltaLog' \in Seq(Update) /\ index' \in [Key -> Shard] /\ shardCounter' \in Nat
        /\ index'[k] = s
        /\ d \in Update /\ Tells(G, d)'
    BY <2>2, <2>3, <2>4, <2>8, CommitFacts
  <2>10. full \in Update /\ full.from = n /\ full.to = n
    <3>1. n \in Nat /\ e \in [Key -> Nat]
      BY <1>4, <2>5, <2>6
    <3> QED BY <2>7, <3>1, SnapshotFacts
  <2>11. Tells(G, full)'
    BY <1>4, <2>6, <2>9, <2>10 DEF Tells
  <2>12. \E b \in Sent : Quiet(b) /\ ToAll(b) /\ Tells(G, b.update)'
    <3>1. CASE ToAll(Broadcast("STATE_DELTA", d))
      <4>1. PICK b : b = Broadcast("STATE_DELTA", d)
        OBVIOUS
      <4>2. b \in Sent /\ Quiet(b) /\ b.update = d /\ ToAll(b)
        BY <2>9, <3>1, <4>1, BroadcastQuiet
      <4>3. Tells(G, d)' => Tells(G, b.update)'
        BY <4>2
      <4> QED BY <2>9, <4>2, <4>3
    <3>2. CASE ToAll(Broadcast("STATE_SNAPSHOT", full))
      <4>1. PICK b : b = Broadcast("STATE_SNAPSHOT", full)
        OBVIOUS
      <4>2. b \in Sent /\ Quiet(b) /\ b.update = full /\ ToAll(b)
        BY <2>10, <3>2, <4>1, BroadcastQuiet
      <4>3. Tells(G, full)' => Tells(G, b.update)'
        BY <4>2
      <4> QED BY <2>11, <4>2, <4>3
    <3> QED BY <2>8, <3>1, <3>2
  <2>13. PICK b \in Sent : Quiet(b) /\ ToAll(b) /\ Tells(G, b.update)'
    BY <2>12
  <2>14. ContentsOK'
    <3>1. \A f \in File : index'[k].files[f] <= edits /\ AsNew(disk[k][f], index'[k].files[f])
      BY <1>3, <2>2, <2>9
    <3>2. \A j \in Key \ {k} : index'[j] = index[j]
      BY <1>4, <2>8
    <3> QED BY <1>5, <2>9, <3>1, <3>2, ContentsLater
  <2>15. PrimaryTypes'
    BY <1>4, <1>5, <2>9 DEF PrimaryTypes
  <2>16. Kept(G)'
    BY <1>5, <2>9, <2>13, <2>14, <2>15, NothingSettles
  <2> QED BY <2>16 DEF ShardIInv
<1>7. CASE ~(index[k].loaded /\ scanned # index[k].files)
  <2>1. /\ version' = version /\ markers' = markers /\ deltaLog' = deltaLog /\ index' = index
        /\ shardCounter' = shardCounter /\ UNCHANGED inbox
    BY <1>2, <1>7 DEF FinishRefresh, primaryVars
  <2>2. Onward(H, H)
    BY <1>4, <2>1, StillOnward
  <2>3. Recorded(H)' /\ LogRecords(H)'
    BY <1>4, <2>1 DEF Recorded, LogRecords, IsLast, Touches
  <2>4. IndexOK' /\ PrimaryTypes'
    BY <1>4, <1>5, <2>1 DEF IndexOK, PrimaryTypes
  <2>5. ContentsOK'
    <3>1. /\ index' \in [Key -> Shard] /\ \A j \in Key \ {k} : index'[j] = index[j]
          /\ \A f \in File : index'[k].files[f] <= edits /\ AsNew(disk[k][f], index'[k].files[f])
      BY <1>3, <1>4, <2>1
    <3> QED BY <1>5, <3>1, ContentsLater
  <2>6. PICK b \in Sent : Quiet(b) /\ Tells(H, b.update)'
    BY <1>4, <2>1, NoBroadcast
  <2>7. Kept(H)'
    BY <1>5, <2>1, <2>2, <2>3, <2>4, <2>5, <2>6, NothingSettles
  <2> QED BY <2>7 DEF ShardIInv
<1> QED BY <1>6, <1>7
-----------------------------------------------------------------------------
(* The theorems.                                                           *)

LEMMA StepInv == ShardIInv /\ [ShardNext]_shardVars => ShardIInv'
<1> SUFFICES ASSUME ShardIInv, [ShardNext]_shardVars PROVE ShardIInv'
  OBVIOUS
<1>1. PICK H : Kept(H)
  BY DEF ShardIInv
<1>2. CASE StartOperation
  BY <1>1, <1>2, StartOperationInv
<1>3. CASE FinishLoad
  BY <1>1, <1>3, FinishLoadInv
<1>4. CASE FinishRefresh
  BY <1>1, <1>4, FinishRefreshInv
<1>5. CASE Publish
  <2>1. Kept(H)'
    BY <1>1, <1>5, PublishInv
  <2> QED BY <2>1 DEF ShardIInv
<1>6. ASSUME NEW w \in Worker, PrimaryReceive(w)
      PROVE  ShardIInv'
  <2>1. Kept(H)'
    BY <1>1, <1>6, PrimaryReceiveInv
  <2> QED BY <2>1 DEF ShardIInv
<1>7. ASSUME NEW w \in Worker, WorkerReceive(w)
      PROVE  ShardIInv'
  <2>1. Kept(H)'
    BY <1>1, <1>7, ReceiveInv
  <2> QED BY <2>1 DEF ShardIInv
<1>8. CASE \/ UNCHANGED shardVars
           \/ \E k \in Key : Reconcile(k) \/ EditOutside(k)
           \/ \E w \in Worker : WorkerCall(w)
  <2>1. Kept(H)'
    BY <1>1, <1>8, QuietSteps
  <2> QED BY <2>1 DEF ShardIInv
<1> QED BY <1>2, <1>3, <1>4, <1>5, <1>6, <1>7, <1>8 DEF ShardNext, OperationStep

LEMMA ShardAlways == ShardSpec => []ShardIInv
  BY InitInv, StepInv, PTL DEF ShardSpec

\* What the runs check of the types.
LEMMA KeptTypes ==
    ASSUME NEW H, Kept(H)
    PROVE  ShardTypeOK
<1>1. PrimaryTypes /\ WorkerTypes /\ ChannelTypes
  BY DEF Kept, Types
<1>2. ASSUME NEW u \in Update PROVE IsUpdate(u)
  BY UpdateElim DEF IsUpdate
<1>3. ASSUME NEW m \in Sent PROVE IsMessage(m)
  <2>1. m.update \in Update /\ m.shards \in Bundle
    BY SentElim
  <2>2. IsBundle(m.shards)
    BY <2>1, BundleElim DEF IsBundle
  <2> QED BY <1>2, <2>1, <2>2, SentElim DEF IsMessage, MessageType
<1>4. \A i \in DOMAIN deltaLog : IsUpdate(deltaLog[i])
  BY <1>1, <1>2 DEF PrimaryTypes
<1>5. queue \in Seq(Operation)
  <2>1. Queued \subseteq Operation
    BY DEF Queued, Operation
  <2>2. queue \in Seq(Queued)
    BY <1>1 DEF PrimaryTypes
  <2>3. /\ Len(queue) \in Nat /\ DOMAIN queue = 1 .. Len(queue) /\ queue = [i \in 1 .. Len(queue) |-> queue[i]]
        /\ \A i \in 1 .. Len(queue) : queue[i] \in Operation
    BY <2>1, <2>2
  <2> QED BY <2>3
<1>6. running # Idle => running.op \in {"load", "refresh"} /\ running.scanned \in Files
  BY <1>1 DEF PrimaryTypes, Scan
<1>7. \A i \in DOMAIN unpublished :
         unpublished[i].worker \in Worker /\ IsMessage(unpublished[i].message)
  <2>1. \A i \in DOMAIN unpublished : unpublished[i] \in Settled
    BY <1>1 DEF PrimaryTypes
  <2> QED BY <1>3, <2>1 DEF Settled
<1>8. \A w \in Worker : \A i \in DOMAIN inbox[w] : IsMessage(inbox[w][i])
  <2>1. \A w \in Worker : \A i \in DOMAIN inbox[w] : inbox[w][i] \in Sent
    BY <1>1 DEF ChannelTypes
  <2> QED BY <1>3, <2>1
<1> QED BY <1>1, <1>4, <1>5, <1>6, <1>7, <1>8
       DEF ShardTypeOK, PrimaryTypes, WorkerTypes, ChannelTypes

\* Whatever the primary and the workers exchange, every variable keeps its type: the
\* queue holds operations with their callers, the channels well-formed messages.
THEOREM ShardsTyped == ShardSpec => []ShardTypeOK
<1>1. ShardIInv => ShardTypeOK
  BY KeptTypes DEF ShardIInv
<1> QED BY <1>1, ShardAlways, PTL

\* ensureFileIndexShardLoaded answers no shard to a worker that names the primary's
\* version: whatever scans, commits and messages came before, a copy of that version
\* has the primary's files.
THEOREM CopyOfVersionIsCurrent == ShardSpec => []VersionNamesFiles
<1>1. ASSUME NEW H, Kept(H)
      PROVE  VersionNamesFiles
  BY <1>1 DEF Kept, CopiesOK, Dated, VersionNamesFiles
<1>2. ShardIInv => VersionNamesFiles
  BY <1>1 DEF ShardIInv
<1> QED BY <1>2, ShardAlways, PTL

\* For every number of workers, users and files: once a worker was answered with the
\* version its write's commit made, no broadcast, answer, pulled delta or snapshot,
\* in whatever order they arrive, makes it take an older copy of that shard for
\* current (applyShard and markShardStale).  Of a write whose commit made no version,
\* something else having indexed it first, or was overtaken by an older answer still
\* unsent, it says nothing.
THEOREM CommittedVersionStays == ShardSpec => []CommittedVersionKept
<1>1. ASSUME NEW H, Kept(H)
      PROVE  CommittedVersionKept
  BY <1>1 DEF Kept, CopiesOK, Safe, CommittedVersionKept
<1>2. ShardIInv => CommittedVersionKept
  BY <1>1 DEF ShardIInv
<1> QED BY <1>2, ShardAlways, PTL

\* One step of the primary: what it indexes is at least as new as what it had.
LEMMA IndexStep ==
    ASSUME NEW H, Kept(H), [ShardNext]_shardVars, NEW k \in Key, NEW f \in File
    PROVE  index'[k].files[f] = 0 \/ index'[k].files[f] >= index[k].files[f]
<1>1. /\ index \in [Key -> Shard] /\ running \in {Idle} \cup Scan /\ ContentsOK
      /\ queue \in Seq(Queued)
  BY DEF Kept, Types, PrimaryTypes
<1>2. \A j \in Key, g \in File : index[j].files[g] \in Nat
  BY <1>1 DEF Shard, Files
<1>3. ASSUME index' = index
      PROVE  index'[k].files[f] = 0 \/ index'[k].files[f] >= index[k].files[f]
  BY <1>2, <1>3
<1>4. ASSUME NEW j \in Key, NEW s, index' = [index EXCEPT ![j] = s],
             \A g \in File : AsNew(s.files[g], index[j].files[g])
      PROVE  index'[k].files[f] = 0 \/ index'[k].files[f] >= index[k].files[f]
  <2>1. index'[k] = IF k = j THEN s ELSE index[k]
    BY <1>1, <1>4
  <2> QED BY <1>2, <1>4, <2>1 DEF AsNew
<1>5. ASSUME running # Idle
      PROVE  /\ running.key \in Key
             /\ \A g \in File : AsNew(running.scanned[g], index[running.key].files[g])
  BY <1>1, <1>5 DEF Scan, ContentsOK
<1>6. CASE StartOperation
  <2>1. PICK i \in DOMAIN queue : PathChanges(queue[i]) \/ StartScan(queue[i])
    BY <1>6 DEF StartOperation
  <2>2. PICK q \in Queued : q = queue[i]
    BY <1>1
  <2>3. CASE StartScan(q)
    BY <1>3, <2>3 DEF StartScan, primaryVars
  <2>4. CASE PathChanges(q)
    <3>1. PICK j \in Key : j = q.key
      BY DEF Queued
    <3>2. PICK found : found = [g \in File |-> IF g \in q.files THEN disk[j][g] ELSE index[j].files[g]]
      OBVIOUS
    <3>3. CASE found # index[j].files
      <4>1. PICK s : s = Indexed(index[j], found, FALSE)
        OBVIOUS
      <4>2. index' = [index EXCEPT ![j] = s] /\ s.files = found
        BY <2>4, <3>1, <3>2, <3>3, <4>1 DEF PathChanges, Reindex, Indexed
      <4>3. \A g \in File : AsNew(found[g], index[j].files[g])
        BY <1>1, <1>2, <3>2 DEF ContentsOK, AsNew
      <4> QED BY <1>4, <4>2, <4>3
    <3>4. CASE found = index[j].files
      BY <1>3, <2>4, <3>1, <3>2, <3>4 DEF PathChanges, primaryVars
    <3> QED BY <3>3, <3>4
  <2> QED BY <2>1, <2>2, <2>3, <2>4
<1>7. CASE FinishLoad
  <2>1. running # Idle
    BY <1>7 DEF FinishLoad, ScanEnds, Idle
  <2>2. PICK j \in Key : j = running.key
    BY <1>5, <2>1
  <2>3. CASE running.scanned # index[j].files
    <3>1. PICK s : s = Indexed(index[j], running.scanned, TRUE)
      OBVIOUS
    <3>2. index' = [index EXCEPT ![j] = s] /\ s.files = running.scanned
      BY <1>7, <2>2, <2>3, <3>1 DEF FinishLoad, Reindex, Indexed
    <3> QED BY <1>4, <1>5, <2>1, <2>2, <3>2
  <2>4. CASE running.scanned = index[j].files
    <3>1. Rescanned(j)
      BY <1>7, <2>2, <2>4 DEF FinishLoad
    <3>2. PICK s : s = IF index[j].files = NoFiles THEN Indexed(index[j], NoFiles, TRUE)
                       ELSE [index[j] EXCEPT !.loaded = TRUE]
      OBVIOUS
    <3>3. index' = [index EXCEPT ![j] = s] /\ s.files = index[j].files
      <4>1. index[j] \in Shard
        BY <1>1
      <4>2. CASE index[j].files = NoFiles
        BY <3>1, <3>2, <4>2 DEF Rescanned, Reindex, Indexed
      <4>3. CASE index[j].files # NoFiles
        BY <1>1, <3>1, <3>2, <4>1, <4>3 DEF Rescanned, Shard
      <4> QED BY <4>2, <4>3
    <3>4. \A g \in File : AsNew(s.files[g], index[j].files[g])
      BY <1>2, <3>3 DEF AsNew
    <3> QED BY <1>4, <3>3, <3>4
  <2> QED BY <2>3, <2>4
<1>8. CASE FinishRefresh
  <2>1. running # Idle
    BY <1>8 DEF FinishRefresh, ScanEnds, Idle
  <2>2. PICK j \in Key : j = running.key
    BY <1>5, <2>1
  <2>3. CASE index[j].loaded /\ running.scanned # index[j].files
    <3>1. PICK s : s = Indexed(index[j], running.scanned, TRUE)
      OBVIOUS
    <3>2. index' = [index EXCEPT ![j] = s] /\ s.files = running.scanned
      BY <1>8, <2>2, <2>3, <3>1 DEF FinishRefresh, Reindex, Indexed
    <3> QED BY <1>4, <1>5, <2>1, <2>2, <3>2
  <2>4. CASE ~(index[j].loaded /\ running.scanned # index[j].files)
    BY <1>3, <1>8, <2>2, <2>4 DEF FinishRefresh, primaryVars
  <2> QED BY <2>3, <2>4
<1>9. ASSUME ~StartOperation, ~FinishLoad, ~FinishRefresh
      PROVE  index' = index
  <2>1. CASE UNCHANGED shardVars
    BY <2>1 DEF shardVars, primaryVars
  <2>2. CASE Publish
    BY <2>2 DEF Publish, primaryVars
  <2>3. ASSUME NEW j \in Key, Reconcile(j) \/ EditOutside(j)
        PROVE  index' = index
    BY <2>3 DEF Reconcile, EditOutside, primaryVars
  <2>4. ASSUME NEW w \in Worker, PrimaryReceive(w) \/ WorkerReceive(w)
        PROVE  index' = index
    BY <2>4 DEF PrimaryReceive, WorkerReceive, primaryVars
  <2>5. ASSUME NEW w \in Worker, WorkerCall(w)
        PROVE  index' = index
    BY <2>5 DEF WorkerCall, FencePull, EnsureUserFileIndex, EnsureUserAuthState, Write,
                CallsPrimary, primaryVars
  <2> QED BY <1>9, <2>1, <2>2, <2>3, <2>4, <2>5 DEF ShardNext, OperationStep
<1> QED BY <1>3, <1>6, <1>7, <1>8, <1>9

\* A scan that was under way while a write was committed, a commit queued behind a
\* scan, a reconcile: none of them puts an older content of a file back into the
\* index.
THEOREM IndexNeverGoesBack == ShardSpec => IndexMovesForward
<1>1. ShardIInv /\ [ShardNext]_shardVars =>
         [\A k \in Key, f \in File :
             index'[k].files[f] = 0 \/ index'[k].files[f] >= index[k].files[f]]_shardVars
  <2> SUFFICES ASSUME ShardIInv, [ShardNext]_shardVars
               PROVE  \A k \in Key, f \in File :
                         index'[k].files[f] = 0 \/ index'[k].files[f] >= index[k].files[f]
    OBVIOUS
  <2>1. PICK H : Kept(H)
    BY DEF ShardIInv
  <2> QED BY <2>1, IndexStep
<1> QED BY <1>1, ShardAlways, PTL DEF ShardSpec, IndexMovesForward
=============================================================================
