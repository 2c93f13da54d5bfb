--------------------------- MODULE SequenceLemmas ---------------------------
(* Facts about queues kept as sequences, for the proof modules.             *)
EXTENDS Integers, Sequences, SequencesExt, TLAPS

\* Removing one element leaves the others in their order.
LEMMA RemoveAtIs ==
    ASSUME NEW S, NEW s \in Seq(S), NEW i \in DOMAIN s
    PROVE  /\ RemoveAt(s, i) \in Seq(S)
           /\ DOMAIN RemoveAt(s, i) = 1 .. (Len(s) - 1)
           /\ \A j \in 1 .. (Len(s) - 1) :
                 RemoveAt(s, i)[j] = IF j < i THEN s[j] ELSE s[j + 1]
<1> DEFINE left == SubSeq(s, 1, i - 1)
           right == SubSeq(s, i + 1, Len(s))
<1>0. i \in 1 .. Len(s) /\ Len(s) \in Nat
  OBVIOUS
<1>1. /\ left \in Seq(S)
      /\ Len(left) = i - 1
      /\ \A j \in 1 .. (i - 1) : left[j] = s[j]
  BY <1>0
<1>2. /\ right \in Seq(S)
      /\ Len(right) = Len(s) - i
      /\ \A j \in 1 .. (Len(s) - i) : right[j] = s[i + j]
  BY <1>0
<1>3. RemoveAt(s, i) = left \o right
  BY DEF RemoveAt
<1> HIDE DEF left, right
<1>4. /\ RemoveAt(s, i) \in Seq(S)
      /\ Len(RemoveAt(s, i)) = Len(s) - 1
  BY <1>0, <1>1, <1>2, <1>3
<1>5. ASSUME NEW j \in 1 .. (Len(s) - 1)
      PROVE  RemoveAt(s, i)[j] = IF j < i THEN s[j] ELSE s[j + 1]
  <2>1. (left \o right)[j] = IF j <= i - 1 THEN left[j] ELSE right[j - (i - 1)]
    BY <1>0, <1>1, <1>2
  <2>2. CASE j < i
    BY <1>0, <1>1, <1>3, <2>1, <2>2
  <2>3. CASE j >= i
    <3>1. j - (i - 1) \in 1 .. (Len(s) - i)
      BY <1>0, <2>3
    <3>2. right[j - (i - 1)] = s[i + (j - (i - 1))]
      BY <1>2, <3>1
    <3>3. i + (j - (i - 1)) = j + 1
      BY <1>0
    <3> QED BY <1>0, <1>3, <2>1, <2>3, <3>2, <3>3
  <2> QED BY <1>0, <2>2, <2>3
<1> QED BY <1>4, <1>5

\* Taking one element out of a queue without duplicates.
LEMMA RemoveAtDistinct ==
    ASSUME NEW S, NEW s \in Seq(S), NEW i \in DOMAIN s, IsInjective(s)
    PROVE  /\ IsInjective(RemoveAt(s, i))
           /\ Range(RemoveAt(s, i)) = Range(s) \ {s[i]}
<1> DEFINE r == RemoveAt(s, i)
<1>0. i \in 1 .. Len(s) /\ Len(s) \in Nat /\ DOMAIN s = 1 .. Len(s)
  OBVIOUS
<1>1. /\ DOMAIN r = 1 .. (Len(s) - 1)
      /\ \A j \in 1 .. (Len(s) - 1) : r[j] = IF j < i THEN s[j] ELSE s[j + 1]
  BY RemoveAtIs
<1>2. \A j, k \in DOMAIN s : s[j] = s[k] => j = k
  BY DEF IsInjective
<1> HIDE DEF r
<1>3. ASSUME NEW j \in DOMAIN r, NEW k \in DOMAIN r, r[j] = r[k]
      PROVE  j = k
  <2> DEFINE jj == IF j < i THEN j ELSE j + 1
             kk == IF k < i THEN k ELSE k + 1
  <2>1. j \in Nat /\ k \in Nat /\ i \in Nat /\ jj \in DOMAIN s /\ kk \in DOMAIN s
    BY <1>0, <1>1
  <2>2. r[j] = s[jj] /\ r[k] = s[kk]
    BY <1>1
  <2>3. jj = kk
    BY <1>2, <1>3, <2>1, <2>2
  <2> QED BY <2>1, <2>3
<1>4. Range(r) \subseteq Range(s) \ {s[i]}
  <2>1. ASSUME NEW j \in DOMAIN r PROVE r[j] \in Range(s) \ {s[i]}
    BY <1>0, <1>1, <1>2, <2>1 DEF Range
  <2> QED BY <2>1 DEF Range
<1>5. Range(s) \ {s[i]} \subseteq Range(r)
  <2>1. ASSUME NEW j \in DOMAIN s, s[j] # s[i] PROVE s[j] \in Range(r)
    <3>1. CASE j < i
      <4>1. j \in DOMAIN r /\ r[j] = s[j]
        BY <1>0, <1>1, <3>1
      <4> QED BY <4>1 DEF Range
    <3>2. CASE j > i
      <4>1. j - 1 \in DOMAIN r /\ r[j - 1] = s[j]
        BY <1>0, <1>1, <3>2
      <4> QED BY <4>1 DEF Range
    <3> QED BY <1>0, <2>1, <3>1, <3>2
  <2> QED BY <2>1 DEF Range
<1>6. IsInjective(r)
  BY <1>3 DEF IsInjective
<1>7. Range(r) = Range(s) \ {s[i]}
  BY <1>4, <1>5
<1> QED BY <1>6, <1>7 DEF r

\* Joining the end of a queue.
LEMMA AppendDistinct ==
    ASSUME NEW S, NEW s \in Seq(S), NEW e \in S, IsInjective(s), e \notin Range(s)
    PROVE  /\ Append(s, e) \in Seq(S)
           /\ IsInjective(Append(s, e))
           /\ Range(Append(s, e)) = Range(s) \cup {e}
<1> DEFINE r == Append(s, e)
<1>1. /\ r \in Seq(S) /\ DOMAIN s = 1 .. Len(s) /\ Len(s) \in Nat
      /\ DOMAIN r = 1 .. (Len(s) + 1)
      /\ \A j \in 1 .. Len(s) : r[j] = s[j]
      /\ r[Len(s) + 1] = e
  OBVIOUS
<1>2. /\ \A j, k \in DOMAIN s : s[j] = s[k] => j = k
      /\ \A j \in DOMAIN s : s[j] # e
  BY DEF IsInjective, Range
<1> HIDE DEF r
<1>3. \A j, k \in DOMAIN r : r[j] = r[k] => j = k
  BY <1>1, <1>2
<1>4. Range(r) \subseteq Range(s) \cup {e}
  BY <1>1 DEF Range
<1>5. Range(s) \cup {e} \subseteq Range(r)
  <2>1. ASSUME NEW j \in DOMAIN s PROVE s[j] \in Range(r)
    <3>1. j \in DOMAIN r /\ r[j] = s[j]
      BY <1>1
    <3> QED BY <3>1 DEF Range
  <2>2. e \in Range(r)
    <3>1. Len(s) + 1 \in DOMAIN r
      BY <1>1
    <3> QED BY <1>1, <3>1 DEF Range
  <2> QED BY <2>1, <2>2 DEF Range
<1> QED BY <1>1, <1>3, <1>4, <1>5 DEF r, IsInjective

\* Leaving from the head of a queue.
LEMMA TailDistinct ==
    ASSUME NEW S, NEW s \in Seq(S), s # <<>>, IsInjective(s)
    PROVE  /\ Tail(s) \in Seq(S)
           /\ Head(s) \in Range(s)
           /\ Head(s) \in S
           /\ IsInjective(Tail(s))
           /\ Range(Tail(s)) = Range(s) \ {Head(s)}
<1> DEFINE r == Tail(s)
<1>1. /\ r \in Seq(S) /\ DOMAIN s = 1 .. Len(s) /\ Len(s) \in Nat /\ Len(s) > 0
      /\ DOMAIN r = 1 .. (Len(s) - 1)
      /\ \A j \in 1 .. (Len(s) - 1) : r[j] = s[j + 1]
      /\ Head(s) = s[1] /\ Head(s) \in S
  OBVIOUS
<1>2. \A j, k \in DOMAIN s : s[j] = s[k] => j = k
  BY DEF IsInjective
<1> HIDE DEF r
<1>3. ASSUME NEW j \in DOMAIN r, NEW k \in DOMAIN r, r[j] = r[k]
      PROVE  j = k
  <2>1. j \in Nat /\ k \in Nat /\ j + 1 \in DOMAIN s /\ k + 1 \in DOMAIN s
    BY <1>1
  <2>2. s[j + 1] = s[k + 1]
    BY <1>1, <1>3
  <2>3. j + 1 = k + 1
    BY <1>2, <2>1, <2>2
  <2> QED BY <2>1, <2>3
<1>4. Range(r) \subseteq Range(s) \ {s[1]}
  <2>1. ASSUME NEW j \in DOMAIN r PROVE r[j] \in Range(s) \ {s[1]}
    <3>1. /\ r[j] = s[j + 1] /\ j + 1 \in DOMAIN s
          /\ 1 \in DOMAIN s /\ j + 1 # 1
      BY <1>1
    <3> QED BY <1>2, <3>1 DEF Range
  <2> QED BY <2>1 DEF Range
<1>5. Range(s) \ {s[1]} \subseteq Range(r)
  <2>1. ASSUME NEW j \in DOMAIN s, s[j] # s[1] PROVE s[j] \in Range(r)
    <3>1. j - 1 \in DOMAIN r /\ r[j - 1] = s[j]
      BY <1>1, <2>1
    <3> QED BY <3>1 DEF Range
  <2> QED BY <2>1 DEF Range
<1>6. Head(s) \in Range(s)
  BY <1>1 DEF Range
<1>7. Range(r) = Range(s) \ {Head(s)}
  BY <1>1, <1>4, <1>5
<1>8. IsInjective(r)
  BY <1>3 DEF IsInjective
<1> QED BY <1>1, <1>6, <1>7, <1>8 DEF r
=============================================================================
