--------------------------- MODULE StateLocksProofs ---------------------------
(***************************************************************************)
(* Mutual exclusion and the wait queues of StateLocks, for any callers,    *)
(* locks, times to live and waits.  MutualExclusion is not inductive: IInv *)
(* adds that a caller whose time is not up is the one the lock table       *)
(* names, with the same time left (Owned), and that no token was given out *)
(* twice (Distinct).                                                       *)
(***************************************************************************)
EXTENDS StateLocks, SequenceLemmas

Owned ==
    \A c \in Client : Valid(c) => /\ locks[call[c].lock].token = call[c].token
                                  /\ locks[call[c].lock].left = call[c].left

Distinct ==
    \A c, d \in Client : call[c].token # NoToken /\ call[c].token = call[d].token => c = d

LockIInv == LockTypeOK /\ Owned /\ Distinct /\ WaitersQueued

CallRecord == [pc : Pc, lock : Lock, token : Token \cup {NoToken}, left : Nat, ttl : Nat]

Waiting(c, l) == call[c].pc \in {"waiting", "orphaned"} /\ call[c].lock = l

-----------------------------------------------------------------------------
(* The parts actions are built from.                                       *)

LEMMA NoCallType == NoCall \in CallRecord /\ NoCall.pc = "idle" /\ NoCall.token = NoToken
<1>1. (CHOOSE l \in Lock : TRUE) \in Lock
  BY LockAssumption
<1> QED
  BY <1>1 DEF NoCall, CallRecord, Pc

\* A new token is one that is in use nowhere.
LEMMA NewTokenUnused ==
    ASSUME NEW t \in NewTokens
    PROVE  t \in Token /\ t # NoToken /\ Unused(t)
<1> DEFINE unused == {u \in Token : Unused(u)}
<1>1. unused # {} /\ t = CHOOSE u \in unused : TRUE
  BY DEF NewTokens
<1>2. t \in unused
  BY <1>1
<1> QED
  BY <1>2, LockAssumption

\* A step that changes the call of c only, to one without a token.
LEMMA CallDropped ==
    ASSUME LockIInv, NEW c \in Client, NEW r \in CallRecord, r.token = NoToken,
           call' = [call EXCEPT ![c] = r]
    PROVE  /\ call' \in [Client -> CallRecord]
           /\ Distinct'
           /\ locks' = locks => Owned'
<1>1. call \in [Client -> CallRecord]
  BY DEF LockIInv, LockTypeOK, CallRecord
<1>2. /\ call'[c] = r
      /\ \A d \in Client : d # c => call'[d] = call[d]
  BY <1>1
<1>3. Distinct'
  BY <1>2 DEF LockIInv, Distinct
<1>4. ASSUME locks' = locks PROVE Owned'
  BY <1>2, <1>4 DEF LockIInv, Owned, Valid
<1> QED BY <1>1, <1>3, <1>4

\* No queue changes if nobody starts or stops waiting.
LEMMA QueuesKept ==
    ASSUME LockIInv, UNCHANGED waitQueues,
           \A c \in Client, l \in Lock : Waiting(c, l)' <=> Waiting(c, l)
    PROVE  WaitersQueued'
BY DEF LockIInv, WaitersQueued, Waiting

\* queue.splice(indexOf) takes the caller out of a queue that has it once.
LEMMA WithoutDistinct ==
    ASSUME NEW q \in Seq(Client), NEW c \in Client, IsInjective(q)
    PROVE  /\ Without(q, c) \in Seq(Client)
           /\ IsInjective(Without(q, c))
           /\ Range(Without(q, c)) = Range(q) \ {c}
<1>1. CASE \E i \in DOMAIN q : q[i] = c
  <2> DEFINE i == CHOOSE k \in DOMAIN q : q[k] = c
  <2>1. i \in DOMAIN q /\ q[i] = c
    BY <1>1
  <2>2. Without(q, c) = RemoveAt(q, i)
    BY <1>1 DEF Without
  <2> HIDE DEF i
  <2> QED BY <2>1, <2>2, RemoveAtIs, RemoveAtDistinct
<1>2. CASE ~ \E i \in DOMAIN q : q[i] = c
  BY <1>2 DEF Without, Range
<1> QED BY <1>1, <1>2

-----------------------------------------------------------------------------
(* The initial states and the steps.                                       *)

LEMMA LockInitIInv == LockInit => LockIInv
<1> SUFFICES ASSUME LockInit PROVE LockIInv
  OBVIOUS
<1>1. \A c \in Client : call[c] \in CallRecord /\ call[c].pc = "idle" /\ call[c].token = NoToken
  BY NoCallType DEF LockInit
<1>2. LockTypeOK
  BY NoCallType DEF LockInit, LockTypeOK, Free, CallRecord
<1>3. Owned /\ Distinct
  BY <1>1 DEF Owned, Distinct, Valid
<1>4. WaitersQueued
  <2> SUFFICES ASSUME NEW l \in Lock
               PROVE  /\ IsInjective(waitQueues[l])
                      /\ Range(waitQueues[l]) =
                            {c \in Client : call[c].pc \in {"waiting", "orphaned"} /\ call[c].lock = l}
    BY DEF WaitersQueued
  <2>1. waitQueues[l] = <<>>
    BY DEF LockInit
  <2>2. IsInjective(<<>>) /\ Range(<<>>) = {}
    BY DEF IsInjective, Range
  <2> QED BY <1>1, <2>1, <2>2
<1> QED BY <1>2, <1>3, <1>4 DEF LockIInv

\* The grant of a lock nobody holds in time, to one caller, while the others keep
\* their calls or drop them.
Grants(c, l, t, ttl) ==
    /\ \A d \in Client : d # c => \/ call'[d] = call[d] /\ ~(Valid(d) /\ call[d].lock = l)
                                  \/ call'[d] = NoCall
    /\ call'[c] = Granted(c, l, t, ttl)
    /\ locks' = [locks EXCEPT ![l] = [token |-> t, left |-> ttl]]

LEMMA Grant ==
    ASSUME LockIInv, NEW c \in Client, NEW l \in Lock, NEW t \in NewTokens, NEW ttl \in Nat,
           Grants(c, l, t, ttl)
    PROVE  Owned' /\ Distinct'
<1> USE DEF Grants
<1>1. t \in Token /\ t # NoToken /\ Unused(t)
  BY NewTokenUnused
<1>2. call'[c].lock = l /\ call'[c].token = t /\ call'[c].left = ttl
  BY DEF Granted
<1>3. locks'[l] = [token |-> t, left |-> ttl] /\ \A k \in Lock : k # l => locks'[k] = locks[k]
  BY DEF LockIInv, LockTypeOK
<1>4. \A d \in Client : d # c => call'[d].token # t
  BY <1>1, NoCallType DEF Unused
<1>5. Distinct'
  BY <1>2, <1>4, NoCallType DEF LockIInv, Distinct
<1>6. ASSUME NEW d \in Client, Valid(d)'
      PROVE  /\ locks'[call'[d].lock].token = call'[d].token
             /\ locks'[call'[d].lock].left = call'[d].left
  <2>1. CASE d = c
    BY <1>2, <1>3, <2>1
  <2>2. CASE d # c
    <3>1. call'[d] = call[d] /\ ~(Valid(d) /\ call[d].lock = l)
      BY <1>6, <2>2, NoCallType DEF Valid
    <3>2. Valid(d) /\ call[d].lock # l /\ call[d].lock \in Lock
      BY <1>6, <3>1 DEF Valid, LockIInv, LockTypeOK
    <3> QED BY <1>3, <3>1, <3>2 DEF LockIInv, Owned
  <2> QED BY <2>1, <2>2
<1> QED BY <1>5, <1>6 DEF Owned

LEMMA AcquireFreeIInv ==
    ASSUME LockIInv, NEW c \in Client, NEW l \in Lock, NEW ttl \in Nat,
           call[c].pc = "idle", AcquireFree(c, l, ttl)
    PROVE  LockIInv'
<1>1. PICK t \in NewTokens :
         /\ locks' = [locks EXCEPT ![l] = [token |-> t, left |-> ttl]]
         /\ call' = [call EXCEPT ![c] = Granted(c, l, t, ttl)]
  BY DEF AcquireFree
<1>2. /\ call'[c] = Granted(c, l, t, ttl)
      /\ \A d \in Client : d # c => call'[d] = call[d]
  BY <1>1 DEF LockIInv, LockTypeOK
<1>3. \A d \in Client : ~(Valid(d) /\ call[d].lock = l)
  BY DEF AcquireFree, Taken, LockIInv, Owned, Valid, LockTypeOK
<1>4. Owned' /\ Distinct'
  <2>1. Grants(c, l, t, ttl)
    BY <1>1, <1>2, <1>3 DEF Grants
  <2> QED BY <2>1, Grant
<1>5. LockTypeOK'
  <2>1. t \in Token
    BY NewTokenUnused
  <2> QED BY <1>1, <2>1 DEF AcquireFree, LockIInv, LockTypeOK, Granted, Pc
<1>6. WaitersQueued'
  <2>1. \A d \in Client, k \in Lock : Waiting(d, k)' <=> Waiting(d, k)
    BY <1>2 DEF Waiting, Granted
  <2> QED BY <2>1, QueuesKept DEF AcquireFree
<1> QED BY <1>4, <1>5, <1>6 DEF LockIInv

LEMMA AcquireTakenIInv ==
    ASSUME LockIInv, NEW c \in Client, NEW l \in Lock, NEW ttl \in Nat, NEW wait \in Nat,
           call[c].pc = "idle", AcquireTaken(c, l, ttl, wait)
    PROVE  LockIInv'
<1>0. locks' = locks /\ call \in [Client -> CallRecord] /\ waitQueues \in [Lock -> Seq(Client)]
  BY DEF AcquireTaken, LockIInv, LockTypeOK, CallRecord
<1>1. CASE wait = 0
  <2>1. call' = [call EXCEPT ![c] = Refused] /\ UNCHANGED waitQueues
    BY <1>1 DEF AcquireTaken
  <2>2. Refused \in CallRecord /\ Refused.token = NoToken /\ Refused.pc = "answered"
    BY NoCallType DEF Refused, CallRecord, Pc
  <2>3. call' \in [Client -> CallRecord] /\ Distinct' /\ Owned'
    BY <1>0, <2>1, <2>2, CallDropped
  <2>4. \A d \in Client, k \in Lock : Waiting(d, k)' <=> Waiting(d, k)
    BY <1>0, <2>1, <2>2 DEF Waiting
  <2>5. WaitersQueued'
    BY <2>1, <2>4, QueuesKept
  <2>6. LockTypeOK'
    BY <1>0, <2>1, <2>3 DEF LockIInv, LockTypeOK, CallRecord
  <2> QED BY <2>3, <2>5, <2>6 DEF LockIInv
<1>2. CASE wait # 0
  <2> DEFINE w == [pc |-> "waiting", lock |-> l, token |-> NoToken, left |-> wait, ttl |-> ttl]
  <2>1. /\ call' = [call EXCEPT ![c] = w]
        /\ waitQueues' = [waitQueues EXCEPT ![l] = Append(@, c)]
    BY <1>2 DEF AcquireTaken
  <2>2. w \in CallRecord /\ w.token = NoToken
    BY DEF CallRecord, Pc
  <2>3. call' \in [Client -> CallRecord] /\ Distinct' /\ Owned'
    BY <1>0, <2>1, <2>2, CallDropped
  <2>4. IsInjective(waitQueues[l]) /\ c \notin Range(waitQueues[l])
    BY DEF LockIInv, WaitersQueued
  <2>5. /\ Append(waitQueues[l], c) \in Seq(Client)
        /\ IsInjective(Append(waitQueues[l], c))
        /\ Range(Append(waitQueues[l], c)) = Range(waitQueues[l]) \cup {c}
    BY <1>0, <2>4, AppendDistinct
  <2>6. LockTypeOK'
    BY <1>0, <2>1, <2>3, <2>5 DEF LockIInv, LockTypeOK, CallRecord
  <2>7. ASSUME NEW k \in Lock
        PROVE  /\ IsInjective(waitQueues'[k])
               /\ Range(waitQueues'[k]) = {d \in Client : Waiting(d, k)'}
    <3>1. /\ IsInjective(waitQueues[k])
          /\ Range(waitQueues[k]) = {d \in Client : Waiting(d, k)}
      BY DEF LockIInv, WaitersQueued, Waiting
    <3>2. \A d \in Client : Waiting(d, k)' <=> Waiting(d, k) \/ (d = c /\ k = l)
      BY <1>0, <2>1 DEF Waiting
    <3>3. waitQueues'[k] = IF k = l THEN Append(waitQueues[l], c) ELSE waitQueues[k]
      BY <1>0, <2>1
    <3>4. CASE k = l
      BY <2>5, <3>1, <3>2, <3>3, <3>4
    <3>5. CASE k # l
      BY <3>1, <3>2, <3>3, <3>5
    <3> QED BY <3>4, <3>5
  <2>8. WaitersQueued'
    BY <2>7 DEF WaitersQueued, Waiting
  <2> QED BY <2>3, <2>6, <2>8 DEF LockIInv
<1> QED BY <1>1, <1>2

LEMMA WaitTimesOutIInv ==
    ASSUME LockIInv, NEW c \in Client, WaitTimesOut(c)
    PROVE  LockIInv'
<1> DEFINE l == call[c].lock
           r == IF call[c].pc = "orphaned" THEN NoCall ELSE Refused
<1>0. /\ locks' = locks /\ call \in [Client -> CallRecord] /\ waitQueues \in [Lock -> Seq(Client)]
      /\ l \in Lock /\ Waiting(c, l)
      /\ call' = [call EXCEPT ![c] = r]
      /\ waitQueues' = [waitQueues EXCEPT ![l] = Without(@, c)]
  BY DEF WaitTimesOut, LockIInv, LockTypeOK, CallRecord, Waiting
<1>1. r \in CallRecord /\ r.token = NoToken /\ r.pc \in {"idle", "answered"}
  BY NoCallType DEF Refused, CallRecord, Pc
<1> HIDE DEF r, l
<1>2. call' \in [Client -> CallRecord] /\ Distinct' /\ Owned'
  BY <1>0, <1>1, CallDropped
<1>3. IsInjective(waitQueues[l])
  BY <1>0 DEF LockIInv, WaitersQueued
<1>4. /\ Without(waitQueues[l], c) \in Seq(Client)
      /\ IsInjective(Without(waitQueues[l], c))
      /\ Range(Without(waitQueues[l], c)) = Range(waitQueues[l]) \ {c}
  BY <1>0, <1>3, WithoutDistinct
<1>5. LockTypeOK'
  BY <1>0, <1>2, <1>4 DEF LockIInv, LockTypeOK, CallRecord
<1>6. ASSUME NEW k \in Lock
      PROVE  /\ IsInjective(waitQueues'[k])
             /\ Range(waitQueues'[k]) = {d \in Client : Waiting(d, k)'}
  <2>1. /\ IsInjective(waitQueues[k])
        /\ Range(waitQueues[k]) = {d \in Client : Waiting(d, k)}
    BY DEF LockIInv, WaitersQueued, Waiting
  <2>2. \A d \in Client : Waiting(d, k)' <=> Waiting(d, k) /\ d # c
    BY <1>0, <1>1 DEF Waiting
  <2>3. waitQueues'[k] = IF k = l THEN Without(waitQueues[l], c) ELSE waitQueues[k]
    BY <1>0
  <2>4. CASE k = l
    BY <1>4, <2>1, <2>2, <2>3, <2>4
  <2>5. CASE k # l
    <3>1. ~Waiting(c, k)
      BY <1>0, <2>5 DEF Waiting
    <3> QED BY <2>1, <2>2, <2>3, <2>5, <3>1
  <2> QED BY <2>4, <2>5
<1>7. WaitersQueued'
  BY <1>6 DEF WaitersQueued, Waiting
<1> QED BY <1>2, <1>5, <1>7 DEF LockIInv

LEMMA HearAnswerIInv ==
    ASSUME LockIInv, NEW c \in Client, HearAnswer(c)
    PROVE  LockIInv'
<1>0. /\ locks' = locks /\ waitQueues' = waitQueues /\ call[c].pc = "answered"
      /\ call \in [Client -> CallRecord]
      /\ call' = [call EXCEPT ![c] = IF @.token = NoToken THEN NoCall
                                                         ELSE [@ EXCEPT !.pc = "holding"]]
  BY DEF HearAnswer, LockIInv, LockTypeOK, CallRecord
<1>1. CASE call[c].token = NoToken
  <2>1. call' = [call EXCEPT ![c] = NoCall]
    BY <1>0, <1>1
  <2>2. call' \in [Client -> CallRecord] /\ Distinct' /\ Owned'
    BY <1>0, <2>1, NoCallType, CallDropped
  <2>3. \A d \in Client, k \in Lock : Waiting(d, k)' <=> Waiting(d, k)
    BY <1>0, <2>1, NoCallType DEF Waiting
  <2>4. WaitersQueued'
    BY <1>0, <2>3, QueuesKept
  <2>5. LockTypeOK'
    BY <1>0, <2>2 DEF LockIInv, LockTypeOK, CallRecord
  <2> QED BY <2>2, <2>4, <2>5 DEF LockIInv
<1>2. CASE call[c].token # NoToken
  <2>1. call' = [call EXCEPT ![c] = [@ EXCEPT !.pc = "holding"]]
    BY <1>0, <1>2
  <2>2. /\ call' \in [Client -> CallRecord]
        /\ \A d \in Client : /\ call'[d].token = call[d].token
                             /\ call'[d].left = call[d].left
                             /\ call'[d].lock = call[d].lock
                             /\ Valid(d)' <=> Valid(d)
    BY <1>0, <2>1 DEF CallRecord, Pc, Valid
  <2>3. Owned' /\ Distinct'
    BY <1>0, <2>2 DEF LockIInv, Owned, Distinct
  <2>4. \A d \in Client, k \in Lock : Waiting(d, k)' <=> Waiting(d, k)
    BY <1>0, <2>1 DEF Waiting, CallRecord
  <2>5. WaitersQueued'
    BY <1>0, <2>4, QueuesKept
  <2>6. LockTypeOK'
    BY <1>0, <2>2 DEF LockIInv, LockTypeOK, CallRecord
  <2> QED BY <2>3, <2>5, <2>6 DEF LockIInv
<1> QED BY <1>1, <1>2

\* A release in time: the lock goes free, or to the head of the queue.
LEMMA HandOverIInv ==
    ASSUME LockIInv, NEW c \in Client, NEW l \in Lock,
           call[c].pc = "holding", call[c].lock = l,
           Taken(l), locks[l].token = call[c].token, HandOver(c, l)
    PROVE  LockIInv'
<1>0. /\ call \in [Client -> CallRecord] /\ waitQueues \in [Lock -> Seq(Client)]
      /\ locks \in [Lock -> [token : Token \cup {NoToken}, left : Nat]]
      /\ call[c].token # NoToken
  BY DEF LockIInv, LockTypeOK, CallRecord, Taken
\* Nobody else holds the lock, since nobody else has its token.
<1>1. \A d \in Client : d # c => ~(Valid(d) /\ call[d].lock = l)
  BY <1>0 DEF LockIInv, Owned, Distinct, Valid
<1>2. CASE waitQueues[l] = <<>>
  <2>1. /\ locks' = [locks EXCEPT ![l] = Free]
        /\ call' = [call EXCEPT ![c] = NoCall]
        /\ UNCHANGED waitQueues
    BY <1>2 DEF HandOver
  <2>2. call' \in [Client -> CallRecord] /\ Distinct'
    BY <2>1, NoCallType, CallDropped
  <2>3. Owned'
    <3> SUFFICES ASSUME NEW d \in Client, Valid(d)'
                 PROVE  /\ locks'[call'[d].lock].token = call'[d].token
                        /\ locks'[call'[d].lock].left = call'[d].left
      BY DEF Owned
    <3>1. d # c /\ call'[d] = call[d]
      BY <1>0, <2>1, NoCallType DEF Valid
    <3>2. Valid(d) /\ call[d].lock # l /\ call[d].lock \in Lock
      BY <1>0, <1>1, <3>1 DEF Valid, CallRecord
    <3> QED BY <1>0, <2>1, <3>1, <3>2 DEF LockIInv, Owned
  <2>4. \A d \in Client, k \in Lock : Waiting(d, k)' <=> Waiting(d, k)
    BY <1>0, <2>1, NoCallType DEF Waiting
  <2>5. WaitersQueued'
    BY <2>1, <2>4, QueuesKept
  <2>6. LockTypeOK'
    BY <1>0, <2>1, <2>2 DEF LockIInv, LockTypeOK, CallRecord, Free
  <2> QED BY <2>2, <2>3, <2>5, <2>6 DEF LockIInv
<1>3. CASE waitQueues[l] # <<>>
  <2>3. IsInjective(waitQueues[l]) /\ waitQueues[l] \in Seq(Client)
    BY <1>0 DEF LockIInv, WaitersQueued
  <2>0. PICK next \in Client : next = Head(waitQueues[l])
    BY <1>3, <2>3
  <2>1. PICK t \in NewTokens :
           /\ locks' = [locks EXCEPT ![l] = [token |-> t, left |-> call[next].ttl]]
           /\ waitQueues' = [waitQueues EXCEPT ![l] = Tail(@)]
           /\ call' = [call EXCEPT ![c] = NoCall,
                                   ![next] = IF @.pc = "orphaned" THEN NoCall
                                             ELSE Granted(next, l, t, @.ttl)]
    BY <1>3, <2>0 DEF HandOver
  <2>2. t \in Token /\ t # NoToken /\ Unused(t)
    BY NewTokenUnused
  <2>4. /\ Tail(waitQueues[l]) \in Seq(Client)
        /\ next \in Range(waitQueues[l]) /\ next \in Client
        /\ IsInjective(Tail(waitQueues[l]))
        /\ Range(Tail(waitQueues[l])) = Range(waitQueues[l]) \ {next}
    BY <1>3, <2>0, <2>3, TailDistinct
  <2>5. Waiting(next, l) /\ next # c
    BY <2>4 DEF LockIInv, WaitersQueued, Waiting
  <2>6. /\ call'[c] = NoCall
        /\ call'[next] = IF call[next].pc = "orphaned" THEN NoCall
                         ELSE Granted(next, l, t, call[next].ttl)
        /\ \A d \in Client : d # c /\ d # next => call'[d] = call[d]
    BY <1>0, <2>1, <2>4, <2>5
  <2>7. Owned' /\ Distinct'
    <3>1. CASE call[next].pc # "orphaned"
      <4>1. /\ call[next].ttl \in Nat
            /\ call'[next] = Granted(next, l, t, call[next].ttl)
            /\ locks' = [locks EXCEPT ![l] = [token |-> t, left |-> call[next].ttl]]
        BY <1>0, <2>1, <2>4, <2>6, <3>1 DEF CallRecord
      <4>2. Grants(next, l, t, call[next].ttl)
        BY <1>1, <2>6, <4>1 DEF Grants
      <4> QED BY <2>4, <4>1, <4>2, Grant
    <3>2. CASE call[next].pc = "orphaned"
      <4>1. call'[next] = NoCall
        BY <2>6, <3>2
      <4>2. Distinct'
        BY <2>6, <4>1, NoCallType DEF LockIInv, Distinct
      <4>3. ASSUME NEW d \in Client, Valid(d)'
            PROVE  /\ locks'[call'[d].lock].token = call'[d].token
                   /\ locks'[call'[d].lock].left = call'[d].left
        <5>1. d # c /\ d # next /\ call'[d] = call[d]
          BY <2>6, <4>1, <4>3, NoCallType DEF Valid
        <5>2. Valid(d) /\ call[d].lock # l /\ call[d].lock \in Lock
          BY <1>0, <1>1, <4>3, <5>1 DEF Valid, CallRecord
        <5> QED BY <1>0, <2>1, <5>1, <5>2 DEF LockIInv, Owned
      <4> QED BY <4>2, <4>3 DEF Owned
    <3> QED BY <3>1, <3>2
  <2>8. call' \in [Client -> CallRecord]
    <3>1. Granted(next, l, t, call[next].ttl) \in CallRecord
      BY <1>0, <2>2, <2>4 DEF Granted, CallRecord, Pc
    <3> QED BY <1>0, <2>1, <2>4, <2>6, <3>1, NoCallType
  <2>9. LockTypeOK'
    <3>1. call[next].ttl \in Nat
      BY <1>0, <2>4 DEF CallRecord
    <3>2. locks' \in [Lock -> [token : Token \cup {NoToken}, left : Nat]]
      BY <1>0, <2>1, <2>2, <3>1
    <3>3. waitQueues' \in [Lock -> Seq(Client)]
      BY <1>0, <2>1, <2>4
    <3> QED BY <2>8, <3>2, <3>3 DEF LockTypeOK, CallRecord
  <2>10. ASSUME NEW k \in Lock
         PROVE  /\ IsInjective(waitQueues'[k])
                /\ Range(waitQueues'[k]) = {d \in Client : Waiting(d, k)'}
    <3>1. /\ IsInjective(waitQueues[k])
          /\ Range(waitQueues[k]) = {d \in Client : Waiting(d, k)}
      BY DEF LockIInv, WaitersQueued, Waiting
    <3>2. \A d \in Client : Waiting(d, k)' <=> Waiting(d, k) /\ d # next
      <4>1. call'[next].pc \in {"idle", "answered"} /\ call'[c].pc = "idle"
        BY <2>6, NoCallType DEF Granted
      <4>2. ~Waiting(next, k)' /\ ~Waiting(c, k)' /\ ~Waiting(c, k)
        BY <4>1 DEF Waiting
      <4>3. \A d \in Client : d # c /\ d # next => (Waiting(d, k)' <=> Waiting(d, k))
        BY <2>6 DEF Waiting
      <4> QED BY <2>5, <4>2, <4>3
    <3>3. waitQueues'[k] = IF k = l THEN Tail(waitQueues[l]) ELSE waitQueues[k]
      BY <1>0, <2>1
    <3>4. CASE k = l
      BY <2>4, <3>1, <3>2, <3>3, <3>4
    <3>5. CASE k # l
      <4>1. ~Waiting(next, k)
        BY <2>5, <3>5 DEF Waiting
      <4> QED BY <3>1, <3>2, <3>3, <3>5, <4>1
    <3> QED BY <3>4, <3>5
  <2>11. WaitersQueued'
    BY <2>10 DEF WaitersQueued, Waiting
  <2> QED BY <2>7, <2>9, <2>11 DEF LockIInv
<1> QED BY <1>2, <1>3

\* A release that comes too late takes nothing from the present holder.
LEMMA ReleaseTooLateIInv ==
    ASSUME LockIInv, NEW c \in Client, NEW l \in Lock,
           call[c].pc = "holding", ReleaseTooLate(c, l)
    PROVE  LockIInv'
<1>0. /\ call \in [Client -> CallRecord] /\ locks \in [Lock -> [token : Token \cup {NoToken}, left : Nat]]
      /\ locks' = [locks EXCEPT ![l] = IF Taken(l) THEN @ ELSE Free]
      /\ call' = [call EXCEPT ![c] = NoCall]
      /\ UNCHANGED waitQueues
  BY DEF ReleaseTooLate, LockIInv, LockTypeOK, CallRecord
<1>1. call' \in [Client -> CallRecord] /\ Distinct'
  BY <1>0, NoCallType, CallDropped
<1>2. ASSUME NEW d \in Client, Valid(d)'
      PROVE  /\ locks'[call'[d].lock].token = call'[d].token
             /\ locks'[call'[d].lock].left = call'[d].left
  <2>1. call'[d] = call[d] /\ Valid(d) /\ call[d].lock \in Lock
    BY <1>0, <1>2, NoCallType DEF Valid, CallRecord
  <2>2. Taken(call[d].lock)
    BY <2>1 DEF LockIInv, Owned, Valid, Taken
  <2>3. locks'[call[d].lock] = locks[call[d].lock]
    BY <1>0, <2>1, <2>2
  <2> QED BY <2>1, <2>3 DEF LockIInv, Owned
<1>3. \A d \in Client, k \in Lock : Waiting(d, k)' <=> Waiting(d, k)
  BY <1>0, NoCallType DEF Waiting
<1>4. WaitersQueued'
  BY <1>0, <1>3, QueuesKept
<1>5. LockTypeOK'
  BY <1>0, <1>1 DEF LockIInv, LockTypeOK, CallRecord, Free
<1> QED BY <1>1, <1>2, <1>4, <1>5 DEF LockIInv, Owned

LEMMA ReleaseIInv ==
    ASSUME LockIInv, NEW c \in Client, Release(c)
    PROVE  LockIInv'
<1>1. call[c].pc = "holding" /\ call[c].lock \in Lock
  BY DEF Release, LockIInv, LockTypeOK
<1>2. CASE Taken(call[c].lock) /\ locks[call[c].lock].token = call[c].token
  BY <1>1, <1>2, HandOverIInv DEF Release
<1>3. CASE ~(Taken(call[c].lock) /\ locks[call[c].lock].token = call[c].token)
  BY <1>1, <1>3, ReleaseTooLateIInv DEF Release
<1> QED BY <1>2, <1>3

LEMMA ExitIInv ==
    ASSUME LockIInv, NEW c \in Client, Exit(c)
    PROVE  LockIInv'
<1> DEFINE r == IF call[c].pc = "waiting" THEN [call[c] EXCEPT !.pc = "orphaned"] ELSE NoCall
<1>0. /\ locks' = locks /\ waitQueues' = waitQueues
      /\ call \in [Client -> CallRecord]
      /\ call' = [call EXCEPT ![c] = r]
  BY DEF Exit, LockIInv, LockTypeOK, CallRecord
<1>1. CASE call[c].pc = "waiting"
  <2>1. /\ call' \in [Client -> CallRecord]
        /\ \A d \in Client : /\ call'[d].token = call[d].token
                             /\ Valid(d)' => call'[d] = call[d]
                             /\ \A k \in Lock : Waiting(d, k)' <=> Waiting(d, k)
    BY <1>0, <1>1 DEF CallRecord, Pc, Valid, Waiting
  <2>2. Owned' /\ Distinct'
    BY <1>0, <2>1 DEF LockIInv, Owned, Distinct, Valid
  <2>3. WaitersQueued'
    BY <1>0, <2>1, QueuesKept
  <2> QED BY <1>0, <2>1, <2>2, <2>3 DEF LockIInv, LockTypeOK, CallRecord
<1>2. CASE call[c].pc # "waiting"
  <2>1. call' = [call EXCEPT ![c] = NoCall] /\ call[c].pc # "orphaned"
    BY <1>0, <1>2 DEF Exit
  <2>2. call' \in [Client -> CallRecord] /\ Distinct' /\ Owned'
    BY <1>0, <2>1, NoCallType, CallDropped
  <2>3. \A d \in Client, k \in Lock : Waiting(d, k)' <=> Waiting(d, k)
    BY <1>0, <1>2, <2>1, NoCallType DEF Waiting
  <2>4. WaitersQueued'
    BY <1>0, <2>3, QueuesKept
  <2> QED BY <1>0, <2>2, <2>4 DEF LockIInv, LockTypeOK, CallRecord
<1> QED BY <1>1, <1>2

\* Time passes for the table and for its callers alike.
LEMMA TickIInv ==
    ASSUME LockIInv, Tick
    PROVE  LockIInv'
<1>0. /\ call \in [Client -> CallRecord] /\ locks \in [Lock -> [token : Token \cup {NoToken}, left : Nat]]
      /\ locks' = [l \in Lock |-> [locks[l] EXCEPT !.left = Less(@)]]
      /\ call' = [c \in Client |-> [call[c] EXCEPT !.left = Less(@)]]
      /\ UNCHANGED waitQueues
  BY DEF Tick, LockIInv, LockTypeOK, CallRecord
<1>1. \A n \in Nat : Less(n) \in Nat /\ (Less(n) > 0 => n > 0)
  BY DEF Less
<1>2. \A l \in Lock : /\ locks'[l].token = locks[l].token
                      /\ locks'[l].left = Less(locks[l].left)
  BY <1>0
<1>3. \A c \in Client : /\ call'[c].pc = call[c].pc /\ call'[c].lock = call[c].lock
                        /\ call'[c].token = call[c].token
                        /\ call'[c].left = Less(call[c].left)
                        /\ call[c].left \in Nat /\ call[c].lock \in Lock
  BY <1>0 DEF CallRecord
<1>4. \A c \in Client : Valid(c)' => Valid(c)
  BY <1>1, <1>3 DEF Valid
<1>5. Owned' /\ Distinct'
  BY <1>2, <1>3, <1>4 DEF LockIInv, Owned, Distinct
<1>6. \A c \in Client, k \in Lock : Waiting(c, k)' <=> Waiting(c, k)
  BY <1>3 DEF Waiting
<1>7. WaitersQueued'
  BY <1>0, <1>6, QueuesKept
<1>8. locks' \in [Lock -> [token : Token \cup {NoToken}, left : Nat]]
  BY <1>0, <1>1
<1>9. call' \in [Client -> CallRecord]
  BY <1>0, <1>1 DEF CallRecord
<1> QED BY <1>0, <1>5, <1>7, <1>8, <1>9 DEF LockIInv, LockTypeOK, CallRecord

LEMMA AcquireIInv ==
    ASSUME LockIInv, NEW c \in Client, NEW l \in Lock, NEW ttl \in Nat, NEW wait \in Nat,
           Acquire(c, l, ttl, wait)
    PROVE  LockIInv'
BY AcquireFreeIInv, AcquireTakenIInv DEF Acquire

LEMMA LockStepIInv == LockIInv /\ [LockNext]_lockVars => LockIInv'
<1> SUFFICES ASSUME LockIInv, [LockNext]_lockVars PROVE LockIInv'
  OBVIOUS
<1>1. CASE Tick
  BY <1>1, TickIInv
<1>2. ASSUME NEW c \in Client, LockStep(c) PROVE LockIInv'
  <2>1. ASSUME NEW l \in Lock, NEW ttl \in Ttl, NEW wait \in Wait, Acquire(c, l, ttl, wait)
        PROVE  LockIInv'
    BY <2>1, AcquireIInv, LockAssumption
  <2> QED BY <1>2, <2>1, WaitTimesOutIInv, HearAnswerIInv, ReleaseIInv, ExitIInv DEF LockStep
<1>3. CASE UNCHANGED lockVars
  BY <1>3 DEF lockVars, LockIInv, LockTypeOK, Owned, Distinct, WaitersQueued, Valid
<1> QED BY <1>1, <1>2, <1>3 DEF LockNext

LEMMA LockIInvImplies == LockIInv => MutualExclusion /\ WaitersQueued
BY DEF LockIInv, Owned, Distinct, MutualExclusion, Valid

-----------------------------------------------------------------------------
\* A lock is held by one caller at a time: releaseLock compares tokens, a grant
\* makes a new one, and a holder's time never outlasts its entry in the table.
THEOREM LockExclusive == LockSpec => []MutualExclusion
<1>1. LockSpec => []LockIInv
  BY LockInitIInv, LockStepIInv, PTL DEF LockSpec
<1> QED BY <1>1, LockIInvImplies, PTL

\* No waiter is lost or queued twice (the queue of acquireLock, the splice of its
\* timer, the shift of maybeGrantNextWaiter).
THEOREM LockWaitersQueued == LockSpec => []WaitersQueued
<1>1. LockSpec => []LockIInv
  BY LockInitIInv, LockStepIInv, PTL DEF LockSpec
<1> QED BY <1>1, LockIInvImplies, PTL
=============================================================================
