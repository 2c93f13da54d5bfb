----------------------------- MODULE StateLocks -----------------------------
(***************************************************************************)
(* The named locks of a state system (server/runtime/state_system.js,      *)
(* acquireLock and releaseLock).  A lock is granted with a token and a     *)
(* time to live; a caller that finds it taken waits in the lock's queue    *)
(* until a release hands the lock to it or its own timer gives up.         *)
(*                                                                         *)
(* Time is what is left of it: every deadline is kept as the time to go    *)
(* and Tick takes one unit off each, so no clock has to be bounded.  A     *)
(* lock with nothing left has expired; nothing happens at that moment, the *)
(* next call that looks at the lock finds it gone (ensureFreshLock).       *)
(*                                                                         *)
(* A caller is one that has at most one call under way: a local module or  *)
(* a worker's remote state client.  Its process may exit: what it holds    *)
(* stays taken until the lock expires, and its waiter stays queued.        *)
(***************************************************************************)
EXTENDS Naturals, Sequences, SequencesExt

CONSTANTS
    Client,    \* callers
    Lock,      \* area:id of each lock
    Token,     \* lock tokens (random UUIDs: as many as can be in use at once)
    NoToken,
    Ttl,       \* the ttlMs callers ask for
    Wait       \* the waitMs callers ask for

ASSUME LockAssumption ==
    /\ Lock # {}
    /\ NoToken \notin Token
    /\ Ttl \subseteq Nat \ {0}
    /\ Wait \subseteq Nat

VARIABLES
    locks,       \* the lock table: [token, left]
    waitQueues,  \* callers waiting for each lock, first come first
    call         \* each caller's call: [pc, lock, token, left, ttl]

lockVars == <<locks, waitQueues, call>>

Pc == {"idle", "waiting", "orphaned", "answered", "holding"}

LockTypeOK ==
    /\ locks \in [Lock -> [token : Token \cup {NoToken}, left : Nat]]
    /\ waitQueues \in [Lock -> Seq(Client)]
    /\ call \in [Client -> [pc : Pc, lock : Lock, token : Token \cup {NoToken},
                            left : Nat, ttl : Nat]]

Free == [token |-> NoToken, left |-> 0]

\* The lock is taken and has not expired.
Taken(l) == locks[l].token # NoToken /\ locks[l].left > 0

\* A token that nothing and nobody remembers; any one stands for all of them.
Unused(t) ==
    /\ \A l \in Lock : locks[l].token # t
    /\ \A c \in Client : call[c].token # t

NewTokens ==
    LET unused == {t \in Token : Unused(t)}
    IN IF unused = {} THEN {} ELSE {CHOOSE t \in unused : TRUE}

NoCall == [pc |-> "idle", lock |-> CHOOSE l \in Lock : TRUE, token |-> NoToken,
           left |-> 0, ttl |-> 0]

Granted(c, l, t, ttl) ==
    [pc |-> "answered", lock |-> l, token |-> t, left |-> ttl, ttl |-> ttl]

Refused == [NoCall EXCEPT !.pc = "answered"]

LockInit ==
    /\ locks = [l \in Lock |-> Free]
    /\ waitQueues = [l \in Lock |-> <<>>]
    /\ call = [c \in Client |-> NoCall]

-----------------------------------------------------------------------------
(* acquireLock(area, id, {ttlMs, waitMs}).                                  *)

AcquireFree(c, l, ttl) ==
    /\ ~Taken(l)
    /\ \E t \in NewTokens :
          /\ locks' = [locks EXCEPT ![l] = [token |-> t, left |-> ttl]]
          /\ call' = [call EXCEPT ![c] = Granted(c, l, t, ttl)]
    /\ UNCHANGED waitQueues

AcquireTaken(c, l, ttl, wait) ==
    /\ Taken(l)
    /\ IF wait = 0
       THEN /\ call' = [call EXCEPT ![c] = Refused]
            /\ UNCHANGED waitQueues
       ELSE /\ call' = [call EXCEPT ![c] = [pc |-> "waiting", lock |-> l, token |-> NoToken,
                                            left |-> wait, ttl |-> ttl]]
            /\ waitQueues' = [waitQueues EXCEPT ![l] = Append(@, c)]
    /\ UNCHANGED locks

Acquire(c, l, ttl, wait) ==
    /\ call[c].pc = "idle"
    /\ AcquireFree(c, l, ttl) \/ AcquireTaken(c, l, ttl, wait)

\* queue.splice(queue.indexOf(c), 1).
Without(queue, c) ==
    IF \E i \in DOMAIN queue : queue[i] = c
    THEN RemoveAt(queue, CHOOSE i \in DOMAIN queue : queue[i] = c)
    ELSE queue

\* Bugs: the timer forgets the queue, or is cleared while the caller still waits.
WaitTimesOutQueued(c) ==
    /\ call[c].pc \in {"waiting", "orphaned"}
    /\ call[c].left = 0
    /\ call' = [call EXCEPT ![c] = IF @.pc = "orphaned" THEN NoCall ELSE Refused]
    /\ UNCHANGED <<locks, waitQueues>>

WaitTimesOutOrphan(c) ==
    /\ call[c].pc = "orphaned"
    /\ call[c].left = 0
    /\ waitQueues' = [waitQueues EXCEPT ![call[c].lock] = Without(@, c)]
    /\ call' = [call EXCEPT ![c] = NoCall]
    /\ UNCHANGED locks

\* The waiter's own timer: it leaves the queue without the lock.
WaitTimesOut(c) ==
    /\ call[c].pc \in {"waiting", "orphaned"}
    /\ call[c].left = 0
    /\ waitQueues' = [waitQueues EXCEPT ![call[c].lock] = Without(@, c)]
    /\ call' = [call EXCEPT ![c] = IF @.pc = "orphaned" THEN NoCall ELSE Refused]
    /\ UNCHANGED locks

\* The answer reaches the caller.
HearAnswer(c) ==
    /\ call[c].pc = "answered"
    /\ call' = [call EXCEPT ![c] = IF @.token = NoToken THEN NoCall ELSE [@ EXCEPT !.pc = "holding"]]
    /\ UNCHANGED <<locks, waitQueues>>

-----------------------------------------------------------------------------
(* releaseLock(area, id, lockToken).                                        *)

\* maybeGrantNextWaiter, for the lock c gives up.
HandOver(c, l) ==
    IF waitQueues[l] = <<>>
    THEN /\ locks' = [locks EXCEPT ![l] = Free]
         /\ call' = [call EXCEPT ![c] = NoCall]
         /\ UNCHANGED waitQueues
    ELSE LET next == Head(waitQueues[l])
         IN \E t \in NewTokens :
               /\ locks' = [locks EXCEPT ![l] = [token |-> t, left |-> call[next].ttl]]
               /\ waitQueues' = [waitQueues EXCEPT ![l] = Tail(@)]
               /\ call' = [call EXCEPT ![c] = NoCall,
                                       ![next] = IF @.pc = "orphaned" THEN NoCall
                                                 ELSE Granted(next, l, t, @.ttl)]

\* A release that comes too late, after the lock expired or went to another:
\* false to its caller, and an expired lock is dropped without a hand-over.
ReleaseTooLate(c, l) ==
    /\ locks' = [locks EXCEPT ![l] = IF Taken(l) THEN @ ELSE Free]
    /\ call' = [call EXCEPT ![c] = NoCall]
    /\ UNCHANGED waitQueues

\* Bug: the token is not compared.
ReleaseAnyToken(c) ==
    LET l == call[c].lock
    IN /\ call[c].pc = "holding"
       /\ IF Taken(l) THEN HandOver(c, l) ELSE ReleaseTooLate(c, l)

Release(c) ==
    LET l == call[c].lock
    IN /\ call[c].pc = "holding"
       /\ IF Taken(l) /\ locks[l].token = call[c].token
          THEN HandOver(c, l)
          ELSE ReleaseTooLate(c, l)

\* The caller's process exits.
Exit(c) ==
    /\ call[c].pc # "orphaned"
    /\ call' = [call EXCEPT ![c] = IF @.pc = "waiting" THEN [@ EXCEPT !.pc = "orphaned"] ELSE NoCall]
    /\ UNCHANGED <<locks, waitQueues>>

Less(n) == IF n = 0 THEN 0 ELSE n - 1

Tick ==
    /\ locks' = [l \in Lock |-> [locks[l] EXCEPT !.left = Less(@)]]
    /\ call' = [c \in Client |-> [call[c] EXCEPT !.left = Less(@)]]
    /\ UNCHANGED waitQueues

LockStep(c) ==
    \/ \E l \in Lock, ttl \in Ttl, wait \in Wait : Acquire(c, l, ttl, wait)
    \/ WaitTimesOut(c)
    \/ HearAnswer(c)
    \/ Release(c)
    \/ Exit(c)

LockNext == Tick \/ \E c \in Client : LockStep(c)

LockSpec == LockInit /\ [][LockNext]_lockVars

-----------------------------------------------------------------------------
(* What callers rely on.                                                   *)

\* The caller was given the lock and its time is not up.
Valid(c) ==
    /\ call[c].pc \in {"answered", "holding"}
    /\ call[c].token # NoToken
    /\ call[c].left > 0

\* No two callers have one lock at a time: not when a late release, an expiry
\* and a hand-over to a waiter meet (the token check of releaseLock).
MutualExclusion ==
    \A c, d \in Client : Valid(c) /\ Valid(d) /\ call[c].lock = call[d].lock => c = d

\* Every waiter is queued, once, for the lock it asked for, so that a release
\* can reach it and its timer can take it out.
WaitersQueued ==
    \A l \in Lock :
        /\ IsInjective(waitQueues[l])
        /\ Range(waitQueues[l]) =
              {c \in Client : call[c].pc \in {"waiting", "orphaned"} /\ call[c].lock = l}
=============================================================================
