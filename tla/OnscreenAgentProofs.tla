------------------------ MODULE OnscreenAgentProofs ------------------------
(***************************************************************************)
(* The safety of the send loop for any number of submissions and retries:  *)
(* the types, the busy state of what writes the conversation, the order in *)
(* which submissions reach it, and the output that a follow-up to running  *)
(* code finds there.                                                       *)
(***************************************************************************)
EXTENDS OnscreenAgent, TLAPS

\* The loop's compaction restores a busy panel; the user's does so unless nothing ran
\* when it began, and then nothing begins before its end.
CompactionOwner ==
    /\ phase = "compact" => previous["loop"]
    /\ click = "running" /\ ~previous["user"] => isSending /\ phase = "idle" /\ ~rerunning

\* What is queued is in order and after all that was sent; a message that is about
\* to enter the history comes after all that entered it.
QueueAhead ==
    /\ \A i, j \in DOMAIN queued : i < j => queued[i] < queued[j]
    /\ \A i \in DOMAIN queued : queued[i] <= submitted
    /\ \A i \in DOMAIN sent : sent[i] <= submitted
    /\ \A i \in DOMAIN sent, j \in DOMAIN queued : sent[i] < queued[j]

PendingAhead ==
    /\ pending.kind = "user" => pending.id <= submitted
    /\ phase \in {"prepare", "compact", "prepareAgain"} /\ pending.kind = "user" /\ retries = 0
       => \A i \in DOMAIN sent : sent[i] < pending.id

AgentIInv ==
    AgentTypeOK /\ CompactionOwner /\ PanelBusyForOne
    /\ QueueAhead /\ PendingAhead /\ SubmissionsInOrder

LEMMA Numbers ==
    ASSUME AgentTypeOK
    PROVE  /\ submitted \in Nat /\ MaxSubmissions \in Nat /\ MaxRetries \in Nat
           /\ \A i \in DOMAIN queued : queued[i] \in Nat
           /\ \A i \in DOMAIN sent : sent[i] \in Nat
           /\ DOMAIN sent = 1 .. Len(sent) /\ Len(sent) \in Nat
           /\ DOMAIN queued = 1 .. Len(queued) /\ Len(queued) \in Nat
BY AgentAssumption DEF AgentAssumption, AgentTypeOK, Submission

LEMMA Messages ==
    /\ None \in Message
    /\ \A kind \in {"output", "retry", "compact"} : Synthetic(kind) \in Message
    /\ Assistant \in Message
    /\ \A message \in UserMessage : message \in Message
    /\ \A kind \in {"output", "retry", "compact"} :
          Synthetic(kind) \in UserMessage /\ Synthetic(kind).kind # "user"
    /\ None.kind # "user"
    /\ \A message \in UserMessage \cup {None} : message \in Message
BY DEF None, Synthetic, Assistant, Message, UserMessage

LEMMA Boundary ==
    /\ BoundaryAction = "" <=> queued = <<>> /\ ~stopRequested
    /\ BoundaryAction = "queued" <=> queued # <<>>
    /\ BoundaryAction \in {"", "queued", "stopped"}
BY DEF BoundaryAction

\* The head and the tail of the queue.
LEMMA QueueTail ==
    ASSUME AgentTypeOK, queued # <<>>
    PROVE  /\ Head(queued) \in Submission
           /\ Tail(queued) \in Seq(Submission)
           /\ DOMAIN queued = 1 .. Len(queued)
           /\ Len(queued) \in Nat \ {0}
           /\ Head(queued) = queued[1]
           /\ DOMAIN Tail(queued) = 1 .. (Len(queued) - 1)
           /\ \A j \in 1 .. (Len(queued) - 1) : Tail(queued)[j] = queued[j + 1]
BY DEF AgentTypeOK

\* What is proved of the state after a step that goes on with the same history of
\* submissions.
Continued ==
    /\ queued' \in Seq(Submission)
    /\ submitted' = submitted
    /\ stopRequested' \in BOOLEAN
    /\ pending' \in UserMessage \cup {None}
    /\ reply' = "none"
    /\ retries' \in 0 .. MaxRetries
    /\ controller' = "none"
    /\ phase' \in {"idle", "prepare"}
    /\ isSending' = (phase' = "prepare")
    /\ rerunning' = rerunning
    /\ \A i, j \in DOMAIN queued' : i < j => queued'[i] < queued'[j]
    /\ \A i \in DOMAIN queued' : queued'[i] <= submitted
    /\ \A i \in DOMAIN sent, j \in DOMAIN queued' : sent[i] < queued'[j]
    /\ pending'.kind = "user" =>
          pending'.id <= submitted /\ \A i \in DOMAIN sent : sent[i] < pending'.id

LEMMA EndContinues ==
    ASSUME AgentIInv, EndSeries, UNCHANGED <<submitted, rerunning>>
    PROVE  Continued
<1>1. None.kind # "user"
  BY DEF None, Synthetic
<1>2. /\ queued' = queued /\ submitted' = submitted /\ rerunning' = rerunning
      /\ isSending' = FALSE /\ stopRequested' = FALSE
      /\ phase' = "idle" /\ pending' = None /\ reply' = "none" /\ retries' = 0 /\ controller' = "none"
  BY DEF EndSeries
<1>3. retries' \in 0 .. MaxRetries
  BY <1>2, AgentAssumption DEF AgentAssumption
<1>4. isSending' = (phase' = "prepare")
  BY <1>2
<1>5. ~(pending'.kind = "user")
  BY <1>1, <1>2
<1>6. /\ queued' \in Seq(Submission)
      /\ \A i, j \in DOMAIN queued' : i < j => queued'[i] < queued'[j]
      /\ \A i \in DOMAIN queued' : queued'[i] <= submitted
      /\ \A i \in DOMAIN sent, j \in DOMAIN queued' : sent[i] < queued'[j]
  BY <1>2 DEF AgentIInv, AgentTypeOK, QueueAhead
<1> QED BY <1>2, <1>3, <1>4, <1>5, <1>6 DEF Continued

LEMMA OutcomeContinues ==
    ASSUME AgentIInv, phase # "idle",
           NEW o, Outcome(o), o = "queued" => queued # <<>>
    PROVE  Continued
<1>1. CASE o = "queued" \/ (o = "complete" /\ queued # <<>>)
  <2>1. queued # <<>>
    BY <1>1
  <2>2. /\ queued' = Tail(queued) /\ phase' = "prepare" /\ pending' = User(Head(queued))
        /\ reply' = "none" /\ retries' = 0 /\ controller' = "none" /\ isSending' = isSending
        /\ submitted' = submitted /\ rerunning' = rerunning /\ stopRequested' \in BOOLEAN
    BY <1>1, Zenon DEF Outcome, ConsumeNext, Prepare, AgentIInv, AgentTypeOK
  <2>3. isSending = TRUE
    BY DEF AgentIInv, AgentTypeOK, PanelBusyForOne
  <2>4. /\ Head(queued) \in Submission /\ Tail(queued) \in Seq(Submission)
        /\ DOMAIN queued = 1 .. Len(queued) /\ Len(queued) \in Nat \ {0}
        /\ Head(queued) = queued[1]
        /\ DOMAIN Tail(queued) = 1 .. (Len(queued) - 1)
        /\ \A j \in 1 .. (Len(queued) - 1) : Tail(queued)[j] = queued[j + 1]
    BY <2>1, QueueTail DEF AgentIInv
  <2>5. \A j \in DOMAIN Tail(queued) : j + 1 \in DOMAIN queued /\ Tail(queued)[j] = queued[j + 1]
    BY <2>4
  <2>6. 1 \in DOMAIN queued
    BY <2>4
  <2>7. User(Head(queued)) \in UserMessage
    BY <2>4 DEF User, UserMessage
  <2>8. User(Head(queued)).id = queued[1]
    BY <2>4 DEF User
  <2>9. /\ \A i, j \in DOMAIN queued' : i < j => queued'[i] < queued'[j]
        /\ \A i \in DOMAIN queued' : queued'[i] <= submitted
        /\ \A i \in DOMAIN sent, j \in DOMAIN queued' : sent[i] < queued'[j]
    BY <2>2, <2>4, <2>5 DEF AgentIInv, QueueAhead
  <2>10. pending'.id <= submitted /\ \A i \in DOMAIN sent : sent[i] < pending'.id
    BY <2>2, <2>6, <2>8 DEF AgentIInv, QueueAhead
  <2>11. retries' \in 0 .. MaxRetries
    BY <2>2, AgentAssumption DEF AgentAssumption
  <2>12. isSending' = (phase' = "prepare") /\ phase' \in {"idle", "prepare"}
    BY <2>2, <2>3
  <2>13. queued' \in Seq(Submission) /\ pending' \in UserMessage \cup {None}
    BY <2>2, <2>4, <2>7
  <2> QED BY <2>2, <2>9, <2>10, <2>11, <2>12, <2>13 DEF Continued
<1>2. CASE ~(o = "queued" \/ (o = "complete" /\ queued # <<>>))
  BY <1>2, EndContinues DEF Outcome
<1> QED BY <1>1, <1>2

LEMMA ThrowContinues ==
    ASSUME AgentIInv, Throw
    PROVE  Continued
BY EndContinues DEF Throw

\* The invariant after a step that continued and changed the latest message at most.
LEMMA ContinuedKeeps ==
    ASSUME AgentIInv, Continued, phase # "idle",
           latest' \in Message, sent' = sent, compacting' \in BOOLEAN, click' = click,
           previous' \in [Compactor -> BOOLEAN], previous'["user"] = previous["user"]
    PROVE  AgentIInv'
<1>1. AgentTypeOK'
  BY DEF Continued, AgentIInv, AgentTypeOK, Phase
<1>2. CompactionOwner'
  BY DEF Continued, CompactionOwner, AgentIInv
<1>3. rerunning = FALSE
  BY DEF AgentIInv, AgentTypeOK, PanelBusyForOne
<1>4. PanelBusyForOne'
  BY <1>3 DEF Continued, PanelBusyForOne
<1>5. QueueAhead' /\ PendingAhead' /\ SubmissionsInOrder'
  BY DEF Continued, AgentIInv, QueueAhead, PendingAhead, SubmissionsInOrder
<1> QED BY <1>1, <1>2, <1>4, <1>5 DEF AgentIInv

-----------------------------------------------------------------------------
(* The steps.                                                              *)

LEMMA AgentInitIInv == AgentInit => AgentIInv
<1> SUFFICES ASSUME AgentInit PROVE AgentIInv
  OBVIOUS
<1>0. <<>> \in Seq(Submission) /\ 0 \in 0 .. MaxSubmissions /\ 0 \in 0 .. MaxRetries
  BY AgentAssumption DEF AgentAssumption
<1>1. AgentTypeOK
  BY <1>0, Messages, Zenon DEF AgentInit, AgentTypeOK, Phase
<1>2. PanelBusyForOne
  BY DEF AgentInit, PanelBusyForOne
<1>3. CompactionOwner /\ QueueAhead /\ PendingAhead /\ SubmissionsInOrder
  BY DEF AgentInit, CompactionOwner, QueueAhead, PendingAhead, SubmissionsInOrder, None, Synthetic
<1> QED BY <1>1, <1>2, <1>3 DEF AgentIInv

\* Steps of the user.
LEMMA UserKeeps ==
    ASSUME AgentIInv, UserStep \/ FinishRerun \/ ClickStep
    PROVE  AgentIInv'
<1>0. /\ PanelBusyForOne /\ isSending \in BOOLEAN /\ compacting \in BOOLEAN /\ rerunning \in BOOLEAN
      /\ AgentTypeOK /\ CompactionOwner /\ QueueAhead /\ PendingAhead /\ SubmissionsInOrder
      /\ submitted \in Nat /\ MaxSubmissions \in Nat /\ MaxRetries \in Nat
      /\ \A i \in DOMAIN queued : queued[i] \in Nat
      /\ \A i \in DOMAIN sent : sent[i] \in Nat
      /\ DOMAIN queued = 1 .. Len(queued) /\ Len(queued) \in Nat
  BY Numbers DEF AgentIInv, AgentTypeOK
<1>1. CASE SubmitMessage
  <2>1. submitted + 1 \in Submission /\ submitted' = submitted + 1
    BY <1>1, <1>0, AgentAssumption DEF SubmitMessage, NewSubmission, Submission, AgentAssumption, AgentTypeOK
  <2>2. User(submitted + 1) \in UserMessage /\ User(submitted + 1).id = submitted + 1
    BY <2>1 DEF User, UserMessage
  <2>3. /\ isSending' = TRUE /\ stopRequested' = FALSE /\ phase' = "prepare" /\ retries' = 0
        /\ pending' = User(submitted + 1) /\ reply' = "none"
        /\ compacting' = compacting /\ previous' = previous /\ click' = click
        /\ queued' = queued /\ rerunning' = rerunning /\ latest' = latest /\ sent' = sent
        /\ controller' = controller /\ isSending = FALSE
    BY <1>1, <1>0, Zenon DEF SubmitMessage, Prepare, NoCompaction, compactionVars
  <2>4. AgentTypeOK'
    <3>1. submitted' \in 0 .. MaxSubmissions /\ retries' \in 0 .. MaxRetries
      BY <1>0, <2>1, <2>3 DEF Submission
    <3>2. phase' \in Phase
      BY <2>3 DEF Phase
    <3> QED BY <1>0, <2>2, <2>3, <3>1, <3>2 DEF AgentTypeOK
  <2>5. PanelBusyForOne' /\ CompactionOwner'
    BY <2>3, <1>0 DEF PanelBusyForOne, CompactionOwner
  <2>6. QueueAhead' /\ SubmissionsInOrder'
    BY <2>1, <2>3, <1>0 DEF QueueAhead, SubmissionsInOrder
  <2>7. PendingAhead'
    BY <2>1, <2>2, <2>3, <1>0 DEF PendingAhead, QueueAhead
  <2> QED BY <2>4, <2>5, <2>6, <2>7 DEF AgentIInv
<1>2. CASE QueueDraftSubmission
  <2>1. /\ submitted + 1 \in Submission /\ submitted' = submitted + 1
        /\ queued' = Append(queued, submitted + 1)
        /\ UNCHANGED <<isSending, stopRequested, compacting, previous, click, rerunning, latest,
                       sent, phase, pending, reply, retries, controller>>
    BY <1>2, <1>0, AgentAssumption
       DEF QueueDraftSubmission, NewSubmission, Submission, AgentAssumption, AgentTypeOK,
           flagVars, compactionVars, seriesVars
  <2>2. /\ queued' \in Seq(Submission)
        /\ DOMAIN queued' = 1 .. (Len(queued) + 1) /\ DOMAIN queued = 1 .. Len(queued)
        /\ Len(queued) \in Nat
        /\ \A i \in 1 .. Len(queued) : queued'[i] = queued[i]
        /\ queued'[Len(queued) + 1] = submitted + 1
    BY <2>1, <1>0 DEF AgentTypeOK
  <2>3. AgentTypeOK' /\ CompactionOwner' /\ SubmissionsInOrder'
    BY <2>1, <2>2, <1>0 DEF AgentTypeOK, CompactionOwner, SubmissionsInOrder, Submission
  <2>10. pending.kind = "user" => pending.id \in Nat
    BY <1>0, Messages DEF AgentTypeOK, UserMessage, Submission
  <2>11. PendingAhead'
    BY <2>1, <2>10, <1>0 DEF PendingAhead
  <2>4. \A i \in DOMAIN queued : queued'[i] < queued'[Len(queued) + 1]
    BY <2>1, <2>2, <1>0 DEF QueueAhead
  <2>5. \A i, j \in DOMAIN queued' : i < j => queued'[i] < queued'[j]
    BY <1>0, <2>2, <2>4 DEF QueueAhead
  <2>6. /\ \A i \in DOMAIN queued' : queued'[i] <= submitted'
        /\ \A i \in DOMAIN sent' : sent'[i] <= submitted'
    BY <2>1, <2>2, <1>0 DEF QueueAhead
  <2>7. \A i \in DOMAIN sent : sent[i] < submitted + 1
    BY <1>0 DEF QueueAhead
  <2>8. \A i \in DOMAIN sent', j \in DOMAIN queued' : sent'[i] < queued'[j]
    BY <1>0, <2>1, <2>2, <2>7 DEF QueueAhead
  <2>9. PanelBusyForOne'
    BY <1>0, <2>1 DEF PanelBusyForOne
  <2> QED BY <2>3, <2>5, <2>6, <2>8, <2>9, <2>11 DEF QueueAhead, AgentIInv
<1>3. CASE RequestStop \/ Rerun \/ FinishRerun
  <2>1. /\ UNCHANGED <<submitted, queued, compacting, previous, click, latest, sent, phase,
                       pending, reply, retries>>
        /\ stopRequested' \in BOOLEAN
        /\ controller' \in {"none", "open", "aborted"}
        /\ \/ UNCHANGED <<isSending, rerunning>>
           \/ ~isSending /\ isSending' = TRUE /\ rerunning' = TRUE
           \/ rerunning /\ isSending' = FALSE /\ rerunning' = FALSE
    BY <1>0, <1>3
       DEF RequestStop, Rerun, FinishRerun, NoCompaction, inputVars, compactionVars, seriesVars,
           AgentTypeOK
  <2>2. AgentTypeOK'
    BY <2>1, <1>0 DEF AgentTypeOK
  <2>3. PanelBusyForOne' /\ CompactionOwner'
    BY <2>1, <1>0 DEF PanelBusyForOne, CompactionOwner
  <2> QED BY <1>0, <2>1, <2>2, <2>3
          DEF AgentIInv, QueueAhead, PendingAhead, SubmissionsInOrder
<1>4. CASE Clear
  <2>1. /\ queued' = <<>> /\ latest' = None /\ stopRequested' = FALSE /\ isSending = FALSE
        /\ UNCHANGED <<submitted, isSending, compacting, previous, click, rerunning, sent,
                       phase, pending, reply, retries, controller>>
    BY <1>4, <1>0 DEF Clear, NoCompaction, compactionVars, seriesVars
  <2>6. <<>> \in Seq(Submission) /\ DOMAIN <<>> = {}
    OBVIOUS
  <2>3. AgentTypeOK'
    BY <2>1, <2>6, <1>0, Messages, Zenon DEF AgentTypeOK
  <2>4. PanelBusyForOne' /\ CompactionOwner'
    BY <1>0, <2>1 DEF PanelBusyForOne, CompactionOwner
  <2> QED BY <1>0, <2>1, <2>3, <2>4, <2>6
          DEF AgentIInv, QueueAhead, PendingAhead, SubmissionsInOrder
<1>5. CASE CompactClick
  <2>1. /\ click' = "refreshing"
        /\ UNCHANGED <<submitted, queued, isSending, stopRequested, compacting, previous,
                       rerunning, latest, sent, phase, pending, reply, retries, controller>>
    BY <1>5, <1>0 DEF CompactClick, inputVars, seriesVars
  <2>2. PanelBusyForOne' /\ CompactionOwner' /\ AgentTypeOK'
    BY <2>1, <1>0 DEF PanelBusyForOne, CompactionOwner, AgentTypeOK
  <2> QED BY <1>0, <2>1, <2>2 DEF AgentIInv, QueueAhead, PendingAhead, SubmissionsInOrder
<1>6. CASE CompactRefreshed
  <2>1. UNCHANGED <<submitted, queued, stopRequested, rerunning, latest, sent,
                    phase, pending, reply, retries, controller>>
    BY <1>6 DEF CompactRefreshed, inputVars, seriesVars
  <2>2. CASE click' = "no" /\ UNCHANGED <<isSending, compacting, previous>>
    <3>1. PanelBusyForOne' /\ CompactionOwner' /\ AgentTypeOK'
      BY <2>1, <2>2, <1>0 DEF PanelBusyForOne, CompactionOwner, AgentTypeOK
    <3> QED BY <1>0, <2>1, <3>1 DEF AgentIInv, QueueAhead, PendingAhead, SubmissionsInOrder
  <2>3. CASE click' = "running" /\ StartCompaction("user")
    <3>1. /\ previous' = [previous EXCEPT !["user"] = isSending]
          /\ isSending' = TRUE /\ compacting' = TRUE
      BY <2>3 DEF StartCompaction
    <3>2. /\ previous' \in [Compactor -> BOOLEAN]
          /\ previous'["user"] = isSending /\ previous'["loop"] = previous["loop"]
      BY <3>1, <1>0 DEF AgentTypeOK, Compactor
    <3>3. AgentTypeOK'
      BY <2>1, <2>3, <3>1, <3>2, <1>0 DEF AgentTypeOK
    <3>4. PanelBusyForOne' /\ CompactionOwner'
      BY <2>1, <2>3, <3>1, <3>2, <1>0 DEF PanelBusyForOne, CompactionOwner
    <3> QED BY <1>0, <2>1, <3>3, <3>4 DEF AgentIInv, QueueAhead, PendingAhead, SubmissionsInOrder
  <2> QED BY <1>6, <2>2, <2>3 DEF CompactRefreshed
<1>7. CASE FinishCompactClick
  <2>1. /\ click = "running" /\ click' = "no"
        /\ compacting' = FALSE /\ isSending' = previous["user"]
        /\ previous' = [previous EXCEPT !["user"] = FALSE]
        /\ latest' \in {latest, Synthetic("compact")}
        /\ UNCHANGED <<submitted, queued, stopRequested, rerunning, sent,
                       phase, pending, reply, retries, controller>>
    BY <1>7 DEF FinishCompactClick, FinishCompaction, inputVars, seriesVars
  <2>2. /\ previous' \in [Compactor -> BOOLEAN]
        /\ previous'["loop"] = previous["loop"]
        /\ isSending' \in BOOLEAN
    BY <2>1, <1>0 DEF AgentTypeOK, Compactor
  <2>3. latest' \in Message
    BY <2>1, <1>0, Messages DEF AgentTypeOK
  <2>4. AgentTypeOK'
    BY <2>1, <2>2, <2>3, <1>0 DEF AgentTypeOK
  <2>5. PanelBusyForOne' /\ CompactionOwner'
    BY <2>1, <2>2, <1>0 DEF PanelBusyForOne, CompactionOwner
  <2> QED BY <1>0, <2>1, <2>4, <2>5 DEF AgentIInv, QueueAhead, PendingAhead, SubmissionsInOrder
<1> QED BY <1>1, <1>2, <1>3, <1>4, <1>5, <1>6, <1>7 DEF UserStep, ClickStep

\* A step within the series: what is queued stays, and so does the busy state.
LEMMA StaysKeeps ==
    ASSUME AgentIInv, phase # "idle",
           UNCHANGED <<submitted, queued, isSending, stopRequested, rerunning, sent, click>>,
           compacting' \in BOOLEAN, previous' \in [Compactor -> BOOLEAN],
           previous'["user"] = previous["user"],
           phase' \in Phase \ {"idle", "compact"},
           latest' \in Message, pending' \in UserMessage \cup {None},
           reply' \in Reply \cup {"none", "streaming", "partial"},
           retries' \in 0 .. MaxRetries, controller' \in {"none", "open", "aborted"},
           PendingAhead'
    PROVE  AgentIInv'
<1>0. AgentTypeOK /\ PanelBusyForOne /\ CompactionOwner /\ QueueAhead /\ SubmissionsInOrder
  BY DEF AgentIInv
<1>1. AgentTypeOK'
  BY <1>0 DEF AgentTypeOK
<1>2. PanelBusyForOne' /\ CompactionOwner'
  BY <1>0 DEF PanelBusyForOne, CompactionOwner, AgentTypeOK
<1>4. QueueAhead' /\ SubmissionsInOrder'
  BY <1>0 DEF QueueAhead, SubmissionsInOrder
<1> QED BY <1>1, <1>2, <1>4 DEF AgentIInv

\* While a series runs the panel is busy and nothing is rerun; a step that leaves the
\* compactions alone leaves their flags typed.
LEMMA InSeries ==
    ASSUME AgentIInv, phase # "idle"
    PROVE  isSending = TRUE /\ rerunning = FALSE
BY DEF AgentIInv, AgentTypeOK, PanelBusyForOne

LEMMA CompactionsStay ==
    ASSUME AgentIInv, NoCompaction
    PROVE  /\ compacting' \in BOOLEAN /\ click' = click
           /\ previous' \in [Compactor -> BOOLEAN] /\ previous'["user"] = previous["user"]
BY DEF AgentIInv, AgentTypeOK, NoCompaction, compactionVars

LEMMA StartKeeps ==
    ASSUME AgentIInv, phase \in {"prepare", "prepareAgain"}, StartRequest, NoCompaction
    PROVE  AgentIInv'
<1>0. /\ AgentTypeOK /\ PanelBusyForOne /\ CompactionOwner
      /\ QueueAhead /\ PendingAhead /\ SubmissionsInOrder /\ isSending = TRUE
  BY InSeries DEF AgentIInv
<1>3. /\ compacting' \in BOOLEAN /\ click' = click
      /\ previous' \in [Compactor -> BOOLEAN] /\ previous'["user"] = previous["user"]
  BY CompactionsStay
<1>1. CASE BoundaryAction # ""
  <2>1. Outcome(BoundaryAction) /\ UNCHANGED <<latest, sent>>
    BY <1>1 DEF StartRequest
  <2>2. Continued
    BY <2>1, Boundary, OutcomeContinues
  <2> QED BY <1>0, <1>3, <2>1, <2>2, ContinuedKeeps DEF AgentTypeOK
<1>2. CASE BoundaryAction = ""
  <2>1. /\ sent' = IF pending.kind = "user" /\ retries = 0 THEN Append(sent, pending.id) ELSE sent
        /\ latest' = Assistant /\ reply' = "streaming"
        /\ phase' \in {"stream", "load"} /\ controller' \in {"none", "open", "aborted"}
        /\ UNCHANGED <<submitted, queued, isSending, stopRequested, rerunning, pending, retries>>
    BY <1>0, <1>2 DEF StartRequest, SendPending, AgentTypeOK, inputVars
  <2>2. queued = <<>> /\ latest' \in Message
    BY <1>2, <2>1, Boundary, Messages
  <2>3. PendingAhead'
    BY <1>0, <2>1 DEF PendingAhead
  <2>4. CASE sent' = sent
    BY <1>0, <1>3, <2>1, <2>2, <2>3, <2>4, StaysKeeps DEF AgentTypeOK, Phase
  <2>5. CASE pending.kind = "user" /\ retries = 0 /\ sent' = Append(sent, pending.id)
    <3>1. pending.id \in Submission
      BY <1>0, <2>5, Messages DEF AgentTypeOK, UserMessage
    <3>2. /\ submitted \in Nat /\ \A i \in DOMAIN sent : sent[i] \in Nat
          /\ DOMAIN sent = 1 .. Len(sent) /\ Len(sent) \in Nat
      BY <1>0, Numbers
    <3>3. /\ sent' \in Seq(Submission) /\ DOMAIN sent' = 1 .. (Len(sent) + 1)
          /\ \A i \in 1 .. Len(sent) : sent'[i] = sent[i]
          /\ sent'[Len(sent) + 1] = pending.id
      BY <1>0, <2>5, <3>1 DEF AgentTypeOK
    <3>4. pending.id <= submitted /\ \A i \in DOMAIN sent : sent[i] < pending.id
      BY <1>0, <2>5 DEF PendingAhead
    <3>5. SubmissionsInOrder'
      BY <1>0, <3>2, <3>3, <3>4 DEF SubmissionsInOrder
    <3>6. QueueAhead'
      BY <1>0, <2>1, <2>2, <3>2, <3>3, <3>4 DEF QueueAhead
    <3>7. AgentTypeOK'
      BY <1>0, <1>3, <2>1, <2>2, <3>3 DEF AgentTypeOK, Phase
    <3>8. PanelBusyForOne' /\ CompactionOwner'
      BY <1>0, <1>3, <2>1 DEF PanelBusyForOne, CompactionOwner
    <3> QED BY <2>3, <3>5, <3>6, <3>7, <3>8 DEF AgentIInv
  <2> QED BY <2>1, <2>4, <2>5
<1> QED BY <1>1, <1>2

LEMMA SeriesKeeps ==
    ASSUME AgentIInv, SeriesStep
    PROVE  AgentIInv'
<1>0. AgentTypeOK /\ PanelBusyForOne /\ CompactionOwner /\ QueueAhead /\ PendingAhead /\ SubmissionsInOrder
  BY DEF AgentIInv
<1>1. Assistant \in Message
  BY Messages
<1>2. CASE PreparePromptRequest
  <2>0. phase = "prepare"
    BY <1>2 DEF PreparePromptRequest
  <2>1. CASE Outcome("failed") /\ NoCompaction /\ UNCHANGED <<latest, sent>>
    <3>1. Continued
      BY <2>0, <2>1, OutcomeContinues
    <3>2. /\ compacting' \in BOOLEAN /\ click' = click
          /\ previous' \in [Compactor -> BOOLEAN] /\ previous'["user"] = previous["user"]
      BY <2>1, CompactionsStay
    <3> QED BY <1>0, <2>0, <2>1, <3>1, <3>2, ContinuedKeeps DEF AgentTypeOK
  <2>2. CASE StartRequest /\ NoCompaction
    BY <2>0, <2>2, StartKeeps
  <2>3. CASE /\ StartCompaction("loop")
             /\ phase' = "compact"
             /\ pending' = IF latest = pending THEN Synthetic("compact") ELSE pending
             /\ UNCHANGED <<inputVars, stopRequested, rerunning, click, latest, sent,
                            reply, retries, controller>>
    <3>1. /\ previous' = [previous EXCEPT !["loop"] = isSending]
          /\ isSending = TRUE /\ isSending' = TRUE /\ compacting' = TRUE
          /\ UNCHANGED <<submitted, queued, stopRequested, rerunning, click, latest, sent,
                         reply, retries, controller>>
      BY <2>0, <2>3, InSeries DEF StartCompaction, inputVars
    <3>2. /\ previous' \in [Compactor -> BOOLEAN]
          /\ previous'["loop"] = TRUE /\ previous'["user"] = previous["user"]
      BY <1>0, <3>1 DEF AgentTypeOK, Compactor
    <3>3. pending' \in UserMessage \cup {None}
      BY <1>0, <2>3, Messages DEF AgentTypeOK
    <3>4. AgentTypeOK'
      BY <1>0, <2>3, <3>1, <3>2, <3>3 DEF AgentTypeOK, Phase
    <3>5. PanelBusyForOne' /\ CompactionOwner'
      BY <1>0, <2>0, <2>3, <3>1, <3>2 DEF PanelBusyForOne, CompactionOwner
    <3>6. QueueAhead' /\ SubmissionsInOrder'
      BY <1>0, <3>1 DEF QueueAhead, SubmissionsInOrder
    <3>7. PendingAhead'
      <4>1. CASE pending' = pending
        BY <1>0, <2>0, <2>3, <3>1, <4>1 DEF PendingAhead
      <4>2. CASE pending' = Synthetic("compact")
        BY <4>2, Messages DEF PendingAhead
      <4> QED BY <2>3, <4>1, <4>2
    <3> QED BY <3>4, <3>5, <3>6, <3>7 DEF AgentIInv
  <2> QED BY <1>2, <2>1, <2>2, <2>3 DEF PreparePromptRequest
<1>3. CASE CompactHistory
  <2>0. phase = "compact" /\ previous["loop"] = TRUE /\ isSending = TRUE
    BY <1>0, <1>3, InSeries DEF CompactHistory, CompactionOwner, AgentTypeOK, Compactor
  <2>3. UNCHANGED <<click, sent>>
    BY <1>3 DEF CompactHistory
  <2>4. previous' = [previous EXCEPT !["loop"] = FALSE] /\ compacting' = FALSE
    BY <1>3 DEF CompactHistory, FinishCompaction
  <2>5. previous' \in [Compactor -> BOOLEAN] /\ previous'["user"] = previous["user"]
    BY <1>0, <2>4 DEF AgentTypeOK, Compactor
  <2>1. CASE /\ FinishCompaction("loop")
             /\ latest' = Synthetic("compact")
             /\ phase' = "prepareAgain"
             /\ UNCHANGED <<inputVars, stopRequested, rerunning, pending, reply, retries, controller>>
    <3>1. /\ isSending' = isSending /\ latest' \in Message
          /\ UNCHANGED <<submitted, queued, stopRequested, rerunning, pending, reply, retries, controller>>
      BY <2>0, <2>1, Messages DEF FinishCompaction, inputVars
    <3>2. PendingAhead'
      BY <1>0, <2>0, <2>1, <2>3, <3>1 DEF PendingAhead
    <3> QED BY <1>0, <2>0, <2>1, <2>3, <2>4, <2>5, <3>1, <3>2, StaysKeeps DEF AgentTypeOK, Phase
  <2>2. CASE latest' \in {latest, Synthetic("compact")} /\ Outcome("failed")
    <3>1. Continued
      BY <2>0, <2>2, OutcomeContinues
    <3>2. latest' \in Message
      BY <1>0, <2>2, Messages DEF AgentTypeOK
    <3> QED BY <2>0, <2>3, <2>4, <2>5, <3>1, <3>2, ContinuedKeeps
  <2> QED BY <1>3, <2>1, <2>2 DEF CompactHistory
<1>4. CASE PrepareAgain
  <2>0. phase = "prepareAgain" /\ NoCompaction
    BY <1>4 DEF PrepareAgain
  <2>1. CASE Outcome("failed") /\ UNCHANGED <<latest, sent>>
    <3>1. Continued
      BY <2>0, <2>1, OutcomeContinues
    <3>2. /\ compacting' \in BOOLEAN /\ click' = click
          /\ previous' \in [Compactor -> BOOLEAN] /\ previous'["user"] = previous["user"]
      BY <2>0, CompactionsStay
    <3> QED BY <1>0, <2>0, <2>1, <3>1, <3>2, ContinuedKeeps DEF AgentTypeOK
  <2>2. CASE StartRequest
    BY <2>0, <2>2, StartKeeps
  <2> QED BY <1>4, <2>1, <2>2 DEF PrepareAgain
<1>5. CASE LoadLocalRuntime \/ StreamAborted \/ StreamEnds
  <2>1. /\ phase \in {"load", "stream"} /\ phase' \in {"stream", "stopping", "settle"}
        /\ latest' \in Message /\ controller' \in {"none", "open"}
        /\ reply' \in Reply \cup {"none", "streaming", "partial"}
        /\ UNCHANGED <<submitted, queued, isSending, stopRequested, compacting, previous, click,
                       rerunning, sent, pending, retries>>
    BY <1>0, <1>5
       DEF LoadLocalRuntime, StreamAborted, StreamEnds, inputVars, flagVars, compactionVars, Reply,
           AgentTypeOK
  <2>2. /\ compacting' \in BOOLEAN /\ click' = click
        /\ previous' \in [Compactor -> BOOLEAN] /\ previous'["user"] = previous["user"]
    BY <1>0, <2>1 DEF AgentTypeOK
  <2>3. PendingAhead'
    BY <1>0, <2>1 DEF PendingAhead
  <2> QED BY <1>0, <2>1, <2>2, <2>3, StaysKeeps DEF AgentTypeOK, Phase
<1>6. CASE RequestFails
  <2>1. phase \in {"load", "stream", "stopping", "settle"} /\ Throw /\ NoCompaction /\ sent' = sent
    BY <1>6 DEF RequestFails
  <2>2. latest' \in Message
    BY <1>0, <1>1, <1>6, Messages DEF RequestFails, DropReply, AgentTypeOK
  <2>3. Continued
    BY <2>1, ThrowContinues
  <2>4. /\ compacting' \in BOOLEAN /\ click' = click
        /\ previous' \in [Compactor -> BOOLEAN] /\ previous'["user"] = previous["user"]
    BY <2>1, CompactionsStay
  <2> QED BY <2>1, <2>2, <2>3, <2>4, ContinuedKeeps
<1>7. CASE FinishStopping
  <2> DEFINE o == IF BoundaryAction = "" THEN "stopped" ELSE BoundaryAction
  <2>1. phase = "stopping" /\ Outcome(o) /\ NoCompaction /\ sent' = sent
    BY <1>7 DEF FinishStopping
  <2>2. latest' \in Message
    BY <1>0, <1>7, Messages DEF FinishStopping, DropReply, AgentTypeOK
  <2>3. o = "queued" => queued # <<>>
    BY Boundary
  <2>4. Continued
    BY <2>1, <2>3, OutcomeContinues
  <2>5. /\ compacting' \in BOOLEAN /\ click' = click
        /\ previous' \in [Compactor -> BOOLEAN] /\ previous'["user"] = previous["user"]
    BY <2>1, CompactionsStay
  <2> QED BY <2>1, <2>2, <2>4, <2>5, ContinuedKeeps
<1>8. CASE FinishReply
  <2> DEFINE action == AfterResponse(BoundaryAction, reply)
  <2>0. phase = "settle" /\ NoCompaction /\ sent' = sent
    BY <1>8 DEF FinishReply
  <2>1. /\ compacting' \in BOOLEAN /\ click' = click
        /\ previous' \in [Compactor -> BOOLEAN] /\ previous'["user"] = previous["user"]
    BY <2>0, CompactionsStay
  <2>2. CASE action # "" /\ Outcome(action) /\ UNCHANGED latest
    <3>1. action = "queued" => queued # <<>>
      BY Boundary DEF AfterResponse
    <3>2. Continued
      BY <2>0, <2>2, <3>1, OutcomeContinues
    <3> QED BY <1>0, <2>0, <2>1, <2>2, <3>2, ContinuedKeeps DEF AgentTypeOK
  <2>3. CASE RetryEmpty
    <3>1. /\ latest' = pending /\ phase' = "prepare" /\ reply' = "none"
          /\ pending' = IF retries = 0 THEN pending ELSE Synthetic("retry")
          /\ retries < MaxRetries /\ retries' = retries + 1
          /\ UNCHANGED <<submitted, queued, isSending, stopRequested, rerunning, controller>>
      BY <2>3, Zenon DEF RetryEmpty, DropReply, Prepare, inputVars
    <3>2. latest' \in Message /\ pending' \in UserMessage \cup {None}
      BY <1>0, <3>1, Messages DEF AgentTypeOK
    <3>3. retries' \in 0 .. MaxRetries
      BY <1>0, <3>1, AgentAssumption DEF AgentTypeOK, AgentAssumption
    <3>4. PendingAhead'
      <4>1. retries' # 0
        BY <1>0, <3>1, AgentAssumption DEF AgentTypeOK, AgentAssumption
      <4>2. CASE pending' = pending
        BY <1>0, <2>0, <3>1, <4>1, <4>2 DEF PendingAhead
      <4>3. CASE pending' = Synthetic("retry")
        BY <4>3, Messages DEF PendingAhead
      <4> QED BY <3>1, <4>2, <4>3
    <3> QED BY <1>0, <2>0, <2>1, <3>1, <3>2, <3>3, <3>4, StaysKeeps DEF AgentTypeOK, Phase
  <2>4. CASE GiveUpEmpty
    <3>1. latest' = latest /\ Outcome("complete")
      BY <2>4 DEF GiveUpEmpty
    <3>2. Continued
      BY <2>0, <3>1, OutcomeContinues
    <3> QED BY <1>0, <2>0, <2>1, <3>1, <3>2, ContinuedKeeps DEF AgentTypeOK
  <2>5. CASE /\ phase' = "execute" /\ retries' = 0
             /\ UNCHANGED <<inputVars, isSending, stopRequested, rerunning, latest,
                            pending, reply, controller>>
    <3>1. PendingAhead'
      BY <1>0, <2>0, <2>5 DEF PendingAhead, inputVars
    <3>2. retries' \in 0 .. MaxRetries
      BY <2>5, AgentAssumption DEF AgentAssumption
    <3> QED BY <1>0, <2>0, <2>1, <2>5, <3>1, <3>2, StaysKeeps DEF AgentTypeOK, Phase, inputVars
  <2> QED BY <1>8, <2>2, <2>3, <2>4, <2>5 DEF FinishReply
<1>9. CASE ExecuteAssistantBlocks
  <2>0. phase = "execute" /\ NoCompaction /\ sent' = sent
    BY <1>9 DEF ExecuteAssistantBlocks
  <2>1. /\ compacting' \in BOOLEAN /\ click' = click
        /\ previous' \in [Compactor -> BOOLEAN] /\ previous'["user"] = previous["user"]
    BY <2>0, CompactionsStay
  <2>2. CASE /\ reply' = "none" /\ latest' = Synthetic("output") /\ phase' = "recorded"
             /\ UNCHANGED <<inputVars, isSending, stopRequested, rerunning, pending, retries, controller>>
    <3>1. PendingAhead'
      BY <1>0, <2>0, <2>2 DEF PendingAhead, inputVars
    <3> QED BY <1>0, <2>0, <2>1, <2>2, <3>1, StaysKeeps, Messages DEF AgentTypeOK, Phase, inputVars
  <2>3. CASE Outcome("complete") /\ UNCHANGED latest
    <3>1. Continued
      BY <2>0, <2>3, OutcomeContinues
    <3> QED BY <1>0, <2>0, <2>1, <2>3, <3>1, ContinuedKeeps DEF AgentTypeOK
  <2>4. CASE Throw /\ UNCHANGED latest
    BY <1>0, <2>0, <2>1, <2>4, ThrowContinues, ContinuedKeeps DEF AgentTypeOK
  <2> QED BY <1>9, <2>2, <2>3, <2>4 DEF ExecuteAssistantBlocks
<1>10. CASE FinishExecution
  <2>0. phase = "recorded" /\ NoCompaction /\ UNCHANGED <<latest, sent>>
    BY <1>10 DEF FinishExecution
  <2>1. /\ compacting' \in BOOLEAN /\ click' = click
        /\ previous' \in [Compactor -> BOOLEAN] /\ previous'["user"] = previous["user"]
    BY <2>0, CompactionsStay
  <2>2. CASE Outcome(BoundaryAction)
    <3>1. Continued
      BY <2>0, <2>2, Boundary, OutcomeContinues
    <3> QED BY <1>0, <2>0, <2>1, <3>1, ContinuedKeeps DEF AgentTypeOK
  <2>3. CASE /\ Prepare(Synthetic("output"), retries)
             /\ UNCHANGED <<inputVars, isSending, stopRequested, rerunning, controller>>
    <3>1. phase' = "prepare" /\ pending' = Synthetic("output") /\ reply' = "none" /\ retries' = retries
      BY <2>3 DEF Prepare
    <3>2. PendingAhead'
      BY <3>1, Messages DEF PendingAhead
    <3> QED BY <1>0, <2>0, <2>1, <2>3, <3>1, <3>2, StaysKeeps, Messages
            DEF AgentTypeOK, Phase, inputVars
  <2>4. CASE Throw
    BY <1>0, <2>0, <2>1, <2>4, ThrowContinues, ContinuedKeeps DEF AgentTypeOK
  <2> QED BY <1>10, <2>2, <2>3, <2>4 DEF FinishExecution
<1> QED BY <1>2, <1>3, <1>4, <1>5, <1>6, <1>7, <1>8, <1>9, <1>10 DEF SeriesStep

LEMMA AgentNextIInv == AgentIInv /\ [AgentNext]_agentVars => AgentIInv'
<1> SUFFICES ASSUME AgentIInv, [AgentNext]_agentVars PROVE AgentIInv'
  OBVIOUS
<1>1. CASE AgentNext
  BY <1>1, UserKeeps, SeriesKeeps DEF AgentNext
<1>2. CASE UNCHANGED agentVars
  BY <1>2 DEF agentVars, inputVars, flagVars, compactionVars, seriesVars, AgentIInv, AgentTypeOK,
              CompactionOwner, PanelBusyForOne, QueueAhead, PendingAhead, SubmissionsInOrder
<1> QED BY <1>1, <1>2

LEMMA AgentInvariant == AgentSpec => []AgentIInv
BY AgentInitIInv, AgentNextIInv, PTL DEF AgentSpec

\* The types, with the retries of an empty reply never above MAX_PROTOCOL_RETRY_COUNT.
THEOREM AgentTypeCorrect == AgentSpec => []AgentTypeOK
<1>1. AgentIInv => AgentTypeOK
  BY DEF AgentIInv
<1> QED BY <1>1, AgentInvariant, PTL

\* A series or a rerun keeps the panel busy and is alone, although a compaction of the
\* user's may begin before it, overlap it, and restore the flag it found.
THEOREM PanelIsBusyForOne == AgentSpec => []PanelBusyForOne
<1>1. AgentIInv => PanelBusyForOne
  BY DEF AgentIInv
<1> QED BY <1>1, AgentInvariant, PTL

\* Submissions reach the conversation in order and at most once, for any number of
\* them and any queue left behind by a series that failed.
THEOREM ConversationInOrder == AgentSpec => []SubmissionsInOrder
<1>1. AgentIInv => SubmissionsInOrder
  BY DEF AgentIInv
<1> QED BY <1>1, AgentInvariant, PTL
-----------------------------------------------------------------------------
(* Follow-ups and the output of code.                                      *)

\* A loop that has not asked, or whose code has run, has no reply in its hands; one that
\* was stopped has no more than a part of one.
ReplyInHand ==
    /\ phase \in {"idle", "prepare", "compact", "prepareAgain", "recorded"} => reply = "none"
    /\ phase = "stopping" => reply \in {"empty", "partial"}

\* The user does not touch the series and takes nothing from its queue.
LEMMA UserLeavesSeries ==
    ASSUME AgentIInv, UserStep \/ FinishRerun \/ ClickStep, phase # "idle"
    PROVE  UNCHANGED <<phase, reply>> /\ Len(queued') >= Len(queued)
<1>0. isSending = TRUE /\ rerunning = FALSE
  BY InSeries
<1>6. queued \in Seq(Submission) /\ Len(queued) \in Nat
  BY DEF AgentIInv, AgentTypeOK
<1>1. CASE QueueDraftSubmission
  <2>1. queued' = Append(queued, submitted + 1) /\ UNCHANGED <<phase, reply>>
    BY <1>1 DEF QueueDraftSubmission, seriesVars
  <2>2. Len(queued') = Len(queued) + 1
    BY <1>6, <2>1
  <2> QED BY <1>6, <2>1, <2>2
<1>2. CASE RequestStop
  BY <1>6, <1>2 DEF RequestStop, inputVars
<1>3. CASE SubmitMessage \/ Rerun \/ Clear \/ CompactClick
  BY <1>0, <1>3 DEF SubmitMessage, Rerun, Clear, CompactClick
<1>4. CASE FinishRerun
  BY <1>0, <1>4 DEF FinishRerun
<1>5. CASE ClickStep
  <2>1. UNCHANGED <<phase, reply, queued>>
    BY <1>5 DEF ClickStep, CompactRefreshed, FinishCompactClick, inputVars, seriesVars
  <2> QED BY <1>6, <2>1
<1> QED BY <1>1, <1>2, <1>3, <1>4, <1>5 DEF UserStep

LEMMA OutcomeLeaves ==
    ASSUME NEW o, Outcome(o) \/ Throw
    PROVE  phase' \in {"idle", "prepare"} /\ reply' = "none"
BY DEF Outcome, Throw, EndSeries, ConsumeNext, Prepare

LEMMA ReplyInHandStep ==
    ASSUME AgentIInv, ReplyInHand, [AgentNext]_agentVars
    PROVE  ReplyInHand'
<1>1. CASE UserStep \/ FinishRerun \/ ClickStep
  <2>1. CASE phase = "idle"
    <3>1. UNCHANGED <<phase, reply>> \/ (phase' = "prepare" /\ reply' = "none")
      BY <1>1, <2>1 DEF UserStep, SubmitMessage, QueueDraftSubmission, RequestStop, Rerun, Clear,
            CompactClick, FinishRerun, ClickStep, CompactRefreshed, FinishCompactClick, seriesVars,
            Prepare
    <3> QED BY <3>1 DEF ReplyInHand
  <2>2. CASE phase # "idle"
    BY <1>1, <2>2, UserLeavesSeries DEF ReplyInHand
  <2> QED BY <2>1, <2>2
<1>2. CASE SeriesStep
  <2>1. \A o : Outcome(o) \/ Throw => ReplyInHand'
    BY OutcomeLeaves DEF ReplyInHand
  <2>2. StartRequest => ReplyInHand'
    BY <2>1 DEF StartRequest, SendPending, ReplyInHand
  <2>3. CASE PreparePromptRequest \/ CompactHistory \/ PrepareAgain
    BY <2>1, <2>2, <2>3 DEF PreparePromptRequest, CompactHistory, PrepareAgain, ReplyInHand
  <2>4. CASE LoadLocalRuntime \/ RequestFails \/ StreamAborted \/ StreamEnds
    BY <2>1, <2>4 DEF LoadLocalRuntime, RequestFails, StreamAborted, StreamEnds, ReplyInHand
  <2>5. CASE FinishStopping
    BY <2>1, <2>5 DEF FinishStopping
  <2>6. CASE FinishReply
    BY <2>1, <2>6 DEF FinishReply, RetryEmpty, GiveUpEmpty, Prepare, ReplyInHand
  <2>7. CASE ExecuteAssistantBlocks
    BY <2>1, <2>7 DEF ExecuteAssistantBlocks, ReplyInHand
  <2>8. CASE FinishExecution
    BY <2>1, <2>8 DEF FinishExecution, Prepare, ReplyInHand
  <2> QED BY <1>2, <2>3, <2>4, <2>5, <2>6, <2>7, <2>8 DEF SeriesStep
<1>3. CASE UNCHANGED agentVars
  BY <1>3 DEF agentVars, seriesVars, ReplyInHand
<1> QED BY <1>1, <1>2, <1>3 DEF AgentNext

\* A follow-up is taken after the code's output or after a reply without code
\* (resolveOnscreenAgentBoundaryAfterAssistantResponse).
LEMMA FollowUpStep ==
    ASSUME AgentIInv, ReplyInHand, [AgentNext]_agentVars,
           queued' # queued, Len(queued') < Len(queued)
    PROVE  reply # "code"
<1>0. Len(queued) \in Nat
  BY DEF AgentIInv, AgentTypeOK
<1>1. CASE phase = "idle"
  BY <1>1 DEF ReplyInHand
<1>2. ASSUME phase # "idle" PROVE SeriesStep
  <2>1. CASE UserStep \/ FinishRerun \/ ClickStep
    <3>1. Len(queued') >= Len(queued) /\ queued' \in Seq(Submission)
      <4>1. AgentIInv'
        BY AgentNextIInv
      <4> QED BY <1>2, <2>1, <4>1, UserLeavesSeries DEF AgentIInv, AgentTypeOK
    <3>2. Len(queued') \in Nat
      BY <3>1
    <3> QED BY <1>0, <3>1, <3>2
  <2>2. CASE UNCHANGED agentVars
    BY <2>2 DEF agentVars, inputVars
  <2> QED BY <2>1, <2>2 DEF AgentNext
<1>3. Throw => FALSE
  BY DEF Throw, EndSeries
<1>4. CASE FinishReply
  <2> DEFINE action == AfterResponse(BoundaryAction, reply)
  <2>1. CASE action # "" /\ Outcome(action)
    <3>1. action = "queued"
      <4>1. action \in {"queued", "stopped"}
        BY <2>1, Boundary DEF AfterResponse
      <4>2. CASE action = "stopped"
        <5>1. Outcome("stopped")
          BY <2>1, <4>2
        <5>2. queued' = queued
          BY <5>1 DEF Outcome, EndSeries
        <5> QED BY <5>2
      <4> QED BY <4>1, <4>2
    <3>2. ~HasSeparator(reply)
      BY <3>1, Boundary DEF AfterResponse
    <3> QED BY <3>2 DEF HasSeparator
  <2>2. CASE reply = "empty"
    BY <2>2
  <2>3. CASE UNCHANGED inputVars
    BY <2>3 DEF inputVars
  <2> QED BY <1>4, <2>1, <2>2, <2>3 DEF FinishReply
<1>5. CASE ExecuteAssistantBlocks
  BY <1>3, <1>5 DEF ExecuteAssistantBlocks, inputVars
<1>6. CASE RequestFails
  BY <1>3, <1>6 DEF RequestFails
<1>7. CASE LoadLocalRuntime \/ StreamAborted \/ StreamEnds
  BY <1>7 DEF LoadLocalRuntime, StreamAborted, StreamEnds, inputVars
<1>8. CASE PreparePromptRequest \/ CompactHistory \/ PrepareAgain \/ FinishStopping \/ FinishExecution
  BY <1>8 DEF PreparePromptRequest, CompactHistory, PrepareAgain, FinishStopping, FinishExecution,
              ReplyInHand
<1> QED BY <1>1, <1>2, <1>4, <1>5, <1>6, <1>7, <1>8 DEF SeriesStep

\* A follow-up goes to the model with the output of the code before it, for any
\* number of submissions and retries, and wherever a stop or a failure falls.
THEOREM FollowUpsSeeOutput == AgentSpec => FollowUpSeesOutput
<1> DEFINE I == AgentIInv /\ ReplyInHand
<1>1. AgentSpec => []I
  <2>1. AgentInit => I
    BY AgentInitIInv DEF AgentInit, ReplyInHand
  <2>2. I /\ [AgentNext]_agentVars => I'
    BY AgentNextIInv, ReplyInHandStep
  <2> QED BY <2>1, <2>2, PTL DEF AgentSpec
<1>2. ASSUME I, [AgentNext]_agentVars
      PROVE  [queued' # queued /\ Len(queued') < Len(queued) => reply # "code"]_agentVars
  BY <1>2, FollowUpStep
<1> QED BY <1>1, <1>2, PTL DEF AgentSpec, FollowUpSeesOutput
=============================================================================
