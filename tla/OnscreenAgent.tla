--------------------------- MODULE OnscreenAgent ---------------------------
(***************************************************************************)
(* The send loop of the onscreen agent (onscreen_agent/store.js): a        *)
(* submission starts a series of conversation loops, each of which asks    *)
(* the model, runs the code of its reply and asks again with the output;   *)
(* what the user submits meanwhile is queued, and a stop or a follow-up is *)
(* looked at only at the boundaries between steps.                         *)
(*                                                                         *)
(* One action is the code between two awaits that leave the event loop;    *)
(* user events fall between actions.  The awaits of submitMessage and of   *)
(* handleClearClick before their last assignment do not leave it: init()   *)
(* of a panel that is up returns a settled promise, the extension point of *)
(* processOnscreenAgentMessage has no extension in the repository and is   *)
(* looked up with a fetch only once a page (before the model begins), and  *)
(* replaceHistory without a refresh awaits nothing.  Of the history only   *)
(* the latest message is kept, which is all the loop looks at.             *)
(***************************************************************************)
EXTENDS Integers, Sequences

CONSTANTS
    MaxSubmissions,  \* bound on what the user submits
    MaxRetries       \* MAX_PROTOCOL_RETRY_COUNT

ASSUME AgentAssumption == MaxSubmissions \in Nat /\ MaxRetries \in Nat

VARIABLES
    submitted,      \* submissions the user has made, numbered from 1
    queued,         \* queuedSubmissions
    isSending,
    stopRequested,
    compacting,     \* isCompactingHistory
    previous,       \* previousSendingState of the compaction of each caller
    click,          \* the user's compaction: "no", "refreshing" the prompt, "running"
    rerunning,      \* an earlier execution is being rerun
    latest,         \* the latest message of the history
    sent,           \* submissions in the order they entered the history
    \* The series under way
    phase,
    pending,        \* nextUserMessage
    reply,          \* assistantMessage, until its code has run
    retries,        \* emptyAssistantRetryCount
    controller      \* activeRequestController

inputVars == <<submitted, queued>>
seriesVars == <<phase, pending, reply, retries, controller>>
compactionVars == <<compacting, previous, click>>
flagVars == <<isSending, stopRequested, rerunning, compactionVars>>
agentVars == <<inputVars, flagVars, latest, sent, seriesVars>>

Submission == 1 .. MaxSubmissions

\* Replies: nothing, text, text with code to run, or with a separator and no code.
\* A reply is "streaming" until it has ended, or "partial" if it was cut off.
Reply == {"empty", "plain", "code", "codeless"}
HasSeparator(content) == content \in {"code", "codeless"}

User(s) == [kind |-> "user", id |-> s]
Synthetic(kind) == [kind |-> kind, id |-> 0]
Assistant == Synthetic("assistant")
None == Synthetic("none")

UserMessage == [kind : {"user"}, id : Submission]
               \cup [kind : {"output", "retry", "compact"}, id : {0}]
Message == UserMessage \cup {Assistant, None}

\* Who calls compactHistory.
Compactor == {"loop", "user"}

Phase == {"idle", "prepare", "compact", "prepareAgain", "load", "stream", "stopping",
          "settle", "execute", "recorded"}

AgentInit ==
    /\ submitted = 0
    /\ queued = <<>>
    /\ isSending = FALSE /\ stopRequested = FALSE
    /\ compacting = FALSE /\ previous = [c \in Compactor |-> FALSE]
    /\ click = "no"
    /\ rerunning = FALSE
    /\ latest = None
    /\ sent = <<>>
    /\ phase = "idle"
    /\ pending = None
    /\ reply = "none"
    /\ retries = 0
    /\ controller = "none"

-----------------------------------------------------------------------------
(* Boundaries: getBoundaryAction, and what follows a loop's outcome.       *)

\* mutants: a stop, or the queue, is not looked at.
BoundaryActionNoStop == IF queued # <<>> THEN "queued" ELSE ""
BoundaryActionNoQueue == IF stopRequested THEN "stopped" ELSE ""
BoundaryAction ==
    CASE queued # <<>> -> "queued"
      [] queued = <<>> /\ stopRequested -> "stopped"
      [] OTHER -> ""

\* mutant: the boundary is the same whatever the reply holds.
AfterAnyResponse(action, content) == action
\* resolveOnscreenAgentBoundaryAfterAssistantResponse
AfterResponse(action, content) ==
    IF action = "queued" /\ HasSeparator(content) THEN "" ELSE action

\* runConversationLoop goes round again, or a new one starts.
Prepare(message, count) ==
    /\ phase' = "prepare"
    /\ pending' = message
    /\ reply' = "none"
    /\ retries' = count

EndSeries ==
    /\ isSending' = FALSE
    /\ stopRequested' = FALSE
    /\ phase' = "idle"
    /\ pending' = None
    /\ reply' = "none"
    /\ retries' = 0
    /\ controller' = "none"
    /\ UNCHANGED queued

\* consumeNextQueuedSubmissionMessage
ConsumeNext ==
    /\ queued' = Tail(queued)
    /\ Prepare(User(Head(queued)), 0)
    /\ controller' = "none"
    /\ UNCHANGED isSending

\* runSubmissionSeries after a loop returned: a stop is forgotten for a follow-up
\* that the boundary asked for, not for one found after the loop was complete.
Outcome(outcome) ==
    /\ IF outcome = "queued" \/ (outcome = "complete" /\ queued # <<>>)
       THEN /\ ConsumeNext
            /\ stopRequested' = IF outcome = "queued" THEN FALSE ELSE stopRequested
       ELSE EndSeries
    /\ UNCHANGED <<submitted, rerunning>>

\* An error ends the series and leaves the queue as it is.
Throw == EndSeries /\ UNCHANGED <<submitted, rerunning>>

NoCompaction == UNCHANGED compactionVars

-----------------------------------------------------------------------------
(* What the user does.                                                     *)

NewSubmission ==
    /\ submitted < MaxSubmissions
    /\ submitted' = submitted + 1

\* submitMessage
SubmitMessage ==
    /\ ~isSending
    /\ NewSubmission
    /\ isSending' = TRUE
    /\ stopRequested' = FALSE
    /\ Prepare(User(submitted + 1), 0)
    /\ NoCompaction
    /\ UNCHANGED <<queued, rerunning, latest, sent, controller>>

\* queueDraftSubmission: the composer is disabled during a compaction.
QueueDraftSubmission ==
    /\ isSending /\ ~compacting
    /\ NewSubmission
    /\ queued' = Append(queued, submitted + 1)
    /\ UNCHANGED <<flagVars, latest, sent, seriesVars>>

\* requestStop: the button stops only while nothing is queued.
RequestStop ==
    /\ isSending /\ ~compacting
    /\ queued = <<>>
    /\ stopRequested' = TRUE
    /\ controller' = IF controller = "open" THEN "aborted" ELSE controller
    /\ NoCompaction
    /\ UNCHANGED <<inputVars, isSending, rerunning, latest, sent, phase, pending, reply, retries>>

\* The rerun button of an earlier execution.
Rerun ==
    /\ ~isSending
    /\ latest.kind \notin {"none", "compact"}
    /\ isSending' = TRUE
    /\ rerunning' = TRUE
    /\ NoCompaction
    /\ UNCHANGED <<inputVars, stopRequested, latest, sent, seriesVars>>

FinishRerun ==
    /\ rerunning
    /\ isSending' = FALSE
    /\ rerunning' = FALSE
    /\ NoCompaction
    /\ UNCHANGED <<inputVars, stopRequested, latest, sent, seriesVars>>

\* handleClearClick
Clear ==
    /\ ~isSending /\ ~compacting
    /\ latest # None
    /\ queued' = <<>>
    /\ latest' = None
    /\ stopRequested' = FALSE
    /\ NoCompaction
    /\ UNCHANGED <<submitted, isSending, rerunning, sent, seriesVars>>

-----------------------------------------------------------------------------
(* Compaction, asked for by the user or by the loop.                       *)

StartCompaction(caller) ==
    /\ previous' = [previous EXCEPT ![caller] = isSending]
    /\ isSending' = TRUE
    /\ compacting' = TRUE

\* mutant: the compaction ends the busy state, whoever set it.
FinishCompactionIdle(caller) ==
    /\ compacting' = FALSE
    /\ isSending' = FALSE
    /\ previous' = [previous EXCEPT ![caller] = FALSE]
FinishCompaction(caller) ==
    /\ compacting' = FALSE
    /\ isSending' = previous[caller]
    /\ previous' = [previous EXCEPT ![caller] = FALSE]

\* handleCompactClick looks at isSending and refreshes the prompt; the model has one
\* such click at a time.
CompactClick ==
    /\ ~isSending /\ ~compacting
    /\ latest # None
    /\ click = "no"
    /\ click' = "refreshing"
    /\ UNCHANGED <<inputVars, isSending, stopRequested, rerunning, compacting, previous,
                   latest, sent, seriesVars>>

\* The prompt is refreshed: the compaction starts, whatever was started meanwhile,
\* unless the refresh failed or left no history.
CompactRefreshed ==
    /\ click = "refreshing"
    /\ \/ click' = "no" /\ UNCHANGED <<isSending, compacting, previous>>
       \/ click' = "running" /\ StartCompaction("user")
    /\ UNCHANGED <<inputVars, stopRequested, rerunning, latest, sent, seriesVars>>

\* It ends, and may have replaced the history of a series that runs.
FinishCompactClick ==
    /\ click = "running"
    /\ click' = "no"
    /\ FinishCompaction("user")
    /\ latest' \in {latest, Synthetic("compact")}
    /\ UNCHANGED <<inputVars, stopRequested, rerunning, sent, seriesVars>>

-----------------------------------------------------------------------------
(* The conversation loop.                                                  *)

\* The pending message enters the history with the reply.  A submission counts when
\* it first does: an empty reply to it is asked for again.
SendPending ==
    /\ sent' = IF pending.kind = "user" /\ retries = 0 THEN Append(sent, pending.id) ELSE sent
    /\ latest' = Assistant
    /\ reply' = "streaming"

\* mutant: the request is sent without a look at the queue and the stop.
StartRequestAtOnce ==
    /\ SendPending
    /\ phase' = "stream" /\ controller' = "open"
    /\ UNCHANGED <<inputVars, isSending, stopRequested, rerunning, pending, retries>>
\* The request is ready, and is sent unless a boundary comes first; the API's stream
\* is open at once, the local model is loaded before.
StartRequest ==
    IF BoundaryAction # ""
    THEN Outcome(BoundaryAction) /\ UNCHANGED <<latest, sent>>
    ELSE /\ SendPending
         /\ \/ phase' = "stream" /\ controller' = "open"
            \/ phase' = "load" /\ UNCHANGED controller
         /\ UNCHANGED <<inputVars, isSending, stopRequested, rerunning, pending, retries>>

\* preparePromptRequest fails, makes a request, or makes one that is too long.  The
\* compacted history will stand in for the pending message if that is its latest now.
PreparePromptRequest ==
    /\ phase = "prepare"
    /\ \/ Outcome("failed") /\ NoCompaction /\ UNCHANGED <<latest, sent>>
       \/ StartRequest /\ NoCompaction
       \/ /\ StartCompaction("loop")
          /\ phase' = "compact"
          /\ pending' = IF latest = pending THEN Synthetic("compact") ELSE pending
          /\ UNCHANGED <<inputVars, stopRequested, rerunning, click, latest, sent,
                         reply, retries, controller>>

\* The compaction ends; without a compacted history the loop has failed.
CompactHistory ==
    /\ phase = "compact"
    /\ \/ /\ FinishCompaction("loop")
          /\ latest' = Synthetic("compact")
          /\ phase' = "prepareAgain"
          /\ UNCHANGED <<inputVars, stopRequested, rerunning, pending, reply, retries, controller>>
       \/ /\ compacting' = FALSE /\ previous' = [previous EXCEPT !["loop"] = FALSE]
          /\ latest' \in {latest, Synthetic("compact")}
          /\ Outcome("failed")
    /\ UNCHANGED <<click, sent>>

PrepareAgain ==
    /\ phase = "prepareAgain"
    /\ NoCompaction
    /\ \/ Outcome("failed") /\ UNCHANGED <<latest, sent>>
       \/ StartRequest

\* ensureActiveLocalRuntime: a stop in the meantime finds no request to abort.
LoadLocalRuntime ==
    /\ phase = "load"
    /\ phase' = "stream"
    /\ controller' = "open"
    /\ UNCHANGED <<inputVars, flagVars, latest, sent, pending, reply, retries>>

\* The pending message is the latest one again: replaceHistory(requestMessages).
DropReply == latest' = pending

\* The model is not loaded, its answer breaks off, or processing it fails: the loop
\* throws, and a reply without content is dropped.
RequestFails ==
    /\ phase \in {"load", "stream", "stopping", "settle"} /\ controller # "aborted"
    /\ \/ reply \in {"streaming", "empty"} /\ DropReply
       \/ (phase = "stream" \/ reply \notin {"streaming", "empty"}) /\ UNCHANGED latest
    /\ Throw
    /\ NoCompaction
    /\ UNCHANGED sent

\* The abort error of a stop; the partial reply is processed and saved.
StreamAborted ==
    /\ phase = "stream" /\ controller = "aborted"
    /\ phase' = "stopping"
    /\ controller' = "none"
    /\ reply' \in {"empty", "partial"}
    /\ UNCHANGED <<inputVars, flagVars, latest, sent, pending, retries>>

FinishStopping ==
    /\ phase = "stopping"
    /\ IF reply = "empty" THEN DropReply ELSE UNCHANGED latest
    /\ Outcome(IF BoundaryAction = "" THEN "stopped" ELSE BoundaryAction)
    /\ NoCompaction
    /\ UNCHANGED sent

\* The whole reply arrived, before or in spite of an abort; it is processed and saved.
StreamEnds ==
    /\ phase = "stream"
    /\ phase' = "settle"
    /\ controller' = "none"
    /\ reply' \in Reply
    /\ UNCHANGED <<inputVars, flagVars, latest, sent, pending, retries>>

\* mutant: one retry too many.
RetryEmptyOnceMore ==
    /\ retries <= MaxRetries
    /\ DropReply
    /\ Prepare(IF retries = 0 THEN pending ELSE Synthetic("retry"), retries + 1)
    /\ UNCHANGED <<inputVars, isSending, stopRequested, rerunning, controller>>
\* An empty reply is asked for again, the second time with a note to the model.
RetryEmpty ==
    /\ retries < MaxRetries
    /\ DropReply
    /\ Prepare(IF retries = 0 THEN pending ELSE Synthetic("retry"), retries + 1)
    /\ UNCHANGED <<inputVars, isSending, stopRequested, rerunning, controller>>

GiveUpEmpty ==
    /\ retries >= MaxRetries
    /\ Outcome("complete")
    /\ UNCHANGED latest

FinishReply ==
    LET action == AfterResponse(BoundaryAction, reply)
    IN /\ phase = "settle"
       /\ \/ action # "" /\ Outcome(action) /\ UNCHANGED latest
          \/ action = "" /\ reply = "empty" /\ (RetryEmpty \/ GiveUpEmpty)
          \/ /\ action = "" /\ reply # "empty"
             /\ phase' = "execute"
             /\ retries' = 0
             /\ UNCHANGED <<inputVars, isSending, stopRequested, rerunning, latest,
                            pending, reply, controller>>
       /\ NoCompaction
       /\ UNCHANGED sent

\* executeAssistantBlocks: its results become a message; without results the loop
\* is complete.  An extension may throw, then or when the message is saved.
ExecuteAssistantBlocks ==
    /\ phase = "execute"
    /\ \/ /\ reply = "code"
          /\ reply' = "none"
          /\ latest' = Synthetic("output")
          /\ phase' = "recorded"
          /\ UNCHANGED <<inputVars, isSending, stopRequested, rerunning, pending, retries, controller>>
       \/ reply # "code" /\ Outcome("complete") /\ UNCHANGED latest
       \/ Throw /\ UNCHANGED latest
    /\ NoCompaction
    /\ UNCHANGED sent

\* The output is saved; then the loop goes round with it.
FinishExecution ==
    /\ phase = "recorded"
    /\ \/ BoundaryAction # "" /\ Outcome(BoundaryAction)
       \/ /\ BoundaryAction = ""
          /\ Prepare(Synthetic("output"), retries)
          /\ UNCHANGED <<inputVars, isSending, stopRequested, rerunning, controller>>
       \/ Throw
    /\ NoCompaction
    /\ UNCHANGED <<latest, sent>>

-----------------------------------------------------------------------------

UserStep ==
    SubmitMessage \/ QueueDraftSubmission \/ RequestStop \/ Rerun \/ Clear \/ CompactClick

SeriesStep ==
    \/ PreparePromptRequest \/ CompactHistory \/ PrepareAgain
    \/ LoadLocalRuntime \/ RequestFails \/ StreamAborted \/ StreamEnds
    \/ FinishStopping \/ FinishReply
    \/ ExecuteAssistantBlocks \/ FinishExecution

ClickStep == CompactRefreshed \/ FinishCompactClick

AgentNext == UserStep \/ SeriesStep \/ FinishRerun \/ ClickStep

AgentSpec == AgentInit /\ [][AgentNext]_agentVars

\* Requests, executions and saves come to an end, one way or another.
FairAgentSpec ==
    /\ AgentSpec
    /\ WF_agentVars(SeriesStep)
    /\ WF_agentVars(FinishRerun)
    /\ WF_agentVars(ClickStep)

-----------------------------------------------------------------------------
(* Properties.                                                             *)

AgentTypeOK ==
    /\ submitted \in 0 .. MaxSubmissions
    /\ queued \in Seq(Submission)
    /\ isSending \in BOOLEAN /\ stopRequested \in BOOLEAN
    /\ compacting \in BOOLEAN /\ previous \in [Compactor -> BOOLEAN]
    /\ click \in {"no", "refreshing", "running"}
    /\ rerunning \in BOOLEAN
    /\ latest \in Message
    /\ sent \in Seq(Submission)
    /\ phase \in Phase
    /\ pending \in UserMessage \cup {None}
    /\ reply \in Reply \cup {"none", "streaming", "partial"}
    /\ retries \in 0 .. MaxRetries
    /\ controller \in {"none", "open", "aborted"}

\* What writes the conversation keeps the panel busy, and is alone: whatever a
\* compaction of the user's overlaps, the flag it restores never opens the panel under
\* a series or a rerun, so no second loop starts on the same history.  (The converse
\* does not hold: a compaction that began in a series leaves the panel busy after it.)
PanelBusyForOne ==
    /\ phase # "idle" \/ rerunning => isSending
    /\ ~(phase # "idle" /\ rerunning)

\* Submissions enter the conversation in the order they were made and once each,
\* although a queue may outlive the series it was meant for.
SubmissionsInOrder == \A i, j \in DOMAIN sent : i < j => sent[i] < sent[j]

\* A follow-up goes to the model with the output of the code before it: no series
\* takes one from the queue while the reply in its hands has code that did not run
\* (onscreen-agent-runtime.md:111, turn-boundary.js).
FollowUpSeesOutput ==
    [][queued' # queued /\ Len(queued') < Len(queued) => reply # "code"]_agentVars

\* A stop ends the series that runs, or a follow-up takes its place, even of an agent
\* that answers every output with more code.
StopEnds == stopRequested /\ phase # "idle" ~> ~stopRequested \/ phase = "idle"

\* A follow-up queued while a series runs is taken from the queue, however often
\* the agent goes round, unless the series ends first.
FollowUpTaken ==
    \A s \in Submission :
        (\E i \in DOMAIN queued : queued[i] = s) /\ phase # "idle"
        ~> phase = "idle" \/ \A i \in DOMAIN queued : queued[i] # s
=============================================================================
