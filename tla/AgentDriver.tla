---------------------------- MODULE AgentDriver ----------------------------
(***************************************************************************)
(* The agent driver of packages/core/agent-loop: one ReactLoopAgent, its   *)
(* durable inbox and the turn/step machine that drains it.                 *)
(*                                                                         *)
(* The program is single threaded.  An action is a stretch of code that    *)
(* runs without giving control to anybody else: up to the next await, or   *)
(* up to a synchronous dispatch (an appended event, a status or inbox      *)
(* notification) whose observers may call back into the agent.  pc names   *)
(* the place where the driver waits, stack the calls that wait for their   *)
(* observers.  The environment (callers, plugins, tools, observers) acts   *)
(* at those places only.                                                   *)
(***************************************************************************)
EXTENDS Naturals, Sequences, FiniteSets, SequencesExt

CONSTANTS
  Messages,     \* user messages; every one is sent at most once
  Causes,       \* kinds of AgentCancelCause
  MaxSteps,     \* bound: steps the tools and listeners ask for in one turn
  MaxAttempts,  \* bound: model attempts of one step (the retry policy's limit)
  MaxCalls      \* bound: tool calls of one assistant message

Disposed == "disposed"
Live == "live"  \* the activity's signal is not aborted

ASSUME DriverAssumption ==
  /\ Disposed \in Causes
  /\ Live \notin Causes
  /\ MaxSteps \in Nat
  /\ MaxAttempts \in Nat
  /\ MaxCalls \in Nat

VARIABLES
  \* The phase record of the driver.
  phase,          \* "idle", "maintenance" or "running"
  abort,          \* Live, or the cause phase.abort was aborted with
  wakeRequested,  \* a wake latched for replay when the activity converges
  turn,           \* phase.turn while running, lastTurn otherwise
  step,           \* phase.step
  \* The durable inbox.
  nextTurn,       \* prompts awaiting a turn of their own, in order
  nextStep,       \* input awaiting the next step boundary
  \* Locals of turn() and step().
  pc,             \* where the driver waits
  target,         \* what the next claim takes
  turnEnds,       \* the reason turn() would close the turn with, or "null"
  stepEnd,        \* what step() last returned
  batch,          \* messages claimed for, then entered by, the proposed step
  toAdmit,        \* messages of the batch this attempt still has to log
  extra,          \* whether the entered batch carries messages of listeners
  attempts,       \* model attempts of this step
  stack,          \* calls suspended in a notification, the innermost first
  \* The session log, as its consumers read it.
  openTurn,       \* a turn/start has no turn/end
  openStep,       \* a step/start has no step/end
  unanswered,     \* tool calls of the open step without a tool/result
  \* History.
  sent,           \* messages inserted so far
  wakes,          \* messages whose send() asked for a wake
  outcomes,       \* claimed and discarded notifications of each message
  admits,         \* user/message events of each message
  prompts,        \* next-turn messages claimed by the open turn
  disposing       \* a disposed cancel reached the present activity

phaseVars == <<phase, abort, wakeRequested, turn, step, disposing>>
inboxVars == <<nextTurn, nextStep, sent, wakes, outcomes>>
localVars == <<target, turnEnds, stepEnd, batch, toAdmit, extra, attempts>>
logVars   == <<openTurn, openStep, unanswered, admits, prompts>>
vars == <<phaseVars, inboxVars, pc, localVars, stack, logVars>>

Pending == ToSet(nextTurn) \cup nextStep
HasPending == nextTurn # <<>> \/ nextStep # {}

(***************************************************************************)
(* Observers of Session.append() run inside the append, which rejects a    *)
(* nested one: there nobody can touch the inbox.                           *)
(***************************************************************************)
Appending == {"opened", "admitting", "stepClosed", "caught", "turnClosed"}
InboxWritable == pc \notin Appending

(***************************************************************************)
(* A frame is the rest of a call behind the notification it is suspended   *)
(* in: "wake" and "wakeAfterAbort" are send() before wakeDriver(),         *)
(* "replay" is kick() before its look at the latch, "clearPrompts" is a    *)
(* cancel() that has spliced next-step out of the inbox and "abort" one    *)
(* that has cleared all of it.                                             *)
(***************************************************************************)
Places == {"wake", "wakeAfterAbort", "replay", "clearPrompts", "abort"}
Frame == [at : Places, cause : Causes \cup {Live}]
NewFrame(place) == [at |-> place, cause |-> Live]
Push(frame) == stack' = <<frame>> \o stack
Pop == stack' = Tail(stack)
Running(place) == stack # <<>> /\ Head(stack).at = place

\* No call is suspended, so the event loop may resume a task.
Unwound == stack = <<>>

Init ==
  /\ phase = "idle" /\ abort = Live /\ wakeRequested = FALSE
  /\ turn = 0 /\ step = 0
  /\ nextTurn = <<>> /\ nextStep = {}
  /\ pc = "none" /\ target = "next-turn" /\ turnEnds = "null"
  /\ stepEnd = "null" /\ batch = {} /\ toAdmit = {} /\ extra = FALSE /\ attempts = 0
  /\ stack = <<>>
  /\ openTurn = FALSE /\ openStep = FALSE /\ unanswered = 0
  /\ sent = {} /\ wakes = {} /\ outcomes = [m \in Messages |-> 0]
  /\ admits = [m \in Messages |-> 0]
  /\ prompts = 0 /\ disposing = FALSE
-----------------------------------------------------------------------------
(* Waking the driver.                                                      *)

\* Mutant: the step number of the turn before is kept.
KeepStep ==
  /\ phase' = "running" /\ abort' = Live /\ wakeRequested' = FALSE
  /\ disposing' = FALSE
  /\ pc' = "starting"
  /\ UNCHANGED <<turn, step>>

\* A driver, or its next turn, starts under a fresh signal and without a latch.
StartDriver ==
  /\ phase' = "running" /\ abort' = Live /\ wakeRequested' = FALSE /\ step' = 0
  /\ disposing' = FALSE
  /\ pc' = "starting"
  /\ UNCHANGED turn

\* The idle phase has neither a signal, nor a latch, nor a step.
BecomeIdle ==
  /\ phase' = "idle" /\ abort' = Live /\ wakeRequested' = FALSE /\ step' = 0
  /\ disposing' = FALSE
  /\ UNCHANGED turn

\* Latch the wake behind maintenance or an aborted activity, or start a driver.
WakeDriver(afterAbort) ==
  IF phase = "idle"
  THEN StartDriver
  ELSE /\ wakeRequested' = \/ wakeRequested
                           \/ /\ abort # Disposed
                              /\ phase = "maintenance" \/ afterAbort
       /\ UNCHANGED <<phase, abort, turn, step, disposing, pc>>

-----------------------------------------------------------------------------
(* Callers: delivery, inbox edits, cancellation, maintenance.              *)

Insert(m, box, first) ==
  /\ nextTurn' = IF box = "next-step" THEN nextTurn
                 ELSE IF first THEN <<m>> \o nextTurn
                 ELSE Append(nextTurn, m)
  /\ nextStep' = IF box = "next-step" THEN nextStep \cup {m} ELSE nextStep
  /\ sent' = sent \cup {m}

\* send(): waking input cannot join an aborted activity, so it opens a turn.
Send(m, box, wakeup) ==
  LET afterAbort == wakeup /\ phase # "idle" /\ abort # Live
  IN /\ InboxWritable
     /\ m \notin sent
     /\ Insert(m, IF afterAbort THEN "next-turn" ELSE box, FALSE)
     /\ wakes' = IF wakeup THEN wakes \cup {m} ELSE wakes
     /\ IF wakeup
        THEN Push(NewFrame(IF afterAbort THEN "wakeAfterAbort" ELSE "wake"))
        ELSE UNCHANGED stack
     /\ UNCHANGED <<phaseVars, pc, localVars, logVars, outcomes>>

\* The rest of send(), after the observers of the insertion.
SendWakes ==
  /\ Running("wake") \/ Running("wakeAfterAbort")
  /\ WakeDriver(Running("wakeAfterAbort"))
  /\ Pop
  /\ UNCHANGED <<inboxVars, localVars, logVars>>

Prepend(m, box) ==
  /\ InboxWritable
  /\ m \notin sent
  /\ Insert(m, box, TRUE)
  /\ UNCHANGED <<phaseVars, pc, localVars, stack, logVars, wakes, outcomes>>

Discarded(S) == [m \in Messages |-> IF m \in S THEN outcomes[m] + 1 ELSE outcomes[m]]

\* remove(): locate the message, next-turn first, and splice it out.
RemoveMessage(m) ==
  /\ InboxWritable
  /\ \/ \E i \in DOMAIN nextTurn : /\ nextTurn[i] = m
                                  /\ nextTurn' = RemoveAt(nextTurn, i)
                                  /\ UNCHANGED nextStep
     \/ /\ m \in nextStep
        /\ nextStep' = nextStep \ {m}
        /\ UNCHANGED nextTurn
  /\ outcomes' = Discarded({m})
  /\ UNCHANGED <<phaseVars, pc, localVars, stack, logVars, sent, wakes>>

\* replace(): the old identity is discarded, the new one takes its place.
ReplaceMessage(m, n) ==
  /\ InboxWritable
  /\ m \in Pending /\ n \notin sent
  /\ nextTurn' = [i \in DOMAIN nextTurn |-> IF nextTurn[i] = m THEN n ELSE nextTurn[i]]
  /\ nextStep' = IF m \in nextStep THEN (nextStep \ {m}) \cup {n} ELSE nextStep
  /\ sent' = sent \cup {n}
  /\ outcomes' = Discarded({m})
  /\ UNCHANGED <<phaseVars, pc, localVars, stack, logVars, wakes>>

\* The two splices of Inbox.clear(); their discards are notified behind each.
ClearInput ==
  /\ nextStep' = {} /\ outcomes' = Discarded(nextStep)
  /\ UNCHANGED <<nextTurn, sent, wakes>>

ClearPrompts ==
  /\ nextTurn' = <<>> /\ outcomes' = Discarded(ToSet(nextTurn))
  /\ UNCHANGED <<nextStep, sent, wakes>>

\* The end of cancel(): by now observers may have changed the phase.
AbortActivity(cause, keepInbox) ==
  /\ wakeRequested' = (wakeRequested /\ (keepInbox \/ phase = "idle"))
  /\ abort' = IF phase # "idle" /\ abort = Live THEN cause ELSE abort
  /\ disposing' = (disposing \/ (phase # "idle" /\ cause = Disposed))
  /\ UNCHANGED <<phase, turn, step>>

\* cancel() with nothing to discard goes through; otherwise it gets as far as
\* the observers of its first splice.
Cancel(cause, keepInbox) ==
  /\ \/ /\ keepInbox \/ ~HasPending
        /\ AbortActivity(cause, keepInbox)
        /\ UNCHANGED <<inboxVars, stack>>
     \/ /\ ~keepInbox /\ HasPending /\ InboxWritable
        /\ IF nextStep # {}
           THEN ClearInput /\ Push([at |-> "clearPrompts", cause |-> cause])
           ELSE ClearPrompts /\ Push([at |-> "abort", cause |-> cause])
        /\ UNCHANGED phaseVars
  /\ UNCHANGED <<pc, localVars, logVars>>

\* The second splice, with observers of its own if it discards anything ...
CancelPrompts ==
  /\ Running("clearPrompts")
  /\ IF nextTurn = <<>>
     THEN /\ AbortActivity(Head(stack).cause, FALSE) /\ Pop
          /\ UNCHANGED inboxVars
     ELSE /\ ClearPrompts
          /\ stack' = <<[at |-> "abort", cause |-> Head(stack).cause]>> \o Tail(stack)
          /\ UNCHANGED phaseVars
  /\ UNCHANGED <<pc, localVars, logVars>>

\* ... and what cancel() does behind them.
CancelAborts ==
  /\ Running("abort")
  /\ AbortActivity(Head(stack).cause, FALSE) /\ Pop
  /\ UNCHANGED <<inboxVars, pc, localVars, logVars>>

\* Mutant: maintenance does not ask for the idle phase.
MaintainAnyway ==
  /\ phase' = "maintenance" /\ abort' = Live /\ wakeRequested' = FALSE
  /\ disposing' = FALSE
  /\ UNCHANGED <<turn, step, pc, inboxVars, localVars, stack, logVars>>

RunMaintenance ==
  /\ phase = "idle"
  /\ phase' = "maintenance" /\ abort' = Live /\ wakeRequested' = FALSE
  /\ disposing' = FALSE
  /\ UNCHANGED <<turn, step, pc, inboxVars, localVars, stack, logVars>>

\* The maintenance job settles, with a value or an error.
EndMaintenance ==
  /\ phase = "maintenance" /\ Unwound
  /\ IF abort # Disposed /\ wakeRequested /\ HasPending
     THEN StartDriver
     ELSE BecomeIdle /\ UNCHANGED pc
  /\ UNCHANGED <<inboxVars, localVars, stack, logVars>>
-----------------------------------------------------------------------------
(* The driver: kick() and turn().                                          *)

Driving(at) == pc = at /\ Unwound

\* Mutant: the abort path leaves the turn open.
LeaveTurnOpen ==
  IF abort # Live
  THEN turnEnds' = "aborted" /\ openTurn' = openTurn /\ pc' = "retiring"
  ELSE turnEnds' = "error" /\ openTurn' = openTurn /\ pc' = "failing"

\* turn()'s catch: the abort cause wins over the error that surfaced it, and
\* finally closes the turn; a failure is reported first (agent/error).
Catch ==
  IF abort # Live
  THEN turnEnds' = "aborted" /\ openTurn' = FALSE /\ pc' = "retiring"
  ELSE turnEnds' = "error" /\ openTurn' = openTurn /\ pc' = "failing"

\* The finally of turn() on the ways out that skip its catch.
EndTurn(reason, next) ==
  turnEnds' = reason /\ openTurn' = FALSE /\ pc' = next

\* The loop of turn() goes round: later claims take next-step input only.
ContinueTurn ==
  target' = "next-step" /\ pc' = "opened" /\ UNCHANGED <<turnEnds, openTurn>>

\* turn() up to its first boundary; an abort before turn/start opens nothing.
OpenTurn ==
  /\ Driving("starting")
  /\ IF abort # Live
     THEN pc' = "retiring" /\ UNCHANGED <<turn, target, turnEnds, openTurn, prompts>>
     ELSE /\ turn' = turn + 1
          /\ target' = "next-turn" /\ turnEnds' = "null"
          /\ openTurn' = TRUE /\ prompts' = 0
          /\ pc' = "opened"
  /\ UNCHANGED <<phase, abort, wakeRequested, step, disposing, inboxVars, stepEnd, batch,
                 toAdmit, extra, attempts, stack, openStep, unanswered, admits>>

\* The head of turn()'s loop: claim a batch and propose a step with it.
Claim ==
  LET prompt == IF target = "next-turn" /\ nextTurn # <<>> THEN {Head(nextTurn)} ELSE {}
  IN /\ Driving("opened")
     /\ IF abort # Live
        THEN Catch /\ UNCHANGED <<inboxVars, batch, prompts>>
        ELSE /\ batch' = nextStep \cup prompt
             /\ nextStep' = {}
             /\ nextTurn' = IF prompt = {} THEN nextTurn ELSE Tail(nextTurn)
             /\ outcomes' = Discarded(batch')
             /\ prompts' = prompts + Cardinality(prompt)
             /\ pc' = "preStep"
             /\ UNCHANGED <<sent, wakes, turnEnds, openTurn>>
     /\ UNCHANGED <<phaseVars, target, stepEnd, toAdmit, extra, attempts, stack,
                    openStep, unanswered, admits>>

\* A missing model, a failing listener, or an abort seen by preStep().
PreStepThrows ==
  /\ Driving("preStep")
  /\ Catch
  /\ UNCHANGED <<phaseVars, inboxVars, target, stepEnd, batch, toAdmit, extra, attempts,
                 stack, openStep, unanswered, admits, prompts>>

\* The decision of agent/pre-step: keep some of the batch, perhaps add to it.
PreStepEnters ==
  /\ Driving("preStep") /\ abort = Live
  /\ batch' \in SUBSET batch
  /\ extra' \in BOOLEAN
  /\ extra' /\ turnEnds # "null" => step < MaxSteps
  /\ pc' = "decided"
  /\ UNCHANGED <<phaseVars, inboxVars, target, turnEnds, stepEnd, toAdmit,
                 attempts, stack, logVars>>

PreStepRejects ==
  /\ Driving("preStep") /\ abort = Live
  /\ pc' = "rejected"
  /\ UNCHANGED <<phaseVars, inboxVars, localVars, stack, logVars>>

\* turn() after a rejection: the turn ends blocked and the driver with it.
CloseBlocked ==
  /\ Driving("rejected")
  /\ EndTurn("blocked", "retiring")
  /\ UNCHANGED <<phaseVars, inboxVars, target, stepEnd, batch, toAdmit, extra, attempts,
                 stack, openStep, unanswered, admits, prompts>>

BatchEmpty == batch = {} /\ ~extra

\* turn() after an enter decision: nothing to run, an abort, or step/start.
EnterStep ==
  /\ Driving("decided")
  /\ \/ /\ BatchEmpty /\ turnEnds # "null"
        /\ EndTurn(turnEnds, "turnClosed")
        /\ UNCHANGED <<step, openStep, attempts>>
     \/ /\ BatchEmpty /\ turnEnds = "null" /\ step = 0
        /\ EndTurn("completed", "retiring")
        /\ UNCHANGED <<step, openStep, attempts>>
     \/ /\ ~BatchEmpty \/ (turnEnds = "null" /\ step # 0)
        /\ abort # Live
        /\ Catch
        /\ UNCHANGED <<step, openStep, attempts>>
     \/ /\ ~BatchEmpty \/ (turnEnds = "null" /\ step # 0)
        /\ abort = Live
        /\ step' = step + 1 /\ openStep' = TRUE /\ attempts' = 0
        /\ pc' = "preparing"
        /\ UNCHANGED <<turnEnds, openTurn>>
  /\ UNCHANGED <<phase, abort, wakeRequested, turn, disposing, inboxVars, target, stepEnd,
                 batch, toAdmit, extra, stack, unanswered, admits, prompts>>

-----------------------------------------------------------------------------
(* step(): request, stream, tools.                                         *)

StepUnchanged ==
  UNCHANGED <<phaseVars, target, turnEnds, extra, stack, openTurn, openStep,
              prompts>>

FirstAttempt == attempts = 0

\* Mutant: every attempt logs the batch.
BeginAnyRequest ==
  /\ Driving("preparing") /\ abort = Live
  /\ toAdmit' = batch
  /\ attempts' = attempts + 1
  /\ pc' = "admitting"
  /\ UNCHANGED <<inboxVars, batch, stepEnd, unanswered, admits>> /\ StepUnchanged

\* The request is prepared: system messages are logged, and the first attempt
\* has the entered batch to log behind them.
BeginRequest ==
  /\ Driving("preparing") /\ abort = Live
  /\ toAdmit' = IF FirstAttempt THEN batch ELSE {}
  /\ attempts' = attempts + 1
  /\ pc' = "admitting"
  /\ UNCHANGED <<inboxVars, batch, stepEnd, unanswered, admits>> /\ StepUnchanged

\* One user/message; nothing looks at the signal between them.
AdmitMessage(m) ==
  /\ Driving("admitting") /\ m \in toAdmit
  /\ admits' = [admits EXCEPT ![m] = @ + 1]
  /\ toAdmit' = toAdmit \ {m}
  /\ UNCHANGED <<inboxVars, pc, batch, stepEnd, attempts, unanswered>>
  /\ StepUnchanged

\* Mutant: no look at the signal behind the appends.
StreamAnyway ==
  /\ Driving("admitting") /\ toAdmit = {}
  /\ pc' = "streaming"
  /\ UNCHANGED <<inboxVars, batch, toAdmit, stepEnd, attempts, unanswered, admits>>
  /\ StepUnchanged

\* buildRequest() finds the signal live and the stream opens.
OpenStream ==
  /\ Driving("admitting") /\ toAdmit = {} /\ abort = Live
  /\ pc' = "streaming"
  /\ UNCHANGED <<inboxVars, batch, toAdmit, stepEnd, attempts, unanswered, admits>>
  /\ StepUnchanged

\* The stream settles with an assistant/message.
Answer(calls, end) ==
  /\ Driving("streaming") /\ abort = Live
  /\ calls > 0 => step < MaxSteps
  /\ unanswered' = calls
  /\ IF calls > 0 THEN pc' = "tools" /\ UNCHANGED stepEnd
                  ELSE pc' = "stepDone" /\ stepEnd' = end
  /\ UNCHANGED <<inboxVars, batch, toAdmit, attempts, admits>> /\ StepUnchanged

\* A failed attempt goes to agent/request-error.
AttemptFails ==
  /\ Driving("streaming") /\ abort = Live
  /\ pc' = "requestError"
  /\ UNCHANGED <<inboxVars, batch, toAdmit, stepEnd, attempts, unanswered, admits>>
  /\ StepUnchanged

Retry ==
  /\ Driving("requestError") /\ abort = Live
  /\ attempts < MaxAttempts
  /\ pc' = "preparing"
  /\ UNCHANGED <<inboxVars, batch, toAdmit, stepEnd, attempts, unanswered, admits>>
  /\ StepUnchanged

\* The tool batch commits one tool/result; calls an abort kept from starting
\* get theirs too.
CommitResult ==
  /\ Driving("tools") /\ unanswered > 0
  /\ unanswered' = unanswered - 1
  /\ UNCHANGED <<inboxVars, pc, batch, toAdmit, stepEnd, attempts, admits>>
  /\ StepUnchanged

\* Contexts of the results are spliced into the next step's input.
SpliceContexts(m) ==
  \/ UNCHANGED <<nextTurn, nextStep, sent>>
  \/ m \notin sent /\ Insert(m, "next-step", FALSE)

ToolsSettle(m, end) ==
  /\ Driving("tools") /\ unanswered = 0
  /\ SpliceContexts(m)
  /\ stepEnd' = end
  /\ pc' = "stepDone"
  /\ UNCHANGED <<wakes, outcomes, batch, toAdmit, attempts, unanswered, admits>>
  /\ StepUnchanged

ToolsFail(m) ==
  /\ Driving("tools")
  /\ SpliceContexts(m)
  /\ pc' = "recovering"
  /\ UNCHANGED <<wakes, outcomes, batch, toAdmit, stepEnd, attempts, unanswered, admits>>
  /\ StepUnchanged

\* Mutant: the open stream is not handed the signal.
HangInStream ==
  /\ \/ Driving("preparing") \/ (Driving("admitting") /\ toAdmit = {})
     \/ Driving("requestError")
  /\ pc' = "recovering"
  /\ UNCHANGED <<inboxVars, batch, toAdmit, stepEnd, attempts, unanswered, admits>>
  /\ StepUnchanged

\* Any other throw of step(): an abort it noticed, or an error.
StepThrows ==
  /\ \/ Driving("preparing") \/ (Driving("admitting") /\ toAdmit = {})
     \/ Driving("streaming") \/ Driving("requestError")
  /\ pc' = "recovering"
  /\ UNCHANGED <<inboxVars, batch, toAdmit, stepEnd, attempts, unanswered, admits>>
  /\ StepUnchanged

-----------------------------------------------------------------------------
(* Closing steps and turns.                                                *)

\* Mutant: calls that have their result get another one.
RecoverAnswered ==
  /\ Driving("recovering")
  /\ unanswered' = unanswered - 1
  /\ UNCHANGED <<inboxVars, pc, batch, toAdmit, stepEnd, attempts, admits>>
  /\ StepUnchanged

\* Before a failed step closes, every unanswered call gets an error result.
RecoverResult ==
  /\ Driving("recovering") /\ unanswered > 0
  /\ unanswered' = unanswered - 1
  /\ UNCHANGED <<inboxVars, pc, batch, toAdmit, stepEnd, attempts, admits>>
  /\ StepUnchanged

CloseFailedStep ==
  /\ Driving("recovering") /\ unanswered = 0
  /\ openStep' = FALSE
  /\ pc' = "caught"
  /\ UNCHANGED <<phaseVars, inboxVars, localVars, stack, openTurn, unanswered,
                 admits, prompts>>

\* max-tokens is sticky: a later step does not downgrade the outcome.
CloseStep ==
  /\ Driving("stepDone")
  /\ turnEnds' = IF turnEnds = "max-tokens" THEN turnEnds ELSE stepEnd
  /\ openStep' = FALSE
  /\ pc' = "stepClosed"
  /\ UNCHANGED <<phaseVars, inboxVars, target, stepEnd, batch, toAdmit, extra, attempts,
                 stack, openTurn, unanswered, admits, prompts>>

ClosingUnchanged ==
  UNCHANGED <<phaseVars, inboxVars, stepEnd, batch, toAdmit, extra, attempts, stack,
              openStep, unanswered, admits, prompts>>

CatchFailedStep ==
  /\ Driving("caught")
  /\ Catch
  /\ UNCHANGED target /\ ClosingUnchanged

\* turn() behind step/end: notice an abort, ask the stopping listeners, or go on.
AfterStep ==
  /\ Driving("stepClosed")
  /\ \/ abort # Live /\ Catch /\ UNCHANGED target
     \/ /\ abort = Live /\ turnEnds # "null" /\ nextStep = {}
        /\ pc' = "stopping"
        /\ UNCHANGED <<target, turnEnds, openTurn>>
     \/ /\ abort = Live /\ (turnEnds = "null" \/ nextStep # {})
        /\ ContinueTurn
  /\ ClosingUnchanged

\* The stopping listeners are done: their steering runs, or the turn closes.
Stopped ==
  /\ Driving("stopping")
  /\ \/ Catch /\ UNCHANGED target
     \/ /\ abort = Live /\ nextStep = {}
        /\ EndTurn(turnEnds, "turnClosed")
        /\ UNCHANGED target
     \/ /\ abort = Live /\ nextStep # {}
        /\ ContinueTurn
  /\ ClosingUnchanged

CloseFailedTurn ==
  /\ Driving("failing")
  /\ EndTurn(turnEnds, "retiring")
  /\ UNCHANGED target /\ ClosingUnchanged

\* turn() behind turn/end: drain on under a fresh signal, or let go.
AfterTurn ==
  /\ Driving("turnClosed")
  /\ IF HasPending THEN StartDriver
                   ELSE pc' = "retiring" /\ UNCHANGED phaseVars
  /\ UNCHANGED <<inboxVars, localVars, stack, logVars>>

\* The finally of kick(), up to its idle notification; the locals are gone ...
Retire ==
  /\ Driving("retiring")
  /\ BecomeIdle
  /\ pc' = "none" /\ target' = "next-turn" /\ turnEnds' = "null"
  /\ stepEnd' = "null" /\ batch' = {} /\ toAdmit' = {} /\ extra' = FALSE
  /\ attempts' = 0 /\ prompts' = 0
  /\ IF wakeRequested THEN Push(NewFrame("replay")) ELSE UNCHANGED stack
  /\ UNCHANGED <<inboxVars, openTurn, openStep, unanswered, admits>>

\* Mutant: the latch is dropped.
ForgetWake ==
  /\ Running("replay") /\ Pop
  /\ UNCHANGED <<phaseVars, pc, inboxVars, localVars, logVars>>

\* ... and behind it: a latched wake runs if the queue still holds work.
ReplayWake ==
  /\ Running("replay") /\ Pop
  /\ IF HasPending THEN WakeDriver(FALSE) ELSE UNCHANGED <<phaseVars, pc>>
  /\ UNCHANGED <<inboxVars, localVars, logVars>>

-----------------------------------------------------------------------------
Boxes == {"next-turn", "next-step"}

Caller ==
  \/ \E m \in Messages, box \in Boxes, wakeup \in BOOLEAN : Send(m, box, wakeup)
  \/ \E m \in Messages, box \in Boxes : Prepend(m, box)
  \/ \E m \in Messages : RemoveMessage(m)
  \/ \E m, n \in Messages : ReplaceMessage(m, n)
  \/ \E cause \in Causes, keepInbox \in BOOLEAN : Cancel(cause, keepInbox)
  \/ RunMaintenance

ModelAndTools ==
  \/ BeginRequest \/ (\E m \in Messages : AdmitMessage(m)) \/ OpenStream
  \/ \E end \in {"completed", "max-tokens"} : Answer(0, end)
  \/ \E calls \in 1..MaxCalls : Answer(calls, "null")
  \/ AttemptFails \/ Retry
  \/ CommitResult
  \/ \E m \in Messages, end \in {"null", "completed"} : ToolsSettle(m, end)
  \/ \E m \in Messages : ToolsFail(m)
  \/ StepThrows

Driver ==
  \/ SendWakes \/ CancelPrompts \/ CancelAborts \/ ReplayWake \/ EndMaintenance
  \/ OpenTurn \/ Claim \/ PreStepThrows \/ PreStepEnters \/ PreStepRejects
  \/ CloseBlocked \/ EnterStep \/ ModelAndTools
  \/ RecoverResult \/ CloseFailedStep \/ CloseStep \/ CatchFailedStep
  \/ AfterStep \/ Stopped \/ CloseFailedTurn \/ AfterTurn \/ Retire

Next == Caller \/ Driver

Spec == Init /\ [][Next]_vars

(***************************************************************************)
(* What the driver awaits (hooks, the model, tools, a maintenance job)     *)
(* settles at some time; callers owe nothing.                              *)
(***************************************************************************)
FairSpec == Spec /\ WF_vars(Driver)
-----------------------------------------------------------------------------
(* Properties.                                                             *)

Points == {"none", "starting", "opened", "preStep", "rejected", "decided",
           "preparing", "admitting", "streaming", "requestError", "tools",
           "recovering", "caught", "stepDone", "stepClosed", "stopping",
           "failing", "turnClosed", "retiring"}
Endings == {"null", "completed", "max-tokens", "blocked", "aborted", "error"}

PhaseType ==
  /\ phase \in {"idle", "maintenance", "running"}
  /\ abort \in Causes \cup {Live} /\ wakeRequested \in BOOLEAN
  /\ turn \in Nat /\ step \in Nat /\ disposing \in BOOLEAN
InboxType ==
  /\ nextTurn \in Seq(Messages) /\ nextStep \subseteq Messages
  /\ sent \subseteq Messages /\ wakes \subseteq Messages
  /\ outcomes \in [Messages -> Nat]
LocalType ==
  /\ target \in Boxes /\ turnEnds \in Endings /\ stepEnd \in Endings
  /\ batch \subseteq Messages /\ toAdmit \subseteq Messages
  /\ extra \in BOOLEAN /\ attempts \in Nat
StackType == stack \in Seq(Frame)
LogType ==
  /\ openTurn \in BOOLEAN /\ openStep \in BOOLEAN /\ unanswered \in Nat
  /\ admits \in [Messages -> Nat] /\ prompts \in Nat

\* The driver is only in states of its phase, inbox, locals and log types: no
\* call of a step gets more results than one, from the batch and the recovery of
\* a failed step together.
TypeOK == pc \in Points /\ PhaseType /\ InboxType /\ LocalType /\ StackType /\ LogType

\* A driver that let go left no open turn, no open step and no unanswered tool
\* call in the log, however the turn ended; and no step closes over such a call.
LogBalanced ==
  /\ phase # "running" => ~openTurn
  /\ ~openTurn => ~openStep
  /\ ~openStep => unanswered = 0

\* At most one activity owns the agent: maintenance never overlaps a driver,
\* and no second driver starts beside the first (runMaintenance, wakeDriver).
OneActivity == (phase = "running") <=> (pc # "none")

\* Consumers follow a message by its notifications: as long as it is pending
\* there is none, afterwards exactly one of claimed and discarded.
ExactlyOneOutcome ==
  /\ Pending \subseteq sent
  /\ \A m \in Messages : outcomes[m] = IF m \in sent \ Pending THEN 1 ELSE 0

\* Model retries do not log a claimed message twice, and what is still pending
\* was never shown to the model.
AdmittedOnce ==
  \A m \in Messages : admits[m] <= IF m \in sent \ Pending THEN 1 ELSE 0

\* A model that is asked, at whatever attempt, has all of the entered batch.
EnteredAdmitted ==
  pc \in {"streaming", "requestError", "tools", "stepDone", "stepClosed"}
    => \A m \in batch : admits[m] = 1

\* A message has one fate, for those who follow it by its notifications and for
\* the model: none is lost between the inbox and the request, none is repeated.
OneFate == ExactlyOneOutcome /\ AdmittedOnce /\ EnteredAdmitted

\* A follow-up is the sole ordinary message of its own turn.
OnePromptPerTurn == prompts <= 1

\* A latch is only set behind maintenance or an aborted driver; one left behind
\* on a live driver would replay a wake that was already served.
LatchNotStale == wakeRequested => phase = "maintenance" \/ abort \notin {Live, Disposed}

\* However sends, cancels, maintenance and replayed wakes race, one activity owns
\* the agent, no wake it served is replayed behind it, and no turn gets a second
\* prompt.
DriverDiscipline == OneActivity /\ LatchNotStale /\ OnePromptPerTurn

\* Once its signal is aborted an activity opens no turn and no step and starts no
\* request and no model attempt.  Input reaches the log behind an abort only as
\* the rest of a batch whose first message, or system message, an observer
\* answered with the abort: step() does not look at the signal between them.
NoWorkAfterAbort ==
  [][abort # Live =>
       /\ openTurn' => openTurn
       /\ openStep' => openStep
       /\ pc' \in {"admitting", "streaming"} => pc' = pc
       /\ admits' # admits => pc = "admitting"]_vars

\* A cancelled turn never claims to have run to its end, unless nothing was
\* left to run when the cancel came.
CancelIsRecorded ==
  [][openTurn /\ ~openTurn' /\ abort # Live /\ turnEnds' \in {"completed", "max-tokens"}
       => BatchEmpty]_vars

\* Nothing new happens behind an abort, and the turn it hit says so.
AbortDiscipline == NoWorkAfterAbort /\ CancelIsRecorded

\* The driver writes the log its readers rely on.
TurnLogs == INSTANCE TurnLog WITH
  turns <- turn, steps <- IF openTurn THEN step ELSE 0
WritesTurnLog == TurnLogs!Spec

\* An aborted activity converges, whatever callers do meanwhile.
AbortConverges == abort # Live ~> abort = Live

\* Every turn that opens closes.
TurnsClose == openTurn ~> ~openTurn

\* Neither a turn nor an abort keeps the agent for ever.
Converges == AbortConverges /\ TurnsClose

\* A cancel() is taking the inbox back: its observers may look at the rest.
Clearing == \E i \in DOMAIN stack : stack[i].at \in {"clearPrompts", "abort"}

\* A latched wake starts a driver, unless its input is taken back or the agent is
\* disposed.  A cancel that takes input back also drops the latch, behind the
\* observers of its discards: what they queue waits for the next wake.
LatchedWakeRuns ==
  wakeRequested ~> pc = "starting" \/ ~HasPending \/ disposing \/ Clearing

-----------------------------------------------------------------------------
(* What the code's comments say of the driver and the code does not keep;  *)
(* see the findings in the README.                                         *)

\* "Live drivers claim queued work themselves": a driver whose last turn ran to
\* its end leaves no waking input behind.
LiveDriversClaim ==
  [][pc = "retiring" /\ pc' = "none" /\ abort = Live
       /\ turnEnds \in {"completed", "max-tokens"} => wakes \cap Pending = {}]_vars
=============================================================================
