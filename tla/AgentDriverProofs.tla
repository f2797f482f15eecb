------------------------- MODULE AgentDriverProofs -------------------------
(***************************************************************************)
(* Theorems about the agent driver for any messages, cancel causes and     *)
(* bounds: types, safety, and that it implements TurnLog.                  *)
(*                                                                         *)
(* None of the safety properties is inductive: each is strengthened by     *)
(* what holds at the places where the driver waits, first of all by the    *)
(* log it has written so far.                                              *)
(***************************************************************************)
EXTENDS AgentDriver, FiniteSetTheorems, SequenceTheorems, TLAPS

-----------------------------------------------------------------------------
(* Types.                                                                  *)

\* The list of prompts stays a sequence of messages under the inbox's splices.
LEMMA InsertType ==
  ASSUME TypeOK, NEW m \in Messages, NEW box, NEW first \in BOOLEAN,
         Insert(m, box, first)
  PROVE  /\ nextTurn' \in Seq(Messages) /\ nextStep' \subseteq Messages
         /\ sent' \subseteq Messages
  BY DEF TypeOK, InboxType, Insert

LEMMA RemoveAtType ==
  ASSUME NEW S, NEW s \in Seq(S), NEW i \in DOMAIN s
  PROVE  RemoveAt(s, i) \in Seq(S)
<1>1. /\ Len(s) \in Nat /\ i \in 1..Len(s)
  OBVIOUS
<1>2. SubSeq(s, 1, i - 1) \in Seq(S) /\ SubSeq(s, i + 1, Len(s)) \in Seq(S)
  <2>1. \A j \in 1..Len(s) : s[j] \in S
    OBVIOUS
  <2>2. QED
    BY <1>1, <2>1
<1>3. QED
  BY <1>2 DEF RemoveAt

LEMMA DiscardedType ==
  ASSUME TypeOK, NEW S
  PROVE  Discarded(S) \in [Messages -> Nat]
  BY DEF TypeOK, InboxType, Discarded

-----------------------------------------------------------------------------
LEMMA PointNames ==
  /\ "none" \in Points /\ "starting" \in Points
  /\ "opened" \in Points /\ "preStep" \in Points
  /\ "rejected" \in Points /\ "decided" \in Points
  /\ "preparing" \in Points /\ "admitting" \in Points
  /\ "streaming" \in Points /\ "requestError" \in Points
  /\ "tools" \in Points /\ "recovering" \in Points
  /\ "caught" \in Points /\ "stepDone" \in Points
  /\ "stepClosed" \in Points /\ "stopping" \in Points
  /\ "failing" \in Points /\ "turnClosed" \in Points
  /\ "retiring" \in Points
  BY DEF Points

LEMMA EndingNames ==
  /\ "null" \in Endings /\ "completed" \in Endings /\ "max-tokens" \in Endings
  /\ "blocked" \in Endings /\ "aborted" \in Endings /\ "error" \in Endings
  BY DEF Endings

LEMMA BoxNames == "next-turn" \in Boxes /\ "next-step" \in Boxes
  BY DEF Boxes

\* A group of variables that a step leaves alone keeps its type.
LEMMA KeepPhase == ASSUME PhaseType, UNCHANGED phaseVars PROVE PhaseType'
  BY DEF PhaseType, phaseVars
LEMMA KeepInbox == ASSUME InboxType, UNCHANGED inboxVars PROVE InboxType'
  BY DEF InboxType, inboxVars
LEMMA KeepLocals == ASSUME LocalType, UNCHANGED localVars PROVE LocalType'
  BY DEF LocalType, localVars
LEMMA KeepStack == ASSUME StackType, UNCHANGED stack PROVE StackType'
  BY DEF StackType
LEMMA KeepLog == ASSUME LogType, UNCHANGED logVars PROVE LogType'
  BY DEF LogType, logVars

\* A call that is suspended in a notification, and one that goes on.
LEMMA PushType ==
  ASSUME StackType, NEW place \in Places, NEW cause \in Causes \cup {Live},
         stack' = <<[at |-> place, cause |-> cause]>> \o stack
  PROVE  StackType'
<1>1. [at |-> place, cause |-> cause] \in Frame
  BY DEF Frame
<1>2. <<[at |-> place, cause |-> cause]>> \in Seq(Frame)
  BY <1>1
<1>3. QED
  BY <1>2 DEF StackType

LEMMA NewFrameType ==
  ASSUME StackType, NEW place \in Places, Push(NewFrame(place))
  PROVE  StackType'
  BY PushType DEF Push, NewFrame

LEMMA PopType ==
  ASSUME StackType, stack # <<>>
  PROVE  Tail(stack) \in Seq(Frame) /\ Head(stack) \in Frame
  BY DEF StackType

LEMMA PlaceNames ==
  /\ "wake" \in Places /\ "wakeAfterAbort" \in Places /\ "replay" \in Places
  /\ "clearPrompts" \in Places /\ "abort" \in Places
  BY DEF Places

\* The pieces that several actions share.
LEMMA ClearType ==
  ASSUME TypeOK, ClearInput \/ ClearPrompts
  PROVE  InboxType'
<1>1. /\ Discarded(nextStep) \in [Messages -> Nat]
      /\ Discarded(ToSet(nextTurn)) \in [Messages -> Nat]
  BY DiscardedType
<1>2. CASE ClearInput
  BY <1>1, <1>2 DEF ClearInput, InboxType, TypeOK
<1>3. CASE ClearPrompts
  BY <1>1, <1>3 DEF ClearPrompts, InboxType, TypeOK
<1>4. QED
  BY <1>2, <1>3

LEMMA AbortType ==
  ASSUME PhaseType, NEW cause \in Causes \cup {Live}, NEW keepInbox \in BOOLEAN,
         AbortActivity(cause, keepInbox)
  PROVE  PhaseType'
<1>1. abort' \in Causes \cup {Live} /\ UNCHANGED <<phase, turn, step>>
  BY DEF AbortActivity, PhaseType
<1>2. wakeRequested' \in BOOLEAN
  BY DEF AbortActivity, PhaseType
<1>3. disposing' \in BOOLEAN
  BY DEF AbortActivity
<1>4. QED
  BY <1>1, <1>2, <1>3 DEF PhaseType

LEMMA StartType ==
  ASSUME PhaseType, StartDriver
  PROVE  PhaseType' /\ pc' \in Points
  BY PointNames DEF StartDriver, PhaseType

LEMMA IdleType ==
  ASSUME PhaseType, BecomeIdle
  PROVE  PhaseType'
  BY DEF BecomeIdle, PhaseType

LEMMA WakeType ==
  ASSUME PhaseType, pc \in Points, NEW afterAbort \in BOOLEAN, WakeDriver(afterAbort)
  PROVE  PhaseType' /\ pc' \in Points
<1>1. CASE phase = "idle"
  BY <1>1, StartType DEF WakeDriver
<1>2. CASE phase # "idle"
  <2>1. wakeRequested' \in BOOLEAN
    BY <1>2 DEF WakeDriver
  <2>2. UNCHANGED <<phase, abort, turn, step, disposing, pc>>
    BY <1>2 DEF WakeDriver
  <2>3. QED
    BY <2>1, <2>2 DEF PhaseType
<1>3. QED
  BY <1>1, <1>2

LEMMA CatchType ==
  ASSUME openTurn \in BOOLEAN, Catch
  PROVE  pc' \in Points /\ turnEnds' \in Endings /\ openTurn' \in BOOLEAN
<1>1. CASE abort # Live
  BY <1>1, PointNames, EndingNames DEF Catch
<1>2. CASE abort = Live
  BY <1>2, PointNames, EndingNames DEF Catch
<1>3. QED
  BY <1>1, <1>2

LEMMA EndTurnType ==
  ASSUME NEW reason \in Endings, NEW next \in Points, EndTurn(reason, next)
  PROVE  pc' \in Points /\ turnEnds' \in Endings /\ openTurn' \in BOOLEAN
  BY DEF EndTurn

LEMMA ContinueType ==
  ASSUME turnEnds \in Endings, openTurn \in BOOLEAN, ContinueTurn
  PROVE  /\ pc' \in Points /\ target' \in Boxes
         /\ turnEnds' \in Endings /\ openTurn' \in BOOLEAN
  BY PointNames, BoxNames DEF ContinueTurn

LEMMA TypeInit == Init => TypeOK
<1> SUFFICES ASSUME Init PROVE TypeOK
  OBVIOUS
<1>1. pc \in Points /\ PhaseType
  BY DriverAssumption, PointNames DEF Init, PhaseType
<1>2. InboxType
  BY DEF Init, InboxType
<1>3. LocalType /\ StackType
  <2>1. LocalType
    BY EndingNames, BoxNames DEF Init, LocalType
  <2>2. StackType
    BY DEF Init, StackType
  <2>3. QED
    BY <2>1, <2>2
<1>4. LogType
  BY DEF Init, LogType
<1>5. QED
  BY <1>1, <1>2, <1>3, <1>4 DEF TypeOK

LEMMA TypeCaller ==
  ASSUME TypeOK, Caller
  PROVE  TypeOK'
<1> USE DEF phaseVars, inboxVars, localVars, logVars,
            PhaseType, InboxType, LocalType, StackType, LogType
<1>1. ASSUME NEW m \in Messages, NEW box \in Boxes, NEW wakeup \in BOOLEAN,
             Send(m, box, wakeup)
      PROVE  TypeOK'
  <2>1. \E b \in Boxes : Insert(m, b, FALSE)
    BY <1>1 DEF Send, Boxes
  <2>2. /\ nextTurn' \in Seq(Messages) /\ nextStep' \subseteq Messages
        /\ sent' \subseteq Messages
    BY <2>1, InsertType
  <2>3. StackType'
    BY <1>1, NewFrameType, PlaceNames DEF Send, TypeOK
  <2>4. QED
    BY <1>1, <2>2, <2>3 DEF Send, TypeOK
<1>2. ASSUME NEW m \in Messages, NEW box \in Boxes, Prepend(m, box)
      PROVE  TypeOK'
  BY <1>2, InsertType DEF Prepend, TypeOK
<1>3. ASSUME NEW m \in Messages, RemoveMessage(m)
      PROVE  TypeOK'
  <2>1. nextTurn' \in Seq(Messages) /\ nextStep' \subseteq Messages
    BY <1>3, RemoveAtType DEF RemoveMessage, TypeOK
  <2>2. QED
    BY <1>3, <2>1, DiscardedType DEF RemoveMessage, TypeOK
<1>4. ASSUME NEW m \in Messages, NEW n \in Messages, ReplaceMessage(m, n)
      PROVE  TypeOK'
  <2>1. nextTurn' \in Seq(Messages)
    <3>1. /\ Len(nextTurn) \in Nat /\ DOMAIN nextTurn = 1..Len(nextTurn)
          /\ \A i \in 1..Len(nextTurn) : nextTurn[i] \in Messages
      BY DEF TypeOK
    <3>2. nextTurn' = [i \in 1..Len(nextTurn) |->
                         IF nextTurn[i] = m THEN n ELSE nextTurn[i]]
      BY <1>4, <3>1 DEF ReplaceMessage
    <3>3. nextTurn' \in [1..Len(nextTurn) -> Messages]
      BY <3>1, <3>2
    <3>4. QED
      BY <3>1, <3>3
  <2>2. QED
    BY <1>4, <2>1, DiscardedType DEF ReplaceMessage, TypeOK
<1>5. ASSUME NEW cause \in Causes, NEW keepInbox \in BOOLEAN, Cancel(cause, keepInbox)
      PROVE  TypeOK'
  <2>1. CASE AbortActivity(cause, keepInbox) /\ UNCHANGED <<inboxVars, stack>>
    <3>1. PhaseType'
      BY <2>1, AbortType DEF TypeOK
    <3>2. QED
      BY <1>5, <2>1, <3>1 DEF Cancel, TypeOK
  <2>2. CASE /\ UNCHANGED phaseVars
             /\ \/ ClearInput /\ Push([at |-> "clearPrompts", cause |-> cause])
                \/ ClearPrompts /\ Push([at |-> "abort", cause |-> cause])
    <3>1. InboxType'
      BY <2>2, ClearType
    <3>2. StackType'
      BY <2>2, PlaceNames, PushType DEF Push, TypeOK
    <3>3. QED
      BY <1>5, <2>2, <3>1, <3>2 DEF Cancel, TypeOK
  <2>3. QED
    BY <1>5, <2>1, <2>2 DEF Cancel
<1>6. CASE RunMaintenance
  BY <1>6 DEF RunMaintenance, TypeOK
<1>7. QED
  BY <1>1, <1>2, <1>3, <1>4, <1>5, <1>6 DEF Caller

LEMMA SpliceType ==
  ASSUME TypeOK, NEW m \in Messages, SpliceContexts(m), UNCHANGED <<wakes, outcomes>>
  PROVE  InboxType'
<1>1. CASE UNCHANGED <<nextTurn, nextStep, sent>>
  BY <1>1 DEF TypeOK, InboxType
<1>2. CASE Insert(m, "next-step", FALSE)
  BY <1>2, InsertType DEF TypeOK, InboxType
<1>3. QED
  BY <1>1, <1>2 DEF SpliceContexts

\* One call of the model or one tool batch.
LEMMA TypeModel ==
  ASSUME TypeOK, ModelAndTools
  PROVE  TypeOK'
<1> USE PointNames, EndingNames
<1> USE DEF TypeOK, StepUnchanged, Driving, phaseVars, inboxVars,
            PhaseType, InboxType, LocalType, StackType, LogType
<1>1. CASE BeginRequest
  BY <1>1 DEF BeginRequest
<1>12. ASSUME NEW m \in Messages, AdmitMessage(m) PROVE TypeOK'
  BY <1>12 DEF AdmitMessage
<1>2. CASE OpenStream
  BY <1>2 DEF OpenStream
<1>3. ASSUME NEW end \in {"completed", "max-tokens"}, Answer(0, end)
      PROVE  TypeOK'
  BY <1>3 DEF Answer
<1>4. ASSUME NEW calls \in 1..MaxCalls, Answer(calls, "null")
      PROVE  TypeOK'
  BY <1>4, DriverAssumption DEF Answer
<1>5. CASE AttemptFails
  BY <1>5 DEF AttemptFails
<1>6. CASE Retry
  BY <1>6 DEF Retry
<1>7. CASE CommitResult
  BY <1>7 DEF CommitResult
<1>8. ASSUME NEW m \in Messages, NEW end \in {"null", "completed"}, ToolsSettle(m, end)
      PROVE  TypeOK'
  <2>1. InboxType'
    BY <1>8, SpliceType DEF ToolsSettle
  <2>2. QED
    BY <1>8, <2>1 DEF ToolsSettle
<1>9. ASSUME NEW m \in Messages, ToolsFail(m)
      PROVE  TypeOK'
  <2>1. InboxType'
    BY <1>9, SpliceType DEF ToolsFail
  <2>2. QED
    BY <1>9, <2>1 DEF ToolsFail
<1>10. CASE StepThrows
  BY <1>10 DEF StepThrows
<1>11. QED
  BY <1>1, <1>2, <1>3, <1>4, <1>5, <1>6, <1>7, <1>8, <1>9, <1>10, <1>12
  DEF ModelAndTools

\* The ends of steps and turns touch the ending, the target and turn/end only.
LEMMA TypeClosing ==
  ASSUME TypeOK, ClosingUnchanged, pc' \in Points, turnEnds' \in Endings,
         openTurn' \in BOOLEAN, target' \in Boxes
  PROVE  TypeOK'
<1>1. PhaseType' /\ InboxType' /\ StackType'
  BY KeepPhase, KeepInbox, KeepStack DEF ClosingUnchanged, TypeOK
<1>2. LocalType' /\ LogType'
  BY DEF ClosingUnchanged, TypeOK, LocalType, LogType
<1>3. QED
  BY <1>1, <1>2 DEF TypeOK

LEMMA TypeDriver ==
  ASSUME TypeOK, Driver
  PROVE  TypeOK'
<1> USE PointNames, EndingNames, BoxNames, KeepPhase, KeepInbox, KeepLocals, KeepStack, KeepLog
<1> USE DEF TypeOK, Driving
<1>1. CASE SendWakes
  <2>1. PhaseType' /\ pc' \in Points
    <3>1. Running("wakeAfterAbort") \in BOOLEAN
      BY DEF Running
    <3>2. QED
      BY <1>1, <3>1, WakeType DEF SendWakes
  <2>2. StackType'
    BY <1>1, PopType DEF SendWakes, Running, Pop, StackType
  <2>3. QED
    BY <1>1, <2>1, <2>2 DEF SendWakes
<1>2. CASE ReplayWake
  <2>1. PhaseType' /\ pc' \in Points
    BY <1>2, WakeType DEF ReplayWake
  <2>2. StackType'
    BY <1>2, PopType DEF ReplayWake, Running, Pop, StackType
  <2>3. QED
    BY <1>2, <2>1, <2>2 DEF ReplayWake
<1>3. CASE EndMaintenance
  <2>1. PhaseType' /\ pc' \in Points
    BY <1>3, StartType, IdleType DEF EndMaintenance
  <2>2. QED
    BY <1>3, <2>1 DEF EndMaintenance
<1>4. CASE OpenTurn
  <2>1. CASE abort # Live
    BY <1>4, <2>1 DEF OpenTurn, PhaseType, LocalType, LogType
  <2>2. CASE abort = Live
    <3>1. PhaseType' /\ pc' \in Points
      BY <1>4, <2>2 DEF OpenTurn, PhaseType
    <3>2. LocalType' /\ LogType'
      BY <1>4, <2>2 DEF OpenTurn, LocalType, LogType
    <3>3. QED
      BY <1>4, <3>1, <3>2 DEF OpenTurn
  <2>3. QED
    BY <2>1, <2>2
<1>5. CASE Claim
  <2>1. CASE abort # Live
    <3>1. /\ Catch /\ UNCHANGED inboxVars
          /\ UNCHANGED <<phaseVars, stack>>
          /\ UNCHANGED <<batch, toAdmit, target, stepEnd, extra, attempts>>
          /\ UNCHANGED <<prompts, openStep, unanswered, admits>>
      BY <1>5, <2>1 DEF Claim
    <3>2. pc' \in Points /\ turnEnds' \in Endings /\ openTurn' \in BOOLEAN
      BY <3>1, CatchType DEF LogType
    <3>3. LocalType' /\ LogType'
      BY <3>1, <3>2 DEF LocalType, LogType
    <3>4. QED
      BY <3>1, <3>2, <3>3
  <2>2. CASE abort = Live
    <3> DEFINE prompt == IF target = "next-turn" /\ nextTurn # <<>> THEN {Head(nextTurn)} ELSE {}
    <3>1. prompt \subseteq Messages /\ Cardinality(prompt) \in Nat
      <4>1. CASE prompt = {}
        BY <4>1, FS_EmptySet
      <4>2. CASE prompt # {}
        <5>1. prompt = {Head(nextTurn)} /\ nextTurn # <<>>
          BY <4>2
        <5>2. Head(nextTurn) \in Messages
          BY <5>1 DEF InboxType
        <5>3. Cardinality({Head(nextTurn)}) = 1
          BY FS_Singleton
        <5>4. QED
          BY <5>1, <5>2, <5>3
      <4>3. QED
        BY <4>1, <4>2
    <3>2. nextTurn' \in Seq(Messages)
      <4>1. CASE prompt = {}
        BY <1>5, <2>2, <4>1 DEF Claim, InboxType
      <4>2. CASE prompt # {}
        <5>1. nextTurn # <<>> /\ nextTurn \in Seq(Messages)
          BY <4>2 DEF InboxType
        <5>2. nextTurn' = Tail(nextTurn)
          BY <1>5, <2>2, <4>2 DEF Claim
        <5>3. QED
          BY <5>1, <5>2
      <4>3. QED
        BY <4>1, <4>2
    <3>3. /\ batch' = nextStep \cup prompt /\ prompts' = prompts + Cardinality(prompt)
          /\ outcomes' = Discarded(batch') /\ nextStep' = {}
          /\ pc' = "preStep"
          /\ UNCHANGED <<sent, wakes, turnEnds, openTurn>>
          /\ UNCHANGED <<phaseVars, target, stepEnd, toAdmit, extra, attempts, stack>>
          /\ UNCHANGED <<openStep, unanswered, admits>>
      BY <1>5, <2>2 DEF Claim
    <3> HIDE DEF prompt
    <3>4. InboxType'
      BY <3>2, <3>3, DiscardedType DEF InboxType
    <3>5. LocalType' /\ LogType'
      BY <3>1, <3>3 DEF LocalType, LogType, InboxType
    <3>6. QED
      BY <3>3, <3>4, <3>5
  <2>3. QED
    BY <2>1, <2>2
<1>6. CASE PreStepThrows
  <2>1. pc' \in Points /\ turnEnds' \in Endings /\ openTurn' \in BOOLEAN
    BY <1>6, CatchType DEF PreStepThrows, LogType
  <2>2. LocalType' /\ LogType'
    BY <1>6, <2>1 DEF PreStepThrows, LocalType, LogType
  <2>3. QED
    BY <1>6, <2>1, <2>2 DEF PreStepThrows
<1>7. CASE PreStepEnters
  <2>1. LocalType'
    BY <1>7 DEF PreStepEnters, LocalType
  <2>2. QED
    BY <1>7, <2>1 DEF PreStepEnters
<1>8. CASE PreStepRejects
  BY <1>8 DEF PreStepRejects
<1>9. CASE CloseBlocked
  <2>1. pc' \in Points /\ turnEnds' \in Endings /\ openTurn' \in BOOLEAN
    BY <1>9, EndTurnType DEF CloseBlocked
  <2>2. LocalType' /\ LogType'
    BY <1>9, <2>1 DEF CloseBlocked, LocalType, LogType
  <2>3. QED
    BY <1>9, <2>1, <2>2 DEF CloseBlocked
<1>10. CASE EnterStep
  <2>1. pc' \in Points /\ turnEnds' \in Endings /\ openTurn' \in BOOLEAN
    BY <1>10, EndTurnType, CatchType DEF EnterStep, LocalType, LogType
  <2>2. step' \in Nat /\ openStep' \in BOOLEAN /\ attempts' \in Nat
    <3>1. CASE UNCHANGED <<step, openStep, attempts>>
      BY <3>1 DEF PhaseType, LocalType, LogType
    <3>2. CASE step' = step + 1 /\ openStep' = TRUE /\ attempts' = 0
      BY <3>2 DEF PhaseType
    <3>3. QED
      BY <1>10, <3>1, <3>2 DEF EnterStep
  <2>3. PhaseType'
    BY <1>10, <2>2 DEF EnterStep, PhaseType
  <2>4. LocalType' /\ LogType'
    BY <1>10, <2>1, <2>2 DEF EnterStep, LocalType, LogType
  <2>5. QED
    BY <1>10, <2>1, <2>3, <2>4 DEF EnterStep
<1>11. CASE ModelAndTools
  BY <1>11, TypeModel
<1>12. CASE RecoverResult
  <2>1. LogType' /\ LocalType' /\ PhaseType' /\ StackType'
    BY <1>12 DEF RecoverResult, StepUnchanged, LogType, LocalType, PhaseType, phaseVars, StackType
  <2>2. QED
    BY <1>12, <2>1 DEF RecoverResult
<1>13. CASE CloseFailedStep
  <2>1. LogType'
    BY <1>13 DEF CloseFailedStep, LogType
  <2>2. QED
    BY <1>13, <2>1 DEF CloseFailedStep
<1>14. CASE CloseStep
  <2>1. LocalType' /\ LogType'
    BY <1>14 DEF CloseStep, LocalType, LogType
  <2>2. QED
    BY <1>14, <2>1 DEF CloseStep
<1>15. CASE CatchFailedStep
  <2>1. pc' \in Points /\ turnEnds' \in Endings /\ openTurn' \in BOOLEAN
    BY <1>15, CatchType DEF CatchFailedStep, LogType
  <2>2. QED
    BY <1>15, <2>1, TypeClosing DEF CatchFailedStep, LocalType
<1>16. CASE AfterStep
  <2>1. /\ pc' \in Points /\ turnEnds' \in Endings /\ openTurn' \in BOOLEAN
        /\ target' \in Boxes
    BY <1>16, CatchType, ContinueType DEF AfterStep, LocalType, LogType
  <2>2. QED
    BY <1>16, <2>1, TypeClosing DEF AfterStep
<1>17. CASE Stopped
  <2>1. /\ pc' \in Points /\ turnEnds' \in Endings /\ openTurn' \in BOOLEAN
        /\ target' \in Boxes
    BY <1>17, CatchType, ContinueType, EndTurnType DEF Stopped, LocalType, LogType
  <2>2. QED
    BY <1>17, <2>1, TypeClosing DEF Stopped
<1>18. CASE CloseFailedTurn
  <2>1. /\ pc' \in Points /\ turnEnds' \in Endings /\ openTurn' \in BOOLEAN
        /\ target' \in Boxes
    BY <1>18, EndTurnType DEF CloseFailedTurn, LocalType
  <2>2. QED
    BY <1>18, <2>1, TypeClosing DEF CloseFailedTurn
<1>19. CASE AfterTurn
  <2>1. PhaseType' /\ pc' \in Points
    BY <1>19, StartType DEF AfterTurn
  <2>2. QED
    BY <1>19, <2>1 DEF AfterTurn
<1>20. CASE Retire
  <2>1. PhaseType'
    BY <1>20, IdleType DEF Retire
  <2>2. LocalType' /\ pc' \in Points
    BY <1>20 DEF Retire, LocalType
  <2>3. StackType'
    BY <1>20, NewFrameType, PlaceNames DEF Retire
  <2>4. LogType'
    BY <1>20 DEF Retire, LogType
  <2>5. QED
    BY <1>20, <2>1, <2>2, <2>3, <2>4 DEF Retire
<1>21. CASE CancelPrompts
  <2>1. /\ Head(stack).cause \in Causes \cup {Live} /\ Tail(stack) \in Seq(Frame)
        /\ UNCHANGED <<pc, localVars, logVars>>
    BY <1>21, PopType DEF CancelPrompts, Running, Frame
  <2>2. CASE nextTurn = <<>>
    <3>1. AbortActivity(Head(stack).cause, FALSE) /\ Pop /\ UNCHANGED inboxVars
      BY <1>21, <2>2 DEF CancelPrompts
    <3>2. PhaseType'
      BY <2>1, <3>1, AbortType
    <3>3. QED
      BY <2>1, <3>1, <3>2 DEF Pop, StackType
  <2>3. CASE nextTurn # <<>>
    <3>1. /\ ClearPrompts /\ UNCHANGED phaseVars
          /\ stack' = <<[at |-> "abort", cause |-> Head(stack).cause]>> \o Tail(stack)
      BY <1>21, <2>3 DEF CancelPrompts
    <3>2. [at |-> "abort", cause |-> Head(stack).cause] \in Frame
      BY <2>1, PlaceNames DEF Frame
    <3>3. StackType'
      BY <2>1, <3>1, <3>2 DEF StackType
    <3>4. QED
      BY <2>1, <3>1, <3>3, ClearType
  <2>4. QED
    BY <2>2, <2>3
<1>22. CASE CancelAborts
  <2>1. Head(stack).cause \in Causes \cup {Live} /\ Tail(stack) \in Seq(Frame)
    BY <1>22, PopType DEF CancelAborts, Running, Frame
  <2>2. PhaseType'
    BY <1>22, <2>1, AbortType DEF CancelAborts
  <2>3. QED
    BY <1>22, <2>1, <2>2 DEF CancelAborts, Pop, StackType
<1>23. QED
  BY <1>21, <1>22, <1>1, <1>2, <1>3, <1>4, <1>5, <1>6, <1>7, <1>8, <1>9, <1>10, <1>11, <1>12,
     <1>13, <1>14, <1>15, <1>16, <1>17, <1>18, <1>19, <1>20 DEF Driver

\* Type correctness: every variable of the driver keeps to its type.
THEOREM TypeCorrect == Spec => []TypeOK
<1>1. TypeOK /\ [Next]_vars => TypeOK'
  <2> SUFFICES ASSUME TypeOK, [Next]_vars PROVE TypeOK'
    OBVIOUS
  <2>1. CASE Caller
    BY <2>1, TypeCaller
  <2>2. CASE Driver
    BY <2>2, TypeDriver
  <2>3. CASE UNCHANGED vars
    BY <2>3 DEF vars, phaseVars, inboxVars, localVars, logVars, TypeOK,
                 PhaseType, InboxType, LocalType, StackType, LogType
  <2>4. QED
    BY <2>1, <2>2, <2>3 DEF Next
<1>2. QED
  BY TypeInit, <1>1, PTL DEF Spec

-----------------------------------------------------------------------------
(* The log the driver has written at each of its places.                   *)

TurnPoints == Points \ {"none", "starting", "turnClosed", "retiring"}
StepPoints == {"preparing", "admitting", "streaming", "requestError", "tools",
               "recovering", "stepDone"}

PointsLog ==
  /\ openTurn <=> pc \in TurnPoints
  /\ openStep <=> pc \in StepPoints
  /\ unanswered > 0 => pc \in {"tools", "recovering"}
  /\ pc = "starting" => step = 0

LogInv == OneActivity /\ PointsLog

LEMMA LogInit == Init => LogInv
  BY DEF Init, LogInv, OneActivity, PointsLog, TurnPoints, StepPoints, Points

\* What callers do leaves the log and the place of the driver alone.
LEMMA LogCaller ==
  ASSUME LogInv, Caller
  PROVE  LogInv'
<1>1. UNCHANGED <<pc, openTurn, openStep, unanswered, step>>
  BY DEF Caller, Send, Prepend, RemoveMessage, ReplaceMessage, Cancel, AbortActivity, RunMaintenance,
         phaseVars, logVars
<1>2. (phase' = "running") <=> (phase = "running")
  BY DEF Caller, Send, Prepend, RemoveMessage, ReplaceMessage, Cancel, AbortActivity, RunMaintenance,
         phaseVars
<1>3. QED
  BY <1>1, <1>2 DEF LogInv, OneActivity, PointsLog

\* A wake starts the driver only from the idle phase.
LEMMA LogWake ==
  ASSUME LogInv, NEW afterAbort, WakeDriver(afterAbort),
         UNCHANGED <<openTurn, openStep, unanswered>>
  PROVE  LogInv'
<1>1. CASE phase = "idle"
  <2>1. pc = "none" /\ phase' = "running" /\ pc' = "starting" /\ step' = 0
    BY <1>1 DEF WakeDriver, StartDriver, LogInv, OneActivity, PointsLog, Points
  <2>2. QED
    BY <2>1 DEF LogInv, OneActivity, PointsLog, TurnPoints, StepPoints
<1>2. CASE phase # "idle"
  BY <1>2 DEF WakeDriver, LogInv, OneActivity, PointsLog
<1>3. QED
  BY <1>1, <1>2

TurnCloses == ~openTurn' /\ pc' \in {"turnClosed", "retiring"}
TurnStops == pc' = "stopping" /\ UNCHANGED openTurn

\* A turn whose step is closed fails, or closes, or goes round.
LEMMA LogClosing ==
  ASSUME LogInv, openTurn, ~openStep, UNCHANGED <<phase, openStep, unanswered, step>>,
         Catch \/ TurnCloses \/ ContinueTurn \/ TurnStops
  PROVE  LogInv'
<1>1. CASE Catch
  BY <1>1 DEF Catch, LogInv, OneActivity, PointsLog, TurnPoints, StepPoints, Points
<1>2. CASE TurnCloses
  <2>1. ~openTurn' /\ pc' \in {"turnClosed", "retiring"}
    BY <1>2 DEF TurnCloses
  <2>2. phase = "running" /\ ~(unanswered > 0)
    BY DEF LogInv, OneActivity, PointsLog, TurnPoints, StepPoints, Points
  <2>3. pc' \notin TurnPoints /\ pc' \notin StepPoints /\ pc' # "none" /\ pc' # "starting"
    BY <2>1 DEF TurnPoints, StepPoints, Points
  <2>4. QED
    BY <2>1, <2>2, <2>3 DEF LogInv, OneActivity, PointsLog, TurnPoints, StepPoints, Points
<1>3. CASE ContinueTurn
  BY <1>3 DEF ContinueTurn, LogInv, OneActivity, PointsLog, TurnPoints, StepPoints, Points
<1>4. CASE TurnStops
  BY <1>4 DEF TurnStops, LogInv, OneActivity, PointsLog, TurnPoints, StepPoints, Points
<1>5. QED
  BY <1>1, <1>2, <1>3, <1>4

LEMMA LogDriver ==
  ASSUME TypeOK, LogInv, Driver
  PROVE  LogInv'
<1> USE DEF phaseVars, localVars, logVars, Driving, TypeOK, LogType,
            LogInv, OneActivity, PointsLog, TurnPoints, StepPoints, Points
<1>1. CASE SendWakes
  BY <1>1, LogWake DEF SendWakes
<1>2. CASE ReplayWake
  BY <1>2, LogWake DEF ReplayWake
<1>3. CASE EndMaintenance
  BY <1>3 DEF EndMaintenance, StartDriver, BecomeIdle
<1>4. CASE OpenTurn
  BY <1>4 DEF OpenTurn
<1>5. CASE Claim
  BY <1>5 DEF Claim, Catch
<1>6. CASE PreStepThrows
  BY <1>6 DEF PreStepThrows, Catch
<1>7. CASE PreStepEnters
  BY <1>7 DEF PreStepEnters
<1>8. CASE PreStepRejects
  BY <1>8 DEF PreStepRejects
<1>9. CASE CloseBlocked
  BY <1>9 DEF CloseBlocked, EndTurn
<1>10. CASE EnterStep
  <2>1. openTurn /\ ~openStep
    BY <1>10 DEF EnterStep
  <2>2. CASE UNCHANGED <<step, openStep>>
    <3>1. Catch \/ TurnCloses
      BY <1>10, <2>1, <2>2 DEF EnterStep, EndTurn, TurnCloses
    <3>2. QED
      BY <1>10, <2>1, <2>2, <3>1, LogClosing DEF EnterStep
  <2>3. CASE openStep' = TRUE /\ pc' = "preparing" /\ UNCHANGED openTurn
    BY <1>10, <2>1, <2>3 DEF EnterStep
  <2>4. QED
    BY <1>10, <2>2, <2>3 DEF EnterStep
<1>11. CASE ModelAndTools
  BY <1>11 DEF ModelAndTools, BeginRequest, AdmitMessage, OpenStream, Answer, AttemptFails, Retry,
               CommitResult, ToolsSettle, ToolsFail, StepThrows, StepUnchanged
<1>12. CASE RecoverResult
  BY <1>12 DEF RecoverResult, StepUnchanged
<1>13. CASE CloseFailedStep
  BY <1>13 DEF CloseFailedStep
<1>14. CASE CloseStep
  BY <1>14 DEF CloseStep
<1>15. CASE CatchFailedStep
  BY <1>15 DEF CatchFailedStep, Catch, ClosingUnchanged
<1>16. CASE AfterStep
  <2>1. openTurn /\ ~openStep
    BY <1>16 DEF AfterStep
  <2>2. Catch \/ ContinueTurn \/ TurnStops
    BY <1>16 DEF AfterStep, TurnStops
  <2>3. QED
    BY <1>16, <2>1, <2>2, LogClosing DEF AfterStep, ClosingUnchanged
<1>17. CASE Stopped
  <2>1. openTurn /\ ~openStep
    BY <1>17 DEF Stopped
  <2>2. Catch \/ ContinueTurn \/ TurnCloses
    BY <1>17 DEF Stopped, EndTurn, TurnCloses
  <2>3. QED
    BY <1>17, <2>1, <2>2, LogClosing DEF Stopped, ClosingUnchanged
<1>18. CASE CloseFailedTurn
  BY <1>18 DEF CloseFailedTurn, EndTurn, ClosingUnchanged
<1>19. CASE AfterTurn
  BY <1>19 DEF AfterTurn, StartDriver
<1>20. CASE Retire
  BY <1>20 DEF Retire, BecomeIdle
<1>21. CASE CancelPrompts \/ CancelAborts
  BY <1>21 DEF CancelPrompts, CancelAborts, AbortActivity
<1>22. QED
  BY <1>21, <1>1, <1>2, <1>3, <1>4, <1>5, <1>6, <1>7, <1>8, <1>9, <1>10, <1>11, <1>12,
     <1>13, <1>14, <1>15, <1>16, <1>17, <1>18, <1>19, <1>20 DEF Driver

LEMMA LogInvariant == Spec => []LogInv
<1>1. TypeOK /\ LogInv /\ [Next]_vars => LogInv'
  <2>1. ASSUME UNCHANGED vars, LogInv PROVE LogInv'
    BY <2>1 DEF vars, phaseVars, logVars, LogInv, OneActivity, PointsLog
  <2>2. QED
    BY <2>1, LogCaller, LogDriver DEF Next
<1>2. QED
  BY <1>1, LogInit, TypeCorrect, PTL DEF Spec

\* Maintenance never overlaps a driver, and there is one driver at most.
THEOREM OneActivityAtATime == Spec => []OneActivity
<1>1. LogInv => OneActivity
  BY DEF LogInv
<1>2. QED
  BY <1>1, LogInvariant, PTL

\* However a turn ends, the driver leaves neither an open turn nor an open step
\* nor an unanswered tool call behind.
THEOREM LogStaysBalanced == Spec => []LogBalanced
<1>1. TypeOK /\ LogInv => LogBalanced
  BY DEF TypeOK, LogType, LogInv, OneActivity, PointsLog, LogBalanced, TurnPoints, StepPoints,
         Points
<1>2. QED
  BY <1>1, TypeCorrect, LogInvariant, PTL
-----------------------------------------------------------------------------
(* The latch.                                                              *)

\* A latch belongs to an activity, and a send that saw its abort wakes before
\* that activity can let go.
WakesLate == \E i \in DOMAIN stack : stack[i].at = "wakeAfterAbort"

LatchInv ==
  /\ LatchNotStale
  /\ phase = "idle" => abort = Live
  /\ WakesLate => abort # Live

LEMMA PushedLate ==
  ASSUME StackType, NEW frame \in Frame, stack' = <<frame>> \o stack, WakesLate'
  PROVE  frame.at = "wakeAfterAbort" \/ WakesLate
<1>1. Len(stack') = Len(stack) + 1 /\ DOMAIN stack' = 1..Len(stack')
  BY DEF StackType
<1>2. PICK i \in DOMAIN stack' : stack'[i].at = "wakeAfterAbort"
  BY DEF WakesLate
<1>3. CASE i = 1
  BY <1>2, <1>3 DEF StackType
<1>4. CASE i # 1
  <2>1. i - 1 \in DOMAIN stack /\ stack'[i] = stack[i - 1]
    BY <1>1, <1>2, <1>4 DEF StackType
  <2>2. QED
    BY <1>2, <2>1 DEF WakesLate
<1>5. QED
  BY <1>3, <1>4

LEMMA PoppedLate ==
  ASSUME StackType, stack # <<>>, stack' = Tail(stack), WakesLate'
  PROVE  WakesLate
<1>1. PICK i \in DOMAIN stack' : stack'[i].at = "wakeAfterAbort"
  BY DEF WakesLate
<1>2. i + 1 \in DOMAIN stack /\ stack'[i] = stack[i + 1]
  BY <1>1 DEF StackType
<1>3. QED
  BY <1>1, <1>2 DEF WakesLate

\* The clear of a cancel goes on in the frame it was in.
LEMMA MovedLate ==
  ASSUME StackType, stack # <<>>, NEW frame \in Frame, frame.at # "wakeAfterAbort",
         stack' = <<frame>> \o Tail(stack), WakesLate'
  PROVE  WakesLate
<1>1. Len(stack') = Len(stack) /\ DOMAIN stack' = 1..Len(stack')
  BY DEF StackType
<1>2. PICK i \in DOMAIN stack' : stack'[i].at = "wakeAfterAbort"
  BY DEF WakesLate
<1>3. i # 1
  BY <1>2 DEF StackType
<1>4. i \in DOMAIN stack /\ stack'[i] = stack[i]
  BY <1>1, <1>2, <1>3 DEF StackType
<1>5. QED
  BY <1>2, <1>4 DEF WakesLate

\* An abort reaches activities only, and a latch does not survive a reset.
LEMMA LatchAbort ==
  ASSUME PhaseType, LatchInv, NEW cause \in Causes \cup {Live}, NEW keepInbox \in BOOLEAN,
         AbortActivity(cause, keepInbox)
  PROVE  /\ LatchNotStale'
         /\ phase' = "idle" => abort' = Live
         /\ abort # Live => abort' # Live
<1>1. phase = "idle" => abort' = abort
  BY DEF AbortActivity
<1>2. abort # Live => abort' = abort
  BY DEF AbortActivity
<1>3. wakeRequested' => wakeRequested
  BY DEF AbortActivity
<1>4. UNCHANGED phase
  BY DEF AbortActivity
<1>5. ASSUME wakeRequested'
      PROVE  phase = "maintenance" \/ abort' \notin {Live, Disposed}
  <2>1. phase = "maintenance" \/ abort \notin {Live, Disposed}
    BY <1>3, <1>5 DEF LatchInv, LatchNotStale
  <2>2. QED
    BY <1>2, <2>1
<1>6. QED
  BY <1>1, <1>2, <1>4, <1>5 DEF LatchInv, LatchNotStale

LEMMA LatchCaller ==
  ASSUME TypeOK, LatchInv, Caller
  PROVE  LatchInv'
<1>1. ASSUME NEW m \in Messages, NEW box \in Boxes, NEW wakeup \in BOOLEAN,
             Send(m, box, wakeup)
      PROVE  LatchInv'
  <2> DEFINE late == wakeup /\ phase # "idle" /\ abort # Live
             place == IF late THEN "wakeAfterAbort" ELSE "wake"
  <2>1. UNCHANGED phaseVars
    BY <1>1 DEF Send
  <2>2. WakesLate' => abort # Live
    <3>1. CASE UNCHANGED stack
      BY <3>1 DEF LatchInv, WakesLate
    <3>2. CASE stack' = <<NewFrame(place)>> \o stack
      <4>1. NewFrame(place) \in Frame /\ NewFrame(place).at = place
        BY DEF NewFrame, Frame, Places
      <4>2. WakesLate' => place = "wakeAfterAbort" \/ WakesLate
        BY <3>2, <4>1, PushedLate DEF TypeOK
      <4>3. QED
        BY <4>2 DEF LatchInv
    <3>3. QED
      BY <1>1, <3>1, <3>2 DEF Send, Push
  <2>3. QED
    BY <2>1, <2>2 DEF LatchInv, LatchNotStale, phaseVars
<1>2. ASSUME NEW cause \in Causes, NEW keepInbox \in BOOLEAN, Cancel(cause, keepInbox)
      PROVE  LatchInv'
  <2>1. CASE AbortActivity(cause, keepInbox) /\ UNCHANGED stack
    BY <2>1, LatchAbort DEF LatchInv, WakesLate, TypeOK
  <2>2. ASSUME NEW place \in {"clearPrompts", "abort"}, UNCHANGED phaseVars,
               Push([at |-> place, cause |-> cause])
        PROVE  LatchInv'
    <3>1. [at |-> place, cause |-> cause] \in Frame
      BY DEF Frame, Places
    <3>2. WakesLate' => WakesLate
      BY <2>2, <3>1, PushedLate DEF Push, TypeOK
    <3>3. QED
      BY <2>2, <3>2 DEF LatchInv, LatchNotStale, phaseVars
  <2>3. QED
    BY <1>2, <2>1, <2>2 DEF Cancel
<1>3. CASE RunMaintenance
  BY <1>3 DEF RunMaintenance, LatchInv, LatchNotStale, WakesLate
<1>4. CASE UNCHANGED <<phaseVars, stack>>
  BY <1>4 DEF LatchInv, LatchNotStale, WakesLate, phaseVars
<1>5. QED
  BY <1>1, <1>2, <1>3, <1>4 DEF Caller, Prepend, RemoveMessage, ReplaceMessage

\* While a send is on the stack, no task resumes: a waking send finds the
\* activity it saw, with its signal still aborted.
LEMMA LatchWake ==
  ASSUME LatchInv, NEW afterAbort \in BOOLEAN, afterAbort => abort # Live,
         WakeDriver(afterAbort)
  PROVE  /\ LatchNotStale'
         /\ phase' = "idle" => abort' = Live
<1>1. CASE phase = "idle"
  BY <1>1 DEF WakeDriver, StartDriver, LatchNotStale
<1>2. CASE phase # "idle"
  <2>1. wakeRequested' => wakeRequested \/ (abort # Disposed
                                            /\ (phase = "maintenance" \/ afterAbort))
    BY <1>2 DEF WakeDriver
  <2>2. UNCHANGED <<phase, abort>>
    BY <1>2 DEF WakeDriver
  <2>3. QED
    BY <1>2, <2>1, <2>2 DEF LatchInv, LatchNotStale
<1>3. QED
  BY <1>1, <1>2

\* Calls that were suspended when the signal was aborted find it so.
LEMMA LatchDriver ==
  ASSUME TypeOK, LatchInv, Driver
  PROVE  LatchInv'
<1>1. CASE SendWakes
  <2>1. StackType /\ stack # <<>> /\ stack' = Tail(stack)
    BY <1>1 DEF SendWakes, Running, Pop, TypeOK
  <2>2. Running("wakeAfterAbort") \in BOOLEAN /\ (Running("wakeAfterAbort") => abort # Live)
    <3>1. stack[1] = Head(stack) /\ 1 \in DOMAIN stack
      BY <2>1 DEF StackType
    <3>2. QED
      BY <3>1 DEF Running, LatchInv, WakesLate
  <2>3. WakesLate' => WakesLate
    BY <2>1, PoppedLate
  <2>4. /\ LatchNotStale'
        /\ phase' = "idle" => abort' = Live
    BY <1>1, <2>2, LatchWake DEF SendWakes
  <2>5. phase = "idle" => ~WakesLate
    BY DEF LatchInv
  <2>6. phase # "idle" => UNCHANGED abort
    BY <1>1 DEF SendWakes, WakeDriver
  <2>7. QED
    BY <2>3, <2>4, <2>5, <2>6 DEF LatchInv
<1>2. CASE ReplayWake
  <2>1. StackType /\ stack # <<>> /\ stack' = Tail(stack)
    BY <1>2 DEF ReplayWake, Running, Pop, TypeOK
  <2>2. WakesLate' => WakesLate
    BY <2>1, PoppedLate
  <2>3. CASE WakeDriver(FALSE)
    <3>1. /\ LatchNotStale'
          /\ phase' = "idle" => abort' = Live
      BY <2>3, LatchWake
    <3>2. phase # "idle" => UNCHANGED abort
      BY <2>3 DEF WakeDriver
    <3>3. QED
      BY <2>2, <3>1, <3>2 DEF LatchInv
  <2>4. CASE UNCHANGED phaseVars
    BY <2>2, <2>4 DEF LatchInv, LatchNotStale, phaseVars
  <2>5. QED
    BY <1>2, <2>3, <2>4 DEF ReplayWake
<1>3. CASE EndMaintenance
  BY <1>3 DEF EndMaintenance, StartDriver, BecomeIdle, Unwound,
              LatchInv, LatchNotStale, WakesLate
<1>4. CASE AfterTurn
  BY <1>4 DEF AfterTurn, StartDriver, Driving, Unwound, phaseVars,
              LatchInv, LatchNotStale, WakesLate
<1>5. CASE Retire
  <2>1. phase' = "idle" /\ abort' = Live /\ ~wakeRequested'
    BY <1>5 DEF Retire, BecomeIdle
  <2>2. ~WakesLate
    BY <1>5 DEF Retire, Driving, Unwound, WakesLate
  <2>3. NewFrame("replay") \in Frame /\ NewFrame("replay").at = "replay"
    BY DEF NewFrame, Frame, Places
  <2>4. ~WakesLate'
    <3>1. CASE UNCHANGED stack
      BY <2>2, <3>1 DEF WakesLate
    <3>2. CASE stack' = <<NewFrame("replay")>> \o stack
      BY <2>2, <2>3, <3>2, PushedLate DEF TypeOK
    <3>3. QED
      BY <1>5, <3>1, <3>2 DEF Retire, Push
  <2>5. QED
    BY <2>1, <2>4 DEF LatchInv, LatchNotStale
<1>6. CASE UNCHANGED <<phase, abort, wakeRequested, stack>>
  BY <1>6 DEF LatchInv, LatchNotStale, WakesLate
<1>7. CASE ModelAndTools
  <2>1. UNCHANGED <<phase, abort, wakeRequested, stack>>
    BY <1>7 DEF ModelAndTools, BeginRequest, AdmitMessage, OpenStream, Answer, AttemptFails, Retry,
                CommitResult, ToolsSettle, ToolsFail, StepThrows, StepUnchanged,
                phaseVars
  <2>2. QED
    BY <1>6, <2>1
<1>8. CASE CancelPrompts
  <2>1. StackType /\ stack # <<>> /\ Head(stack).cause \in Causes \cup {Live}
    BY <1>8, PopType DEF CancelPrompts, Running, Frame, TypeOK
  <2>2. CASE nextTurn = <<>>
    <3>1. AbortActivity(Head(stack).cause, FALSE) /\ stack' = Tail(stack)
      BY <1>8, <2>2 DEF CancelPrompts, Pop
    <3>2. WakesLate' => WakesLate
      BY <2>1, <3>1, PoppedLate
    <3>3. /\ LatchNotStale'
          /\ phase' = "idle" => abort' = Live
          /\ abort # Live => abort' # Live
      BY <2>1, <3>1, LatchAbort DEF TypeOK
    <3>4. QED
      BY <3>2, <3>3 DEF LatchInv
  <2>3. CASE nextTurn # <<>>
    <3> DEFINE frame == [at |-> "abort", cause |-> Head(stack).cause]
    <3>1. UNCHANGED phaseVars /\ stack' = <<frame>> \o Tail(stack)
      BY <1>8, <2>3 DEF CancelPrompts
    <3>2. frame \in Frame /\ frame.at # "wakeAfterAbort"
      BY <2>1 DEF Frame, Places
    <3> HIDE DEF frame
    <3>3. WakesLate' => WakesLate
      BY <2>1, <3>1, <3>2, MovedLate
    <3>4. QED
      BY <3>1, <3>3 DEF LatchInv, LatchNotStale, phaseVars
  <2>4. QED
    BY <2>2, <2>3
<1>9. CASE CancelAborts
  <2>1. StackType /\ stack # <<>> /\ Head(stack).cause \in Causes \cup {Live}
    BY <1>9, PopType DEF CancelAborts, Running, Frame, TypeOK
  <2>2. AbortActivity(Head(stack).cause, FALSE) /\ stack' = Tail(stack)
    BY <1>9 DEF CancelAborts, Pop
  <2>3. WakesLate' => WakesLate
    BY <2>1, <2>2, PoppedLate
  <2>4. /\ LatchNotStale'
        /\ phase' = "idle" => abort' = Live
        /\ abort # Live => abort' # Live
    BY <2>1, <2>2, LatchAbort DEF TypeOK
  <2>5. QED
    BY <2>3, <2>4 DEF LatchInv
<1>10. QED
  BY <1>8, <1>9, <1>1, <1>2, <1>3, <1>4, <1>5, <1>6, <1>7
     DEF Driver, OpenTurn, Claim, PreStepThrows, PreStepEnters, PreStepRejects,
         CloseBlocked, EnterStep, RecoverResult, CloseFailedStep, CloseStep,
         CatchFailedStep, AfterStep, Stopped, CloseFailedTurn, StepUnchanged,
         ClosingUnchanged, phaseVars

\* A wake is latched behind maintenance or an aborted driver only.
THEOREM LatchesNeverStale == Spec => []LatchNotStale
<1>1. Init => LatchInv
  BY DEF Init, LatchInv, LatchNotStale, WakesLate
<1>2. TypeOK /\ LatchInv /\ [Next]_vars => LatchInv'
  <2>1. ASSUME UNCHANGED vars, LatchInv PROVE LatchInv'
    BY <2>1 DEF vars, phaseVars, LatchInv, LatchNotStale, WakesLate
  <2>2. QED
    BY <2>1, LatchCaller, LatchDriver DEF Next
<1>3. LatchInv => LatchNotStale
  BY DEF LatchInv
<1>4. QED
  BY <1>1, <1>2, <1>3, TypeCorrect, PTL DEF Spec

-----------------------------------------------------------------------------
(* Aborts.                                                                 *)

\* Behind an abort no turn and no step opens and no request and no model attempt
\* starts, and messages are only admitted to the log if their batch had begun.
THEOREM AbortStopsWork == Spec => NoWorkAfterAbort
<1> DEFINE Quiet == /\ openTurn' => openTurn
                    /\ openStep' => openStep
                    /\ pc' \in {"admitting", "streaming"} => pc' = pc
                    /\ admits' # admits => pc = "admitting"
<1>1. ASSUME Caller PROVE Quiet
  <2>1. UNCHANGED <<pc, openTurn, openStep, admits>>
    BY <1>1 DEF Caller, Send, Prepend, RemoveMessage, ReplaceMessage, Cancel, AbortActivity, RunMaintenance,
           logVars
  <2>2. QED
    BY <2>1
<1>2. ASSUME Driver, abort # Live PROVE Quiet
  <2> USE DEF logVars
  <2>1. CASE SendWakes \/ ReplayWake
    <3>1. UNCHANGED <<openTurn, openStep, admits>>
      BY <2>1 DEF SendWakes, ReplayWake
    <3>2. pc' = "starting" \/ pc' = pc
      BY <2>1 DEF SendWakes, ReplayWake, WakeDriver, StartDriver
    <3>3. QED
      BY <3>1, <3>2
  <2>2. CASE EndMaintenance
    BY <2>2 DEF EndMaintenance, StartDriver
  <2>3. CASE ModelAndTools
    BY <1>2, <2>3
       DEF ModelAndTools, BeginRequest, AdmitMessage, OpenStream, Answer, AttemptFails, Retry,
           CommitResult, ToolsSettle, ToolsFail, StepThrows, StepUnchanged, Driving
  <2>4. CASE EnterStep
    BY <1>2, <2>4 DEF EnterStep, EndTurn, Catch
  <2>5. CASE AfterTurn \/ Retire
    BY <2>5 DEF AfterTurn, Retire, StartDriver
  <2>10. CASE CancelPrompts \/ CancelAborts
    <3>1. UNCHANGED <<pc, openTurn, openStep, admits>>
      BY <2>10 DEF CancelPrompts, CancelAborts
    <3>2. QED
      BY <3>1
  <2>6. CASE OpenTurn \/ Claim \/ PreStepThrows \/ PreStepEnters \/ PreStepRejects
             \/ CloseBlocked
    BY <1>2, <2>6 DEF OpenTurn, Claim, PreStepThrows, PreStepEnters, PreStepRejects,
                      CloseBlocked, EndTurn, Catch
  <2>7. CASE RecoverResult \/ CloseFailedStep \/ CloseStep \/ CatchFailedStep
    BY <2>7 DEF RecoverResult, CloseFailedStep, CloseStep, CatchFailedStep, Catch,
                StepUnchanged, ClosingUnchanged
  <2>8. CASE AfterStep \/ Stopped \/ CloseFailedTurn
    BY <1>2, <2>8 DEF AfterStep, Stopped, CloseFailedTurn, Catch, EndTurn, ContinueTurn,
                      ClosingUnchanged
  <2> HIDE DEF Quiet
  <2>9. QED
    BY <1>2, <2>1, <2>2, <2>3, <2>4, <2>5, <2>6, <2>7, <2>8, <2>10 DEF Driver
<1>3. [Next]_vars => [abort # Live => Quiet]_vars
  BY <1>1, <1>2 DEF Next
<1>4. QED
  BY <1>3, PTL DEF Spec, NoWorkAfterAbort

\* A turn only fails with its ending set to error.
EndingInv == pc = "failing" => turnEnds = "error"

LEMMA EndingInvariant == Spec => []EndingInv
<1>1. Init => EndingInv
  BY DEF Init, EndingInv
<1>2. ASSUME EndingInv, Caller PROVE EndingInv'
  <2>1. UNCHANGED <<pc, turnEnds>>
    BY <1>2 DEF Caller, Send, Prepend, RemoveMessage, ReplaceMessage, Cancel, AbortActivity, RunMaintenance,
           localVars
  <2>2. QED
    BY <1>2, <2>1 DEF EndingInv
<1>3. ASSUME EndingInv, Driver PROVE EndingInv'
  <2> USE DEF EndingInv
  <2>1. CASE Catch
    BY <2>1 DEF Catch
  <2>2. CASE pc' = pc /\ turnEnds' = turnEnds
    BY <1>3, <2>2
  <2>3. CASE pc' # "failing"
    BY <2>3
  <2>4. CASE SendWakes \/ CancelPrompts \/ CancelAborts \/ ReplayWake \/ EndMaintenance \/ AfterTurn
    <3>1. pc' # "failing" \/ (pc' = pc /\ turnEnds' = turnEnds)
      BY <2>4 DEF SendWakes, CancelPrompts, CancelAborts, ReplayWake, EndMaintenance, AfterTurn, WakeDriver, StartDriver,
                  localVars, phaseVars, Driving
    <3>2. QED
      BY <2>2, <2>3, <3>1
  <2>5. CASE ModelAndTools \/ RecoverResult
    <3>1. pc' # "failing"
      BY <2>5 DEF ModelAndTools, BeginRequest, AdmitMessage, OpenStream, Answer, AttemptFails, Retry,
                  CommitResult, ToolsSettle, ToolsFail, StepThrows, RecoverResult,
                  StepUnchanged, Driving
    <3>2. QED
      BY <2>3, <3>1
  <2>6. CASE OpenTurn \/ PreStepEnters \/ PreStepRejects \/ CloseBlocked \/ CloseFailedStep
             \/ CloseStep \/ CloseFailedTurn \/ Retire
    <3>1. pc' # "failing"
      BY <2>6 DEF OpenTurn, PreStepEnters, PreStepRejects, CloseBlocked, CloseFailedStep,
                  CloseStep, CloseFailedTurn, Retire, EndTurn
    <3>2. QED
      BY <2>3, <3>1
  <2>7. CASE Claim \/ PreStepThrows \/ EnterStep \/ CatchFailedStep \/ AfterStep \/ Stopped
    <3>1. Catch \/ pc' # "failing"
      BY <2>7 DEF Claim, PreStepThrows, EnterStep, CatchFailedStep, AfterStep, Stopped,
                  EndTurn, ContinueTurn
    <3>2. QED
      BY <2>1, <2>3, <3>1
  <2>8. QED
    BY <1>3, <2>4, <2>5, <2>6, <2>7 DEF Driver
<1>4. EndingInv /\ [Next]_vars => EndingInv'
  <2>1. ASSUME UNCHANGED vars, EndingInv PROVE EndingInv'
    BY <2>1 DEF vars, localVars, EndingInv
  <2>2. QED
    BY <2>1, <1>2, <1>3 DEF Next
<1>5. QED
  BY <1>1, <1>4, PTL DEF Spec

\* A turn that closes behind an abort does not claim to have run to its end,
\* unless nothing was left to run.
THEOREM CancelsAreRecorded == Spec => CancelIsRecorded
<1> DEFINE Recorded == turnEnds' \in {"completed", "max-tokens"} => BatchEmpty
<1>1. ASSUME EndingInv, Driver, openTurn, ~openTurn', abort # Live
      PROVE  Recorded
  <2>1. CASE Catch
    BY <2>1 DEF Catch
  <2>2. CASE CloseFailedTurn
    BY <1>1, <2>2 DEF CloseFailedTurn, EndTurn, Driving, EndingInv
  <2>3. CASE CloseBlocked
    BY <2>3 DEF CloseBlocked, EndTurn
  <2>4. CASE EnterStep
    <3>1. Catch \/ BatchEmpty
      BY <1>1, <2>4 DEF EnterStep
    <3>2. QED
      BY <2>1, <3>1
  <2>5. CASE Stopped \/ AfterStep \/ PreStepThrows \/ CatchFailedStep \/ Claim
    <3>1. Catch
      BY <1>1, <2>5 DEF Stopped, AfterStep, PreStepThrows, CatchFailedStep, Claim
    <3>2. QED
      BY <2>1, <3>1
  <2>6. ~(SendWakes \/ CancelPrompts \/ CancelAborts \/ ReplayWake \/ EndMaintenance \/ OpenTurn \/ PreStepEnters
          \/ PreStepRejects \/ AfterTurn \/ Retire \/ CloseFailedStep \/ CloseStep)
    BY <1>1 DEF SendWakes, CancelPrompts, CancelAborts, ReplayWake, EndMaintenance, OpenTurn, PreStepEnters,
       PreStepRejects, AfterTurn, Retire, CloseFailedStep, CloseStep, logVars
  <2>7. ~(ModelAndTools \/ RecoverResult)
    BY <1>1 DEF ModelAndTools, BeginRequest, AdmitMessage, OpenStream, Answer, AttemptFails, Retry,
       CommitResult, ToolsSettle, ToolsFail, StepThrows, RecoverResult, StepUnchanged
  <2> HIDE DEF Recorded
  <2>8. QED
    BY <1>1, <2>2, <2>3, <2>4, <2>5, <2>6, <2>7 DEF Driver
<1>2. ASSUME Caller PROVE UNCHANGED openTurn
  BY <1>2 DEF Caller, Send, Prepend, RemoveMessage, ReplaceMessage, Cancel, AbortActivity, RunMaintenance,
         logVars
<1>3. EndingInv /\ [Next]_vars =>
        [openTurn /\ ~openTurn' /\ abort # Live /\ turnEnds' \in {"completed", "max-tokens"}
           => BatchEmpty]_vars
  BY <1>1, <1>2 DEF Next
<1>4. QED
  BY <1>3, EndingInvariant, PTL DEF Spec, CancelIsRecorded

-----------------------------------------------------------------------------
(* Prompts.                                                                *)

\* The first claim of a turn has taken no prompt yet, the later ones take none.
PromptInv == OnePromptPerTurn /\ (pc = "opened" /\ target = "next-turn" => prompts = 0)

LEMMA PromptClaim ==
  ASSUME TypeOK, PromptInv, Claim
  PROVE  PromptInv'
<1> DEFINE prompt == IF target = "next-turn" /\ nextTurn # <<>> THEN {Head(nextTurn)} ELSE {}
<1>1. pc = "opened" /\ prompts \in Nat
  BY DEF Claim, Driving, TypeOK, LogType
<1>2. CASE abort # Live
  BY <1>2 DEF Claim, Catch, PromptInv, OnePromptPerTurn
<1>3. CASE abort = Live
  <2>1. pc' = "preStep" /\ prompts' = prompts + Cardinality(prompt)
    BY <1>3 DEF Claim
  <2>2. CASE target = "next-turn" /\ nextTurn # <<>>
    <3>1. Cardinality(prompt) = 1 /\ prompts = 0
      BY <1>1, <2>2, FS_Singleton DEF PromptInv
    <3> HIDE DEF prompt
    <3>2. QED
      BY <2>1, <3>1 DEF PromptInv, OnePromptPerTurn
  <2>3. CASE ~(target = "next-turn" /\ nextTurn # <<>>)
    <3>1. Cardinality(prompt) = 0
      BY <2>3, FS_EmptySet
    <3> HIDE DEF prompt
    <3>2. QED
      BY <1>1, <2>1, <3>1 DEF PromptInv, OnePromptPerTurn
  <2>4. QED
    BY <2>2, <2>3
<1>4. QED
  BY <1>2, <1>3

\* A turn claims one prompt at most.
THEOREM OnePromptEachTurn == Spec => []OnePromptPerTurn
<1> USE DEF PromptInv, OnePromptPerTurn
<1>1. Init => PromptInv
  BY DEF Init
<1>2. ASSUME PromptInv, Caller PROVE PromptInv'
  <2>1. UNCHANGED <<pc, target, prompts>>
    BY <1>2 DEF Caller, Send, Prepend, RemoveMessage, ReplaceMessage, Cancel, AbortActivity, RunMaintenance,
           localVars, logVars
  <2>2. QED
    BY <1>2, <2>1
<1>3. ASSUME TypeOK, PromptInv, Driver PROVE PromptInv'
  <2>1. CASE UNCHANGED <<pc, target, prompts>>
    BY <1>3, <2>1
  <2>2. CASE pc' # "opened" /\ (UNCHANGED prompts \/ prompts' = 0)
    BY <1>3, <2>2
  <2>3. CASE SendWakes \/ CancelPrompts \/ CancelAborts \/ ReplayWake \/ EndMaintenance
    <3>1. UNCHANGED <<target, prompts>> /\ (pc' = "starting" \/ pc' = pc)
      BY <2>3 DEF SendWakes, CancelPrompts, CancelAborts, ReplayWake, EndMaintenance, WakeDriver, StartDriver, localVars,
                  logVars
    <3>2. QED
      BY <2>1, <2>2, <3>1
  <2>4. CASE OpenTurn
    BY <1>3, <2>4 DEF OpenTurn
  <2>5. CASE Claim
    BY <1>3, <2>5, PromptClaim
  <2>6. CASE ModelAndTools \/ RecoverResult
    <3>1. UNCHANGED prompts /\ pc' # "opened"
      BY <2>6 DEF ModelAndTools, BeginRequest, AdmitMessage, OpenStream, Answer, AttemptFails, Retry,
         CommitResult, ToolsSettle, ToolsFail, StepThrows, RecoverResult, StepUnchanged, Driving
    <3>2. QED
      BY <2>2, <3>1
  <2>7. CASE AfterStep \/ Stopped
    <3>1. /\ UNCHANGED prompts
          /\ pc' = "opened" => target' = "next-step"
      BY <2>7 DEF AfterStep, Stopped, Catch, EndTurn, ContinueTurn, ClosingUnchanged
    <3>2. QED
      BY <1>3, <3>1
  <2>8. CASE PreStepThrows \/ PreStepEnters \/ PreStepRejects \/ CloseBlocked \/ EnterStep
    <3>1. UNCHANGED prompts /\ pc' # "opened"
      BY <2>8 DEF PreStepThrows, PreStepEnters, PreStepRejects, CloseBlocked, EnterStep,
                  Catch, EndTurn, logVars
    <3>2. QED
      BY <2>2, <3>1
  <2>9. CASE CloseFailedStep \/ CloseStep \/ CatchFailedStep \/ CloseFailedTurn
             \/ AfterTurn \/ Retire
    <3>1. pc' # "opened" /\ (UNCHANGED prompts \/ prompts' = 0)
      BY <2>9 DEF CloseFailedStep, CloseStep, CatchFailedStep, CloseFailedTurn, AfterTurn,
                  Retire, Catch, EndTurn, StartDriver, ClosingUnchanged, logVars
    <3>2. QED
      BY <2>2, <3>1
  <2>10. QED
    BY <1>3, <2>3, <2>4, <2>5, <2>6, <2>7, <2>8, <2>9 DEF Driver
<1>4. TypeOK /\ PromptInv /\ [Next]_vars => PromptInv'
  <2>1. ASSUME UNCHANGED vars, PromptInv PROVE PromptInv'
    BY <2>1 DEF vars, localVars, logVars
  <2>2. QED
    BY <2>1, <1>2, <1>3 DEF Next
<1>5. PromptInv => OnePromptPerTurn
  OBVIOUS
<1>6. QED
  BY <1>1, <1>4, <1>5, TypeCorrect, PTL DEF Spec

-----------------------------------------------------------------------------
(* The fate of a message.                                                  *)

\* A message has one place: it is pending once at most, or its one notification
\* was sent.
Distinct ==
  /\ \A i, j \in DOMAIN nextTurn : nextTurn[i] = nextTurn[j] => i = j
  /\ \A i \in DOMAIN nextTurn : nextTurn[i] \notin nextStep

\* The proposed step's batch is claimed and not yet shown to the model; the first
\* request of the step shows it all, message by message; the next ones find it shown.
Proposing == \/ pc \in {"preStep", "decided", "rejected"}
             \/ pc = "preparing" /\ FirstAttempt
Shown == \/ pc \in {"streaming", "requestError", "tools", "stepDone", "stepClosed"}
         \/ pc = "preparing" /\ ~FirstAttempt
Attempting == pc \in {"admitting", "streaming", "requestError"}

Claimed ==
  /\ batch \subseteq sent \ Pending
  /\ Proposing => \A m \in batch : admits[m] = 0
  /\ Shown => \A m \in batch : admits[m] = 1
  /\ pc = "admitting" =>
       /\ toAdmit \subseteq batch
       /\ \A m \in batch : admits[m] = IF m \in toAdmit THEN 0 ELSE 1
  /\ Attempting => ~FirstAttempt

\* A step of the driver that shows nothing moves on from where the batch is.
Onward ==
  /\ Proposing' => Proposing
  /\ Shown' => Shown
  /\ pc' = "admitting" => UNCHANGED <<pc, toAdmit, batch>>
  /\ Attempting' => ~FirstAttempt'

FateInv == Distinct /\ OneFate /\ Claimed

\* Insertion puts a message that was never sent at one place.
LEMMA InsertedOnce ==
  ASSUME InboxType, Distinct, Pending \subseteq sent, NEW m \in Messages, m \notin sent,
         NEW box, NEW first \in BOOLEAN, Insert(m, box, first)
  PROVE  /\ Distinct' /\ Pending' = Pending \cup {m} /\ sent' = sent \cup {m}
<1>1. /\ nextTurn \in Seq(Messages) /\ Len(nextTurn) \in Nat
      /\ DOMAIN nextTurn = 1..Len(nextTurn)
  BY DEF InboxType
<1>2. m \notin nextStep /\ \A i \in DOMAIN nextTurn : nextTurn[i] # m
  BY DEF Pending, ToSet
<1>3. sent' = sent \cup {m}
  BY DEF Insert
<1>4. CASE box = "next-step"
  <2>1. nextTurn' = nextTurn /\ nextStep' = nextStep \cup {m}
    BY <1>4 DEF Insert
  <2>2. QED
    BY <1>2, <1>3, <2>1 DEF Distinct, Pending, ToSet
<1>5. CASE box # "next-step" /\ first
  <2>1. nextTurn' = <<m>> \o nextTurn /\ nextStep' = nextStep
    BY <1>5 DEF Insert
  <2>2. /\ DOMAIN nextTurn' = 1..Len(nextTurn) + 1
        /\ \A i \in 1..Len(nextTurn) + 1 : nextTurn'[i] = IF i = 1 THEN m ELSE nextTurn[i - 1]
    BY <1>1, <2>1
  <2>3. \A i \in 1..Len(nextTurn) : i + 1 \in DOMAIN nextTurn' /\ nextTurn'[i + 1] = nextTurn[i]
    BY <1>1, <2>2
  <2>4. Distinct'
    <3>1. ASSUME NEW j \in DOMAIN nextTurn', NEW k \in DOMAIN nextTurn', nextTurn'[j] = nextTurn'[k]
          PROVE  j = k
      <4>1. \/ j = 1 /\ nextTurn'[j] = m
            \/ j - 1 \in 1..Len(nextTurn) /\ nextTurn'[j] = nextTurn[j - 1]
        BY <1>1, <2>2, <3>1
      <4>2. \/ k = 1 /\ nextTurn'[k] = m
            \/ k - 1 \in 1..Len(nextTurn) /\ nextTurn'[k] = nextTurn[k - 1]
        BY <1>1, <2>2, <3>1
      <4>3. j \in Int /\ k \in Int
        BY <1>1, <2>2
      <4>4. QED
        BY <1>1, <1>2, <3>1, <4>1, <4>2, <4>3 DEF Distinct
    <3>2. ASSUME NEW j \in DOMAIN nextTurn' PROVE nextTurn'[j] \notin nextStep'
      BY <1>1, <1>2, <2>1, <2>2 DEF Distinct
    <3>3. QED
      BY <3>1, <3>2 DEF Distinct
  <2>5. ToSet(nextTurn)' = ToSet(nextTurn) \cup {m}
    BY <1>1, <2>2, <2>3 DEF ToSet
  <2>6. QED
    BY <1>3, <2>1, <2>4, <2>5 DEF Pending
<1>6. CASE box # "next-step" /\ ~first
  <2>1. nextTurn' = Append(nextTurn, m) /\ nextStep' = nextStep
    BY <1>6 DEF Insert
  <2>2. /\ DOMAIN nextTurn' = 1..Len(nextTurn) + 1
        /\ \A i \in 1..Len(nextTurn) + 1 :
             nextTurn'[i] = IF i = Len(nextTurn) + 1 THEN m ELSE nextTurn[i]
    BY <1>1, <2>1
  <2>3. Distinct'
    BY <1>1, <1>2, <2>1, <2>2 DEF Distinct
  <2>4. ToSet(nextTurn)' = ToSet(nextTurn) \cup {m}
    BY <1>1, <2>2 DEF ToSet
  <2>5. QED
    BY <1>3, <2>1, <2>3, <2>4 DEF Pending
<1>7. QED
  BY <1>4, <1>5, <1>6

\* RemoveAt() drops one element and keeps the order of the others.
LEMMA RemoveAtElements ==
  ASSUME NEW S, NEW s \in Seq(S), NEW i \in 1..Len(s)
  PROVE  /\ DOMAIN RemoveAt(s, i) = 1..Len(s) - 1
         /\ \A j \in 1..Len(s) - 1 : RemoveAt(s, i)[j] = IF j < i THEN s[j] ELSE s[j + 1]
<1>1. PICK n \in Nat : n = Len(s) /\ i \in 1..n /\ DOMAIN s = 1..n
  OBVIOUS
<1> DEFINE a == SubSeq(s, 1, i - 1)
           b == SubSeq(s, i + 1, n)
<1>2. /\ a \in Seq(S) /\ Len(a) = i - 1
      /\ \A j \in 1..i - 1 : a[j] = s[j]
  <2>1. /\ \A j \in 1..i - 1 : s[j] \in S /\ 1 + j - 1 = j
        /\ i - 1 \in Int /\ i - 1 - 1 + 1 = i - 1 /\ (1 > i - 1 => i - 1 = 0)
    BY <1>1
  <2>2. QED
    BY <1>1, <2>1, SubSeqProperties
<1>3. /\ b \in Seq(S) /\ Len(b) = n - i
      /\ \A j \in 1..n - i : b[j] = s[i + j]
  <2>1. /\ \A j \in i + 1..n : s[j] \in S
        /\ \A j \in 1..n - i : (i + 1) + j - 1 = i + j
        /\ i + 1 \in Int /\ n \in Int /\ n - (i + 1) + 1 = n - i /\ (i + 1 > n => n - i = 0)
    BY <1>1
  <2>2. QED
    BY <1>1, <2>1, SubSeqProperties
<1>4. RemoveAt(s, i) = a \o b
  BY <1>1 DEF RemoveAt
<1> HIDE DEF a, b
<1>5. PICK p \in Nat, q \in Nat : p = i - 1 /\ q = n - i /\ p + q = n - 1
  <2>1. i - 1 \in Nat /\ n - i \in Nat /\ (i - 1) + (n - i) = n - 1
    BY ONLY <1>1, i \in Nat, n \in Nat
  <2>2. QED
    BY ONLY <2>1
<1>6. /\ a \o b \in Seq(S) /\ Len(a \o b) = p + q
      /\ \A j \in 1..p + q : (a \o b)[j] = IF j <= p THEN a[j] ELSE b[j - p]
  <2>1. /\ a \in Seq(S) /\ b \in Seq(S) /\ Len(a) = p /\ Len(b) = q
    BY <1>2, <1>3, <1>5
  <2>2. /\ a \o b \in Seq(S) /\ Len(a \o b) = Len(a) + Len(b)
        /\ \A j \in 1..Len(a) + Len(b) : (a \o b)[j] = IF j <= Len(a) THEN a[j] ELSE b[j - Len(a)]
    BY <2>1, ConcatProperties
  <2>3. QED
    BY <2>1, <2>2
<1>7. DOMAIN (a \o b) = 1..n - 1
  BY <1>5, <1>6
<1>8. ASSUME NEW j \in 1..n - 1
      PROVE  (a \o b)[j] = IF j < i THEN s[j] ELSE s[j + 1]
  <2>1. CASE j < i
    <3>1. j \in 1..p + q /\ j <= p /\ j \in 1..i - 1
      BY <1>1, <1>5, <2>1
    <3>2. QED
      BY <1>2, <1>6, <2>1, <3>1
  <2>2. CASE ~(j < i)
    <3>1. PICK k \in 1..n - i : k = j - p /\ i + k = j + 1
      BY <1>1, <1>5, <2>2
    <3>2. j \in 1..p + q /\ ~(j <= p)
      BY <1>1, <1>5, <2>2
    <3>3. (a \o b)[j] = b[k] /\ b[k] = s[i + k]
      BY <1>3, <1>6, <3>1, <3>2
    <3>4. QED
      BY <2>2, <3>1, <3>3
  <2>3. QED
    BY <2>1, <2>2
<1>9. QED
  BY <1>1, <1>4, <1>7, <1>8

\* remove() takes the message from its one place.
LEMMA RemovedOnce ==
  ASSUME InboxType, Distinct, NEW m \in Messages, RemoveMessage(m)
  PROVE  Distinct' /\ m \in Pending /\ Pending' = Pending \ {m}
<1>1. /\ nextTurn \in Seq(Messages) /\ Len(nextTurn) \in Nat
      /\ DOMAIN nextTurn = 1..Len(nextTurn)
  BY DEF InboxType
<1>2. ASSUME NEW i \in DOMAIN nextTurn, nextTurn[i] = m, nextTurn' = RemoveAt(nextTurn, i),
             UNCHANGED nextStep
      PROVE  Distinct' /\ m \in Pending /\ Pending' = Pending \ {m}
  <2>1. /\ DOMAIN nextTurn' = 1..Len(nextTurn) - 1
        /\ \A j \in 1..Len(nextTurn) - 1 :
             nextTurn'[j] = IF j < i THEN nextTurn[j] ELSE nextTurn[j + 1]
    BY <1>1, <1>2, RemoveAtElements
  <2>2. /\ \A j \in 1..Len(nextTurn) : j < i => j \in DOMAIN nextTurn' /\ nextTurn'[j] = nextTurn[j]
        /\ \A j \in 1..Len(nextTurn) : i < j => /\ j - 1 \in DOMAIN nextTurn'
                                               /\ nextTurn'[j - 1] = nextTurn[j]
    BY <1>1, <1>2, <2>1
  <2>3. Distinct'
    <3>1. ASSUME NEW j \in DOMAIN nextTurn', NEW k \in DOMAIN nextTurn', nextTurn'[j] = nextTurn'[k]
          PROVE  j = k
      <4>1. /\ j \in Int /\ k \in Int /\ i \in Int
            /\ (IF j < i THEN j ELSE j + 1) \in DOMAIN nextTurn
            /\ (IF k < i THEN k ELSE k + 1) \in DOMAIN nextTurn
            /\ nextTurn[IF j < i THEN j ELSE j + 1] = nextTurn[IF k < i THEN k ELSE k + 1]
        BY <1>1, <1>2, <2>1, <3>1
      <4>2. (IF j < i THEN j ELSE j + 1) = (IF k < i THEN k ELSE k + 1)
        BY <4>1 DEF Distinct
      <4>3. QED
        BY <4>1, <4>2
    <3>2. ASSUME NEW j \in DOMAIN nextTurn' PROVE nextTurn'[j] \notin nextStep'
      BY <1>1, <1>2, <2>1, <3>2 DEF Distinct
    <3>3. QED
      BY <3>1, <3>2 DEF Distinct
  <2>4. m \notin nextStep
    BY <1>2 DEF Distinct
  <2>5. ToSet(nextTurn)' = ToSet(nextTurn) \ {m}
    <3>1. \A j \in DOMAIN nextTurn : nextTurn[j] = m => j = i
      BY <1>2 DEF Distinct
    <3>2. \A j \in DOMAIN nextTurn : j # i => nextTurn[j] \in ToSet(nextTurn)'
      BY <1>1, <1>2, <2>2 DEF ToSet
    <3>3. \A j \in DOMAIN nextTurn' : nextTurn'[j] \in ToSet(nextTurn) \ {m}
      BY <1>1, <1>2, <2>1, <3>1 DEF ToSet
    <3>4. QED
      BY <3>1, <3>2, <3>3, <1>2 DEF ToSet
  <2>6. m \in ToSet(nextTurn)
    BY <1>2 DEF ToSet
  <2>7. QED
    BY <1>2, <2>3, <2>4, <2>5, <2>6 DEF Pending
<1>3. CASE m \in nextStep /\ nextStep' = nextStep \ {m} /\ UNCHANGED nextTurn
  <2>1. m \notin ToSet(nextTurn)
    BY <1>3 DEF Distinct, ToSet
  <2>2. Distinct'
    BY <1>3 DEF Distinct
  <2>3. QED
    BY <1>3, <2>1, <2>2 DEF Pending
<1>4. QED
  BY <1>2, <1>3 DEF RemoveMessage

\* replace() puts the new message at the place of the old one.
LEMMA ReplacedOnce ==
  ASSUME InboxType, Distinct, Pending \subseteq sent,
         NEW m \in Messages, NEW n \in Messages, ReplaceMessage(m, n)
  PROVE  Distinct' /\ m \in Pending /\ n \notin sent /\ Pending' = (Pending \ {m}) \cup {n}
<1>1. m \in Pending /\ n \notin sent /\ n # m
  BY DEF ReplaceMessage
<1>2. /\ DOMAIN nextTurn' = DOMAIN nextTurn
      /\ \A i \in DOMAIN nextTurn : nextTurn'[i] = IF nextTurn[i] = m THEN n ELSE nextTurn[i]
      /\ nextStep' = IF m \in nextStep THEN (nextStep \ {m}) \cup {n} ELSE nextStep
  BY DEF ReplaceMessage
<1>3. n \notin nextStep /\ \A i \in DOMAIN nextTurn : nextTurn[i] # n
  BY <1>1 DEF Pending, ToSet
<1>4. Distinct'
  BY <1>2, <1>3 DEF Distinct
<1>5. \A i \in DOMAIN nextTurn : nextTurn'[i] \in (Pending \ {m}) \cup {n}
  BY <1>2 DEF Pending, ToSet
<1>6. \A i \in DOMAIN nextTurn : nextTurn[i] # m => nextTurn[i] \in Pending'
  BY <1>2 DEF Pending, ToSet
<1>7. n \in Pending'
  <2>1. CASE m \in nextStep
    BY <1>2, <2>1 DEF Pending
  <2>2. CASE m \in ToSet(nextTurn)
    <3>1. PICK i \in DOMAIN nextTurn : nextTurn[i] = m
      BY <2>2 DEF ToSet
    <3>2. nextTurn'[i] = n
      BY <1>2, <3>1
    <3>3. QED
      BY <1>2, <3>1, <3>2 DEF Pending, ToSet
  <2>3. QED
    BY <1>1, <2>1, <2>2 DEF Pending
<1>8. m \notin Pending'
  BY <1>1, <1>2 DEF Pending, ToSet
<1>9. Pending' \subseteq (Pending \ {m}) \cup {n}
  <2>1. nextStep' \subseteq (Pending \ {m}) \cup {n}
    BY <1>2 DEF Pending
  <2>2. ToSet(nextTurn)' \subseteq (Pending \ {m}) \cup {n}
    BY <1>2, <1>5 DEF ToSet
  <2>3. QED
    BY <2>1, <2>2 DEF Pending
<1>10. Pending \ {m} \subseteq Pending'
  <2>1. nextStep \ {m} \subseteq Pending'
    BY <1>2 DEF Pending
  <2>2. ToSet(nextTurn) \ {m} \subseteq Pending'
    BY <1>6 DEF ToSet
  <2>3. QED
    BY <2>1, <2>2 DEF Pending
<1>11. QED
  BY <1>1, <1>4, <1>7, <1>8, <1>9, <1>10

\* Steps that leave the inbox alone: the batch is never added to, and only a claim
\* proposes one.
LEMMA OnwardPaused ==
  ASSUME FateInv, UNCHANGED <<pc, batch, toAdmit, attempts>>
  PROVE  Onward
  BY DEF FateInv, Claimed, Onward, Proposing, Shown, Attempting, FirstAttempt

LEMMA OnwardPassed ==
  ASSUME pc' \notin {"preStep", "decided", "rejected", "preparing", "admitting", "streaming",
                     "requestError", "tools", "stepDone", "stepClosed"}
  PROVE  Onward
  BY DEF Onward, Proposing, Shown, Attempting

LEMMA ShownEntered == Claimed => EnteredAdmitted
  BY DEF Claimed, Shown, EnteredAdmitted

LEMMA ClaimedKept ==
  ASSUME FateInv, UNCHANGED admits, batch' \subseteq batch, Onward,
         sent \ Pending \subseteq sent' \ Pending'
  PROVE  Claimed'
<1>1. batch' \subseteq sent' \ Pending'
  BY DEF FateInv, Claimed
<1>2. /\ Proposing' => \A m \in batch' : admits'[m] = 0
      /\ Shown' => \A m \in batch' : admits'[m] = 1
  BY DEF FateInv, Claimed, Onward
<1>3. ASSUME pc' = "admitting"
      PROVE  /\ toAdmit' \subseteq batch'
             /\ \A m \in batch' : admits'[m] = IF m \in toAdmit' THEN 0 ELSE 1
  <2>1. UNCHANGED <<pc, toAdmit, batch>>
    BY <1>3 DEF Onward
  <2>2. QED
    BY <1>3, <2>1 DEF FateInv, Claimed
<1>4. Attempting' => ~FirstAttempt'
  BY DEF Onward
<1>5. QED
  BY <1>1, <1>2, <1>3, <1>4 DEF Claimed

LEMMA FateKept ==
  ASSUME FateInv, UNCHANGED <<nextTurn, nextStep, sent, outcomes, admits>>,
         batch' \subseteq batch, Onward
  PROVE  FateInv'
<1>1. Pending' = Pending
  BY DEF Pending, ToSet
<1>2. Distinct'
  BY DEF FateInv, Distinct
<1>3. ExactlyOneOutcome' /\ AdmittedOnce'
  BY <1>1 DEF FateInv, OneFate, ExactlyOneOutcome, AdmittedOnce
<1>4. Claimed'
  BY <1>1, ClaimedKept
<1>5. EnteredAdmitted'
  BY <1>4 DEF Claimed, Shown, EnteredAdmitted
<1>6. QED
  BY <1>2, <1>3, <1>4, <1>5 DEF FateInv, OneFate

\* A message is inserted while the step goes on, or ends.
LEMMA FateInserted ==
  ASSUME InboxType, FateInv, NEW m \in Messages, m \notin sent,
         NEW box, NEW first \in BOOLEAN, Insert(m, box, first),
         UNCHANGED <<outcomes, admits, batch>>, Onward
  PROVE  FateInv'
<1>1. Pending \subseteq sent
  BY DEF FateInv, OneFate, ExactlyOneOutcome
<1>2. Distinct' /\ Pending' = Pending \cup {m} /\ sent' = sent \cup {m}
  BY <1>1, InsertedOnce DEF FateInv
<1>3. Pending' \subseteq sent' /\ sent' \ Pending' = sent \ Pending
  BY <1>1, <1>2
<1>4. ExactlyOneOutcome' /\ AdmittedOnce'
  BY <1>3 DEF FateInv, OneFate, ExactlyOneOutcome, AdmittedOnce
<1>5. Claimed'
  BY <1>3, ClaimedKept
<1>6. EnteredAdmitted'
  BY <1>5 DEF Claimed, Shown, EnteredAdmitted
<1>7. QED
  BY <1>2, <1>4, <1>5, <1>6 DEF FateInv, OneFate

\* Pending messages get their one notification.
LEMMA FateNotified ==
  ASSUME TypeOK, FateInv, NEW S, S \subseteq Pending, Pending' \subseteq sent',
         sent' \ Pending' = (sent \ Pending) \cup S,
         outcomes' = Discarded(S), UNCHANGED admits
  PROVE  ExactlyOneOutcome' /\ AdmittedOnce'
<1>1. \A m \in S : m \in Messages /\ outcomes[m] = 0 /\ m \notin sent \ Pending
  BY DEF FateInv, OneFate, ExactlyOneOutcome, InboxType, TypeOK
<1>2. \A m \in Messages : outcomes'[m] = IF m \in sent' \ Pending' THEN 1 ELSE 0
  <2> TAKE m \in Messages
  <2>1. outcomes'[m] = IF m \in S THEN outcomes[m] + 1 ELSE outcomes[m]
    BY DEF Discarded
  <2>2. outcomes[m] = IF m \in sent \ Pending THEN 1 ELSE 0
    BY DEF FateInv, OneFate, ExactlyOneOutcome
  <2>3. QED
    BY <1>1, <2>1, <2>2
<1>3. \A m \in Messages : admits'[m] <= IF m \in sent' \ Pending' THEN 1 ELSE 0
  <2> TAKE m \in Messages
  <2>1. admits[m] <= IF m \in sent \ Pending THEN 1 ELSE 0
    BY DEF FateInv, OneFate, AdmittedOnce
  <2>2. CASE m \in S
    <3>1. admits[m] <= 0
      BY <1>1, <2>1, <2>2
    <3>2. m \in sent' \ Pending' /\ admits'[m] = admits[m]
      BY <2>2
    <3>3. admits[m] \in Nat
      BY DEF TypeOK, LogType
    <3>4. QED
      BY <3>1, <3>2, <3>3
  <2>3. CASE m \notin S
    BY <2>1, <2>3
  <2>4. QED
    BY <2>2, <2>3
<1>4. QED
  BY <1>2, <1>3 DEF ExactlyOneOutcome, AdmittedOnce

\* A caller takes messages back.
LEMMA FateDiscarded ==
  ASSUME TypeOK, FateInv, NEW S, S \subseteq Pending, Distinct', Pending' \subseteq sent',
         sent' \ Pending' = (sent \ Pending) \cup S,
         outcomes' = Discarded(S), UNCHANGED <<admits, batch, toAdmit, pc, attempts>>
  PROVE  FateInv'
<1>1. ExactlyOneOutcome' /\ AdmittedOnce'
  BY FateNotified
<1>2. Onward
  BY OnwardPaused
<1>3. Claimed'
  BY <1>2, ClaimedKept
<1>4. EnteredAdmitted'
  BY <1>3 DEF Claimed, Shown, EnteredAdmitted
<1>5. QED
  BY <1>1, <1>3, <1>4 DEF FateInv, OneFate

\* The splices of Inbox.clear() discard what they take out.
LEMMA FateCleared ==
  ASSUME TypeOK, FateInv, ClearInput \/ ClearPrompts,
         UNCHANGED <<admits, batch, toAdmit, pc, attempts>>
  PROVE  FateInv'
<1>0. Pending \subseteq sent /\ Distinct
  BY DEF FateInv, OneFate, ExactlyOneOutcome
<1>1. ToSet(nextTurn) \cap nextStep = {}
  BY <1>0 DEF Distinct, ToSet
<1>2. CASE ClearInput
  <2>1. /\ nextStep' = {} /\ UNCHANGED <<nextTurn, sent>>
        /\ outcomes' = Discarded(nextStep)
    BY <1>2 DEF ClearInput
  <2>2. nextStep \subseteq Pending /\ Pending' = Pending \ nextStep
    BY <1>1, <2>1 DEF Pending, ToSet
  <2>3. Distinct'
    BY <1>0, <2>1 DEF Distinct
  <2>4. Pending' \subseteq sent' /\ sent' \ Pending' = (sent \ Pending) \cup nextStep
    BY <1>0, <2>1, <2>2
  <2>5. QED
    BY <2>1, <2>2, <2>3, <2>4, FateDiscarded
<1>3. CASE ClearPrompts
  <2>1. /\ nextTurn' = <<>> /\ UNCHANGED <<nextStep, sent>>
        /\ outcomes' = Discarded(ToSet(nextTurn))
    BY <1>3 DEF ClearPrompts
  <2>2. DOMAIN nextTurn' = {}
    BY <2>1
  <2>3. ToSet(nextTurn)' = {}
    BY <2>2 DEF ToSet
  <2>4. ToSet(nextTurn) \subseteq Pending /\ Pending' = Pending \ ToSet(nextTurn)
    BY <1>1, <2>1, <2>3 DEF Pending
  <2>5. Distinct'
    BY <2>2 DEF Distinct
  <2>6. Pending' \subseteq sent' /\ sent' \ Pending' = (sent \ Pending) \cup ToSet(nextTurn)
    BY <1>0, <2>1, <2>4
  <2>7. QED
    BY <2>1, <2>4, <2>5, <2>6, FateDiscarded
<1>4. QED
  BY <1>2, <1>3

LEMMA FateCaller ==
  ASSUME TypeOK, FateInv, Caller
  PROVE  FateInv'
<1>0. InboxType /\ Pending \subseteq sent /\ Distinct
  BY DEF TypeOK, FateInv, OneFate, ExactlyOneOutcome
<1>1. ASSUME NEW m \in Messages, NEW box \in Boxes, NEW wakeup \in BOOLEAN, Send(m, box, wakeup)
      PROVE  FateInv'
  <2>1. /\ m \notin sent /\ \E b \in Boxes : Insert(m, b, FALSE)
        /\ UNCHANGED <<outcomes, admits, batch, toAdmit, pc, attempts>>
    BY <1>1 DEF Send, Boxes, localVars, logVars
  <2>2. Onward
    BY <2>1, OnwardPaused
  <2>3. QED
    BY <1>0, <2>1, <2>2, FateInserted
<1>2. ASSUME NEW m \in Messages, NEW box \in Boxes, Prepend(m, box)
      PROVE  FateInv'
  <2>1. /\ m \notin sent /\ Insert(m, box, TRUE)
        /\ UNCHANGED <<outcomes, admits, batch, toAdmit, pc, attempts>>
    BY <1>2 DEF Prepend, localVars, logVars
  <2>2. Onward
    BY <2>1, OnwardPaused
  <2>3. QED
    BY <1>0, <2>1, <2>2, FateInserted
<1>3. ASSUME NEW m \in Messages, RemoveMessage(m) PROVE FateInv'
  <2>1. Distinct' /\ m \in Pending /\ Pending' = Pending \ {m}
    BY <1>0, <1>3, RemovedOnce
  <2>2. /\ sent' = sent /\ outcomes' = Discarded({m})
        /\ UNCHANGED <<admits, batch, toAdmit, pc, attempts>>
    BY <1>3 DEF RemoveMessage, localVars, logVars
  <2>3. Pending' \subseteq sent' /\ sent' \ Pending' = (sent \ Pending) \cup {m}
    BY <1>0, <2>1, <2>2
  <2>4. QED
    BY <1>0, <2>1, <2>2, <2>3, FateDiscarded
<1>4. ASSUME NEW m \in Messages, NEW n \in Messages, ReplaceMessage(m, n)
      PROVE  FateInv'
  <2>1. Distinct' /\ m \in Pending /\ n \notin sent /\ Pending' = (Pending \ {m}) \cup {n}
    BY <1>0, <1>4, ReplacedOnce
  <2>2. /\ sent' = sent \cup {n} /\ outcomes' = Discarded({m})
        /\ UNCHANGED <<admits, batch, toAdmit, pc, attempts>>
    BY <1>4 DEF ReplaceMessage, localVars, logVars
  <2>3. Pending' \subseteq sent' /\ sent' \ Pending' = (sent \ Pending) \cup {m}
    BY <1>0, <2>1, <2>2
  <2>4. QED
    BY <1>0, <2>1, <2>2, <2>3, FateDiscarded
<1>5. ASSUME NEW cause \in Causes, NEW keepInbox \in BOOLEAN, Cancel(cause, keepInbox)
      PROVE  FateInv'
  <2>1. UNCHANGED <<admits, batch, toAdmit, pc, attempts>>
    BY <1>5 DEF Cancel, localVars, logVars
  <2>2. CASE UNCHANGED inboxVars
    <3>1. UNCHANGED <<nextTurn, nextStep, sent, outcomes>>
      BY <2>2 DEF inboxVars
    <3>2. QED
      BY <2>1, <3>1, OnwardPaused, FateKept
  <2>3. CASE ClearInput \/ ClearPrompts
    BY <2>1, <2>3, FateCleared
  <2>4. QED
    BY <1>5, <2>2, <2>3 DEF Cancel
<1>6. CASE RunMaintenance
  <2>1. UNCHANGED <<nextTurn, nextStep, sent, outcomes, admits, batch, toAdmit, pc, attempts>>
    BY <1>6 DEF RunMaintenance, inboxVars, localVars, logVars
  <2>2. Onward
    BY <2>1, OnwardPaused
  <2>3. QED
    BY <2>1, <2>2, FateKept
<1>7. QED
  BY <1>1, <1>2, <1>3, <1>4, <1>5, <1>6 DEF Caller

\* The claim takes pending messages, which were never shown to the model.
LEMMA FateClaim ==
  ASSUME TypeOK, FateInv, Claim, abort = Live
  PROVE  FateInv'
<1> DEFINE prompt == IF target = "next-turn" /\ nextTurn # <<>> THEN {Head(nextTurn)} ELSE {}
<1>1. /\ batch' = nextStep \cup prompt /\ nextStep' = {}
      /\ nextTurn' = IF prompt = {} THEN nextTurn ELSE Tail(nextTurn)
      /\ outcomes' = Discarded(batch') /\ pc' = "preStep"
      /\ UNCHANGED <<sent, admits>>
  BY DEF Claim
<1>2. /\ nextTurn \in Seq(Messages) /\ Len(nextTurn) \in Nat
      /\ DOMAIN nextTurn = 1..Len(nextTurn) /\ InboxType
  BY DEF TypeOK, InboxType
<1>3. Pending \subseteq sent /\ Distinct
  BY DEF FateInv, OneFate, ExactlyOneOutcome
<1>4. Distinct' /\ batch' \subseteq Pending /\ Pending' = Pending \ batch'
  <2>1. CASE target = "next-turn" /\ nextTurn # <<>>
    <3>1. /\ prompt = {Head(nextTurn)} /\ nextTurn' = Tail(nextTurn)
          /\ Head(nextTurn) = nextTurn[1] /\ 1 \in DOMAIN nextTurn
      <4>1. prompt = {Head(nextTurn)} /\ prompt # {}
        BY <2>1
      <4>2. nextTurn' = Tail(nextTurn)
        BY <1>1, <4>1
      <4>3. Head(nextTurn) = nextTurn[1] /\ 1 \in DOMAIN nextTurn
        BY <1>2, <2>1
      <4>4. QED
        BY <4>1, <4>2, <4>3
    <3>2. /\ DOMAIN nextTurn' = 1..Len(nextTurn) - 1
          /\ \A i \in 1..Len(nextTurn) - 1 : nextTurn'[i] = nextTurn[i + 1]
      <4>1. /\ Tail(nextTurn) \in Seq(Messages) /\ Len(Tail(nextTurn)) = Len(nextTurn) - 1
            /\ \A i \in 1..Len(Tail(nextTurn)) : Tail(nextTurn)[i] = nextTurn[i + 1]
        BY <1>2, <2>1, HeadTailProperties
      <4>2. DOMAIN Tail(nextTurn) = 1..Len(nextTurn) - 1
        BY <4>1
      <4>3. QED
        BY <3>1, <4>1, <4>2
    <3>3. \A i \in 1..Len(nextTurn) : i # 1 => i - 1 \in DOMAIN nextTurn' /\ nextTurn'[i - 1] = nextTurn[i]
      BY <1>2, <3>2
    <3>4. Distinct'
      <4>1. ASSUME NEW i \in DOMAIN nextTurn', NEW j \in DOMAIN nextTurn', nextTurn'[i] = nextTurn'[j]
            PROVE  i = j
        <5>1. /\ i \in Nat /\ j \in Nat /\ i + 1 \in DOMAIN nextTurn /\ j + 1 \in DOMAIN nextTurn
              /\ nextTurn[i + 1] = nextTurn[j + 1]
          BY <1>2, <3>2, <4>1
        <5>2. i + 1 = j + 1
          BY <1>3, <5>1 DEF Distinct
        <5>3. QED
          BY <5>1, <5>2
      <4>2. \A i \in DOMAIN nextTurn' : nextTurn'[i] \notin nextStep'
        BY <1>1
      <4>3. QED
        BY <4>1, <4>2 DEF Distinct
    <3>5. \A i \in DOMAIN nextTurn : nextTurn[i] = nextTurn[1] => i = 1
      BY <1>3, <3>1 DEF Distinct
    <3>6. \A i \in DOMAIN nextTurn : nextTurn[i] \notin nextStep
      BY <1>3 DEF Distinct
    <3>7. ToSet(nextTurn)' = ToSet(nextTurn) \ {nextTurn[1]}
      <4>1. \A i \in DOMAIN nextTurn : i # 1 => nextTurn[i] \in ToSet(nextTurn)'
        BY <1>2, <3>3 DEF ToSet
      <4>2. \A i \in DOMAIN nextTurn' : nextTurn'[i] \in ToSet(nextTurn) \ {nextTurn[1]}
        BY <1>2, <3>2, <3>5 DEF ToSet
      <4>3. QED
        BY <3>5, <4>1, <4>2 DEF ToSet
    <3>8. nextTurn[1] \in ToSet(nextTurn) /\ batch' = nextStep \cup {nextTurn[1]}
      BY <1>1, <3>1 DEF ToSet
    <3>9. ToSet(nextTurn) \cap nextStep = {}
      BY <3>6 DEF ToSet
    <3>10. QED
      BY <1>1, <3>4, <3>7, <3>8, <3>9 DEF Pending
  <2>2. CASE ~(target = "next-turn" /\ nextTurn # <<>>)
    <3>1. prompt = {} /\ nextTurn' = nextTurn /\ batch' = nextStep
      BY <1>1, <2>2
    <3>2. ToSet(nextTurn) \cap nextStep = {} /\ Distinct'
      BY <1>1, <1>3, <3>1 DEF Distinct, ToSet
    <3>3. QED
      BY <1>1, <3>1, <3>2 DEF Pending
  <2>3. QED
    BY <2>1, <2>2
<1> HIDE DEF prompt
<1>5. Pending' \subseteq sent' /\ sent' \ Pending' = (sent \ Pending) \cup batch'
  BY <1>1, <1>3, <1>4
<1>6. ExactlyOneOutcome' /\ AdmittedOnce'
  BY <1>1, <1>2, <1>4, <1>5, FateNotified
<1>7. \A m \in batch' : admits'[m] = 0
  <2> TAKE m \in batch'
  <2>1. m \in Messages /\ m \in Pending
    BY <1>2, <1>3, <1>4 DEF InboxType
  <2>2. admits[m] <= 0 /\ admits[m] \in Nat
    BY <2>1 DEF FateInv, OneFate, AdmittedOnce, TypeOK, LogType
  <2>3. QED
    BY <1>1, <2>2
<1>8. Claimed'
  BY <1>1, <1>5, <1>7 DEF Claimed, Attempting, Shown
<1>9. EnteredAdmitted'
  BY <1>1 DEF EnteredAdmitted
<1>10. QED
  BY <1>4, <1>6, <1>8, <1>9 DEF FateInv, OneFate

\* The first attempt has the batch to show, the later ones have not.
LEMMA FateBegin ==
  ASSUME TypeOK, FateInv, BeginRequest
  PROVE  FateInv'
<1>1. /\ UNCHANGED <<nextTurn, nextStep, sent, outcomes, batch, admits>>
      /\ pc' = "admitting" /\ attempts' = attempts + 1 /\ pc = "preparing"
      /\ toAdmit' = IF FirstAttempt THEN batch ELSE {}
  BY DEF BeginRequest, Driving, inboxVars
<1>2. Pending' = Pending
  BY <1>1 DEF Pending, ToSet
<1>3. Distinct' /\ ExactlyOneOutcome' /\ AdmittedOnce'
  BY <1>1, <1>2 DEF FateInv, Distinct, OneFate, ExactlyOneOutcome, AdmittedOnce
<1>4. attempts' # 0
  BY <1>1 DEF TypeOK, LocalType
<1>5. \A m \in batch : admits[m] = IF FirstAttempt THEN 0 ELSE 1
  BY <1>1 DEF FateInv, Claimed, Proposing, Shown
<1>6. toAdmit' \subseteq batch /\ \A m \in batch : admits[m] = IF m \in toAdmit' THEN 0 ELSE 1
  BY <1>1, <1>5
<1>7. Claimed'
  BY <1>1, <1>2, <1>4, <1>6
     DEF FateInv, Claimed, Proposing, Shown, Attempting, FirstAttempt
<1>8. EnteredAdmitted'
  BY <1>1 DEF EnteredAdmitted
<1>9. QED
  BY <1>3, <1>7, <1>8 DEF FateInv, OneFate

\* One message of it is shown.
LEMMA FateAdmit ==
  ASSUME TypeOK, FateInv, NEW n \in Messages, AdmitMessage(n)
  PROVE  FateInv'
<1>1. /\ UNCHANGED <<nextTurn, nextStep, sent, outcomes, batch, pc, attempts>>
      /\ pc = "admitting" /\ n \in toAdmit /\ toAdmit' = toAdmit \ {n}
      /\ admits' = [admits EXCEPT ![n] = @ + 1]
  BY DEF AdmitMessage, Driving, inboxVars
<1>2. Pending' = Pending
  BY <1>1 DEF Pending, ToSet
<1>3. Distinct' /\ ExactlyOneOutcome'
  BY <1>1, <1>2 DEF FateInv, Distinct, OneFate, ExactlyOneOutcome
<1>4. n \in batch /\ admits[n] = 0 /\ n \in sent \ Pending
  BY <1>1 DEF FateInv, Claimed
<1>5. /\ admits'[n] = 1
      /\ \A m \in Messages : m # n => admits'[m] = admits[m]
  BY <1>1, <1>4 DEF TypeOK, LogType
<1>6. AdmittedOnce'
  <2> SUFFICES ASSUME NEW m \in Messages
               PROVE  admits'[m] <= IF m \in sent \ Pending THEN 1 ELSE 0
    BY <1>1, <1>2 DEF AdmittedOnce
  <2>1. CASE m = n
    BY <1>4, <1>5, <2>1
  <2>2. CASE m # n
    BY <1>5, <2>2 DEF FateInv, OneFate, AdmittedOnce
  <2>3. QED
    BY <2>1, <2>2
<1>7. /\ toAdmit' \subseteq batch
      /\ \A m \in batch : admits'[m] = IF m \in toAdmit' THEN 0 ELSE 1
  <2>1. /\ toAdmit \subseteq batch /\ batch \subseteq Messages
        /\ \A m \in batch : admits[m] = IF m \in toAdmit THEN 0 ELSE 1
    BY <1>1 DEF FateInv, Claimed, TypeOK, LocalType
  <2>2. QED
    BY <1>1, <1>5, <2>1
<1>8. Claimed'
  BY <1>1, <1>2, <1>7 DEF FateInv, Claimed, Proposing, Shown, Attempting, FirstAttempt
<1>9. EnteredAdmitted'
  BY <1>1 DEF EnteredAdmitted
<1>10. QED
  BY <1>3, <1>6, <1>8, <1>9 DEF FateInv, OneFate

\* All of it is shown when the stream opens.
LEMMA FateStream ==
  ASSUME TypeOK, FateInv, OpenStream
  PROVE  FateInv'
<1>1. /\ UNCHANGED <<nextTurn, nextStep, sent, outcomes, batch, admits, attempts>>
      /\ pc = "admitting" /\ toAdmit = {} /\ pc' = "streaming"
  BY DEF OpenStream, Driving, inboxVars
<1>2. Pending' = Pending
  BY <1>1 DEF Pending, ToSet
<1>3. Distinct' /\ ExactlyOneOutcome' /\ AdmittedOnce'
  BY <1>1, <1>2 DEF FateInv, Distinct, OneFate, ExactlyOneOutcome, AdmittedOnce
<1>4. \A m \in batch : admits[m] = 1
  BY <1>1 DEF FateInv, Claimed
<1>5. Claimed'
  BY <1>1, <1>2, <1>4 DEF FateInv, Claimed, Proposing, Shown, Attempting, FirstAttempt
<1>6. EnteredAdmitted'
  BY <1>1, <1>4 DEF EnteredAdmitted
<1>7. QED
  BY <1>3, <1>5, <1>6 DEF FateInv, OneFate

LEMMA FateDriver ==
  ASSUME TypeOK, FateInv, Driver
  PROVE  FateInv'
<1> DEFINE Kept == UNCHANGED <<nextTurn, nextStep, sent, outcomes, admits>>
           Passed == pc' \notin {"preStep", "decided", "rejected", "preparing", "admitting",
                                 "streaming", "requestError", "tools", "stepDone",
                                 "stepClosed"}
           Paused == UNCHANGED <<pc, batch, toAdmit, attempts>>
<1>0. InboxType /\ (Attempting => ~FirstAttempt)
  BY DEF TypeOK, FateInv, Claimed
<1>1. ASSUME Kept, batch' \subseteq batch, Passed PROVE FateInv'
  BY <1>1, OnwardPassed, FateKept
<1>2. ASSUME Kept, Paused PROVE FateInv'
  BY <1>2, OnwardPaused, FateKept
<1>3. CASE SendWakes \/ ReplayWake \/ EndMaintenance
  <2>1. Kept /\ batch' = batch
    BY <1>3 DEF SendWakes, ReplayWake, EndMaintenance, inboxVars, localVars, logVars
  <2>2. Passed \/ Paused
    BY <1>3 DEF SendWakes, ReplayWake, EndMaintenance, WakeDriver, StartDriver, localVars
  <2>3. QED
    BY <1>1, <1>2, <2>1, <2>2
<1>21. CASE CancelPrompts \/ CancelAborts
  <2>1. Paused /\ UNCHANGED admits
    BY <1>21 DEF CancelPrompts, CancelAborts, localVars, logVars
  <2>2. UNCHANGED inboxVars \/ ClearPrompts
    BY <1>21 DEF CancelPrompts, CancelAborts
  <2>3. CASE UNCHANGED inboxVars
    BY <1>2, <2>1, <2>3 DEF inboxVars
  <2>4. CASE ClearPrompts
    BY <2>1, <2>4, FateCleared
  <2>5. QED
    BY <2>2, <2>3, <2>4
<1>4. CASE OpenTurn
  BY <1>1, <1>4 DEF OpenTurn, inboxVars
<1>5. CASE Claim
  <2>1. CASE abort # Live
    BY <1>1, <1>5, <2>1 DEF Claim, Catch, inboxVars
  <2>2. QED
    BY <1>5, <2>1, FateClaim
<1>6. CASE PreStepThrows \/ CloseBlocked
  BY <1>1, <1>6 DEF PreStepThrows, CloseBlocked, Catch, EndTurn, inboxVars
<1>7. CASE PreStepEnters \/ PreStepRejects
  <2>1. Kept /\ batch' \subseteq batch
    BY <1>7 DEF PreStepEnters, PreStepRejects, inboxVars, localVars, logVars
  <2>2. pc = "preStep" /\ pc' \in {"decided", "rejected"}
    BY <1>7 DEF PreStepEnters, PreStepRejects, Driving
  <2>3. Onward
    BY <2>2 DEF Onward, Proposing, Shown, Attempting
  <2> HIDE DEF Kept, Passed
  <2>4. QED
    BY <2>1, <2>3, FateKept DEF Kept
<1>8. CASE EnterStep
  <2>1. Kept /\ batch' = batch /\ pc = "decided"
    BY <1>8 DEF EnterStep, Driving, inboxVars
  <2>2. Passed \/ (pc' = "preparing" /\ attempts' = 0)
    BY <1>8 DEF EnterStep, EndTurn, Catch
  <2>3. CASE pc' = "preparing" /\ attempts' = 0
    <3>1. Onward
      BY <2>1, <2>3 DEF Onward, Proposing, Shown, Attempting, FirstAttempt
    <3>2. QED
      BY <2>1, <3>1, FateKept
  <2>4. QED
    BY <1>1, <2>1, <2>2, <2>3
<1>9. CASE BeginRequest
  BY <1>9, FateBegin
<1>22. ASSUME NEW m \in Messages, AdmitMessage(m) PROVE FateInv'
  BY <1>22, FateAdmit
<1>23. CASE OpenStream
  BY <1>23, FateStream
<1>24. ASSUME Kept, batch' = batch, Shown, ~Attempting' \/ ~FirstAttempt', ~Proposing',
              pc' # "admitting"
       PROVE  FateInv'
  <2>1. Onward
    BY <1>24 DEF Onward
  <2> HIDE DEF Kept
  <2>2. QED
    BY <1>24, <2>1, FateKept DEF Kept
<1>10. CASE AttemptFails \/ Retry
  <2>1. Kept /\ UNCHANGED <<batch, attempts>>
    BY <1>10 DEF AttemptFails, Retry, inboxVars
  <2>2. Attempting /\ Shown /\ pc' \in {"requestError", "preparing"}
    BY <1>10 DEF AttemptFails, Retry, Driving, Attempting, Shown
  <2>3. ~FirstAttempt' /\ ~Proposing'
    BY <1>0, <2>1, <2>2 DEF FirstAttempt, Proposing
  <2>4. QED
    BY <1>24, <2>1, <2>2, <2>3
<1>11. ASSUME NEW calls, NEW end, Answer(calls, end) PROVE FateInv'
  <2>1. Kept /\ batch' = batch /\ Shown
    BY <1>11 DEF Answer, inboxVars, Driving, Shown
  <2>2. pc' \in {"tools", "stepDone"}
    BY <1>11 DEF Answer
  <2>3. QED
    BY <1>24, <2>1, <2>2 DEF Proposing, Attempting
<1>12. CASE CommitResult \/ RecoverResult
  BY <1>2, <1>12 DEF CommitResult, RecoverResult, StepUnchanged, inboxVars
<1>13. CASE StepThrows
  BY <1>1, <1>13 DEF StepThrows, inboxVars
<1>14. ASSUME NEW m \in Messages, SpliceContexts(m), UNCHANGED <<outcomes, admits, batch>>,
              Onward
       PROVE  FateInv'
  <2>2. CASE UNCHANGED <<nextTurn, nextStep, sent>>
    BY <1>14, <2>2, FateKept
  <2>3. CASE m \notin sent /\ Insert(m, "next-step", FALSE)
    BY <1>0, <1>14, <2>3, FateInserted
  <2>4. QED
    BY <1>14, <2>2, <2>3 DEF SpliceContexts
<1>15. ASSUME NEW m \in Messages, NEW end, ToolsSettle(m, end) \/ ToolsFail(m) PROVE FateInv'
  <2>1. /\ SpliceContexts(m) /\ UNCHANGED <<outcomes, admits, batch>>
        /\ pc = "tools" /\ pc' \in {"stepDone", "recovering"}
    BY <1>15 DEF ToolsSettle, ToolsFail, Driving
  <2>2. Onward
    BY <2>1 DEF Onward, Proposing, Shown, Attempting
  <2>3. QED
    BY <1>14, <2>1, <2>2
<1>16. CASE CloseFailedStep
  BY <1>1, <1>16 DEF CloseFailedStep, inboxVars, localVars
<1>25. CASE CloseStep
  <2>1. Kept /\ batch' = batch /\ Shown /\ pc' = "stepClosed"
    BY <1>25 DEF CloseStep, inboxVars, Driving, Shown
  <2>2. QED
    BY <1>24, <2>1 DEF Proposing, Attempting
<1>17. CASE CatchFailedStep \/ AfterStep \/ Stopped \/ CloseFailedTurn
  <2>1. Kept /\ batch' = batch
    BY <1>17 DEF CatchFailedStep, AfterStep, Stopped, CloseFailedTurn, ClosingUnchanged, inboxVars
  <2>2. Passed
    BY <1>17 DEF CatchFailedStep, AfterStep, Stopped, CloseFailedTurn, Catch, EndTurn, ContinueTurn
  <2>3. QED
    BY <1>1, <2>1, <2>2
<1>18. CASE AfterTurn \/ Retire
  <2>1. Kept /\ batch' \subseteq batch
    BY <1>18 DEF AfterTurn, Retire, inboxVars, localVars, logVars
  <2>2. Passed
    BY <1>18 DEF AfterTurn, Retire, StartDriver
  <2>3. QED
    BY <1>1, <2>1, <2>2
<1> HIDE DEF Kept, Passed, Paused
<1>19. CASE ModelAndTools
  BY <1>9, <1>10, <1>11, <1>12, <1>13, <1>15, <1>19, <1>22, <1>23 DEF ModelAndTools
<1>20. QED
  BY <1>3, <1>4, <1>5, <1>6, <1>7, <1>8, <1>12, <1>16, <1>17, <1>18, <1>19, <1>21, <1>25
  DEF Driver

\* A message is notified once when it leaves the inbox and shown to the model once at
\* most, and a model that is asked was shown all of its step's batch, however claims,
\* retries, splices and cancels race.
THEOREM EveryMessageOneFate == Spec => []OneFate
<1>1. Init => FateInv
  <2> SUFFICES ASSUME Init PROVE FateInv
    OBVIOUS
  <2>1. DOMAIN nextTurn = {} /\ nextStep = {} /\ pc = "none"
    BY DEF Init
  <2>2. Pending = {} /\ Distinct
    BY <2>1 DEF Pending, ToSet, Distinct
  <2>3. \A m \in Messages : outcomes[m] = 0 /\ admits[m] = 0
    BY DEF Init
  <2>4. sent = {} /\ batch = {}
    BY DEF Init
  <2>5. OneFate
    BY <2>1, <2>2, <2>3, <2>4 DEF OneFate, ExactlyOneOutcome, AdmittedOnce, EnteredAdmitted
  <2>6. QED
    BY <2>1, <2>2, <2>4, <2>5 DEF FateInv, Claimed, Attempting, Proposing, Shown
<1>2. TypeOK /\ FateInv /\ [Next]_vars => FateInv'
  <2>1. ASSUME UNCHANGED vars, FateInv PROVE FateInv'
    <3>1. /\ UNCHANGED <<nextTurn, nextStep, sent, outcomes, admits, batch>>
          /\ UNCHANGED <<pc, toAdmit, attempts>>
      BY <2>1 DEF vars, inboxVars, localVars, logVars
    <3>2. Onward
      BY <2>1, <3>1, OnwardPaused
    <3>3. QED
      BY <2>1, <3>1, <3>2, FateKept
  <2>2. QED
    BY <2>1, FateCaller, FateDriver DEF Next
<1>3. FateInv => OneFate
  BY DEF FateInv
<1>4. QED
  BY <1>1, <1>2, <1>3, TypeCorrect, PTL DEF Spec

-----------------------------------------------------------------------------
(* The properties of the runs.                                             *)

\* One activity, no stale latch and one prompt per turn, together: the discipline
\* wakeDriver(), runMaintenance() and the claims of turn() keep.
THEOREM DriverKeepsDiscipline == Spec => []DriverDiscipline
<1>1. OneActivity /\ LatchNotStale /\ OnePromptPerTurn => DriverDiscipline
  BY DEF DriverDiscipline
<1>2. QED
  BY <1>1, OneActivityAtATime, LatchesNeverStale, OnePromptEachTurn, PTL

\* No work behind an abort, and endings that tell of cancels, together: what
\* cancel() promises of the turn it hits.
THEOREM DriverHonoursAborts == Spec => AbortDiscipline
  BY AbortStopsWork, CancelsAreRecorded DEF AbortDiscipline

-----------------------------------------------------------------------------
(* The driver implements TurnLog: every step of it appends one of the      *)
(* events its log's readers allow at that place, or none.                  *)

Steps == IF openTurn THEN step ELSE 0

\* No event of the turn protocol is appended.
Quiet == UNCHANGED <<turn, openTurn, Steps, openStep, unanswered>>

LogStep == TurnLogs!Next \/ Quiet

LEMMA RefineInit == Init => TurnLogs!Init
  BY DEF Init, TurnLogs!Init

LEMMA QuietCaller ==
  ASSUME Caller
  PROVE  Quiet
<1>1. UNCHANGED <<turn, openTurn, step, openStep, unanswered>>
  BY DEF Caller, Send, Prepend, RemoveMessage, ReplaceMessage, Cancel, AbortActivity, RunMaintenance,
         phaseVars, logVars
<1>2. QED
  BY <1>1 DEF Quiet, Steps

\* Outside a turn the step number is free to be reset.
LEMMA QuietOutside ==
  ASSUME ~openTurn, UNCHANGED <<turn, openTurn, openStep, unanswered>>
  PROVE  Quiet
  BY DEF Quiet, Steps

\* turn/end, whatever its reason.
LEMMA RefineTurnEnd ==
  ASSUME openTurn, ~openStep, openTurn' = FALSE, UNCHANGED <<turn, openStep, unanswered>>
  PROVE  TurnLogs!TurnEnd
  BY DEF TurnLogs!TurnEnd, Steps

LEMMA RefineCatch ==
  ASSUME openTurn, ~openStep, Catch, UNCHANGED <<turn, step, openStep, unanswered>>
  PROVE  LogStep
<1>1. CASE abort # Live
  BY <1>1, RefineTurnEnd DEF Catch, LogStep, TurnLogs!Next
<1>2. CASE abort = Live
  BY <1>2 DEF Catch, LogStep, Quiet, Steps
<1>3. QED
  BY <1>1, <1>2

LEMMA RefineModel ==
  ASSUME TypeOK, LogInv, ModelAndTools
  PROVE  LogStep
<1> USE DEF phaseVars, StepUnchanged, Driving
<1>1. UNCHANGED <<turn, openTurn, step, openStep>>
  BY DEF ModelAndTools, BeginRequest, AdmitMessage, OpenStream, Answer, AttemptFails, Retry,
         CommitResult, ToolsSettle, ToolsFail, StepThrows
<1>2. CASE UNCHANGED unanswered
  BY <1>1, <1>2 DEF LogStep, Quiet, Steps
<1>3. ASSUME NEW calls \in Nat, NEW end, Answer(calls, end)
      PROVE  LogStep
  <2>1. openStep /\ unanswered = 0 /\ unanswered' = calls
    BY <1>3 DEF Answer, LogInv, PointsLog, StepPoints, TypeOK, LogType
  <2>2. CASE calls = 0
    BY <1>2, <2>1, <2>2
  <2>3. CASE calls # 0
    <3>1. TurnLogs!ToolRequest
      BY <1>1, <2>1, <2>3 DEF TurnLogs!ToolRequest, Steps
    <3>2. QED
      BY <3>1 DEF LogStep, TurnLogs!Next
  <2>4. QED
    BY <2>2, <2>3
<1>4. CASE CommitResult
  <2>1. TurnLogs!ToolResult
    BY <1>1, <1>4 DEF CommitResult, TurnLogs!ToolResult, Steps
  <2>2. QED
    BY <2>1 DEF LogStep, TurnLogs!Next
<1>5. ASSUME NEW m \in Messages, NEW end, ToolsSettle(m, end) PROVE LogStep
  BY <1>2, <1>5 DEF ToolsSettle
<1>6. ASSUME NEW m \in Messages, ToolsFail(m) PROVE LogStep
  BY <1>2, <1>6 DEF ToolsFail
<1>7. CASE BeginRequest \/ (\E m \in Messages : AdmitMessage(m)) \/ OpenStream
            \/ AttemptFails \/ Retry \/ StepThrows
  BY <1>2, <1>7 DEF BeginRequest, AdmitMessage, OpenStream, AttemptFails, Retry, StepThrows
<1>8. QED
  BY <1>3, <1>4, <1>5, <1>6, <1>7, DriverAssumption DEF ModelAndTools

LEMMA RefineDriver ==
  ASSUME TypeOK, LogInv, Driver
  PROVE  LogStep
<1> USE DEF phaseVars, logVars, Driving, TurnPoints, StepPoints, Points
<1>1. CASE SendWakes \/ ReplayWake \/ EndMaintenance
  <2>1. UNCHANGED <<turn, openTurn, openStep, unanswered>>
    BY <1>1 DEF SendWakes, ReplayWake, EndMaintenance, WakeDriver, StartDriver, BecomeIdle
  <2>2. ~openTurn \/ UNCHANGED step
    BY <1>1 DEF SendWakes, ReplayWake, EndMaintenance, WakeDriver, StartDriver,
                LogInv, OneActivity, PointsLog
  <2>3. QED
    BY <2>1, <2>2, QuietOutside DEF LogStep, Quiet, Steps
<1>15. CASE CancelPrompts \/ CancelAborts
  <2>1. UNCHANGED <<turn, step, openTurn, openStep, unanswered>>
    BY <1>15 DEF CancelPrompts, CancelAborts, AbortActivity
  <2>2. QED
    BY <2>1 DEF LogStep, Quiet, Steps
<1>2. CASE OpenTurn
  <2>1. ~openTurn /\ step = 0 /\ UNCHANGED <<step, openStep, unanswered>>
    BY <1>2 DEF OpenTurn, LogInv, PointsLog
  <2>2. CASE abort # Live
    BY <1>2, <2>1, <2>2 DEF OpenTurn, LogStep, Quiet, Steps
  <2>3. CASE abort = Live
    <3>1. TurnLogs!TurnStart
      BY <1>2, <2>1, <2>3 DEF OpenTurn, TurnLogs!TurnStart, Steps
    <3>2. QED
      BY <3>1 DEF LogStep, TurnLogs!Next
  <2>4. QED
    BY <2>2, <2>3
<1>3. CASE Claim
  <2>1. openTurn /\ ~openStep /\ UNCHANGED <<turn, step, openStep, unanswered>>
    BY <1>3 DEF Claim, LogInv, PointsLog
  <2>2. CASE Catch
    BY <2>1, <2>2, RefineCatch
  <2>3. CASE UNCHANGED openTurn
    BY <2>1, <2>3 DEF LogStep, Quiet, Steps
  <2>4. QED
    BY <1>3, <2>2, <2>3 DEF Claim
<1>4. CASE PreStepThrows
  BY <1>4, RefineCatch DEF PreStepThrows, LogInv, PointsLog
<1>5. CASE PreStepEnters \/ PreStepRejects
  BY <1>5 DEF PreStepEnters, PreStepRejects, LogStep, Quiet, Steps
<1>6. CASE CloseBlocked
  <2>1. TurnLogs!TurnEnd
    BY <1>6, RefineTurnEnd DEF CloseBlocked, EndTurn, LogInv, PointsLog
  <2>2. QED
    BY <2>1 DEF LogStep, TurnLogs!Next
<1>7. CASE EnterStep
  <2>1. openTurn /\ ~openStep /\ UNCHANGED <<turn, unanswered>>
    BY <1>7 DEF EnterStep, LogInv, PointsLog
  <2>2. CASE Catch /\ UNCHANGED <<step, openStep>>
    BY <2>1, <2>2, RefineCatch
  <2>3. CASE openTurn' = FALSE /\ UNCHANGED openStep
    BY <2>1, <2>3, RefineTurnEnd DEF LogStep, TurnLogs!Next
  <2>4. CASE step' = step + 1 /\ openStep' = TRUE /\ UNCHANGED openTurn
    <3>1. TurnLogs!StepStart
      BY <2>1, <2>4 DEF TurnLogs!StepStart, Steps
    <3>2. QED
      BY <3>1 DEF LogStep, TurnLogs!Next
  <2>5. QED
    BY <1>7, <2>2, <2>3, <2>4 DEF EnterStep, EndTurn
<1>8. CASE ModelAndTools
  BY <1>8, RefineModel
<1>9. CASE RecoverResult
  <2>1. TurnLogs!ToolResult
    BY <1>9 DEF RecoverResult, StepUnchanged, TurnLogs!ToolResult, Steps
  <2>2. QED
    BY <2>1 DEF LogStep, TurnLogs!Next
<1>10. CASE CloseFailedStep \/ CloseStep
  <2>1. openTurn /\ openStep /\ unanswered = 0
    BY <1>10 DEF CloseFailedStep, CloseStep, LogInv, PointsLog, TypeOK, LogType
  <2>2. TurnLogs!StepEnd
    BY <1>10, <2>1 DEF CloseFailedStep, CloseStep, TurnLogs!StepEnd, Steps
  <2>3. QED
    BY <2>2 DEF LogStep, TurnLogs!Next
<1>11. CASE CatchFailedStep \/ AfterStep \/ Stopped
  <2>1. openTurn /\ ~openStep /\ UNCHANGED <<turn, step, openStep, unanswered>>
    BY <1>11 DEF CatchFailedStep, AfterStep, Stopped, ClosingUnchanged, LogInv, PointsLog
  <2>2. CASE Catch
    BY <2>1, <2>2, RefineCatch
  <2>3. CASE openTurn' = FALSE
    BY <2>1, <2>3, RefineTurnEnd DEF LogStep, TurnLogs!Next
  <2>4. CASE UNCHANGED openTurn
    BY <2>1, <2>4 DEF LogStep, Quiet, Steps
  <2>5. QED
    BY <1>11, <2>2, <2>3, <2>4 DEF CatchFailedStep, AfterStep, Stopped, EndTurn, ContinueTurn
<1>12. CASE CloseFailedTurn
  <2>1. TurnLogs!TurnEnd
    BY <1>12, RefineTurnEnd DEF CloseFailedTurn, EndTurn, ClosingUnchanged, LogInv, PointsLog
  <2>2. QED
    BY <2>1 DEF LogStep, TurnLogs!Next
<1>13. CASE AfterTurn \/ Retire
  <2>1. ~openTurn /\ UNCHANGED <<turn, openTurn, openStep, unanswered>>
    BY <1>13 DEF AfterTurn, Retire, StartDriver, BecomeIdle, LogInv, PointsLog
  <2>2. QED
    BY <2>1, QuietOutside DEF LogStep
<1>14. QED
  BY <1>1, <1>2, <1>3, <1>4, <1>5, <1>6, <1>7, <1>8, <1>9, <1>10, <1>11, <1>12, <1>13, <1>15
     DEF Driver

\* The driver writes only what the readers of its log rely on, for any messages,
\* cancel causes, retries and tool calls.
THEOREM DriverWritesTurnLog == Spec => WritesTurnLog
<1>1. TypeOK /\ LogInv /\ [Next]_vars => [TurnLogs!Next]_(TurnLogs!logVars)
  <2> SUFFICES ASSUME TypeOK, LogInv, [Next]_vars
               PROVE  TurnLogs!Next \/ UNCHANGED TurnLogs!logVars
    OBVIOUS
  <2>1. CASE UNCHANGED vars
    BY <2>1 DEF vars, phaseVars, logVars, TurnLogs!logVars
  <2>2. LogStep => TurnLogs!Next \/ UNCHANGED TurnLogs!logVars
    BY DEF LogStep, Quiet, Steps, TurnLogs!logVars
  <2>3. QED
    BY <2>1, <2>2, QuietCaller, RefineDriver DEF Next, LogStep
<1>2. QED
  BY <1>1, RefineInit, TypeCorrect, LogInvariant, PTL
     DEF Spec, WritesTurnLog, TurnLogs!Spec
=============================================================================
