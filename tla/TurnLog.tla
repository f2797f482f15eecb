------------------------------ MODULE TurnLog ------------------------------
(***************************************************************************)
(* What every reader of a session log relies on: the order in which one    *)
(* agent's turn, step and tool events may follow each other.  The repair   *)
(* of crashed logs (packages/core/session/src/repair.ts), the fold of      *)
(* consumed work and the model history are all written against it.         *)
(***************************************************************************)
EXTENDS Naturals

VARIABLES
  turns,       \* number of the last turn/start
  openTurn,    \* that turn has no turn/end yet
  steps,       \* number of the last step/start of the open turn
  openStep,    \* that step has no step/end yet
  unanswered   \* tool calls of the open step without a tool/result

logVars == <<turns, openTurn, steps, openStep, unanswered>>

Init ==
  turns = 0 /\ openTurn = FALSE /\ steps = 0 /\ openStep = FALSE /\ unanswered = 0

\* Turn numbers count on; a turn opens behind the end of the one before.
TurnStart ==
  /\ ~openTurn
  /\ turns' = turns + 1 /\ openTurn' = TRUE
  /\ UNCHANGED <<steps, openStep, unanswered>>

\* Steps of a turn count from 1.
StepStart ==
  /\ openTurn /\ ~openStep
  /\ steps' = steps + 1 /\ openStep' = TRUE
  /\ UNCHANGED <<turns, openTurn, unanswered>>

\* An assistant/message asks for tools only when every earlier call is answered.
ToolRequest ==
  /\ openStep /\ unanswered = 0
  /\ unanswered' \in Nat \ {0}
  /\ UNCHANGED <<turns, openTurn, steps, openStep>>

ToolResult ==
  /\ unanswered > 0
  /\ unanswered' = unanswered - 1
  /\ UNCHANGED <<turns, openTurn, steps, openStep>>

\* No step closes over an unanswered call: providers reject such a history.
StepEnd ==
  /\ openStep /\ unanswered = 0
  /\ openStep' = FALSE
  /\ UNCHANGED <<turns, openTurn, steps, unanswered>>

TurnEnd ==
  /\ openTurn /\ ~openStep
  /\ openTurn' = FALSE /\ steps' = 0
  /\ UNCHANGED <<turns, openStep, unanswered>>

Next == TurnStart \/ StepStart \/ ToolRequest \/ ToolResult \/ StepEnd \/ TurnEnd

Spec == Init /\ [][Next]_logVars
=============================================================================
