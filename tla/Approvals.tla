------------------------------ MODULE Approvals ------------------------------
(***************************************************************************)
(* The approval seam: ApprovalService.request()                            *)
(* (packages/interaction/user-approval/src/index.ts), the tool pipeline    *)
(* that asks (packages/core/tools/src/pipeline.ts) and the terminal app    *)
(* that answers for its agent and the agent's descendants, one prompt at a *)
(* time (packages/bundle/tui-app/src/interactions.ts and app.ts).          *)
(***************************************************************************)
EXTENDS Sequences

CONSTANTS
  Agents, Root,     \* the app's agent and its descendants
  Parent,           \* of each agent but the root
  Calls,            \* tool calls whose policy is to ask
  Owner, Tool       \* of each call

ASSUME TreeAssumption ==
  /\ Root \in Agents /\ Parent \in [Agents \ {Root} -> Agents]
  /\ DOMAIN Owner = Calls /\ \A c \in Calls : Owner[c] \in Agents
  /\ DOMAIN Tool = Calls

VARIABLES
  live,      \* the agents of the registry
  open,      \* those with an open turn
  aborted,   \* those whose turn is aborted
  policy,    \* "ask" or "never", per session
  grants,    \* tools remembered in each session
  ask,       \* the asks
  line,      \* the chain of prompts; the head is on the screen, or about to be
  heard,     \* agents whose turn's signal has listeners, of prompts answered or not
  keyboard   \* the prompt on the screen, and not the composer, has the keys

screen == <<heard, keyboard>>
vars == <<live, open, aborted, policy, grants, ask, line, heard, keyboard>>

Tools == {Tool[c] : c \in Calls}
\* The others are links of the lineage: their turns and policies decide nothing.
Askers == {Owner[c] : c \in Calls}
Outcomes == {"allowed-once", "rejected", "cancelled", "unavailable"}
Choices == {"allow", "always", "reject", "cancel"}
\* outcome is what request() returns, answer what the answerers do; gone is the
\* caller's signal.
NoAsk == [stage |-> "idle", outcome |-> "none", prompt |-> "none", answer |-> "none",
          gone |-> FALSE, never |-> FALSE]

Init ==
  /\ live = Agents /\ open = {} /\ aborted = {}
  /\ policy = [a \in Agents |-> "ask"] /\ grants = [a \in Agents |-> {}]
  /\ ask = [c \in Calls |-> NoAsk] /\ line = <<>> /\ heard = {} /\ keyboard = FALSE

Unsettled(c) == ask[c].stage = "asked" /\ ask[c].outcome = "none"
Working(a) == {c \in Calls : Owner[c] = a /\ ask[c].stage \in {"asked", "decided", "running"}}

\* The agents a walk from a meets; it ends at an ancestor that is not live.
Reaches(W, a) == a \in W /\ \A b \in W \ {Root} : Parent[b] \in live => Parent[b] \in W
Lineage(a) == {b \in Agents : \A W \in SUBSET Agents : Reaches(W, a) => b \in W}

\* isGranted()
IsGranted(c) == \E a \in Lineage(Owner[c]) : Tool[c] \in grants[a]

\* answersFor(): the root itself is known by its id.
AnswersFor(a) == a = Root \/ \E b \in Lineage(a) \ {Root} : Parent[b] = Root

-----------------------------------------------------------------------------
(* Turns, agents and policies.                                             *)

StartTurn(a) ==
  /\ a \in (live \cap Askers) \ open
  /\ open' = open \cup {a} /\ aborted' = aborted \ {a}
  /\ UNCHANGED <<live, policy, grants, ask, line, screen>>

\* Mutant: nothing races the answer.
AbortUnheard(a) ==
  /\ a \in open \ aborted /\ aborted' = aborted \cup {a}
  /\ ask' = [c \in Calls |-> IF c \in Working(a) THEN [ask[c] EXCEPT !.gone = TRUE] ELSE ask[c]]
  /\ UNCHANGED <<live, open, policy, grants, line, screen>>

\* dismissPrompt(), by the listeners of a's signal: those of answered prompts are
\* still there, and take the keys from whatever prompt is on the screen now.
KeysStay(a) == keyboard /\ a \notin heard

\* The service settles what is not settled, and the prompt on the screen closes.
Abort(a) ==
  /\ a \in open \ aborted /\ aborted' = aborted \cup {a}
  /\ ask' = [c \in Calls |->
       IF c \notin Working(a) THEN ask[c]
       ELSE [ask[c] EXCEPT !.gone = TRUE,
                           !.outcome = IF Unsettled(c) THEN "cancelled" ELSE @,
                           !.prompt = IF @ = "shown" THEN "cancel" ELSE @]]
  /\ line' = IF line # <<>> /\ Head(line) \in Working(a) /\ ask[Head(line)].prompt = "shown"
             THEN Tail(line) ELSE line
  /\ heard' = heard \ {a} /\ keyboard' = KeysStay(a)
  /\ UNCHANGED <<live, open, policy, grants>>

\* The turn waits for every call of its batch.
EndTurn(a) ==
  /\ a \in open /\ Working(a) = {}
  /\ open' = open \ {a} /\ heard' = heard \ {a}
  /\ UNCHANGED <<live, aborted, policy, grants, ask, line, keyboard>>

Disposed(a) ==
  /\ a \in live \ (open \cup {Root}) /\ live' = live \ {a}
  /\ UNCHANGED <<open, aborted, policy, grants, ask, line, screen>>

SetPolicy(a) ==
  /\ a \in live \cap Askers
  /\ \E p \in {"ask", "never"} \ {policy[a]} : policy' = [policy EXCEPT ![a] = p]
  /\ UNCHANGED <<live, open, aborted, grants, ask, line, screen>>

-----------------------------------------------------------------------------
(* The service.                                                            *)

\* Mutant: what is remembered goes before the policy.
DecidedGrantFirst(c) ==
  CASE Owner[c] \in aborted -> "cancelled"
    [] Owner[c] \notin aborted /\ IsGranted(c) -> "allowed-once"
    [] Owner[c] \notin aborted /\ ~IsGranted(c) /\ policy[Owner[c]] = "never" -> "rejected"
    [] OTHER -> "none"

\* decide(), as far as nobody is asked
Decided(c) ==
  CASE Owner[c] \in aborted -> "cancelled"
    [] Owner[c] \notin aborted /\ policy[Owner[c]] = "never" -> "rejected"
    [] Owner[c] \notin aborted /\ policy[Owner[c]] = "ask" /\ IsGranted(c) -> "allowed-once"
    [] OTHER -> "none"

\* request(): approval/asked
Request(c) ==
  /\ Owner[c] \in open /\ ask[c].stage = "idle"
  /\ ask' = [ask EXCEPT ![c] =
       [stage |-> "asked", outcome |-> Decided(c), answer |-> "none",
        prompt |-> IF Decided(c) = "none" THEN "coming" ELSE "none",
        gone |-> Owner[c] \in aborted, never |-> policy[Owner[c]] = "never"]]
  /\ UNCHANGED <<live, open, aborted, policy, grants, line, screen>>

\* The waterfall of the answerers; the last of them is not there.
Dispatch(c) ==
  /\ ask[c].prompt = "coming"
  /\ IF AnswersFor(Owner[c])
     THEN ask' = [ask EXCEPT ![c].prompt = "waiting"] /\ line' = Append(line, c)
     ELSE ask' = [ask EXCEPT ![c].prompt = "told", ![c].answer = "unavailable"] /\ UNCHANGED line
  /\ UNCHANGED <<live, open, aborted, policy, grants, screen>>

\* The answer is in: late, it is nobody's.
Arrive(c) ==
  /\ ask[c].prompt = "told"
  /\ ask' = [ask EXCEPT ![c].prompt = "done",
                        ![c].outcome = IF Unsettled(c) THEN ask[c].answer ELSE @]
  /\ UNCHANGED <<live, open, aborted, policy, grants, line, screen>>

\* approval/decided
Settle(c) ==
  /\ ask[c].stage = "asked" /\ ask[c].outcome # "none"
  /\ ask' = [ask EXCEPT ![c].stage = "decided"]
  /\ UNCHANGED <<live, open, aborted, policy, grants, line, screen>>

\* prepare(), behind the approval
Proceed(c) ==
  /\ ask[c].stage = "decided"
  /\ ask' = [ask EXCEPT ![c].stage =
       IF ask[c].outcome = "allowed-once" /\ ~ask[c].gone THEN "running" ELSE "over"]
  /\ UNCHANGED <<live, open, aborted, policy, grants, line, screen>>
Finish(c) ==
  /\ ask[c].stage = "running"
  /\ ask' = [ask EXCEPT ![c].stage = "over"]
  /\ UNCHANGED <<live, open, aborted, policy, grants, line, screen>>

-----------------------------------------------------------------------------
(* The terminal.                                                           *)

Show ==
  /\ line # <<>> /\ ask[Head(line)].prompt = "waiting"
  /\ IF ask[Head(line)].gone
     THEN ask' = [ask EXCEPT ![Head(line)].prompt = "cancel"] /\ line' = Tail(line)
     ELSE ask' = [ask EXCEPT ![Head(line)].prompt = "shown"] /\ UNCHANGED line
  /\ heard' = IF ask[Head(line)].gone THEN heard ELSE heard \cup {Owner[Head(line)]}
  /\ keyboard' = ~ask[Head(line)].gone
  /\ UNCHANGED <<live, open, aborted, policy, grants>>

\* The person's key settles the prompt, and the next one opens.
Choose ==
  /\ line # <<>> /\ ask[Head(line)].prompt = "shown" /\ keyboard
  /\ \E v \in Choices : ask' = [ask EXCEPT ![Head(line)].prompt = v]
  /\ line' = Tail(line) /\ keyboard' = FALSE
  /\ UNCHANGED <<live, open, aborted, policy, grants, heard>>

Allows(c) == ask[c].prompt \in {"allow", "always"}

\* Mutant: the ask may have been withdrawn since.
AnswerAnyway(c) ==
  /\ ask[c].prompt \in Choices
  /\ ask' = [ask EXCEPT ![c].prompt = "told",
                        ![c].answer = CASE Allows(c) -> "allowed-once"
                                        [] ask[c].prompt = "reject" -> "rejected"
                                        [] OTHER -> "cancelled"]
  /\ grants' = IF ask[c].prompt = "always" THEN [grants EXCEPT ![Root] = @ \cup {Tool[c]}] ELSE grants
  /\ UNCHANGED <<live, open, aborted, policy, line, screen>>

\* The answerer goes on behind the choice; what is to be remembered goes to the root.
Answer(c) ==
  /\ ask[c].prompt \in Choices
  /\ ask' = [ask EXCEPT ![c].prompt = "told",
                        ![c].answer = CASE Allows(c) /\ ~ask[c].gone -> "allowed-once"
                                        [] ask[c].prompt = "reject" /\ ~ask[c].gone -> "rejected"
                                        [] OTHER -> "cancelled"]
  /\ grants' = IF ask[c].prompt = "always" /\ ~ask[c].gone
               THEN [grants EXCEPT ![Root] = @ \cup {Tool[c]}] ELSE grants
  /\ UNCHANGED <<live, open, aborted, policy, line, screen>>

-----------------------------------------------------------------------------

\* What the process does of its own.
Goes ==
  \/ Show
  \/ \E c \in Calls : Dispatch(c) \/ Answer(c) \/ Arrive(c) \/ Settle(c) \/ Proceed(c) \/ Finish(c)
  \/ \E a \in aborted : EndTurn(a)

Next ==
  \/ Goes \/ Choose
  \/ \E c \in Calls : Request(c)
  \/ \E a \in Agents : StartTurn(a) \/ Abort(a) \/ EndTurn(a) \/ Disposed(a) \/ SetPolicy(a)

Spec == Init /\ [][Next]_vars

\* Callbacks run and aborted turns end; a person owes no answer and a model no end.
FairSpec ==
  /\ Spec /\ WF_vars(Show)
  /\ \A c \in Calls : WF_vars(Dispatch(c) \/ Answer(c) \/ Arrive(c))
                      /\ WF_vars(Settle(c) \/ Proceed(c) \/ Finish(c))
  /\ \A a \in Agents : WF_vars(a \in aborted /\ EndTurn(a))

-----------------------------------------------------------------------------
(* Properties.                                                             *)

Ask == [stage : {"idle", "asked", "decided", "running", "over"},
        outcome : Outcomes \cup {"none"},
        prompt : {"none", "coming", "waiting", "shown", "told", "done"} \cup Choices,
        answer : Outcomes \cup {"none"}, gone : BOOLEAN, never : BOOLEAN]

TypeOK ==
  /\ open \subseteq live /\ live \subseteq Agents /\ aborted \subseteq Agents
  /\ policy \in [Agents -> {"ask", "never"}] /\ grants \in [Agents -> SUBSET Tools]
  /\ ask \in [Calls -> Ask]
  /\ line \in Seq(Calls) /\ heard \subseteq Agents /\ keyboard \in BOOLEAN

\* A call that asked runs only if a person allowed that very call, or the tool in
\* its lineage, and neither under `never` nor behind an abort: no other answer
\* reaches it.
RunsOnlyAllowed ==
  /\ TypeOK
  /\ \A c \in Calls : ask[c].stage = "running" =>
       /\ ~ask[c].never
       /\ ask[c].answer = "allowed-once" \/ \E a \in Agents : Tool[c] \in grants[a]
  /\ \A a \in Agents, c \in Calls :
       Owner[c] = a /\ a \notin open => ask[c].stage \in {"idle", "over"}

\* An ask withdrawn while its prompt waits or is answered starts nothing, stays on
\* no screen and leaves no grant behind.
WithdrawnStaysSo ==
  [][\A c \in Calls : ask[c].gone =>
       /\ ask'[c].stage = "running" => ask[c].stage = "running"
       /\ ask'[c].prompt # "shown"
       /\ ask'[c].answer # ask[c].answer =>
            ask'[c].answer \in {"cancelled", "unavailable"} /\ grants' = grants]_vars

\* An aborted turn ends, whatever prompts are in front of its own.
AbortsSettle == \A a \in Agents : a \in open \cap aborted ~> a \notin open
=============================================================================
