--------------------------- MODULE ApprovalsProofs ---------------------------
(***************************************************************************)
(* Safety of the approvals, for any tree of agents, calls and tools.       *)
(***************************************************************************)
EXTENDS Approvals, TLAPS

\* A grant or a person allowed the call.
Consented(c) == ask[c].answer = "allowed-once" \/ \E a \in Agents : Tool[c] \in grants[a]

\* Where an ask stands.  What was refused by policy never gets a prompt, what is
\* allowed has consent behind it, and what was withdrawn is on no screen.
AskOf(c) ==
  /\ ask[c].stage = "idle" => ~ask[c].gone
  /\ ask[c].prompt # "none" => ~ask[c].never
  /\ ask[c].outcome = "allowed-once" =>
       ~ask[c].never /\ Consented(c) /\ ask[c].prompt \in {"none", "done"}
  /\ ask[c].stage = "running" => ask[c].outcome = "allowed-once"
  /\ ask[c].gone => ask[c].prompt # "shown"
  /\ Owner[c] \notin open => ask[c].stage \in {"idle", "over"}

AskInv == TypeOK /\ \A c \in Calls : AskOf(c)

-----------------------------------------------------------------------------
(* Types.                                                                  *)

\* Calls belong to agents, and a lineage is one of agents.
LEMMA TreeTyped == /\ \A c \in Calls : Owner[c] \in Agents /\ Tool[c] \in Tools
                   /\ \A a : Lineage(a) \subseteq Agents
                   /\ Root \in Agents
  BY TreeAssumption DEF Tools, Lineage

\* The head of the chain is a call.
LEMMA HeadTyped == TypeOK /\ line # <<>> => Head(line) \in Calls /\ Tail(line) \in Seq(Calls)
  BY DEF TypeOK

LEMMA TypeInit == Init => TypeOK
<1>1. NoAsk \in Ask
  BY DEF NoAsk, Ask, Outcomes
<1>2. <<>> \in Seq(Calls)
  OBVIOUS
<1>3. QED
  BY <1>1, <1>2 DEF Init, TypeOK

\* What decide() makes of an ask is an outcome, or nothing yet.
LEMMA DecidedTyped == \A c : Decided(c) \in Outcomes \cup {"none"}
  BY DEF Decided, Outcomes

Prompts == {"none", "coming", "waiting", "shown", "told", "done"} \cup Choices

\* An ask stays one when a field of it is written.
LEMMA AskFields ==
  ASSUME NEW k \in Ask
  PROVE  /\ k.outcome \in Outcomes \cup {"none"} /\ k.answer \in Outcomes \cup {"none"}
         /\ \A v \in {"idle", "asked", "decided", "running", "over"} : [k EXCEPT !.stage = v] \in Ask
         /\ \A v \in Prompts : [k EXCEPT !.prompt = v] \in Ask
         /\ \A v \in Prompts, w \in Outcomes \cup {"none"} :
              /\ [k EXCEPT !.prompt = v, !.outcome = w] \in Ask
              /\ [k EXCEPT !.prompt = v, !.answer = w] \in Ask
         /\ \A v \in Prompts, w \in Outcomes \cup {"none"} :
              [k EXCEPT !.gone = TRUE, !.outcome = w, !.prompt = v] \in Ask
  BY DEF Ask, Prompts

\* What Request() writes, and what Abort() makes of an ask, are asks.
LEMMA Asked ==
  ASSUME NEW w \in Outcomes \cup {"none"}, NEW p, NEW q
  PROVE  [stage |-> "asked", outcome |-> w, answer |-> "none",
          prompt |-> IF w = "none" THEN "coming" ELSE "none",
          gone |-> p \in q, never |-> policy[p] = "never"] \in Ask
<1>1. (p \in q) \in BOOLEAN /\ (policy[p] = "never") \in BOOLEAN
  OBVIOUS
<1>2. ASSUME NEW g \in BOOLEAN, NEW n \in BOOLEAN
      PROVE  [stage |-> "asked", outcome |-> w, answer |-> "none",
              prompt |-> IF w = "none" THEN "coming" ELSE "none", gone |-> g, never |-> n] \in Ask
  BY DEF Ask
<1>3. QED
  BY <1>1, <1>2, Zenon

LEMMA Withdrawn ==
  ASSUME NEW c, ask[c] \in Ask
  PROVE  [ask[c] EXCEPT !.gone = TRUE,
            !.outcome = IF Unsettled(c) THEN "cancelled" ELSE @,
            !.prompt = IF @ = "shown" THEN "cancel" ELSE @] \in Ask
<1>1. (IF ask[c].prompt = "shown" THEN "cancel" ELSE ask[c].prompt) \in Prompts
  BY DEF Ask, Prompts, Choices
<1>2. (IF Unsettled(c) THEN "cancelled" ELSE ask[c].outcome) \in Outcomes \cup {"none"}
  BY DEF Ask, Outcomes
<1>3. QED
  BY <1>1, <1>2, AskFields, Zenon

\* Every step writes an ask of its kind.
LEMMA AskTyped == TypeOK /\ Next => ask' \in [Calls -> Ask]
<1> SUFFICES ASSUME TypeOK, Next PROVE ask' \in [Calls -> Ask]
  OBVIOUS
<1> ask \in [Calls -> Ask]
  BY DEF TypeOK
<1> {"coming", "waiting", "shown", "told", "done", "cancel"} \cup Choices \subseteq Prompts
  BY DEF Prompts, Choices
<1> {"unavailable", "allowed-once", "rejected", "cancelled"} \subseteq Outcomes
  BY DEF Outcomes
<1> USE TreeTyped, HeadTyped, AskFields
<1>1. CASE Show
  <2> DEFINE h == Head(line)
  <2>1. h \in Calls /\ ask[h] \in Ask
    BY <1>1 DEF Show
  <2>2. PICK v \in {"cancel", "shown"} : ask' = [ask EXCEPT ![h] = [ask[h] EXCEPT !.prompt = v]]
    BY <1>1, <2>1 DEF Show
  <2>3. QED
    BY <2>1, <2>2
<1>2. ASSUME NEW c \in Calls, Dispatch(c) PROVE ask' \in [Calls -> Ask]
  <2>1. /\ [ask[c] EXCEPT !.prompt = "waiting"] \in Ask
        /\ [ask[c] EXCEPT !.prompt = "told", !.answer = "unavailable"] \in Ask
    BY DEF Prompts
  <2>2. \/ ask' = [ask EXCEPT ![c] = [ask[c] EXCEPT !.prompt = "waiting"]]
        \/ ask' = [ask EXCEPT ![c] = [ask[c] EXCEPT !.prompt = "told", !.answer = "unavailable"]]
    BY <1>2 DEF Dispatch
  <2>3. QED
    BY <2>1, <2>2
<1>3. ASSUME NEW c \in Calls, Answer(c) PROVE ask' \in [Calls -> Ask]
  BY <1>3 DEF Answer, Allows
<1>4. ASSUME NEW c \in Calls, Arrive(c) PROVE ask' \in [Calls -> Ask]
  BY <1>4 DEF Arrive, Unsettled
<1>5. ASSUME NEW c \in Calls, Settle(c) PROVE ask' \in [Calls -> Ask]
  BY <1>5 DEF Settle
<1>6. ASSUME NEW c \in Calls, Proceed(c) PROVE ask' \in [Calls -> Ask]
  BY <1>6 DEF Proceed
<1>7. ASSUME NEW c \in Calls, Finish(c) PROVE ask' \in [Calls -> Ask]
  BY <1>7 DEF Finish
<1>8. ASSUME NEW a \in Agents, EndTurn(a) PROVE ask' \in [Calls -> Ask]
  BY <1>8 DEF EndTurn, Working
<1>9. CASE Choose
  <2> DEFINE h == Head(line)
  <2>1. h \in Calls /\ ask[h] \in Ask
    BY <1>9 DEF Choose
  <2>2. PICK v \in Choices : ask' = [ask EXCEPT ![h] = [ask[h] EXCEPT !.prompt = v]]
    BY <1>9, <2>1 DEF Choose
  <2>3. QED
    BY <2>1, <2>2
<1>10. ASSUME NEW c \in Calls, Request(c) PROVE ask' \in [Calls -> Ask]
  <2>1. Decided(c) \in Outcomes \cup {"none"}
    BY DecidedTyped
  <2> DEFINE r == [stage |-> "asked", outcome |-> Decided(c), answer |-> "none",
                   prompt |-> IF Decided(c) = "none" THEN "coming" ELSE "none",
                   gone |-> Owner[c] \in aborted, never |-> policy[Owner[c]] = "never"]
  <2>2. r \in Ask
    BY <2>1, Asked
  <2>3. QED
    BY <1>10, <2>2 DEF Request
<1>11. ASSUME NEW a \in Agents, StartTurn(a) PROVE ask' \in [Calls -> Ask]
  BY <1>11 DEF StartTurn, Askers
<1>12. ASSUME NEW a \in Agents, Abort(a) PROVE ask' \in [Calls -> Ask]
  <2> DEFINE g(c) == [ask[c] EXCEPT !.gone = TRUE,
                                    !.outcome = IF Unsettled(c) THEN "cancelled" ELSE @,
                                    !.prompt = IF @ = "shown" THEN "cancel" ELSE @]
  <2>1. ASSUME NEW c \in Calls PROVE g(c) \in Ask
    BY Withdrawn
  <2> HIDE DEF g
  <2>2. ask' = [c \in Calls |-> IF c \notin Working(a) THEN ask[c] ELSE g(c)]
    BY <1>12 DEF Abort, g
  <2>3. QED
    BY <2>1, <2>2
<1>13. ASSUME NEW a \in Agents, Disposed(a) PROVE ask' \in [Calls -> Ask]
  BY <1>13 DEF Disposed
<1>14. ASSUME NEW a \in Agents, SetPolicy(a) PROVE ask' \in [Calls -> Ask]
  BY <1>14 DEF SetPolicy
<1>15. aborted \subseteq Agents
  BY DEF TypeOK
<1>16. QED
  BY <1>1, <1>2, <1>3, <1>4, <1>5, <1>6, <1>7, <1>8, <1>9, <1>10, <1>11, <1>12, <1>13, <1>14, <1>15 DEF Next, Goes

\* And so do the rest of the variables keep their ranges.
LEMMA TypeStep == TypeOK /\ Next => TypeOK'
<1> SUFFICES ASSUME TypeOK, Next PROVE TypeOK'
  OBVIOUS
<1> ask' \in [Calls -> Ask]
  BY AskTyped
<1> USE TreeTyped, HeadTyped DEF TypeOK, screen, KeysStay
<1>1. CASE Show
  BY <1>1 DEF Show
<1>2. ASSUME NEW c \in Calls, Dispatch(c) PROVE TypeOK'
  <2>1. line \in Seq(Calls) /\ line' \in {line, Append(line, c)}
    BY <1>2 DEF Dispatch
  <2>2. line' \in Seq(Calls)
    BY <2>1
  <2>3. QED
    BY <1>2, <2>2 DEF Dispatch
<1>3. ASSUME NEW c \in Calls, Answer(c) PROVE TypeOK'
  BY <1>3 DEF Answer, Allows
<1>4. ASSUME NEW c \in Calls, Arrive(c) PROVE TypeOK'
  BY <1>4 DEF Arrive, Unsettled
<1>5. ASSUME NEW c \in Calls, Settle(c) PROVE TypeOK'
  BY <1>5 DEF Settle
<1>6. ASSUME NEW c \in Calls, Proceed(c) PROVE TypeOK'
  BY <1>6 DEF Proceed
<1>7. ASSUME NEW c \in Calls, Finish(c) PROVE TypeOK'
  BY <1>7 DEF Finish
<1>8. ASSUME NEW a \in Agents, EndTurn(a) PROVE TypeOK'
  BY <1>8 DEF EndTurn, Working
<1>9. CASE Choose
  BY <1>9 DEF Choose
<1>10. ASSUME NEW c \in Calls, Request(c) PROVE TypeOK'
  BY <1>10 DEF Request, NoAsk
<1>11. ASSUME NEW a \in Agents, StartTurn(a) PROVE TypeOK'
  BY <1>11 DEF StartTurn, Askers
<1>12. ASSUME NEW a \in Agents, Abort(a) PROVE TypeOK'
  BY <1>12 DEF Abort, Working, Unsettled
<1>13. ASSUME NEW a \in Agents, Disposed(a) PROVE TypeOK'
  BY <1>13 DEF Disposed
<1>14. ASSUME NEW a \in Agents, SetPolicy(a) PROVE TypeOK'
  BY <1>14 DEF SetPolicy
<1>15. aborted \subseteq Agents
  BY DEF TypeOK
<1>16. QED
  BY <1>1, <1>2, <1>3, <1>4, <1>5, <1>6, <1>7, <1>8, <1>9, <1>10, <1>11, <1>12, <1>13, <1>14, <1>15 DEF Next, Goes

-----------------------------------------------------------------------------
(* Consent.                                                                *)

LEMMA AskInit == Init => AskInv
  BY TypeInit DEF Init, AskInv, AskOf, NoAsk

\* Only Answer() grants, and nothing is taken back.
LEMMA GrantsGrow == TypeOK /\ Next => \A a \in Agents : grants[a] \subseteq grants'[a]
<1> SUFFICES ASSUME TypeOK, Next PROVE \A a \in Agents : grants[a] \subseteq grants'[a]
  OBVIOUS
<1>1. ASSUME NEW c \in Calls, Answer(c) PROVE \A a \in Agents : grants[a] \subseteq grants'[a]
  BY <1>1 DEF Answer, TypeOK
<1>2. QED
  BY <1>1 DEF Next, Goes, Show, Dispatch, Arrive, Settle, Proceed, Finish, EndTurn, Choose, Request,
              StartTurn, Abort, Disposed, SetPolicy

LEMMA AskStep == AskInv /\ Next => AskInv'
<1> SUFFICES ASSUME AskInv, Next, NEW k \in Calls PROVE AskOf(k)'
  BY TypeStep DEF AskInv
<1> TypeOK /\ AskOf(k) /\ (\A a \in Agents : grants[a] \subseteq grants'[a]) /\ TypeOK'
  BY GrantsGrow, TypeStep DEF AskInv
<1> USE TreeTyped, HeadTyped DEF TypeOK, AskOf, Consented, Ask
<1>1. CASE Show
  <2> DEFINE h == Head(line)
  <2>1. h \in Calls
    BY <1>1 DEF Show
  <2>2. /\ ask'[k].stage = ask[k].stage /\ ask'[k].outcome = ask[k].outcome
        /\ ask'[k].gone = ask[k].gone /\ ask'[k].never = ask[k].never
        /\ ask'[k].answer = ask[k].answer
    <3>1. PICK v \in {"cancel", "shown"} : ask' = [ask EXCEPT ![h] = [ask[h] EXCEPT !.prompt = v]]
      BY <1>1, <2>1 DEF Show
    <3>2. CASE k = h
      BY <2>1, <3>1, <3>2
    <3>3. CASE k # h
      BY <2>1, <3>1, <3>3
    <3>4. QED
      BY <3>2, <3>3
  <2>3. CASE k = h
    <3>1. /\ ask[k].prompt = "waiting"
          /\ ask'[k].prompt = IF ask[k].gone THEN "cancel" ELSE "shown"
      BY <1>1, <2>1, <2>3 DEF Show
    <3>2. open' = open /\ grants' = grants
      BY <1>1 DEF Show
    <3>3. QED
      BY <2>2, <3>1, <3>2
  <2>4. CASE k # h
    BY <1>1, <2>1, <2>4 DEF Show
  <2>5. QED
    BY <2>3, <2>4
<1>2. ASSUME NEW c \in Calls, Dispatch(c) PROVE AskOf(k)'
  BY <1>2 DEF Dispatch
<1>3. ASSUME NEW c \in Calls, Answer(c) PROVE AskOf(k)'
  <2>1. CASE k = c
    <3>1. /\ ask'[k].prompt = "told" /\ ask'[k].stage = ask[k].stage
          /\ ask'[k].outcome = ask[k].outcome /\ ask'[k].gone = ask[k].gone
          /\ ask'[k].never = ask[k].never
      BY <1>3, <2>1 DEF Answer
    <3>2. ask[k].prompt # "none"
      BY <1>3, <2>1 DEF Answer, Choices
    <3>3. ask[k].outcome # "allowed-once"
      BY <1>3, <2>1 DEF Answer, Choices
    <3>4. open' = open
      BY <1>3 DEF Answer
    <3>5. QED
      BY <3>1, <3>2, <3>3, <3>4
  <2>2. CASE k # c
    <3>1. ask'[k] = ask[k] /\ open' = open
      BY <1>3, <2>2 DEF Answer
    <3>2. QED
      BY <3>1
  <2>3. QED
    BY <2>1, <2>2
<1>4. ASSUME NEW c \in Calls, Arrive(c) PROVE AskOf(k)'
  BY <1>4 DEF Arrive, Unsettled
<1>5. ASSUME NEW c \in Calls, Settle(c) PROVE AskOf(k)'
  BY <1>5 DEF Settle
<1>6. ASSUME NEW c \in Calls, Proceed(c) PROVE AskOf(k)'
  BY <1>6 DEF Proceed
<1>7. ASSUME NEW c \in Calls, Finish(c) PROVE AskOf(k)'
  BY <1>7 DEF Finish
<1>8. ASSUME NEW a \in Agents, EndTurn(a) PROVE AskOf(k)'
  BY <1>8 DEF EndTurn, Working
<1>9. CASE Choose
  BY <1>9 DEF Choose, Choices
<1>10. ASSUME NEW c \in Calls, Request(c) PROVE AskOf(k)'
  <2>1. CASE k = c
    <3>1. Decided(c) = "allowed-once" => policy[Owner[c]] = "ask" /\ \E a \in Agents : Tool[c] \in grants[a]
      BY DEF Decided, IsGranted
    <3>2. Decided(c) = "none" => policy[Owner[c]] = "ask"
      BY DEF Decided
    <3>3. Decided(c) = "cancelled" \/ Owner[c] \notin aborted
      BY DEF Decided
    <3>4. QED
      BY <1>10, <2>1, <3>1, <3>2, <3>3 DEF Request, NoAsk
  <2>2. CASE k # c
    BY <1>10, <2>2 DEF Request
  <2>3. QED
    BY <2>1, <2>2
<1>11. ASSUME NEW a \in Agents, StartTurn(a) PROVE AskOf(k)'
  BY <1>11 DEF StartTurn, Askers
<1>12. ASSUME NEW a \in Agents, Abort(a) PROVE AskOf(k)'
  <2>1. /\ ask'[k].stage = ask[k].stage /\ ask'[k].never = ask[k].never
        /\ ask'[k].answer = ask[k].answer
        /\ ask'[k].outcome \in {ask[k].outcome, "cancelled"}
        /\ ask[k].prompt = "none" => ask'[k].prompt = "none"
        /\ ask[k].prompt = "done" => ask'[k].prompt = "done"
        /\ ask'[k].gone => ask'[k].prompt # "shown"
        /\ ask[k].stage = "idle" => ask'[k] = ask[k]
        /\ ask[k].stage = "running" => ask'[k].outcome = ask[k].outcome
    <3>1. CASE k \in Working(a)
      <4>1. ask'[k] = [ask[k] EXCEPT !.gone = TRUE,
                         !.outcome = IF Unsettled(k) THEN "cancelled" ELSE @,
                         !.prompt = IF @ = "shown" THEN "cancel" ELSE @]
        BY <1>12, <3>1 DEF Abort
      <4>2. ask[k].stage # "idle"
        BY <3>1 DEF Working
      <4>3. QED
        BY <4>1, <4>2 DEF Unsettled
    <3>2. CASE k \notin Working(a)
      <4>1. ask'[k] = ask[k]
        BY <1>12, <3>2 DEF Abort
      <4>2. QED
        BY <4>1
    <3>3. QED
      BY <3>1, <3>2
  <2>2. open' = open /\ grants' = grants
    BY <1>12 DEF Abort
  <2>3. QED
    BY <2>1, <2>2
<1>13. ASSUME NEW a \in Agents, Disposed(a) PROVE AskOf(k)'
  BY <1>13 DEF Disposed
<1>14. ASSUME NEW a \in Agents, SetPolicy(a) PROVE AskOf(k)'
  BY <1>14 DEF SetPolicy
<1>15. aborted \subseteq Agents
  BY DEF TypeOK
<1>16. QED
  BY <1>1, <1>2, <1>3, <1>4, <1>5, <1>6, <1>7, <1>8, <1>9, <1>10, <1>11, <1>12, <1>13, <1>14, <1>15 DEF Next, Goes

\* The asks stand where they may in every reachable state.
LEMMA AskSafe == Spec => []AskInv
<1>1. AskInv /\ UNCHANGED vars => AskInv'
  BY DEF vars, screen, AskInv, AskOf, Consented, TypeOK
<1>2. QED
  BY AskInit, AskStep, <1>1, PTL DEF Spec

\* A call that asked runs only with consent, for that call or for its tool, and
\* neither under `never` nor in a turn that has ended.
THEOREM ApprovalsRunAllowed == Spec => []RunsOnlyAllowed
<1>1. AskInv => RunsOnlyAllowed
  BY DEF AskInv, AskOf, Consented, RunsOnlyAllowed
<1>2. QED
  BY <1>1, AskSafe, PTL

\* A withdrawn ask starts nothing, is put on no screen, and whatever is answered
\* to it grants nothing.
THEOREM ApprovalsStayWithdrawn == Spec => WithdrawnStaysSo
<1> DEFINE Stays(k) == ask[k].gone =>
       /\ ask'[k].stage = "running" => ask[k].stage = "running"
       /\ ask'[k].prompt # "shown"
       /\ ask'[k].answer # ask[k].answer =>
            ask'[k].answer \in {"cancelled", "unavailable"} /\ grants' = grants
<1>0. ASSUME AskInv, Next, NEW k \in Calls PROVE Stays(k)
  <2> TypeOK /\ AskOf(k)
    BY <1>0 DEF AskInv
  <2> USE TreeTyped, HeadTyped DEF TypeOK, AskOf, Ask
  <2>1. CASE Show
    <3> DEFINE h == Head(line)
    <3>1. h \in Calls
      BY <2>1 DEF Show
    <3>2. CASE ask[h].gone
      BY <2>1, <3>1, <3>2 DEF Show
    <3>3. CASE ~ask[h].gone
      BY <2>1, <3>1, <3>3 DEF Show
    <3>4. QED
      BY <3>2, <3>3
  <2>2. ASSUME NEW c \in Calls, Dispatch(c) PROVE Stays(k)
    <3>1. /\ ask'[k].stage = ask[k].stage
          /\ ask'[k].prompt \in {"waiting", "told", ask[k].prompt}
          /\ ask'[k].answer \in {ask[k].answer, "unavailable"}
      BY <2>2 DEF Dispatch
    <3>2. grants' = grants
      BY <2>2 DEF Dispatch
    <3>3. QED
      BY <3>1, <3>2
  <2>3. ASSUME NEW c \in Calls, Answer(c) PROVE Stays(k)
    BY <2>3 DEF Answer, Allows
  <2>4. ASSUME NEW c \in Calls, Arrive(c) PROVE Stays(k)
    BY <2>4 DEF Arrive, Unsettled
  <2>5. ASSUME NEW c \in Calls, Settle(c) PROVE Stays(k)
    BY <2>5 DEF Settle
  <2>6. ASSUME NEW c \in Calls, Proceed(c) PROVE Stays(k)
    BY <2>6 DEF Proceed
  <2>7. ASSUME NEW c \in Calls, Finish(c) PROVE Stays(k)
    BY <2>7 DEF Finish
  <2>8. ASSUME NEW a \in Agents, EndTurn(a) PROVE Stays(k)
    BY <2>8 DEF EndTurn, Working
  <2>9. CASE Choose
    BY <2>9 DEF Choose, Choices
  <2>10. ASSUME NEW c \in Calls, Request(c) PROVE Stays(k)
    BY <2>10 DEF Request, NoAsk
  <2>11. ASSUME NEW a \in Agents, StartTurn(a) PROVE Stays(k)
    BY <2>11 DEF StartTurn, Askers
  <2>12. ASSUME NEW a \in Agents, Abort(a) PROVE Stays(k)
    BY <2>12 DEF Abort, Working, Unsettled
  <2>13. ASSUME NEW a \in Agents, Disposed(a) PROVE Stays(k)
    BY <2>13 DEF Disposed
  <2>14. ASSUME NEW a \in Agents, SetPolicy(a) PROVE Stays(k)
    BY <2>14 DEF SetPolicy
  <2>15. aborted \subseteq Agents
    BY DEF TypeOK
  <2>16. QED
    BY <1>0, <2>1, <2>2, <2>3, <2>4, <2>5, <2>6, <2>7, <2>8, <2>9, <2>10, <2>11, <2>12, <2>13, <2>14, <2>15 DEF Next, Goes
<1>1. ASSUME AskInv, AskInv', [Next]_vars
      PROVE  [\A c \in Calls : Stays(c)]_vars
  BY <1>0, <1>1 DEF vars, screen
<1>2. QED
  BY <1>1, AskSafe, PTL DEF Spec, WithdrawnStaysSo

=============================================================================
