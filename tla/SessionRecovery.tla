--------------------------- MODULE SessionRecovery ---------------------------
(***************************************************************************)
(* Crashes, forks and failed steps: how the log of an agent stays one that *)
(* a provider accepts.  One agent writes turn, step and tool events; the   *)
(* durable prefix follows behind.  A crash cuts the log anywhere past that *)
(* prefix, the resume appends the closers of                               *)
(* packages/core/session/src/repair.ts, and a fork starts a child over any *)
(* prefix of the parent (fork.ts).  The checkpoint policy makes a recorded *)
(* call durable before its tool runs.                                      *)
(***************************************************************************)
EXTENDS Naturals, Sequences, FiniteSets, SequencesExt

CONSTANTS
  Requests,    \* call sequences an assistant message may ask for; ids recur in later steps
  MaxTurns,    \* bound: turns of a log
  MaxSteps,    \* bound: steps of a log, over all its turns
  MaxCrashes   \* bound: crashes and forks of a behaviour

VARIABLES
  log,      \* the session's events
  durable,  \* how many of them are on stable storage
  up,       \* "live", "down", or "repairing"
  at,       \* the live agent's own turn, step and unanswered calls
  ran,      \* <<turn, step, id>> of the calls whose tool body was invoked
  crashes

vars == <<log, durable, up, at, ran, crashes>>

-----------------------------------------------------------------------------
(* Events.                                                                 *)

\* turn/start, turn/end, step/start, step/end, assistant/message, tool/call,
\* tool/result or session/end-seed, and what the folds read of it.
Event(type, turn, step, data) == [type |-> type, turn |-> turn, step |-> step, data |-> data]

-----------------------------------------------------------------------------
(* repair.ts                                                               *)

\* Mutant: a recorded result leaves its request pending.
ObserveNoResult(pending, e, seq) ==
  CASE e.type \in {"turn/start", "turn/end", "step/end"} -> <<>>
    [] e.type = "assistant/message" ->
         pending \o [k \in DOMAIN e.data |-> [id |-> e.data[k], turn |-> e.turn, step |-> e.step, call |-> 0]]
    [] e.type = "tool/call" ->
         [k \in DOMAIN pending |-> IF pending[k].id = e.data THEN [pending[k] EXCEPT !.call = seq] ELSE pending[k]]
    [] OTHER -> pending

\* Mutant: a recorded call still counts as one that never started.
ObserveNoCall(pending, e, seq) ==
  CASE e.type \in {"turn/start", "turn/end", "step/end"} -> <<>>
    [] e.type = "assistant/message" ->
         pending \o [k \in DOMAIN e.data |-> [id |-> e.data[k], turn |-> e.turn, step |-> e.step, call |-> 0]]
    [] e.type = "tool/result" ->
         SelectSeq(pending, LAMBDA p : <<p.id, p.turn, p.step>> # <<e.data.id, e.turn, e.step>>)
    [] seq > 0 -> pending

\* ToolCallRecovery.observe(): the unanswered requests, in transcript order.
\* A request knows the seq of its tool/call, or 0 when none was recorded.
Observe(pending, e, seq) ==
  CASE e.type \in {"turn/start", "turn/end", "step/end"} -> <<>>
    [] e.type = "assistant/message" ->
         pending \o [k \in DOMAIN e.data |-> [id |-> e.data[k], turn |-> e.turn, step |-> e.step, call |-> 0]]
    [] e.type = "tool/call" ->
         [k \in DOMAIN pending |-> IF pending[k].id = e.data THEN [pending[k] EXCEPT !.call = seq] ELSE pending[k]]
    [] e.type = "tool/result" ->
         SelectSeq(pending, LAMBDA p : <<p.id, p.turn, p.step>> # <<e.data.id, e.turn, e.step>>)
    [] OTHER -> pending

\* The cursor openTurnClosers() moves over the log; 0 means none is open.
Cursor(c, e) ==
  CASE e.type = "turn/start" -> [turn |-> e.turn, step |-> 0]
    [] e.type = "turn/end"   -> [turn |-> 0, step |-> 0]
    [] e.type = "step/start" -> [c EXCEPT !.step = e.step]
    [] e.type = "step/end"   -> [c EXCEPT !.step = 0]
    [] OTHER -> c

Scan(s) ==
  LET upTo[k \in 0..Len(s)] ==
        IF k = 0 THEN [pending |-> <<>>, open |-> [turn |-> 0, step |-> 0]]
        ELSE LET before == upTo[k - 1]
             IN [pending |-> Observe(before.pending, s[k], k),
                 open    |-> Cursor(before.open, s[k])]
  IN upTo[Len(s)]

\* ToolCallRecovery.results(): one error result per unanswered request.
Results(pending) ==
  [k \in DOMAIN pending |->
     Event("tool/result", pending[k].turn, pending[k].step,
           [id |-> pending[k].id,
            code |-> IF pending[k].call = 0 THEN "TOOL_NOT_STARTED" ELSE "TOOL_OUTCOME_UNKNOWN"])]

\* The boundary events behind the results: an open step closes before its turn.
BoundaryClosers(open, cause) ==
  (IF open.step = 0 THEN <<>> ELSE <<Event("step/end", open.turn, open.step, "none")>>)
    \o <<Event("turn/end", open.turn, 0, cause)>>

\* openTurnClosers(): nothing behind a balanced log.
Closers(s, cause) ==
  LET scan == Scan(s)
  IN IF scan.open.turn = 0 THEN <<>>
     ELSE Results(scan.pending) \o BoundaryClosers(scan.open, cause)

\* Mutant: the seed is closed for where the parent stands, not for the cut.
SeedOfParent(s, boundary) ==
  SubSeq(s, 1, boundary) \o <<Event("session/end-seed", 0, 0, "none")>> \o Closers(s, "forked")

\* buildForkSeed(): an inclusive prefix, its mark, and the closers.
ForkSeed(s, boundary) ==
  LET prefix == Append(SubSeq(s, 1, boundary), Event("session/end-seed", 0, 0, "none"))
  IN prefix \o Closers(prefix, "forked")

\* turnBoundaryOf(): the number of the last turn that started.
LastTurn(s) ==
  LET starts == SelectSeq(s, LAMBDA e : e.type = "turn/start")
  IN IF starts = <<>> THEN 0 ELSE Last(starts).turn

-----------------------------------------------------------------------------
(* The live agent.                                                         *)

\* A driver is minted idle behind the last turn of its session.
Idle(s) == [turn |-> LastTurn(s), open |-> FALSE, step |-> 0, inStep |-> FALSE,
            failed |-> FALSE,
            asked |-> FALSE, calls |-> <<>>, started |-> 0, answered |-> 0]

Init ==
  /\ log = <<>> /\ durable = 0 /\ up = "live" /\ at = Idle(<<>>)
  /\ ran = {} /\ crashes = 0

Live == up = "live"

Write(events, cursor) ==
  /\ log' = log \o events /\ at' = cursor
  /\ UNCHANGED <<durable, up, ran, crashes>>

TurnStart ==
  /\ Live /\ ~at.open /\ at.turn < MaxTurns
  /\ Write(<<Event("turn/start", at.turn + 1, 0, "none")>>,
           [at EXCEPT !.turn = @ + 1, !.open = TRUE, !.step = 0, !.failed = FALSE])

Steps == {k \in DOMAIN log : log[k].type = "step/start"}

StepStart ==
  /\ Live /\ at.open /\ ~at.inStep /\ ~at.failed /\ Cardinality(Steps) < MaxSteps
  /\ Write(<<Event("step/start", at.turn, at.step + 1, "none")>>,
           [at EXCEPT !.step = @ + 1, !.inStep = TRUE, !.asked = FALSE,
                      !.calls = <<>>, !.started = 0, !.answered = 0])

\* The model answers, with the tool calls it asks for.
Answer(calls) ==
  /\ Live /\ at.inStep /\ ~at.asked
  /\ Write(<<Event("assistant/message", at.turn, at.step, calls)>>,
           [at EXCEPT !.asked = TRUE, !.calls = calls])

\* The tool batch records a call; calls start, and are answered, in order.
RecordCall ==
  /\ Live /\ at.inStep /\ at.started < Len(at.calls)
  /\ Write(<<Event("tool/call", at.turn, at.step, at.calls[at.started + 1])>>,
           [at EXCEPT !.started = @ + 1])

Call(e) == <<e.turn, e.step, e.data>>

\* The call recorded at k waits in the tools/execute chain.
Unsettled(k) ==
  /\ Live /\ at.inStep
  /\ log[k].type = "tool/call" /\ Call(log[k]) \notin ran
  /\ log[k].turn = at.turn /\ log[k].step = at.step
  /\ \E i \in (at.answered + 1)..at.started : at.calls[i] = log[k].data

\* The checkpoint policy: the session is flushed, then the body runs.
Run(k) ==
  /\ Unsettled(k) /\ durable >= k
  /\ ran' = ran \cup {Call(log[k])}
  /\ UNCHANGED <<log, durable, up, at, crashes>>

\* The next result in order; the body may have run, or policy refused it.
RecordResult ==
  /\ Live /\ at.inStep /\ at.answered < at.started
  /\ Write(<<Event("tool/result", at.turn, at.step,
                   [id |-> at.calls[at.answered + 1], code |-> "none"])>>,
           [at EXCEPT !.answered = @ + 1])

\* A step fails: what its recovery observed unanswered is answered, and the
\* turn opens no further step.
FailStep ==
  /\ Live /\ at.inStep
  /\ Write(Results(Scan(log).pending) \o <<Event("step/end", at.turn, at.step, "none")>>,
           [at EXCEPT !.inStep = FALSE, !.failed = TRUE, !.calls = <<>>, !.started = 0, !.answered = 0])

StepEnd ==
  /\ Live /\ at.inStep /\ at.asked /\ at.answered = Len(at.calls)
  /\ Write(<<Event("step/end", at.turn, at.step, "none")>>,
           [at EXCEPT !.inStep = FALSE, !.calls = <<>>, !.started = 0, !.answered = 0])

TurnEnd ==
  /\ Live /\ at.open /\ ~at.inStep
  /\ Write(<<Event("turn/end", at.turn, 0, "ended")>>, [at EXCEPT !.open = FALSE])

-----------------------------------------------------------------------------
(* Storage, crashes and forks.                                             *)

\* A flush, or the backend's own pace, makes what was written so far durable.
Persist ==
  /\ durable' = Len(log) /\ durable' > durable
  /\ UNCHANGED <<log, up, at, ran, crashes>>

\* The process dies; some of what was not durable is lost, also mid-repair.
Crash(n) ==
  /\ crashes < MaxCrashes /\ n \in durable..Len(log)
  /\ log' = SubSeq(log, 1, n) /\ up' = "down"
  /\ at' = Idle(<<>>) /\ crashes' = crashes + 1
  /\ UNCHANGED <<durable, ran>>

\* resumeWith(): the interrupted tail is closed through the write handle ...
Repair ==
  /\ up = "down"
  /\ log' = log \o Closers(log, "interrupted") /\ up' = "repairing"
  /\ UNCHANGED <<durable, at, ran, crashes>>

\* ... whose append returns once it is durable; then the agent goes live.
Resume ==
  /\ up = "repairing"
  /\ durable' = Len(log) /\ up' = "live" /\ at' = Idle(log)
  /\ UNCHANGED <<log, ran, crashes>>

Recorded(n) == {Call(log[k]) : k \in {j \in 1..n : log[j].type = "tool/call"}}

\* A child starts over a prefix of the live parent, and is followed from here.
Fork(boundary) ==
  /\ Live /\ crashes < MaxCrashes /\ boundary \in DOMAIN log
  /\ log' = ForkSeed(log, boundary) /\ durable' = Len(log')
  /\ at' = Idle(log') /\ ran' = ran \cap Recorded(boundary) /\ crashes' = crashes + 1
  /\ UNCHANGED up

Next ==
  \/ TurnStart \/ StepStart \/ RecordCall \/ RecordResult \/ FailStep \/ StepEnd \/ TurnEnd
  \/ \E calls \in Requests : Answer(calls)
  \/ \E k \in DOMAIN log : Run(k) \/ Fork(k)
  \/ \E n \in 0..Len(log) : Crash(n)
  \/ Persist \/ Repair \/ Resume

Spec == Init /\ [][Next]_vars
-----------------------------------------------------------------------------
(* Properties.                                                             *)

Types == {"turn/start", "turn/end", "step/start", "step/end", "assistant/message",
          "tool/call", "tool/result", "session/end-seed"}

\* The log holds known events of turns and steps in range; results are recorded
\* behind starts and starts behind requests, and a tool only ran once its call
\* was durable (the checkpoint of session-checkpoint-policy).
TypeOK ==
  /\ \A k \in DOMAIN log : /\ log[k].type \in Types
                           /\ log[k].turn \in 0..MaxTurns /\ log[k].step \in 0..MaxSteps
  /\ durable \in 0..Len(log) /\ up \in {"live", "down", "repairing"}
  /\ at.turn \in 0..MaxTurns /\ at.step \in 0..MaxSteps
  /\ 0 <= at.answered /\ at.answered <= at.started /\ at.started <= Len(at.calls)
  /\ ran \subseteq Recorded(durable)
  /\ crashes \in 0..MaxCrashes

At(s, type) == {k \in DOMAIN s : s[k].type = type}
SameStep(d, e) == d.turn = e.turn /\ d.step = e.step

\* Turns count on from 1, and each one's events lie between its start and its end.
TurnsBracketed(s) ==
  \A k \in At(s, "turn/start") :
    /\ s[k].turn = Cardinality({j \in At(s, "turn/start") : j <= k})
    /\ \E end \in At(s, "turn/end") : \A j \in DOMAIN s :
         s[j].type # "session/end-seed" => (j \in k..end <=> s[j].turn = s[k].turn)

\* The same of steps, whose end comes exactly once.
StepsBracketed(s) ==
  \A k \in At(s, "step/start") :
    \E end \in At(s, "step/end") : \A j \in DOMAIN s :
      s[j].type # "session/end-seed" => (j \in k..end <=> SameStep(s[j], s[k]))

\* The results of a step answer the calls its message asked for: all of them,
\* once, in transcript order, and nothing else.
CallsAnswered(s) ==
  /\ \A k \in At(s, "assistant/message") :
       LET results == SelectSeq(s, LAMBDA e : e.type = "tool/result" /\ SameStep(e, s[k]))
       IN [i \in DOMAIN results |-> results[i].data.id] = s[k].data
  /\ \A r \in At(s, "tool/result") : \E k \in At(s, "assistant/message") : k < r /\ SameStep(s[k], s[r])

Balanced(s) == TurnsBracketed(s) /\ StepsBracketed(s) /\ CallsAnswered(s)

\* Between turns the whole log is one a provider accepts, whatever crashed,
\* failed or was forked before: repaired tails, and forks at any event (also in
\* the middle of a step, or behind another fork's mark), leave nothing dangling.
BalancedBetweenTurns == TypeOK /\ (up = "live" /\ ~at.open => Balanced(log))

\* The model is told that a call never started only if its body never ran, and
\* that its outcome is unknown only if the call was recorded.
RecoveryCodesTruthful ==
  \A r \in At(log, "tool/result") :
    LET call == <<log[r].turn, log[r].step, log[r].data.id>>
    IN /\ log[r].data.code = "TOOL_NOT_STARTED" => call \notin ran
       /\ log[r].data.code = "TOOL_OUTCOME_UNKNOWN" => call \in Recorded(r)

\* A repair cut short anywhere is completed, not repeated, by the next one.
RepairResumable ==
  up = "down" =>
    LET closers == Closers(log, "interrupted")
    IN \A k \in 0..Len(closers) :
         Closers(log \o SubSeq(closers, 1, k), "interrupted") = SubSeq(closers, k + 1, Len(closers))
=============================================================================
