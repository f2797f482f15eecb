----------------------------- MODULE ToolBatch -----------------------------
(***************************************************************************)
(* The scheduler of one assistant message's tool calls                     *)
(* (packages/core/tools/src/batch.ts) over the invocation pipeline         *)
(* (pipeline.ts).  Exclusive calls are barriers, parallel ones share a     *)
(* bounded pool; policy and results stay in model order while tool bodies  *)
(* overlap.  An abort, or a failure of the scheduler itself, stops new     *)
(* starts and drains what was started.                                     *)
(*                                                                         *)
(* An action ends where the scheduler awaits.  Tool bodies, the caller's   *)
(* abort and the registry act between any two of them.                     *)
(***************************************************************************)
EXTENDS Naturals, Sequences, FiniteSets

CONSTANTS
  N,           \* tool calls of the message
  MaxParallel  \* maxParallelToolCalls

ASSUME BatchAssumption == N \in Nat \ {0} /\ MaxParallel \in Nat \ {0}

Calls == 1..N

VARIABLES
  cancelled,  \* the caller's signal is aborted
  pc,         \* where the scheduler is
  group,      \* mode and last call of the running group
  base,       \* calls of the groups before
  started,    \* calls started so far
  committed,  \* calls whose result was committed in order
  aborted,    \* runGroup noticed the abort
  failure,    \* schedulerFailure is set
  inFlight,   \* dispatches the pool still waits for
  stage,      \* progress of each call in the pipeline
  outcome,    \* what a settled call came to
  bodies,     \* calls whose body was invoked
  exclusive,  \* calls classified exclusive right before they started
  log         \* tool/call and tool/result events, in order

vars == <<cancelled, pc, group, base, started, committed, aborted, failure,
          inFlight, stage, outcome, bodies, exclusive, log>>
poolVars == <<inFlight, stage, outcome, bodies, exclusive>>

Init ==
  /\ cancelled = FALSE
  /\ pc = "select" /\ group = [mode |-> "none", last |-> 0]
  /\ base = 0 /\ started = 0 /\ committed = 0
  /\ aborted = FALSE /\ failure = FALSE
  /\ inFlight = {} /\ stage = [i \in Calls |-> "waiting"]
  /\ outcome = [i \in Calls |-> "none"] /\ bodies = {} /\ exclusive = {}
  /\ log = <<>>

Modes == {"parallel", "exclusive"}

CallEvent(i) == <<"tool/call", i>>
ResultEvent(i) == <<"tool/result", i>>
Events == {"tool/call", "tool/result"} \X Calls

-----------------------------------------------------------------------------
(* Groups and starts.                                                      *)

\* executeToolBatch() classifies the next call and opens a group behind it.
Select(mode) ==
  /\ pc = "select" /\ base < N
  /\ group' = [mode |-> mode, last |-> IF mode = "parallel" THEN N ELSE base + 1]
  /\ aborted' = cancelled
  /\ pc' = "fill"
  /\ UNCHANGED <<cancelled, base, started, committed, failure, poolVars, log>>

CanStart == ~aborted /\ started < group.last /\ Cardinality(inFlight) < MaxParallel

\* Mutant: the running pool takes a call that meanwhile became exclusive.
JoinsAnyway(mode) == mode \in Modes

\* Later calls of a pool are classified again, right before they start.
Joins(mode) == started = base \/ group.mode = "exclusive" \/ mode = "parallel"

\* How the call is scheduled: by its group's mode, or as read right now.
Mode(mode) == IF started = base THEN group.mode ELSE mode

StartCall ==
  /\ started' = started + 1
  /\ stage' = [stage EXCEPT ![started + 1] = "preparing"]
  /\ log' = Append(log, CallEvent(started + 1))
  /\ pc' = "preparing"
  /\ UNCHANGED <<cancelled, group, base, committed, aborted, failure,
                 inFlight, outcome, bodies>>

\* startCall(): tool/call is logged, then policy runs.
Start(mode) ==
  /\ pc = "fill" /\ CanStart /\ Joins(mode)
  /\ exclusive' = IF Mode(mode) = "exclusive" THEN exclusive \cup {started + 1} ELSE exclusive
  /\ StartCall

\* Mutant: the abort path skips from the first call of the group.
StopFillingStale(mode) ==
  /\ pc = "fill" /\ (~CanStart \/ ~Joins(mode))
  /\ IF inFlight # {}
     THEN pc' = "race" /\ UNCHANGED base
     ELSE /\ base' = IF aborted THEN base ELSE started
          /\ pc' = IF aborted THEN "skip" ELSE IF started = N THEN "returned" ELSE "select"
  /\ UNCHANGED <<cancelled, group, started, committed, aborted, failure, poolVars, log>>

\* fillPool() is done: wait for a dispatch, or the group is over.
StopFilling(mode) ==
  /\ pc = "fill" /\ (~CanStart \/ ~Joins(mode))
  /\ IF inFlight # {}
     THEN pc' = "race" /\ UNCHANGED base
     ELSE /\ base' = started
          /\ pc' = IF aborted THEN "skip" ELSE IF started = N THEN "returned" ELSE "select"
  /\ UNCHANGED <<cancelled, group, started, committed, aborted, failure, poolVars, log>>

\* Behind an abort every call that never started gets a synthetic result.
Skip ==
  /\ pc = "skip"
  /\ IF base < N
     THEN /\ base' = base + 1
          /\ log' = log \o <<CallEvent(base + 1), ResultEvent(base + 1)>>
          /\ outcome' = [outcome EXCEPT ![base + 1] = "beforeDispatch"]
          /\ UNCHANGED pc
     ELSE pc' = "returned" /\ UNCHANGED <<base, log, outcome>>
  /\ UNCHANGED <<cancelled, group, started, committed, aborted, failure,
                 inFlight, stage, bodies, exclusive>>

-----------------------------------------------------------------------------
(* prepare(): ordered policy in front of the dispatch.                     *)

Prepared(next, result) ==
  /\ pc = "preparing"
  /\ stage' = [stage EXCEPT ![started] = next]
  /\ outcome' = [outcome EXCEPT ![started] = result]
  /\ UNCHANGED <<cancelled, group, base, started, committed, aborted, bodies, exclusive, log>>

\* Policy allows the call: its dispatch joins the pool.
Dispatch ==
  /\ ~cancelled /\ ~failure
  /\ Prepared("dispatched", "none")
  /\ inFlight' = inFlight \cup {started}
  /\ pc' = "commit"
  /\ UNCHANGED failure

\* A denial, a failing gate, a cancelled approval or an abort: no dispatch.
Refuse(result) ==
  /\ ~failure
  /\ Prepared("settled", result)
  /\ pc' = "commit"
  /\ UNCHANGED <<inFlight, failure>>

\* prepare() rejects, or a dispatch failed while it ran.
PrepareFails ==
  /\ Prepared("refused", "none")
  /\ failure' = TRUE
  /\ pc' = "draining"
  /\ UNCHANGED inFlight

-----------------------------------------------------------------------------
(* The tools.                                                              *)

\* dispatchToolBody(): the wrappers let the call through to its tool.
InvokeBody(i) ==
  /\ stage[i] = "dispatched" /\ ~cancelled
  /\ stage' = [stage EXCEPT ![i] = "body"]
  /\ bodies' = bodies \cup {i}
  /\ UNCHANGED <<cancelled, pc, group, base, started, committed, aborted,
                 failure, inFlight, outcome, exclusive, log>>

\* Mutant: the code does not look at whether the body ran.
CancelledBefore(i) == IF i \in Calls THEN "beforeDispatch" ELSE "aborted"

\* What dispatch() makes of a result, given that the caller aborted or not.
Cancellation(i) == IF i \in bodies THEN "aborted" ELSE "beforeDispatch"
Superseded(i, result) ==
  IF cancelled /\ result = "ok" THEN Cancellation(i) ELSE result

\* A wrapper answers itself, the tool is gone, or a signal was aborted first.
SettleUninvoked(i, result) ==
  /\ stage[i] = "dispatched"
  /\ stage' = [stage EXCEPT ![i] = "settled"]
  /\ outcome' = [outcome EXCEPT ![i] = Superseded(i, result)]
  /\ UNCHANGED <<cancelled, pc, group, base, started, committed, aborted,
                 failure, inFlight, bodies, exclusive, log>>

\* The body returns or throws; a wrapper's timeout reads as an abort, too.
SettleBody(i, result) ==
  /\ stage[i] = "body"
  /\ stage' = [stage EXCEPT ![i] = "settled"]
  /\ outcome' = [outcome EXCEPT ![i] = Superseded(i, result)]
  /\ UNCHANGED <<cancelled, pc, group, base, started, committed, aborted,
                 failure, inFlight, bodies, exclusive, log>>

\* The dispatch itself rejects: a scheduler failure without a result.
DispatchFails(i) ==
  /\ stage[i] \in {"dispatched", "body"}
  /\ stage' = [stage EXCEPT ![i] = "rejected"]
  /\ failure' = TRUE
  /\ UNCHANGED <<cancelled, pc, group, base, started, committed, aborted,
                 inFlight, outcome, bodies, exclusive, log>>

-----------------------------------------------------------------------------
(* Ordered commits.                                                        *)

\* Mutant: a result that was committed meanwhile no longer counts.
SettledUnread(i) == stage[i] \in {"settled", "rejected"}

Settled(i) == stage[i] \in {"settled", "committed", "rejected"}

\* A dispatch settles (one that settled earlier counts as well).
Race(i) ==
  /\ pc = "race" /\ i \in inFlight /\ Settled(i)
  /\ inFlight' = inFlight \ {i}
  /\ pc' = IF failure THEN "draining" ELSE "commit"
  /\ UNCHANGED <<cancelled, group, base, started, committed, aborted, failure,
                 stage, outcome, bodies, exclusive, log>>

\* commitReady() advances across contiguous settled calls only.
HasReady == committed < group.last /\ stage[committed + 1] = "settled"

\* complete(): post-execute policy; it may turn any outcome into an error.
Complete(result) ==
  /\ pc = "commit" /\ HasReady
  /\ LET i == committed + 1
     IN /\ result \in {Superseded(i, outcome[i]), "error"}
        /\ outcome' = [outcome EXCEPT ![i] = result]
  /\ pc' = "commitNext"
  /\ UNCHANGED <<cancelled, group, base, started, committed, aborted, failure,
                 inFlight, stage, bodies, exclusive, log>>

\* tool/result is logged behind the observers of the final outcome.
Commit ==
  /\ pc = "commitNext"
  /\ committed' = committed + 1
  /\ stage' = [stage EXCEPT ![committed + 1] = "committed"]
  /\ log' = Append(log, ResultEvent(committed + 1))
  /\ pc' = "commit"
  /\ UNCHANGED <<cancelled, group, base, started, aborted, failure,
                 inFlight, outcome, bodies, exclusive>>

\* The log or the pipeline throws, at a start or a commit.
SchedulerThrows ==
  /\ \/ pc = "commitNext"
     \/ pc = "fill" /\ CanStart
  /\ failure' = TRUE
  /\ pc' = "draining"
  /\ UNCHANGED <<cancelled, group, base, started, committed, aborted, poolVars, log>>

\* Nothing more to commit: notice a failure or an abort, then fill the pool.
Committed ==
  /\ pc = "commit" /\ ~HasReady
  /\ pc' = IF failure THEN "draining" ELSE "fill"
  /\ aborted' = (aborted \/ cancelled)
  /\ UNCHANGED <<cancelled, group, base, started, committed, failure, poolVars, log>>

\* An append throws at a call that never started.
SkipFails ==
  /\ pc = "skip" /\ base < N
  /\ log' \in {log, Append(log, CallEvent(base + 1))}
  /\ pc' = "failed"
  /\ UNCHANGED <<cancelled, group, base, started, committed, aborted, failure, poolVars>>

\* Mutant: the failure rejects at once.
FailUndrained ==
  /\ pc = "draining"
  /\ pc' = "failed"
  /\ UNCHANGED <<cancelled, group, base, started, committed, aborted, failure, poolVars, log>>

\* runGroup()'s catch: every started dispatch settles before the batch rejects.
Drained ==
  /\ pc = "draining" /\ \A i \in inFlight : Settled(i)
  /\ pc' = "failed"
  /\ UNCHANGED <<cancelled, group, base, started, committed, aborted, failure, poolVars, log>>

Cancel ==
  /\ ~cancelled /\ pc \notin {"returned", "failed"}
  /\ cancelled' = TRUE
  /\ UNCHANGED <<pc, group, base, started, committed, aborted, failure, poolVars, log>>

Results == {"ok", "error", "beforeDispatch", "aborted"}

Scheduler ==
  \/ \E mode \in Modes : Select(mode) \/ Start(mode) \/ StopFilling(mode)
  \/ Skip \/ SkipFails
  \/ Dispatch \/ PrepareFails
  \/ \E result \in {"error", "beforeDispatch"} : Refuse(result)
  \/ \E i \in Calls : Race(i)
  \/ \E result \in Results : Complete(result)
  \/ Commit \/ SchedulerThrows \/ Committed \/ Drained

Tool(i) ==
  \/ InvokeBody(i)
  \/ \E result \in {"ok", "error", "beforeDispatch"} : SettleUninvoked(i, result)
  \/ \E result \in {"ok", "error", "aborted"} : SettleBody(i, result)
  \/ DispatchFails(i)

Next == Scheduler \/ Cancel \/ \E i \in Calls : Tool(i)

Spec == Init /\ [][Next]_vars

\* Every started body reaches quiescence, aborted or not.
FairSpec == Spec /\ WF_vars(Scheduler) /\ \A i \in Calls : WF_vars(Tool(i))
-----------------------------------------------------------------------------
(* Properties.                                                             *)

Running == {i \in Calls : stage[i] \in {"dispatched", "body"}}

\* The executor's fields keep their ranges and agree with each other: a settled
\* selection never leaves the batch somewhere it cannot be.
TypeOK ==
  /\ cancelled \in BOOLEAN /\ aborted \in BOOLEAN /\ failure \in BOOLEAN
  /\ pc \in {"select", "fill", "preparing", "race", "commit", "commitNext",
             "skip", "draining", "returned", "failed"}
  /\ group \in [mode : Modes \cup {"none"}, last : 0..N]
  /\ base \in 0..N /\ started \in 0..N /\ committed \in 0..N
  /\ inFlight \subseteq Calls
  /\ stage \in [Calls -> {"waiting", "preparing", "dispatched", "body", "settled",
                          "rejected", "refused", "committed"}]
  /\ outcome \in [Calls -> Results \cup {"none"}]
  /\ bodies \subseteq Calls /\ exclusive \subseteq Calls
  /\ log \in Seq(Events)

Occurs(s, e) == \E k \in 1..Len(s) : s[k] = e

\* In s, an event f comes only behind an event e.
Behind(s, e, f) == \A k \in 1..Len(s) : s[k] = f => \E j \in 1..(k - 1) : s[j] = e

InModelOrder(s) ==
  /\ \A j, k \in 1..Len(s) : s[j] = s[k] => j = k
  /\ \A i \in Calls : Behind(s, CallEvent(i), ResultEvent(i))
  /\ \A i \in 1..(N - 1) : /\ Behind(s, CallEvent(i), CallEvent(i + 1))
                           /\ Behind(s, ResultEvent(i), ResultEvent(i + 1))

\* Calls and results are each logged once and in model order, and no result
\* comes before its call, however the bodies overlap, whatever is denied,
\* skipped or fails: the provider replays the log as it stands.
LogInModelOrder == InModelOrder(log)

\* A batch that returns answered every call.
EveryCallAnswered == pc = "returned" => \A i \in Calls : Occurs(log, ResultEvent(i))

\* The log the provider replays: in model order, and complete once the batch
\* returns.
LogReplays == TypeOK /\ LogInModelOrder /\ EveryCallAnswered

\* The batch never settles while started work is still running.
NeverSettlesOverWork == pc \in {"returned", "failed"} => Running = {}

\* No more bodies than the limit overlap.
PoolBounded == Cardinality(Running) <= MaxParallel

\* A call classified exclusive right before it started is a barrier: it runs
\* behind every result before it, and nothing starts beside it.
ExclusiveRunsAlone ==
  \A i \in exclusive : stage[i] \in {"preparing", "dispatched", "body"} =>
    /\ Running \subseteq {i}
    /\ started = i /\ committed = i - 1

\* What may overlap: no more than the limit, and nothing with an exclusive call.
OverlapBounded == PoolBounded /\ ExclusiveRunsAlone

\* The model is told that a call was aborted before its dispatch only if its
\* body never ran, and that it was aborted only if it did.
AbortCodesTruthful ==
  \A i \in Calls : /\ outcome[i] = "beforeDispatch" => i \notin bodies
                   /\ outcome[i] = "aborted" => i \in bodies

\* A batch settles, if everything it started does.
BatchSettles == <>(pc \in {"returned", "failed"})
=============================================================================
