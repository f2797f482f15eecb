--------------------------- MODULE ToolBatchProofs ---------------------------
(***************************************************************************)
(* Safety of the tool scheduler for any number of calls and any limit.     *)
(*                                                                         *)
(* Everything rests on three counters, base <= committed <= started, that  *)
(* divide the calls of the message: what is committed, what the running    *)
(* group has in flight, and what nobody has started.                       *)
(***************************************************************************)
EXTENDS ToolBatch, FiniteSetTheorems, SequenceTheorems, TLAPS

-----------------------------------------------------------------------------
(* The inductive invariant.                                                *)

\* Where a group of calls is being run.
Grouped == pc \in {"fill", "preparing", "race", "commit", "commitNext", "draining"}

Counters ==
  /\ pc = "select" => base = committed /\ started = committed /\ inFlight = {}
  /\ pc = "skip" => committed = started /\ started <= base /\ inFlight = {}
  /\ pc = "returned" => inFlight = {}
  /\ Grouped => /\ group.mode \in Modes
                /\ base <= committed /\ committed <= started /\ started <= group.last
                /\ base < group.last
                /\ group.mode = "exclusive" => group.last = base + 1

\* A call's stage says on which side of the counters it stands.
Stages ==
  /\ \A i \in Calls : /\ stage[i] = "waiting" <=> i > started
                      /\ stage[i] = "committed" <=> i <= committed
                      /\ stage[i] = "preparing" <=> pc = "preparing" /\ i = started
                      /\ stage[i] = "refused" => pc \in {"draining", "failed"}
                      /\ stage[i] = "rejected" => failure
  /\ pc = "preparing" => started > base
  /\ pc = "commitNext" => HasReady

\* The pool holds every call that runs, and the next one to commit.
Pool ==
  /\ Running \subseteq inFlight
  /\ pc \in {"fill", "race"} /\ committed < started => committed + 1 \in inFlight
  /\ Cardinality(inFlight) <= MaxParallel
  /\ pc = "preparing" => Cardinality(inFlight) < MaxParallel
  /\ pc = "failed" => Running = {}

\* A call found exclusive is in a group of its own until that group is over.
Barrier ==
  \A i \in exclusive : /\ i <= started
                       /\ Grouped /\ i > base => group.mode = "exclusive"

\* Whether a body ran, as the stage tells it.
Bodies ==
  \A i \in Calls : /\ stage[i] \in {"waiting", "preparing", "dispatched"} => i \notin bodies
                   /\ stage[i] = "body" => i \in bodies
                   /\ stage[i] \in {"dispatched", "body"} => outcome[i] = "none"

-----------------------------------------------------------------------------
(* Types.                                                                  *)

\* A call's events are events of the log, no two of them the same.
LEMMA EventsDiffer ==
  /\ \A i \in Calls : CallEvent(i) \in Events /\ ResultEvent(i) \in Events
  /\ \A e \in Events : \E i \in Calls : e = CallEvent(i) \/ e = ResultEvent(i)
  /\ \A i, j \in Calls : /\ CallEvent(i) = CallEvent(j) => i = j
                         /\ ResultEvent(i) = ResultEvent(j) => i = j
                         /\ CallEvent(i) # ResultEvent(j)
  BY DEF CallEvent, ResultEvent, Events

\* The executor starts with every field in its range.
LEMMA TypeInit == Init => TypeOK
<1>1. <<>> \in Seq(Events)
  OBVIOUS
<1>2. 0 \in 0..N
  BY BatchAssumption
<1>3. [mode |-> "none", last |-> 0] \in [mode : Modes \cup {"none"}, last : 0..N]
  BY <1>2
<1>4. QED
  BY <1>1, <1>2, <1>3 DEF Init, TypeOK

\* No step of the scheduler takes a field out of its range.
LEMMA TypeScheduler ==
  ASSUME TypeOK, Counters, Stages, Scheduler
  PROVE  TypeOK'
<1> USE BatchAssumption DEF TypeOK, Calls, Modes, Results, poolVars
<1>1. ASSUME NEW mode \in Modes, Select(mode) PROVE TypeOK'
  BY <1>1 DEF Select
<1>2. ASSUME NEW mode \in Modes, Start(mode) PROVE TypeOK'
  <2>1. started + 1 \in Calls
    BY <1>2 DEF Start, CanStart
  <2>2. log' \in Seq(Events)
    BY <1>2, <2>1, EventsDiffer DEF Start, StartCall
  <2>3. QED
    BY <1>2, <2>1, <2>2 DEF Start, StartCall
<1>3. ASSUME NEW mode \in Modes, StopFilling(mode) PROVE TypeOK'
  BY <1>3 DEF StopFilling
<1>4. CASE Skip
  <2>1. CASE base < N
    <3>1. base + 1 \in Calls
      BY <2>1
    <3>2. <<CallEvent(base + 1), ResultEvent(base + 1)>> \in Seq(Events)
      BY <3>1, EventsDiffer
    <3>3. log' \in Seq(Events)
      <4>1. log' = log \o <<CallEvent(base + 1), ResultEvent(base + 1)>>
        BY <1>4, <2>1 DEF Skip
      <4>2. QED
        BY <4>1, <3>2, ConcatProperties
    <3>4. base' = base + 1 /\ outcome' = [outcome EXCEPT ![base + 1] = "beforeDispatch"]
      BY <1>4, <2>1 DEF Skip
    <3>5. base' \in 0..N /\ outcome' \in [Calls -> Results \cup {"none"}]
      BY <3>1, <3>4
    <3>6. QED
      BY <1>4, <3>3, <3>5 DEF Skip
  <2>2. CASE ~(base < N)
    BY <1>4, <2>2 DEF Skip
  <2>3. QED
    BY <2>1, <2>2
<1>5. CASE SkipFails
  <2>1. base + 1 \in Calls
    BY <1>5 DEF SkipFails
  <2>2. Append(log, CallEvent(base + 1)) \in Seq(Events)
    BY <2>1, EventsDiffer
  <2>3. QED
    BY <1>5, <2>2 DEF SkipFails
<1>6. CASE Dispatch
  BY <1>6 DEF Dispatch, Prepared, Stages
<1>7. CASE PrepareFails
  BY <1>7 DEF PrepareFails, Prepared
<1>8. ASSUME NEW result \in {"error", "beforeDispatch"}, Refuse(result) PROVE TypeOK'
  BY <1>8 DEF Refuse, Prepared
<1>9. ASSUME NEW i \in Calls, Race(i) PROVE TypeOK'
  BY <1>9 DEF Race
<1>10. ASSUME NEW result \in Results, Complete(result) PROVE TypeOK'
  BY <1>10 DEF Complete
<1>11. CASE Commit
  <2>1. committed + 1 \in Calls
    BY <1>11 DEF Commit, HasReady, Stages
  <2>2. log' \in Seq(Events)
    BY <1>11, <2>1, EventsDiffer DEF Commit
  <2>3. QED
    BY <1>11, <2>1, <2>2 DEF Commit
<1>12. CASE SchedulerThrows
  BY <1>12 DEF SchedulerThrows
<1>13. CASE Committed
  BY <1>13 DEF Committed
<1>14. CASE Drained
  BY <1>14 DEF Drained
<1>15. QED
  BY <1>1, <1>2, <1>3, <1>4, <1>5, <1>6, <1>7, <1>8, <1>9, <1>10, <1>11, <1>12, <1>13, <1>14
     DEF Scheduler

\* A tool moves one call from a stage to a later one, and nothing else.
LEMMA TypeTool ==
  ASSUME TypeOK, NEW i \in Calls, Tool(i)
  PROVE  TypeOK'
<1> USE DEF TypeOK, Results
<1>1. CASE InvokeBody(i)
  BY <1>1 DEF InvokeBody
<1>2. ASSUME NEW result \in {"ok", "error", "beforeDispatch"}, SettleUninvoked(i, result)
      PROVE  TypeOK'
  BY <1>2 DEF SettleUninvoked, Superseded, Cancellation
<1>3. ASSUME NEW result \in {"ok", "error", "aborted"}, SettleBody(i, result)
      PROVE  TypeOK'
  BY <1>3 DEF SettleBody, Superseded, Cancellation
<1>4. CASE DispatchFails(i)
  BY <1>4 DEF DispatchFails
<1>5. QED
  BY <1>1, <1>2, <1>3, <1>4 DEF Tool

-----------------------------------------------------------------------------
(* Counters, stages and the pool.                                          *)

\* Nothing is started, so every counter is zero and the pool is empty.
LEMMA CountersInit == Init => Counters /\ Stages /\ Pool /\ Barrier
<1> SUFFICES ASSUME Init PROVE Counters /\ Stages /\ Pool /\ Barrier
  OBVIOUS
<1>1. Counters /\ Stages /\ Barrier
  BY BatchAssumption DEF Init, Counters, Stages, Barrier, Grouped, Calls
<1>2. Pool
  BY BatchAssumption, FS_EmptySet DEF Init, Pool, Running
<1>3. QED
  BY <1>1, <1>2

\* A group that stops filling an empty pool has committed all it started.
LEMMA CountersScheduler ==
  ASSUME TypeOK, Counters, Stages, Pool, Scheduler
  PROVE  Counters'
<1> USE BatchAssumption DEF TypeOK, Counters, Stages, Grouped, Modes, poolVars, Calls
<1>1. ASSUME NEW mode \in Modes, Select(mode) PROVE Counters'
  BY <1>1 DEF Select
<1>2. ASSUME NEW mode \in Modes, Start(mode) PROVE Counters'
  BY <1>2 DEF Start, StartCall, CanStart
<1>3. ASSUME NEW mode \in Modes, StopFilling(mode) PROVE Counters'
  BY <1>3 DEF StopFilling, Pool
<1>4. CASE Skip
  <2>1. base' \in Nat /\ base <= base' /\ pc' \in {"skip", "returned"}
    BY <1>4 DEF Skip
  <2>2. QED
    BY <1>4, <2>1 DEF Skip
<1>5. CASE SkipFails
  BY <1>5 DEF SkipFails
<1>6. CASE Dispatch
  BY <1>6 DEF Dispatch, Prepared
<1>7. CASE PrepareFails
  BY <1>7 DEF PrepareFails, Prepared
<1>8. ASSUME NEW result \in {"error", "beforeDispatch"}, Refuse(result) PROVE Counters'
  BY <1>8 DEF Refuse, Prepared
<1>9. ASSUME NEW i \in Calls, Race(i) PROVE Counters'
  BY <1>9 DEF Race
<1>10. ASSUME NEW result \in Results, Complete(result) PROVE Counters'
  BY <1>10 DEF Complete
<1>11. CASE Commit
  BY <1>11 DEF Commit, HasReady
<1>12. CASE SchedulerThrows
  BY <1>12 DEF SchedulerThrows, CanStart
<1>13. CASE Committed
  BY <1>13 DEF Committed
<1>14. CASE Drained
  BY <1>14 DEF Drained
<1>15. QED
  BY <1>1, <1>2, <1>3, <1>4, <1>5, <1>6, <1>7, <1>8, <1>9, <1>10, <1>11, <1>12, <1>13, <1>14
     DEF Scheduler

\* Each step moves a counter exactly when it moves the call next to it.
LEMMA StagesScheduler ==
  ASSUME TypeOK, Counters, Stages, Pool, Scheduler
  PROVE  Stages'
<1> USE BatchAssumption DEF TypeOK, Counters, Stages, Grouped, Modes, poolVars, Calls, HasReady
<1>1. ASSUME NEW mode \in Modes, Select(mode) PROVE Stages'
  BY <1>1 DEF Select
<1>2. ASSUME NEW mode \in Modes, Start(mode) PROVE Stages'
  BY <1>2 DEF Start, StartCall, CanStart
<1>3. ASSUME NEW mode \in Modes, StopFilling(mode) PROVE Stages'
  BY <1>3 DEF StopFilling
<1>4. CASE Skip
  BY <1>4 DEF Skip
<1>5. CASE SkipFails
  BY <1>5 DEF SkipFails
<1>6. CASE Dispatch
  BY <1>6 DEF Dispatch, Prepared
<1>7. CASE PrepareFails
  BY <1>7 DEF PrepareFails, Prepared
<1>8. ASSUME NEW result \in {"error", "beforeDispatch"}, Refuse(result) PROVE Stages'
  BY <1>8 DEF Refuse, Prepared
<1>9. ASSUME NEW i \in Calls, Race(i) PROVE Stages'
  BY <1>9 DEF Race
<1>10. ASSUME NEW result \in Results, Complete(result) PROVE Stages'
  BY <1>10 DEF Complete
<1>11. CASE Commit
  BY <1>11 DEF Commit
<1>12. CASE SchedulerThrows
  BY <1>12 DEF SchedulerThrows, CanStart
<1>13. CASE Committed
  BY <1>13 DEF Committed
<1>14. CASE Drained
  BY <1>14 DEF Drained
<1>15. QED
  BY <1>1, <1>2, <1>3, <1>4, <1>5, <1>6, <1>7, <1>8, <1>9, <1>10, <1>11, <1>12, <1>13, <1>14
     DEF Scheduler

\* The pool is finite: it holds calls of the message.
LEMMA PoolFinite == TypeOK => IsFiniteSet(inFlight) /\ Cardinality(inFlight) \in Nat
<1>1. IsFiniteSet(Calls)
  BY BatchAssumption, FS_Interval DEF Calls
<1>2. TypeOK => IsFiniteSet(inFlight)
  BY <1>1, FS_Subset DEF TypeOK
<1>3. QED
  BY <1>2, FS_CardinalityType

\* The next call to commit is not settled, so it is in the pool or rejected.
LEMMA NextInFlight ==
  ASSUME TypeOK, Counters, Stages, Pool, pc = "commit", committed < started, ~HasReady, ~failure
  PROVE  committed + 1 \in inFlight
<1>1. committed + 1 \in Calls /\ committed < group.last
  BY BatchAssumption DEF TypeOK, Counters, Grouped, Calls
<1>2. stage[committed + 1] \in {"dispatched", "body"}
  BY <1>1 DEF TypeOK, Stages, HasReady
<1>3. QED
  BY <1>1, <1>2 DEF Pool, Running

\* A dispatch joins the pool when it is admitted and leaves it settled.
LEMMA PoolScheduler ==
  ASSUME TypeOK, Counters, Stages, Pool, Scheduler
  PROVE  Pool'
<1> USE DEF TypeOK, Pool, Running, poolVars
<1>1. ASSUME NEW mode \in Modes, Select(mode) PROVE Pool'
  BY <1>1 DEF Select, Counters
<1>2. ASSUME NEW mode \in Modes, Start(mode) PROVE Pool'
  <2>1. stage[started + 1] = "waiting" /\ started + 1 \in Calls
    BY <1>2, BatchAssumption DEF Start, CanStart, Stages, Counters, Grouped, Calls
  <2>2. Running' = Running
    BY <1>2, <2>1 DEF Start, StartCall
  <2>3. pc' = "preparing" /\ UNCHANGED inFlight /\ Cardinality(inFlight) < MaxParallel
    BY <1>2 DEF Start, StartCall, CanStart
  <2>4. QED
    BY <2>2, <2>3
<1>3. ASSUME NEW mode \in Modes, StopFilling(mode) PROVE Pool'
  BY <1>3 DEF StopFilling
<1>4. CASE Skip
  BY <1>4 DEF Skip
<1>5. CASE SkipFails
  BY <1>5 DEF SkipFails, Counters
<1>6. CASE Dispatch
  <2>1. started \in Calls /\ pc = "preparing" /\ pc' = "commit"
    BY <1>6 DEF Dispatch, Prepared, Stages, Counters, Calls
  <2>2. Running' \subseteq inFlight'
    BY <1>6, <2>1 DEF Dispatch, Prepared
  <2>3. IsFiniteSet(inFlight) /\ Cardinality(inFlight) \in Nat
    BY PoolFinite
  <2>4. inFlight' = inFlight \cup {started}
    BY <1>6 DEF Dispatch
  <2>5. Cardinality(inFlight') \in {Cardinality(inFlight), Cardinality(inFlight) + 1}
    BY <2>3, <2>4, FS_AddElement
  <2>6. QED
    BY <2>1, <2>2, <2>3, <2>5, BatchAssumption
<1>7. CASE PrepareFails
  <2>1. Running' \subseteq Running /\ pc' = "draining"
    BY <1>7 DEF PrepareFails, Prepared
  <2>2. QED
    BY <1>7, <2>1 DEF PrepareFails
<1>8. ASSUME NEW result \in {"error", "beforeDispatch"}, Refuse(result) PROVE Pool'
  <2>1. Running' \subseteq Running /\ pc' = "commit"
    BY <1>8 DEF Refuse, Prepared
  <2>2. QED
    BY <1>8, <2>1 DEF Refuse
<1>9. ASSUME NEW i \in Calls, Race(i) PROVE Pool'
  <2>1. Running' \subseteq inFlight'
    BY <1>9 DEF Race, Settled
  <2>2. inFlight' = inFlight \ {i} /\ i \in inFlight
    BY <1>9 DEF Race
  <2>3. IsFiniteSet(inFlight) /\ Cardinality(inFlight) \in Nat
    BY PoolFinite
  <2>4. Cardinality(inFlight') = Cardinality(inFlight) - 1
    BY <2>2, <2>3, FS_RemoveElement
  <2>5. pc' \in {"commit", "draining"}
    BY <1>9 DEF Race
  <2>6. QED
    BY <2>1, <2>3, <2>4, <2>5, BatchAssumption
<1>10. ASSUME NEW result \in Results, Complete(result) PROVE Pool'
  BY <1>10 DEF Complete
<1>11. CASE Commit
  <2>1. Running' \subseteq Running /\ pc' = "commit"
    BY <1>11 DEF Commit
  <2>2. QED
    BY <1>11, <2>1 DEF Commit
<1>12. CASE SchedulerThrows
  BY <1>12 DEF SchedulerThrows, CanStart
<1>13. CASE Committed
  BY <1>13, NextInFlight DEF Committed
<1>14. CASE Drained
  BY <1>14 DEF Drained, Settled
<1>15. QED
  BY <1>1, <1>2, <1>3, <1>4, <1>5, <1>6, <1>7, <1>8, <1>9, <1>10, <1>11, <1>12, <1>13, <1>14
     DEF Scheduler

\* A call joins a group only in the mode it was classified with.
LEMMA BarrierScheduler ==
  ASSUME TypeOK, Counters, Stages, Pool, Barrier, Scheduler
  PROVE  Barrier'
<1> USE BatchAssumption DEF TypeOK, Barrier, Counters, Grouped, Modes, poolVars, Calls
<1>1. ASSUME NEW mode \in Modes, Select(mode) PROVE Barrier'
  BY <1>1 DEF Select
<1>2. ASSUME NEW mode \in Modes, Start(mode) PROVE Barrier'
  BY <1>2 DEF Start, StartCall, CanStart, Joins, Mode
<1>3. ASSUME NEW mode \in Modes, StopFilling(mode) PROVE Barrier'
  BY <1>3 DEF StopFilling, Pool
<1>4. CASE Skip
  BY <1>4 DEF Skip
<1>5. CASE SkipFails
  BY <1>5 DEF SkipFails
<1>6. CASE Dispatch
  BY <1>6 DEF Dispatch, Prepared
<1>7. CASE PrepareFails
  BY <1>7 DEF PrepareFails, Prepared
<1>8. ASSUME NEW result \in {"error", "beforeDispatch"}, Refuse(result) PROVE Barrier'
  BY <1>8 DEF Refuse, Prepared
<1>9. ASSUME NEW i \in Calls, Race(i) PROVE Barrier'
  BY <1>9 DEF Race
<1>10. ASSUME NEW result \in Results, Complete(result) PROVE Barrier'
  BY <1>10 DEF Complete
<1>11. CASE Commit
  BY <1>11 DEF Commit
<1>12. CASE SchedulerThrows
  BY <1>12 DEF SchedulerThrows, CanStart
<1>13. CASE Committed
  BY <1>13 DEF Committed
<1>14. CASE Drained
  BY <1>14 DEF Drained
<1>15. QED
  BY <1>1, <1>2, <1>3, <1>4, <1>5, <1>6, <1>7, <1>8, <1>9, <1>10, <1>11, <1>12, <1>13, <1>14
     DEF Scheduler

\* A tool that answers leaves the counters alone, and its call in the pool
\* until the scheduler takes it out.
LEMMA CountersTool ==
  ASSUME TypeOK, Counters, Stages, Pool, Barrier, NEW i \in Calls, Tool(i)
  PROVE  Counters' /\ Stages' /\ Pool' /\ Barrier'
<1>1. UNCHANGED <<pc, group, base, started, committed, inFlight, exclusive>>
  BY DEF Tool, InvokeBody, SettleUninvoked, SettleBody, DispatchFails
<1>2. stage[i] \in {"dispatched", "body"}
  BY DEF Tool, InvokeBody, SettleUninvoked, SettleBody, DispatchFails
<1>3. \E next \in {"body", "settled", "rejected"} :
        /\ stage' = [stage EXCEPT ![i] = next]
        /\ (next = "rejected" => failure') /\ (failure => failure')
  BY DEF Tool, InvokeBody, SettleUninvoked, SettleBody, DispatchFails
<1>4. Counters' /\ Barrier'
  BY <1>1 DEF Counters, Barrier, Grouped
<1>5. Stages'
  BY <1>1, <1>2, <1>3 DEF TypeOK, Stages, HasReady
<1>6. Pool'
  BY <1>1, <1>2, <1>3 DEF TypeOK, Pool, Running
<1>7. QED
  BY <1>4, <1>5, <1>6

BatchInv == TypeOK /\ Counters /\ Stages /\ Pool /\ Barrier

\* The counters, stages and pool agree in every reachable state.
LEMMA BatchSafe == Spec => []BatchInv
<1>1. Init => BatchInv
  BY TypeInit, CountersInit DEF BatchInv
<1>2. BatchInv /\ [Next]_vars => BatchInv'
  <2> SUFFICES ASSUME BatchInv, [Next]_vars PROVE BatchInv'
    OBVIOUS
  <2>1. CASE Scheduler
    BY <2>1, TypeScheduler, CountersScheduler, StagesScheduler, PoolScheduler, BarrierScheduler
       DEF BatchInv
  <2>2. CASE Cancel
    BY <2>2 DEF Cancel, poolVars, BatchInv, TypeOK, Counters, Stages, Pool, Barrier, Grouped,
                HasReady, Running
  <2>3. ASSUME NEW i \in Calls, Tool(i) PROVE BatchInv'
    BY <2>3, TypeTool, CountersTool DEF BatchInv
  <2>4. CASE UNCHANGED vars
    BY <2>4 DEF vars, BatchInv, TypeOK, Counters, Stages, Pool, Barrier, Grouped, HasReady, Running
  <2>5. QED
    BY <2>1, <2>2, <2>3, <2>4 DEF Next
<1>3. QED
  BY <1>1, <1>2, PTL DEF Spec

-----------------------------------------------------------------------------
(* What follows from the counters alone.                                   *)

\* The executor's fields keep their ranges, for any number of calls and any
\* pool limit.
THEOREM BatchTyped == Spec => []TypeOK
<1>1. BatchInv => TypeOK
  BY DEF BatchInv
<1>2. QED
  BY <1>1, BatchSafe, PTL

\* Neither a return nor a rejection of the batch leaves a dispatch running:
\* the pool is empty at a return, and at a rejection all of it has settled.
THEOREM BatchQuiescent == Spec => []NeverSettlesOverWork
<1>1. BatchInv => NeverSettlesOverWork
  BY DEF BatchInv, Counters, Pool, NeverSettlesOverWork
<1>2. QED
  BY <1>1, BatchSafe, PTL

\* Bodies that overlap are in the pool, and the pool has a limit.
LEMMA PoolIsBounded == BatchInv => PoolBounded
<1> SUFFICES ASSUME BatchInv PROVE PoolBounded
  OBVIOUS
<1>1. TypeOK /\ Running \subseteq inFlight /\ Cardinality(inFlight) <= MaxParallel
  BY DEF BatchInv, Pool
<1>2. IsFiniteSet(inFlight) /\ Cardinality(inFlight) \in Nat
  BY <1>1, PoolFinite
<1>3. Cardinality(Running) <= Cardinality(inFlight) /\ IsFiniteSet(Running)
  BY <1>1, <1>2, FS_Subset
<1>4. Cardinality(Running) \in Nat
  BY <1>3, FS_CardinalityType
<1>5. QED
  BY <1>1, <1>2, <1>3, <1>4, BatchAssumption DEF PoolBounded

\* An exclusive call that has started and is not committed is the only call
\* between the two counters, since its group is of that call alone.
LEMMA ExclusiveIsAlone == BatchInv => ExclusiveRunsAlone
<1> SUFFICES ASSUME BatchInv, NEW i \in exclusive,
                    stage[i] \in {"preparing", "dispatched", "body"}
             PROVE  Running \subseteq {i} /\ started = i /\ committed = i - 1
  BY DEF ExclusiveRunsAlone
<1> USE BatchAssumption DEF BatchInv, TypeOK, Calls
<1>1. i \in Calls /\ committed < i /\ i <= started
  BY DEF Stages, Barrier
<1>2. Grouped
  <2>1. pc # "returned"
    BY <1>1 DEF Pool, Running, Counters, Stages
  <2>2. pc \notin {"select", "skip", "failed"}
    BY <1>1 DEF Pool, Running, Counters, Stages
  <2>3. QED
    BY <2>1, <2>2 DEF Grouped
<1>3. group.mode = "exclusive" /\ started = i /\ committed = i - 1
  BY <1>1, <1>2 DEF Counters, Barrier
<1>4. ASSUME NEW j \in Running PROVE j = i
  BY <1>1, <1>3 DEF Running, Stages
<1>5. QED
  BY <1>3, <1>4

\* No more bodies overlap than the limit allows, and none with an exclusive
\* call, whatever the calls' modes become while the group runs.
THEOREM BatchOverlap == Spec => []OverlapBounded
<1>1. BatchInv => OverlapBounded
  BY PoolIsBounded, ExclusiveIsAlone DEF OverlapBounded
<1>2. QED
  BY <1>1, BatchSafe, PTL

-----------------------------------------------------------------------------
(* What the model is told of a cancelled call.                             *)

CodesInv == Bodies /\ AbortCodesTruthful

LEMMA CodesInit == Init => CodesInv
  BY DEF Init, CodesInv, Bodies, AbortCodesTruthful

\* The scheduler words only calls without a body, or by whether there was one.
LEMMA CodesScheduler ==
  ASSUME BatchInv, CodesInv, Scheduler
  PROVE  CodesInv'
<1> USE BatchAssumption DEF BatchInv, TypeOK, CodesInv, Bodies, AbortCodesTruthful, poolVars
<1>1. ASSUME NEW mode \in Modes, Select(mode) PROVE CodesInv'
  BY <1>1 DEF Select
<1>2. ASSUME NEW mode \in Modes, Start(mode) PROVE CodesInv'
  BY <1>2 DEF Start, StartCall, CanStart, Stages
<1>3. ASSUME NEW mode \in Modes, StopFilling(mode) PROVE CodesInv'
  BY <1>3 DEF StopFilling
<1>4. CASE Skip
  <2>1. CASE base < N
    <3>1. base + 1 \in Calls /\ base + 1 > started
      BY <1>4, <2>1 DEF Skip, Counters, Calls
    <3>2. base + 1 \notin bodies /\ stage[base + 1] = "waiting"
      BY <3>1 DEF Stages
    <3>3. outcome' = [outcome EXCEPT ![base + 1] = "beforeDispatch"] /\ UNCHANGED <<stage, bodies>>
      BY <1>4, <2>1 DEF Skip
    <3>4. QED
      BY <3>2, <3>3
  <2>2. CASE ~(base < N)
    BY <1>4, <2>2 DEF Skip
  <2>3. QED
    BY <2>1, <2>2
<1>5. CASE SkipFails
  BY <1>5 DEF SkipFails
<1>6. CASE Dispatch
  BY <1>6 DEF Dispatch, Prepared, Stages, Calls, Counters, Grouped
<1>7. CASE PrepareFails
  BY <1>7 DEF PrepareFails, Prepared, Stages, Calls, Counters, Grouped
<1>8. ASSUME NEW result \in {"error", "beforeDispatch"}, Refuse(result) PROVE CodesInv'
  BY <1>8 DEF Refuse, Prepared, Stages, Calls, Counters, Grouped
<1>9. ASSUME NEW i \in Calls, Race(i) PROVE CodesInv'
  BY <1>9 DEF Race
<1>10. ASSUME NEW result \in Results, Complete(result) PROVE CodesInv'
  <2>1. committed + 1 \in Calls /\ stage[committed + 1] = "settled"
    BY <1>10 DEF Complete, HasReady, Calls
  <2>2. result = Superseded(committed + 1, outcome[committed + 1]) \/ result = "error"
    BY <1>10 DEF Complete
  <2>3. outcome' = [outcome EXCEPT ![committed + 1] = result] /\ UNCHANGED <<stage, bodies>>
    BY <1>10 DEF Complete
  <2>4. QED
    BY <2>1, <2>2, <2>3 DEF Superseded, Cancellation
<1>11. CASE Commit
  BY <1>11 DEF Commit
<1>12. CASE SchedulerThrows
  BY <1>12 DEF SchedulerThrows, CanStart
<1>13. CASE Committed
  BY <1>13 DEF Committed
<1>14. CASE Drained
  BY <1>14 DEF Drained
<1>15. QED
  BY <1>1, <1>2, <1>3, <1>4, <1>5, <1>6, <1>7, <1>8, <1>9, <1>10, <1>11, <1>12, <1>13, <1>14
     DEF Scheduler

\* A body is recorded as it is invoked, before anything can be said of it.
LEMMA CodesTool ==
  ASSUME BatchInv, CodesInv, NEW i \in Calls, Tool(i)
  PROVE  CodesInv'
<1> USE DEF BatchInv, TypeOK, CodesInv, Bodies, AbortCodesTruthful
<1>1. CASE InvokeBody(i)
  BY <1>1 DEF InvokeBody
<1>2. ASSUME NEW result \in {"ok", "error", "beforeDispatch"}, SettleUninvoked(i, result)
      PROVE  CodesInv'
  BY <1>2 DEF SettleUninvoked, Superseded, Cancellation
<1>3. ASSUME NEW result \in {"ok", "error", "aborted"}, SettleBody(i, result)
      PROVE  CodesInv'
  BY <1>3 DEF SettleBody, Superseded, Cancellation
<1>4. CASE DispatchFails(i)
  BY <1>4 DEF DispatchFails
<1>5. QED
  BY <1>1, <1>2, <1>3, <1>4 DEF Tool

\* A call said to be aborted before its dispatch has no body, and one said to
\* be aborted has.
THEOREM BatchCodes == Spec => []AbortCodesTruthful
<1>1. Init => CodesInv
  BY CodesInit
<1>2. BatchInv /\ CodesInv /\ [Next]_vars => CodesInv'
  <2> SUFFICES ASSUME BatchInv, CodesInv, [Next]_vars PROVE CodesInv'
    OBVIOUS
  <2>1. CASE Scheduler
    BY <2>1, CodesScheduler
  <2>2. CASE Cancel
    BY <2>2 DEF Cancel, poolVars, CodesInv, Bodies, AbortCodesTruthful
  <2>3. ASSUME NEW i \in Calls, Tool(i) PROVE CodesInv'
    BY <2>3, CodesTool
  <2>4. CASE UNCHANGED vars
    BY <2>4 DEF vars, CodesInv, Bodies, AbortCodesTruthful
  <2>5. QED
    BY <2>1, <2>2, <2>3, <2>4 DEF Next
<1>3. CodesInv => AbortCodesTruthful
  BY DEF CodesInv
<1>4. QED
  BY <1>1, <1>2, <1>3, BatchSafe, PTL DEF Spec

-----------------------------------------------------------------------------
(* The log.                                                                *)

\* An appended event is the last one, and the others stay where they are.
LEMMA AppendOccurs ==
  ASSUME NEW s \in Seq(Events), NEW e \in Events
  PROVE  \A f : Occurs(Append(s, e), f) <=> Occurs(s, f) \/ f = e
<1>1. /\ Len(s) \in Nat /\ Len(Append(s, e)) = Len(s) + 1
      /\ \A k \in 1..Len(s) : Append(s, e)[k] = s[k]
      /\ Append(s, e)[Len(s) + 1] = e
  OBVIOUS
<1>2. QED
  BY <1>1 DEF Occurs

\* What comes behind what stays so, and e comes behind all that is in s.
LEMMA AppendBehind ==
  ASSUME NEW s \in Seq(Events), NEW e \in Events, NEW c, NEW f,
         Behind(s, c, f), e = f => Occurs(s, c)
  PROVE  Behind(Append(s, e), c, f)
<1>1. /\ Len(s) \in Nat /\ Len(Append(s, e)) = Len(s) + 1
      /\ \A k \in 1..Len(s) : Append(s, e)[k] = s[k]
      /\ Append(s, e)[Len(s) + 1] = e
  OBVIOUS
<1> SUFFICES ASSUME NEW k \in 1..(Len(s) + 1), Append(s, e)[k] = f
             PROVE  \E j \in 1..(k - 1) : Append(s, e)[j] = c
  BY <1>1 DEF Behind
<1>2. CASE k = Len(s) + 1
  <2>1. PICK j \in 1..Len(s) : s[j] = c
    BY <1>1, <1>2 DEF Occurs
  <2>2. QED
    BY <1>1, <1>2, <2>1
<1>3. CASE k \in 1..Len(s)
  <2>1. PICK j \in 1..(k - 1) : s[j] = c
    BY <1>1, <1>3 DEF Behind
  <2>2. QED
    BY <1>1, <1>3, <2>1
<1>4. QED
  BY <1>1, <1>2, <1>3

\* A new event whose predecessors occur keeps a log in model order.
LEMMA AppendInOrder ==
  ASSUME NEW s \in Seq(Events), NEW e \in Events, InModelOrder(s), ~Occurs(s, e),
         \A i \in Calls : e = ResultEvent(i) => Occurs(s, CallEvent(i)),
         \A i \in 1..(N - 1) : /\ e = CallEvent(i + 1) => Occurs(s, CallEvent(i))
                               /\ e = ResultEvent(i + 1) => Occurs(s, ResultEvent(i))
  PROVE  InModelOrder(Append(s, e))
<1>1. /\ Len(s) \in Nat /\ Len(Append(s, e)) = Len(s) + 1
      /\ \A k \in 1..Len(s) : Append(s, e)[k] = s[k]
      /\ Append(s, e)[Len(s) + 1] = e
  OBVIOUS
<1>2. \A j, k \in 1..Len(Append(s, e)) : Append(s, e)[j] = Append(s, e)[k] => j = k
  <2>1. \A k \in 1..Len(s) : s[k] # e
    BY DEF Occurs
  <2>2. \A j, k \in 1..Len(s) : s[j] = s[k] => j = k
    BY DEF InModelOrder
  <2>3. QED
    BY <1>1, <2>1, <2>2
<1>3. \A i \in Calls : Behind(Append(s, e), CallEvent(i), ResultEvent(i))
  BY AppendBehind DEF InModelOrder
<1>4. \A i \in 1..(N - 1) : Behind(Append(s, e), CallEvent(i), CallEvent(i + 1))
  BY AppendBehind DEF InModelOrder
<1>5. \A i \in 1..(N - 1) : Behind(Append(s, e), ResultEvent(i), ResultEvent(i + 1))
  BY AppendBehind DEF InModelOrder
<1>6. QED
  BY <1>2, <1>3, <1>4, <1>5 DEF InModelOrder

\* The log of the calls up to c and the results up to r.
LoggedUpTo(s, c, r) ==
  \A i \in Calls : /\ Occurs(s, CallEvent(i)) <=> i <= c
                   /\ Occurs(s, ResultEvent(i)) <=> i <= r

\* The next call of such a log keeps it in order.
LEMMA CallInOrder ==
  ASSUME NEW s \in Seq(Events), NEW c \in Nat, NEW r \in Nat, c < N,
         InModelOrder(s), LoggedUpTo(s, c, r)
  PROVE  /\ Append(s, CallEvent(c + 1)) \in Seq(Events)
         /\ InModelOrder(Append(s, CallEvent(c + 1)))
         /\ LoggedUpTo(Append(s, CallEvent(c + 1)), c + 1, r)
<1>1. c + 1 \in Calls /\ CallEvent(c + 1) \in Events
  BY BatchAssumption, EventsDiffer DEF Calls
<1>2. ~Occurs(s, CallEvent(c + 1))
  BY <1>1 DEF LoggedUpTo
<1>3. \A i \in Calls : CallEvent(c + 1) # ResultEvent(i)
  BY <1>1, EventsDiffer
<1>4. \A i \in 1..(N - 1) : /\ i \in Calls /\ i + 1 \in Calls
                            /\ CallEvent(c + 1) = CallEvent(i + 1) => Occurs(s, CallEvent(i))
  <2>1. \A i \in 1..(N - 1) : i \in Calls /\ i + 1 \in Calls
    BY BatchAssumption DEF Calls
  <2>2. \A i \in 1..(N - 1) : CallEvent(c + 1) = CallEvent(i + 1) => c = i
    BY <1>1, <2>1, EventsDiffer
  <2>3. QED
    BY <2>1, <2>2 DEF LoggedUpTo
<1>5. InModelOrder(Append(s, CallEvent(c + 1)))
  BY <1>1, <1>2, <1>3, <1>4, AppendInOrder
<1>6. \A f : Occurs(Append(s, CallEvent(c + 1)), f) <=> Occurs(s, f) \/ f = CallEvent(c + 1)
  BY <1>1, AppendOccurs
<1>7. \A i \in Calls : CallEvent(i) = CallEvent(c + 1) <=> i = c + 1
  BY <1>1, EventsDiffer
<1>8. LoggedUpTo(Append(s, CallEvent(c + 1)), c + 1, r)
  BY <1>3, <1>6, <1>7 DEF LoggedUpTo, Calls
<1>9. QED
  BY <1>1, <1>5, <1>8

\* So does the next result, if its call is logged.
LEMMA ResultInOrder ==
  ASSUME NEW s \in Seq(Events), NEW c \in Nat, NEW r \in Nat, r < c, c <= N,
         InModelOrder(s), LoggedUpTo(s, c, r)
  PROVE  /\ Append(s, ResultEvent(r + 1)) \in Seq(Events)
         /\ InModelOrder(Append(s, ResultEvent(r + 1)))
         /\ LoggedUpTo(Append(s, ResultEvent(r + 1)), c, r + 1)
<1>1. r + 1 \in Calls /\ ResultEvent(r + 1) \in Events
  BY BatchAssumption, EventsDiffer DEF Calls
<1>2. ~Occurs(s, ResultEvent(r + 1)) /\ Occurs(s, CallEvent(r + 1))
  BY <1>1 DEF LoggedUpTo
<1>3. \A i \in Calls : /\ CallEvent(i) # ResultEvent(r + 1)
                       /\ ResultEvent(i) = ResultEvent(r + 1) <=> i = r + 1
  BY <1>1, EventsDiffer
<1>4. \A i \in 1..(N - 1) : /\ i \in Calls /\ i + 1 \in Calls
                            /\ ResultEvent(r + 1) = ResultEvent(i + 1) => Occurs(s, ResultEvent(i))
  <2>1. \A i \in 1..(N - 1) : i \in Calls /\ i + 1 \in Calls
    BY BatchAssumption DEF Calls
  <2>2. \A i \in 1..(N - 1) : ResultEvent(r + 1) = ResultEvent(i + 1) => r = i
    BY <1>3, <2>1
  <2>3. QED
    BY <2>1, <2>2 DEF LoggedUpTo
<1>5. \A i \in Calls : ResultEvent(r + 1) = ResultEvent(i) => Occurs(s, CallEvent(i))
  BY <1>2, <1>3
<1>6. InModelOrder(Append(s, ResultEvent(r + 1)))
  BY <1>1, <1>2, <1>3, <1>4, <1>5, AppendInOrder
<1>7. \A f : Occurs(Append(s, ResultEvent(r + 1)), f) <=> Occurs(s, f) \/ f = ResultEvent(r + 1)
  BY <1>1, AppendOccurs
<1>8. LoggedUpTo(Append(s, ResultEvent(r + 1)), c, r + 1)
  BY <1>3, <1>7 DEF LoggedUpTo, Calls
<1>9. QED
  BY <1>1, <1>6, <1>8

\* The log holds the calls up to the one started last and the results up to
\* the one committed last; behind an abort, both up to the one skipped last.
CalledTo == CASE pc = "skip" -> base [] pc = "returned" -> N [] OTHER -> started
AnsweredTo == CASE pc = "skip" -> base [] pc = "returned" -> N [] OTHER -> committed

LogInv ==
  /\ LogInModelOrder
  /\ pc # "failed" => LoggedUpTo(log, CalledTo, AnsweredTo)

LEMMA LogInit == Init => LogInv
  BY BatchAssumption DEF Init, LogInv, LogInModelOrder, InModelOrder, Behind, LoggedUpTo,
                         Occurs, CalledTo, AnsweredTo, Calls

\* A step that leaves the log and the counters alone.
LEMMA LogUnchanged ==
  ASSUME LogInv, UNCHANGED <<log, base, started, committed>>,
         pc \notin {"skip", "returned", "failed"}, pc' \notin {"skip", "returned"}
  PROVE  LogInv'
<1>1. InModelOrder(log')
  BY DEF LogInv, LogInModelOrder, InModelOrder, Behind, CallEvent, ResultEvent
<1>2. LoggedUpTo(log, started, committed)
  BY DEF LogInv, CalledTo, AnsweredTo
<1>3. LoggedUpTo(log', started', committed')
  BY <1>2
<1>4. CalledTo' = started' /\ AnsweredTo' = committed'
  BY DEF CalledTo, AnsweredTo
<1>5. QED
  BY <1>1, <1>3, <1>4 DEF LogInv, LogInModelOrder

\* Each append adds the next call or the next result.
LEMMA LogScheduler ==
  ASSUME BatchInv, LogInv, Scheduler
  PROVE  LogInv'
<1> USE BatchAssumption DEF BatchInv, TypeOK, poolVars, Calls
<1>1. ASSUME NEW mode \in Modes, Select(mode) PROVE LogInv'
  <2>1. UNCHANGED <<log, base, started, committed>> /\ pc # "failed" /\ pc \notin {"skip", "returned"}
          /\ pc' \notin {"skip", "returned"}
    BY <1>1 DEF Select
  <2>2. QED
    BY <2>1, LogUnchanged
<1>2. ASSUME NEW mode \in Modes, Start(mode) PROVE LogInv'
  <2>1. LoggedUpTo(log, started, committed)
    BY <1>2 DEF Start, LogInv, CalledTo, AnsweredTo
  <2>2. started < N /\ started \in Nat /\ committed \in Nat
    BY <1>2 DEF Start, CanStart
  <2>3. log' = Append(log, CallEvent(started + 1))
    BY <1>2 DEF Start, StartCall
  <2>4. InModelOrder(log') /\ LoggedUpTo(log', started + 1, committed)
    BY <2>1, <2>2, <2>3, CallInOrder DEF LogInv, LogInModelOrder
  <2>5. CalledTo' = started + 1 /\ AnsweredTo' = committed
    BY <1>2 DEF Start, StartCall, CalledTo, AnsweredTo
  <2>6. QED
    BY <2>4, <2>5 DEF LogInv, LogInModelOrder
<1>3. ASSUME NEW mode \in Modes, StopFilling(mode) PROVE LogInv'
  <2>1. LoggedUpTo(log, started, committed) /\ UNCHANGED log /\ InModelOrder(log)
    BY <1>3 DEF StopFilling, LogInv, LogInModelOrder, CalledTo, AnsweredTo
  <2>2. CalledTo' = started /\ AnsweredTo' = committed
    BY <1>3 DEF StopFilling, CalledTo, AnsweredTo, Counters, Grouped, Pool
  <2>3. QED
    BY <2>1, <2>2 DEF LogInv, LogInModelOrder
<1>4. CASE Skip
  <2>1. LoggedUpTo(log, base, base) /\ InModelOrder(log) /\ base \in 0..N
    BY <1>4 DEF Skip, LogInv, LogInModelOrder, CalledTo, AnsweredTo
  <2>2. CASE base < N
    <3> DEFINE called == Append(log, CallEvent(base + 1))
    <3>1. called \in Seq(Events) /\ InModelOrder(called) /\ LoggedUpTo(called, base + 1, base)
      BY <2>1, <2>2, CallInOrder
    <3>2. /\ InModelOrder(Append(called, ResultEvent(base + 1)))
          /\ LoggedUpTo(Append(called, ResultEvent(base + 1)), base + 1, base + 1)
      <4> HIDE DEF called
      <4>1. base \in Nat /\ base + 1 \in Nat /\ base < base + 1 /\ base + 1 <= N
        BY <2>1, <2>2
      <4>2. QED
        BY <3>1, <4>1, ResultInOrder
    <3>3. log' = Append(called, ResultEvent(base + 1))
      <4>1. log' = log \o <<CallEvent(base + 1), ResultEvent(base + 1)>>
        BY <1>4, <2>2 DEF Skip
      <4>2. \A c, r : log \o <<c, r>> = Append(Append(log, c), r)
        OBVIOUS
      <4>3. QED
        BY <4>1, <4>2
    <3>4. CalledTo' = base + 1 /\ AnsweredTo' = base + 1
      BY <1>4, <2>2 DEF Skip, CalledTo, AnsweredTo
    <3>5. QED
      BY <3>2, <3>3, <3>4 DEF LogInv, LogInModelOrder
  <2>3. CASE ~(base < N)
    <3>1. UNCHANGED log /\ CalledTo' = base /\ AnsweredTo' = base
      BY <1>4, <2>1, <2>3 DEF Skip, CalledTo, AnsweredTo
    <3>2. QED
      BY <2>1, <3>1 DEF LogInv, LogInModelOrder
  <2>4. QED
    BY <2>2, <2>3
<1>5. CASE SkipFails
  <2>1. LoggedUpTo(log, base, base) /\ InModelOrder(log) /\ base \in Nat /\ base < N
    BY <1>5 DEF SkipFails, LogInv, LogInModelOrder, CalledTo, AnsweredTo
  <2>2. InModelOrder(Append(log, CallEvent(base + 1)))
    BY <2>1, CallInOrder
  <2>3. log' \in {log, Append(log, CallEvent(base + 1))} /\ pc' = "failed"
    BY <1>5 DEF SkipFails
  <2>4. QED
    BY <2>1, <2>2, <2>3 DEF LogInv, LogInModelOrder
<1>6. CASE Dispatch
  <2>1. UNCHANGED <<log, base, started, committed>> /\ pc # "failed" /\ pc \notin {"skip", "returned"}
          /\ pc' \notin {"skip", "returned"}
    BY <1>6 DEF Dispatch, Prepared
  <2>2. QED
    BY <2>1, LogUnchanged
<1>7. CASE PrepareFails
  <2>1. UNCHANGED <<log, base, started, committed>> /\ pc # "failed" /\ pc \notin {"skip", "returned"}
          /\ pc' \notin {"skip", "returned"}
    BY <1>7 DEF PrepareFails, Prepared
  <2>2. QED
    BY <2>1, LogUnchanged
<1>8. ASSUME NEW result \in {"error", "beforeDispatch"}, Refuse(result) PROVE LogInv'
  <2>1. UNCHANGED <<log, base, started, committed>> /\ pc # "failed" /\ pc \notin {"skip", "returned"}
          /\ pc' \notin {"skip", "returned"}
    BY <1>8 DEF Refuse, Prepared
  <2>2. QED
    BY <2>1, LogUnchanged
<1>9. ASSUME NEW i \in Calls, Race(i) PROVE LogInv'
  <2>1. UNCHANGED <<log, base, started, committed>> /\ pc # "failed" /\ pc \notin {"skip", "returned"}
          /\ pc' \notin {"skip", "returned"}
    BY <1>9 DEF Race
  <2>2. QED
    BY <2>1, LogUnchanged
<1>10. ASSUME NEW result \in Results, Complete(result) PROVE LogInv'
  <2>1. UNCHANGED <<log, base, started, committed>> /\ pc # "failed" /\ pc \notin {"skip", "returned"}
          /\ pc' \notin {"skip", "returned"}
    BY <1>10 DEF Complete
  <2>2. QED
    BY <2>1, LogUnchanged
<1>11. CASE Commit
  <2>1. LoggedUpTo(log, started, committed)
    BY <1>11 DEF Commit, LogInv, CalledTo, AnsweredTo
  <2>2. committed < started /\ started <= N /\ started \in Nat /\ committed \in Nat
    BY <1>11 DEF Commit, HasReady, Stages
  <2>3. log' = Append(log, ResultEvent(committed + 1))
    BY <1>11 DEF Commit
  <2>4. InModelOrder(log') /\ LoggedUpTo(log', started, committed + 1)
    BY <2>1, <2>2, <2>3, ResultInOrder DEF LogInv, LogInModelOrder
  <2>5. CalledTo' = started /\ AnsweredTo' = committed + 1
    BY <1>11 DEF Commit, CalledTo, AnsweredTo
  <2>6. QED
    BY <2>4, <2>5 DEF LogInv, LogInModelOrder
<1>12. CASE SchedulerThrows
  <2>1. UNCHANGED <<log, base, started, committed>> /\ pc # "failed" /\ pc \notin {"skip", "returned"}
          /\ pc' \notin {"skip", "returned"}
    BY <1>12 DEF SchedulerThrows, CanStart
  <2>2. QED
    BY <2>1, LogUnchanged
<1>13. CASE Committed
  <2>1. UNCHANGED <<log, base, started, committed>> /\ pc # "failed" /\ pc \notin {"skip", "returned"}
          /\ pc' \notin {"skip", "returned"}
    BY <1>13 DEF Committed
  <2>2. QED
    BY <2>1, LogUnchanged
<1>14. CASE Drained
  <2>1. UNCHANGED <<log, base, started, committed>> /\ pc # "failed" /\ pc \notin {"skip", "returned"}
          /\ pc' \notin {"skip", "returned"}
    BY <1>14 DEF Drained
  <2>2. QED
    BY <2>1, LogUnchanged
<1>15. QED
  BY <1>1, <1>2, <1>3, <1>4, <1>5, <1>6, <1>7, <1>8, <1>9, <1>10, <1>11, <1>12, <1>13, <1>14
     DEF Scheduler

\* The log replays for any number of calls: in model order, no call or result
\* twice, no result ahead of its call, and complete at a return.
THEOREM BatchReplays == Spec => []LogReplays
<1>1. Init => LogInv
  BY LogInit
<1>2. BatchInv /\ LogInv /\ [Next]_vars => LogInv'
  <2> SUFFICES ASSUME BatchInv, LogInv, [Next]_vars PROVE LogInv'
    OBVIOUS
  <2>1. CASE Scheduler
    BY <2>1, LogScheduler
  <2>2. CASE UNCHANGED <<log, base, started, committed, pc>>
    BY <2>2 DEF LogInv, LogInModelOrder, CalledTo, AnsweredTo
  <2>3. CASE Cancel
    BY <2>2, <2>3 DEF Cancel
  <2>4. ASSUME NEW i \in Calls, Tool(i) PROVE LogInv'
    BY <2>2, <2>4 DEF Tool, InvokeBody, SettleUninvoked, SettleBody, DispatchFails
  <2>5. CASE UNCHANGED vars
    BY <2>2, <2>5 DEF vars
  <2>6. QED
    BY <2>1, <2>3, <2>4, <2>5 DEF Next
<1>3. TypeOK /\ LogInv => LogReplays
  BY BatchAssumption DEF LogInv, LogReplays, EveryCallAnswered, LoggedUpTo, AnsweredTo, Calls
<1>4. QED
  BY <1>1, <1>2, <1>3, BatchSafe, BatchTyped, PTL DEF Spec

=============================================================================
