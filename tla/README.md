# A verification project for deepseek-harness

TLA+ models of the parts of the harness where ordering, failure and crashes decide
whether a conversation survives: the agent driver, the tool scheduler, the repair of
interrupted logs, the write handle of a stored session and who may hold it, the creation
and teardown of agents, the store of live sessions, the way a background job's end reaches
the model, the automatic rounds of a goal, and the approvals in front of tools. TLC checks
them on small instances; TLAPS proves every safety property of the runs for every instance, except
those of interrupted logs (section 5 says why).

All paths below are relative to the repository. The models are translated from the
TypeScript sources; where a comment, a document and the code disagree the model follows
the code (section 7 lists the disagreements).

## 1. The system and its components

The harness runs one or more *agents*. Each agent owns one *session*, an append-only log
of events (`turn/start`, `step/start`, `user/message`, `assistant/message`, `tool/call`,
`tool/result`, `step/end`, `turn/end`, ...). Everything else - the model history, the UI,
the accounting of consumed work - is a fold of that log. The log is therefore the
contract between all components, and a log that a provider refuses to replay ends the
conversation for good.

| component | state it keeps | operations | interacts with | correct means |
|---|---|---|---|---|
| agent driver and inbox (`packages/core/agent-loop/src/agent.ts`, `inbox.ts`) | phase, abort signal, latch, turn and step numbers, two queues | send, prepend, remove, replace, clear, cancel, runMaintenance, whenIdle, the turn/step loop | session (append), hooks (pre-step, request, stopping), tool batch, callers | one activity at a time; a balanced log however a turn ends; every message has one fate; aborts converge; no wake is lost |
| tool batch executor (`packages/core/tools/src/batch.ts`, `pipeline.ts`) | pool of dispatches, ordered commit cursor, failure latch | start, dispatch, commit, skip, drain | driver (awaits it), tools, policy hooks, session | log in model order; every call answered; barriers; truthful abort codes; never settles over running work |
| session repair and fork (`packages/core/session/src/repair.ts`, `fork.ts`) | none: folds of a log | openTurnClosers, ToolCallRecovery, buildForkSeed | resume (`agent-loop/src/index.ts`), the driver's failed steps, checkpoints | closes any cut as a provider accepts it; tells the truth about tools; idempotent |
| session write handle (`packages/session/session-persistence-jsonl/src/storage.ts`) | buffer, timer, pause, chain, cursor, torn tail | append, enqueueLive, flush, close | session/flush hook, artifact, lease | order, exactly once, nothing stranded, flush and close settle |
| session artifact on disk (`.../src/index.ts`, `lease.ts`, `generation.ts`) | generations of zstd frames, a lock file | materialize, append, rollback, open, list, migrate | write handle, other processes | readable prefix behind any crash; one writer |
| session store (`packages/core/session/src/index.ts`) | live sessions, reservations, dispatch flag | prepare, enter, announce, append, detach, fork, flush | persistence, agents, projections | every observer sees a session's start, its events in order and its end, however observers call back; a detach asked for happens |
| agent lifecycle (`packages/core/agent-loop/src/index.ts`) | per-agent disposal state, the factory's live agents and startups | create, resume, configured start, teardown, dispose | session store, agent registry, persistence, driver | one writer of a session; no handle, claim or lock leaks; teardown happens once and everything settles |
| job registry (`packages/jobs/jobs-local/src/index.ts`) | job table, waiters, rings | start, kill, wait, read, remove, dispose | tools, subprocesses, agents | first outcome wins; a disposal waits only for jobs that will settle and leaves none behind |
| job tools and foreground commands (`packages/jobs/tool-jobs/src/index.ts`, `packages/shell/tool-bash/src/index.ts`) | pending notices, kills of the model, released reads, settlements held for them | job_output, job_kill, bash; the listener on settlements | registry (events run inside its operations), inbox, tool batch | the model learns of every end, once; output is consumed once and shown once |
| goal rounds (`packages/goal/goal-round-driver/src/index.ts`) | the goal (a fold of the log), its activation, a reservation, a drive pass | create, edit, resume, pause, complete, block, clear; drive, gate | driver (send, inbox, pre-step hook), session flush | only the next round of the armed goal enters a step, prompts that came first go first, an armed goal is driven on |
| approvals (`packages/interaction/user-approval/src/index.ts`) | pending asks, policies and grants per session, the terminal's chain of prompts | request, setPolicy, decide, abort, answer | tool pipeline, session log, terminal app | only what a person allowed runs, a withdrawn ask stays withdrawn, aborted turns end |
| model request retry (`packages/llm/llm-retry/src/index.ts`) | attempt counters | on request error | driver | bounded attempts |
| model providers, projections, formats and migration, compaction, schedules, subagents, domain storage | see PROJECT.json | | | |
| gateway, UIs, CLI, plugin host, concrete tools, experimental packages | presentation, transport, start-up, effects of the operating system | | | not modelled |

How they interact: callers `send()` to a driver; the driver claims from its inbox,
appends boundary events to the session, asks a provider for an `assistant/message`, and
hands its tool calls to one batch, which appends `tool/call` and `tool/result`. Each
append is dispatched synchronously to observers, one of which routes the event into the
write handle's buffer. `session/flush` (called by the checkpoint policy before tools run)
drains that buffer. Background jobs outlive the call that started them: the registry emits
their settlement to the job tools, which answer a waiting call with it or put a notice
into the agent's inbox. After a crash the next process reads the artifact through a write
handle, appends the closers of `repair.ts` through it, and mints an idle driver. A created
or resumed agent takes write ownership of its session, enters the session store and then
the agent registry, and leaves them in the reverse order behind its driver. The goal-round
driver listens to all of this and queues prompts of its own; the tool pipeline asks the
approval service, which waits for a person at the terminal's single prompt.

What is hard: the process is single threaded, but every `await` and every synchronous
dispatch is a point where other code runs. Cancels may land at any of them, with two
different causes for one activity; observers reenter the inbox; tools settle in any order
and ignore their abort; storage fails half way; the process dies anywhere. The list of
hazards in PROJECT.json names the line where each of these bites.

## 2. Modules

```
 TurnLog  <--implements--  AgentDriver
                              ^-- AgentDriverProofs
 ToolBatch        the step of the driver that AgentDriver shows as `unanswered` counting down
   ^-- ToolBatchProofs
 SessionRecovery  <-- MCSessionRecovery (TLC)      logs as TurnLog allows them, cut anywhere
 JsonlHandle      how much of such a log is on disk
   ^-- JsonlHandleProofs
 WriteOwnership <-- AgentLifecycle <-- MCAgentLifecycle (TLC)   who holds its handle, and for what
 AgentLife  <--implements--  AgentLifecycle <-- AgentLifecycleProofs
 SessionStore     <-- MCSessionStore (TLC)         who is told of its events
   ^-- SessionStoreProofs
 JobRegistry  <-- JobNotices  <-- MCJobNotices (TLC)  jobs, and what the model is told of them
                    ^-- JobNoticesProofs
 Goals        <-- GoalRounds                       the goal's fold, and the turns it asks for
                    ^-- GoalRoundsProofs
 Approvals    <-- MCApprovals (TLC)                what a call of the batch waits for first
   ^-- ApprovalsProofs
```

**TurnLog** is the abstract specification: what every reader of one agent's log relies
on. Turns count on and do not overlap, a step lies inside a turn, no step closes over an
unanswered call, a message asks for tools only when every earlier call is answered.

**AgentDriver** is `ReactLoopAgent` with its inbox. `phase`, `abort`, `wakeRequested`,
`turn`, `step` are the fields of the phase record (`abort` is `Live` or the *first*
reason, as an AbortSignal keeps it); `nextTurn` and `nextStep` are the inbox; `pc` is the
await or synchronous dispatch at which `kick()`/`turn()`/`step()` stands; `target`,
`turnEnds`, `stepEnd`, `batch`, `toAdmit`, `extra`, `attempts` are their locals; `stack`
has the calls that are suspended under an observer, the innermost first: `send()` between
its insertion and `wakeDriver()`, `kick()` between its idle notification and its latch
check, and `cancel()` behind either of the two splices of `Inbox.clear()`, with the reset of
the latch and the abort of the signal still ahead. Frames nest as deep as the messages
allow. An action runs to the next place where somebody else may act: the messages of a
batch are admitted one append at a time (`AdmitMessage`), and callers act between them. `Caller` holds the public operations, enabled wherever the code may be called:
inbox changes are impossible inside `Session.append()` (its nested append throws), which
`InboxWritable` expresses. `Driver` holds the loop. Abstractions:

 - messages are model values, sent at most once each; `nextStep`, `batch` and `toAdmit` are
   sets, because no property tells their order apart (`nextTurn` is a sequence: its head is
   claimed);
 - the model's answer is the number of its tool calls and its ending; a tool batch shows
   only how many calls are unanswered (ToolBatch is the detail);
 - a rejecting `Session.append()` inside the loop (a full disk is not reported there, but
   a closed session is) is not modelled;
 - the history variables `sent`, `wakes`, `outcomes`, `admits`, `prompts` and `disposing`
   record what observers saw and feed no guard other than "each message is sent once".

**ToolBatch** is `executeToolBatch()` with `runGroup()`, `fillPool()`, `commitReady()`
and the abort outcomes of `prepare()`, `dispatch()` and `complete()`. `pc` is the
scheduler's await; `stage` is each call's progress through the pipeline. The mode of a
call is read twice in the code, when a group is formed and again right before it starts;
both readings are free choices here (hooks may change the answer). Tool bodies and the
caller's abort act between any two scheduler steps, which is finer than the event loop
and so allows all of its interleavings.

**SessionRecovery** has the log itself: `Observe`, `Results`, `Closers` are
`ToolCallRecovery` and `openTurnClosers()`, `ForkSeed` is `buildForkSeed()`. A live agent
writes events as the driver does (including the recovery of a failed step, which uses
the same code), `durable` follows, `Crash` cuts the log at any point behind it, `Repair`
and `Resume` are `resumeWith()`, `Fork` continues in a child over any prefix. The
checkpoint policy is the guard of `Run`: a tool's body runs once its `tool/call` is
durable. Call ids recur in later steps, as providers do that. Left out: results whose
`surfaceOp` replaces an earlier one, and events the folds ignore.

**JsonlHandle** is the write handle of a session, its artifact, and what a closed handle
has left behind the next open. `h` has the fields of the handle, `chain` the queued
operations, `op` the one that awaits the file system, `waiters` the callers of
`session/flush`, `disk` the readable frames plus a possibly torn last one. An action ends
where the code awaits the file system or a timer; continuations that need microtasks only
are part of the action before. Events and flushes are routed to the handle until its claim
goes, also while `close()` awaits its chain (`Routed`), so `close()` drains again until it
finds nothing; `ensureLease()` awaits the kernel lock (`Acquire`), a lease that was taken is
released (`Released`), one that never was is not, and a drain behind the close takes it.
A failed append is rolled back (`OpFails`), or the rollback fails as well and what was
written stays under a cursor that does not know of it (`RollbackFails`). The same process
may open the session while the closed handle's timer is armed: `late` is what that timer's
drain will write, over the offset the old handle remembers, and which lock it has
(`LateDrain`, in one step). The history variable `spoiled` says that one of these two has
happened; it is also a bound: what is under way then is followed to its end, without new
events or opens. Only the zstd encoding, whose torn frames can hold whole records, is
modelled, and one closed handle lingers at a time.

**JobRegistry** holds the job records and what each operation of `jobs-local` does to
one: operators from table to table, because every event the registry emits runs its
listeners inside the operation. **JobNotices** takes the steps and composes the registry
with the job tools, the foreground commands of the bash tool, one agent's next-step inbox
and its log. `killedByModel`, `suppressedSettlements` are the plugin's sets, `Claims` its
`releasedReads`, `notice` its `pending` map together with the place of the message it
stands for; `call` is what each tool call is doing. `given`, `known`, `outputs`, `lost`
are history. A settlement is one step from the report behind the pump's last drain to the
released waiters; the code behind a released wait is another step, so the microtasks
between the two may be interleaved with everything (more than the event loop allows). A
timer's callback runs the continuation of its await before any other task, so a wait that
expires reads in the same step. Sizes of outputs are three classes: it fits the notice,
it fits the larger limit up to which the read is taken and held, or neither. Left out:
the order of the inbox (a cancel that does not keep it empties it, the notices in it
included) and the budget of wakes for notices (`spentWakes`), rendering,
jobs without an owner and of further agents, the disposal of the whole service, a `kill`
whose cancel throws, and the pump's own failures.

**WriteOwnership** is the bookkeeping that lets one handle write: `writers` and `pending`
are the maps of `JsonlBackendTracker` in each process, `lock` the kernel lock, `artifact`
the published log. `io` is the await at which `create()`, `open()` or the handle's `close()`
stands, `op` the handle's first write, behind which it is `made`. Taking the lock and
publishing the artifact are one step of the first write, and so are the release of the lock
and of the claim in `close()` (the window between those two is in JsonlHandle). `late` is
what a timer that `close()` left armed will do: publish the artifact under the lock that was
given back, or take a lock of its own, which nobody releases (`LateDrain`). A late drain
that only appends changes nothing that is kept here.

**AgentLifecycle** puts on it what asks for handles: `createAgent()`, `resume()`,
`restoreOrCreateConfigured()`, `initializeAgent()` with its maintenance job, `teardown()`
and `FactoryOwnership`. `pc` is the await of a creation, `td` that of its memoized
teardown, `stop` what its caller and owner did, `shown` the entries of the session store
and of the agent registry. **AgentLife** is what the rest of the harness relies on: at most
one agent of a session is registered in a process, it was registered under its own write
claim, first as a session and then as an agent, and it leaves behind the release of that
claim; between processes one lock is held, by the owner of a claim or by the timer of a
handle that is closed. Left out or merged:

 - the start without persistence, and the backend's own unload, which closes every handle;
 - the wait of a configured start for an identity that drains is the guard of
   `BeginConfigured`;
 - an owner of a configured agent may abort it behind its acquisition, which is more than
   the code allows; a handle that arrives behind an abort is closed by nobody's await, so a
   factory that is disposed of may leave one on its way out, and `NothingLeft` says so.

**SessionStore** is the synchronous store: `stack` is the call stack of dispatches, and
between `Tell` and `Returns` the observer that was told last may call the store again, from
inside any notification. `Enter` waits until no dispatch of the session is left on the
stack: its callers enter sessions they have just prepared. Left out: sessions that are
never entered, `fork()` and `flush()`, payload accessors, and observers that reject
asynchronously (they are contained, as those that throw are).

**Goals** has the compare-and-set mutations of the goal service and the condition of its
fold, **GoalRounds** the driver of rounds. `goal` is the projection with the process's
activation, `place` the agent as far as its inbox, status and pre-step hooks show it
(AgentDriver has the rest), `d` the driver's state: its reservation (`attempt`), its flags
and `run`, the await of its drive pass. A pass that starts inside another operation is
`due`, and nothing happens before it has reached its first await. The goal tools' authority
checks are left out (the model may do in its turn whatever some authority allows). Left
out: the disposal of the agent, the removal of the listeners behind an unload, and a
decision downstream that drops the round's message from the batch; a request made inside
a pass that is still on the stack is served by that pass.

**Approvals** has the service's asks with their policy, grants and aborts, the pipeline's
use of the outcome, and the answerer of the terminal app with its chain of prompts, `line`.
`gone` is the caller's signal as the ask sees it; `never` the policy at the time of the
ask. `heard` are the agents whose turn's signal has listeners of prompts, answered ones
included, and `keyboard` says whether the prompt on the screen still has the keys: an abort
of an agent in `heard` takes them, whoever's prompt is shown (section 7). Agents without
calls only link the lineage. The answerers of the web client, of ACP
and of the SDK are not modelled.

**MCSessionRecovery** and **MCJobNotices** hold a set of call sequences and a symmetry set,
the other MC modules the functions their constants stand for. Definitions marked "Mutant" in the modules are never reached by a
specification: they are wrong variants of the definition below them, kept to show that
each property notices the mistake it is there for.

## 3. Runs

| run | what it asks | bounds | result |
|---|---|---|---|
| `driver_log` | log balanced, refinement of TurnLog; one activity, no stale latch, one prompt per turn (`DriverDiscipline`); one fate per message, and a model that is asked has seen its batch, once (`OneFate`); nothing new begins behind an abort and endings tell of cancels (`AbortDiscipline`); aborts converge and turns close (`Converges`), latched wakes run | 2 messages, 2 causes, 3 tool steps a turn, 2 attempts, 2 calls | holds |
| `tool_batch` | the log replays: order and completeness (`LogReplays`); barriers and pool limit (`OverlapBounded`); truthful abort codes, drain; settles | 3 calls, pool of 2 | holds |
| `session_recovery` | balance behind crashes, forks and failed steps; recovery codes; interrupted repairs | 2 turns, 2 steps in all, none or 2 calls each, with equal ids, 2 crashes or forks | holds |
| `jsonl_handle` | order; appended events survive and nothing falls between buffer and disk (`NothingLost`); no stranded event; flush and close settle (`HandleSettles`) | 3 events, 2 flush callers, 1 fault, 2 further opens behind crashes or closes | holds |
| `lifecycle` | one writer, nothing outlives its owner, refinement of AgentLife; everything settles | 2 attempts on one session, in one process or in two, 2 aborts, unloads, disposals or crashes | holds |
| `session_store` | what observers are told agrees with the log and the store; detaches happen | 3 sessions, 2 of one id, 2 observers, 12 calls, 3 dispatches in one another | holds |
| `jobs` | every end reaches the model, unless a cancel takes it, and no notice repeats it (`ToldOnce`), output shown once, first outcome wins, disposal waits for cancelled jobs only | 2 jobs, 2 calls (both symmetric), reported outcome `completed` | holds |
| `goal_rounds` | rounds follow the goal, prompts go first, a pass that joined has a current view of the goal, armed goals move | limits of 1 and 2 rounds, 5 events of people, models and faults | holds |
| `approvals` | only what was allowed runs, withdrawn asks stay so, aborted turns end | the app's agent, a child and a grandchild, 2 calls of one tool | holds |
| `driver_stranded`, `jsonl_lease`, `goal_fold` | three statements of comments and documents | 2 messages; 2 events; as `goal_rounds` | violated (section 7) |

Why the bounds are enough to be interesting:

 - *Driver.* Two messages give a turn that is running and one that waits, or a message
   that steers a turn while another is removed, replaced or claimed under it. Two causes are needed for two cancels that differ; one of them must be
   `disposed`. A second attempt is the first that could log a batch again. Three steps
   let an ending found in step 1 meet a tool step 2 and a further step.
 - *Tools.* Three calls over a pool of two: one call waits for a free place, a barrier
   has a call before and one behind it, and a settled call can wait behind an unsettled
   one.
 - *Recovery.* Two steps, in one turn or in two, with the same ids are the least in which
   a result could be credited to the wrong step; two crashes let the second fall into the
   first one's repair, or a fork into another fork's seed.
 - *Handle.* Three events give a batch in flight, one buffered meanwhile and one that is
   published while `close()` waits; a fault meets a drain, a flush, a retry or a rollback;
   with two opens a torn tail is torn again while it is rewritten, and a closed handle's
   timer fires behind a further close. With a second fault a retry fails again, which finds
   the buffer as the first failure left it.
 - *Lifecycle.* Every race of the code is between two that want the session; two stops are
   an abort that meets an unload, or a crash that meets a disposal. The attempts are used
   once: a third one finds what the second finds. That everything asked for settles is
   checked for one of the two (`Settles`); exchanging the attempts, and the processes with
   them, maps the specification to itself.
 - *Store.* A dispatch needs its own session, and a session can have one at a time, so
   three sessions nest three dispatches deep; two sessions of one id replace each other.
   Twelve calls enter, announce, append to and detach two sessions and replace one.
 - *Goals.* Creating a goal, and a prompt, an edit, a removal and a resumption around its
   round take five events; a limit of one is reached by the first round, one of two lets
   another follow.
 - *Approvals.* Two prompts are the least in which one waits for the other; with a child
   between, a grant and an answer must walk the lineage, which a disposal cuts.
 - *Jobs.* Two calls on one job are the least in which one call's read withdraws, or
   repeats, what is held for the other; the second job lets a disposal find one job that
   throws and one that stops, and a step claim one notice of two. With as many places as
   jobs the limit per owner never refuses a start, which no property is about. Producers
   report `completed` only, and a job the registry failed in a teardown has the other
   outcome: two outcomes are enough to see the first one replaced.

`MaxSteps`, `MaxAttempts`, `MaxCalls`, `MaxTurns`, `MaxCrashes`, `MaxEvents`, `MaxFaults`,
`MaxOpens`, `MaxStops` and `MaxDepth` are bounds of the models, each in the guard of the action it limits.
`MaxAttempts` stands for the retry policy's own limit and `MaxParallel` is the code's
`maxParallelToolCalls`. Deadlock is checked for the driver, which can always be sent
something or stay cancelled; the other modules really stop (a settled batch, a closed
handle, an exhausted budget of crashes or events, an agent that is gone), so their configurations
switch it off.

## 4. Fairness

 - `AgentDriver!FairSpec` has WF on `Driver` as a whole: everything the loop awaits
   (hooks, the provider's stream, a tool batch, a maintenance job) settles at some time.
   That is what the code itself requires of them: hooks and tools get the signal, the
   batch drains, streams have a timeout. Callers owe nothing.
   It is one fairness condition, not one per action, because the loop is one sequential
   process whose alternatives (a hook throws or not) are not owed a turn each.
 - `ToolBatch!FairSpec` has WF on the scheduler and on each started tool. A tool that
   never settles stalls its batch by design (`batch.ts` drains).
 - `JsonlHandle!FairSpec` has WF on the timer, the chain and the awaits of `close()`:
   timers fire and file-system promises settle, with success or failure. The timer of a
   handle that is closed owes nothing (`LateDrain` has no fairness).
 - `AgentLifecycle!FairSpec` has WF, for each attempt, on its backend's awaits and on its
   creation or teardown: file-system promises, setup and creation listeners settle, and so
   does a cancelled driver (`Converges`).
 - `SessionStore!FairSpec` has WF on the dispatches: observers return.
 - `GoalRounds!FairSpec` has WF on the agent's turn and on the drive pass: hooks, the flush
   of the checkpoint and the subagents' work settle.
 - `Approvals!FairSpec` has WF on the callbacks of each ask and on the next prompt's turn to
   show, and lets an aborted turn end once its calls are over. `Choose` has none: a person
   owes no answer, and `AbortsSettle` holds without one.
 - `JobNotices` states no fairness. That a disposal finishes follows from the producers'
   promise to settle once their cancel returned; what the code adds to it, that the
   disposal waits for nobody else, is the invariant `DisposalAwaitsCancelled`.

Nothing is assumed strongly fair, and no fairness is put on callers, crashes or faults.

## 5. Proofs

The modules `AgentDriverProofs`, `ToolBatchProofs`, `JsonlHandleProofs`,
`AgentLifecycleProofs`, `SessionStoreProofs`, `JobNoticesProofs`, `GoalRoundsProofs` and
`ApprovalsProofs` prove for every value of the constants what section 3 checks on one.
What they assume of the constants:

 - *driver* (`DriverAssumption`): `disposed` is a cause of cancels and `live` is none; the
   bounds are naturals;
 - *tool batch* (`BatchAssumption`): there are calls, and the pool has places;
 - *write handle* (`HandleAssumption`): the callers of `flush` are finitely many (the code
   counts what it awaits), and none of them is `none`; the bounds are naturals;
 - *lifecycle* (`OwnershipAssumption`, `LifecycleAssumption`): each attempt runs in one
   process, and nobody is not an attempt;
 - *jobs* (`MaxActiveAssumption`, `NoticesAssumption`): producers report what
   `jobs/src/types.ts` names as an outcome, an owner may have at least one active job, and no
   job is called `none`;
 - *store* (`StoreAssumption`): every session has an id, somebody listens, and the bounds are
   naturals;
 - *goals* (`CapsAssumption`, `EventsAssumption`): a limit of rounds is a positive number (the
   goal service refuses others);
 - *approvals* (`TreeAssumption`): every agent but the root has a parent, and every call an
   agent and a tool.

| theorem | statement | argument |
|---|---|---|
| `TypeCorrect` | `Spec => []TypeOK` | inductive as it stands; one lemma per group of variables and per shared operator, one step per action |
| `OneActivityAtATime` | `Spec => []OneActivity` | from `LogInv` |
| `LogStaysBalanced` | `Spec => []LogBalanced` | from `LogInv` |
| `LatchesNeverStale` | `Spec => []LatchNotStale` | `LatchInv` |
| `OnePromptEachTurn` | `Spec => []OnePromptPerTurn` | `PromptInv` |
| `EveryMessageOneFate` | `Spec => []OneFate` | `FateInv` |
| `DriverKeepsDiscipline` | `Spec => []DriverDiscipline` | the conjunction of `OneActivity`, `LatchNotStale` and `OnePromptPerTurn` |
| `AbortStopsWork` | `Spec => NoWorkAfterAbort`: no turn, step, request or attempt begins behind an abort, and input is logged only as the rest of a batch that was being logged | action by action over `TypeOK` and `LogInv` |
| `CancelsAreRecorded` | `Spec => CancelIsRecorded` | `EndingInv` |
| `DriverHonoursAborts` | `Spec => AbortDiscipline` | the conjunction of the two before |
| `DriverWritesTurnLog` | `Spec => WritesTurnLog` | each action is a step of TurnLog or leaves the mapped variables alone |
| `BatchTyped`, `BatchQuiescent`, `BatchOverlap` | `TypeOK`, `NeverSettlesOverWork`, `OverlapBounded` | `BatchInv` |
| `BatchCodes` | `AbortCodesTruthful` | `BatchInv` and what the stages say of bodies (`Bodies`) |
| `BatchReplays` | `LogReplays` | the batch's `LogInv` over `BatchInv` |
| `HandleTyped`, `HandleStrandsNothing`, `HandleStoresInOrder`, `HandleLosesNothing` | `TypeOK`, `NeverStranded`, `StoredInOrder`, `NothingLost` | `HandleInv` |
| `LifecycleSingleWriter` | `SingleWriter` | `OwnershipInv` |
| `LifecycleLeavesNothing`, `LifecycleKeepsContract` | `NothingLeft`, `KeepsContract` | `LifecycleInv`; for the contract one step of AgentLife, or none, per action |
| `StoreObserversAgree` | `ObserversAgree` | the store's `Inv` |
| `GoalRoundsFollow`, `GoalRoundsYield`, `GoalRoundsSeeTheGoal` | `RoundsFollowGoal`, `PromptsFirst`, `JoinedViewCurrent` | the rounds' `Inv` |
| `NoticesTyped`, `EveryEndToldOnce`, `EveryOutputOnce`, `DisposalsEnd` | `TypeOK`, `ToldOnce`, `OutputExactlyOnce`, `DisposalAwaitsCancelled` | `NoticeInv` |
| `OutcomesStay` | `FirstOutcomeWins` | action by action over the ranges of `NoticeInv` |
| `ApprovalsRunAllowed` | `RunsOnlyAllowed` | `AskInv` |
| `ApprovalsStayWithdrawn` | `WithdrawnStaysSo` | action by action over `AskInv` |

Why the strengthenings are needed:

 - *Driver.* `LogBalanced` speaks of idle drivers, but whether a turn is still open when the
   driver lets go depends on every place it came through. `PointsLog` ties the log to the
   places: a turn is open exactly at the places of `turn()`'s loop, a step exactly at those
   of `step()`, and calls are unanswered only under running tools and in the recovery of a
   failed step. Together with `OneActivity` it is inductive (`LogInv`).
   `LatchNotStale` is disturbed by a `send()` that was suspended in an observer: it latches
   for what it saw before. `LatchInv` adds that a suspended `wakeAfterAbort` frame, wherever
   in the stack, implies that the activity it saw is still the present one and aborted.
   `CancelIsRecorded` needs to know that the place `failing` is only reached with the ending
   `error` (`EndingInv`), or the turn could be closed there as completed.
   `OnePromptPerTurn` counts claims; `PromptInv` adds that the only place from which a prompt
   can be claimed, the first boundary of a turn, has claimed none yet.
   `OneFate` counts notifications; a second one is excluded by places: `FateInv` says that a
   message is pending once at most, that the batch has left the inbox, that what is still to
   be admitted has not been shown to the model, and that all the rest of the batch has once
   an attempt is on its way.
   `NoWorkAfterAbort` has no invariant of its own: an abort may come between two messages of
   a batch, so it speaks of what begins, and each action that begins something looks at the
   signal first.
   The refinement maps `turns` to the driver's turn number and `steps` to its step number
   while a turn is open (the code resets it with the next turn only).
 - *Tool batch.* No property mentions the scheduler's counters, and all rest on them:
   `base <= committed <= started` divide the calls of the message, and a call's stage says on
   which side of them it stands (`Counters`, `Stages`). `Pool` adds that whatever runs is in
   the pool and that the next call to commit is, or the scheduler would wait for a race that
   nobody wins; `Barrier` that an exclusive call is the only one of its group. The log is
   complete up to the counters at every place, and its order follows.
 - *Write handle.* `NothingLost` is one partition: the events of a live session are, in
   order, the whole frames of the artifact, what was recovered from a torn one, the batch of
   the drain that writes, and the buffer. The first two end at the cursor, the others begin
   behind it (`Stored`, `Behind`). It survives a step only because at most one drain is
   queued or runs (`Turns`) and no write happens in front of a torn tail (`Stages`);
   `Barriered` says that a flush covers only what is behind the cursor when its turn comes.
   What the handle owes (`Behind`) holds whatever is on disk; `Stored`, which ties the
   artifact to the cursor, holds until `spoiled`, and no step makes it true again.
 - *Lifecycle.* `SingleWriter` follows from the claims and the holder of the lock alone
   (`OwnershipInv`): the timer of a closed handle takes the lock only when nobody has it, and
   a handle that is open then finds it taken (`lock = a` only of who came far enough, or of
   such a timer). What is left
   behind depends on how far each attempt got: `Places` lists, for each await of a creation,
   what its handle and its teardown may be doing there, `Entries` which attempt the entries
   of a process belong to.
 - *Jobs.* The two halves of `ToldOnce` pull against each other: an end must not get lost,
   and must not be told twice. `NoticeInv` follows one job and says what carries its end: a
   call that waits for it or will answer with it, a settlement held for a claim, a notice, or
   the log. Only a job whose kill the model asked for is known before it ended (`Killed`),
   and a notice repeats what was told only when it is owed (`Noticed`). The end of the output
   is held by one notice, one answer or the log (`Placed`). Claims of a step happen between
   calls only, and a disposed agent has none (`Quiet`); a foreground command has its job to
   itself until it is promoted (`CallOk`).
 - *Store.* Agreement at rest says nothing of a step taken in the middle of a dispatch that
   another dispatch interrupted. `Publishes` says for each frame of the stack what it still
   owes: its session is held to what the frame publishes, and every observer up to the one
   told last is exactly one notification ahead of the others. That a session has one frame at
   a time (`Sole`) is what the flags `announcement` and `appending` are for; `Settles` says
   that a session without a frame owes nobody anything, a detach included. A step is about
   one session, and `OneSession` carries the others over it.
 - *Goal rounds.* The driver trusts its copy of a reservation, while the message it stands
   for may be in the inbox, in the batch of a turn, or gone. `Queue` and `OneEach` say that a
   queued round is of a revision there was and within that revision's limit, with an id of
   its own (that a fresh id exists is the pigeonhole principle, `UnusedId`). `Attempts` ties
   the reservation to the goal: for the goal's own revision it is at most the next round, and
   no pass flushes or drops it. `Ahead` is the heart: a message that is still queued although
   the driver takes it for claimed belongs to a reservation that is *spent* (revision, limit
   or activation moved on, so no fence lets it pass) or that a batch already holds; one with a
   prompt behind it is stale, spent or held. `Placed` carries this through the places of the
   turn: at the entry of a step the round is the reservation's, and not spent unless the goal
   was changed behind the last check (`late`). `JoinedViewCurrent` is a part of `Attempts`:
   whatever moves the goal while a pass joins also asks for a checkpoint, except a disarming,
   which changes the activation only (section 7).
 - *Approvals.* `RunsOnlyAllowed` speaks of calls that run; `AskInv` carries back why the
   decision was made: whatever is allowed has consent behind it, what policy refused never
   got a prompt, what was withdrawn is on no screen, and a closed turn has no ask.

The invariants used by the proofs were first checked with TLC, on the bounds of section 3 or
smaller ones.
Definitions the provers cannot see through were put so that they can, with the same
meaning: sequences by index rather than by filter in the batch's log property, the lineage
of an agent by the relation it is the closure of, the first stage of a write by conditions
instead of `CASE`, the withdrawal of a queued round by its index, and a fresh id among one
number more than there are messages.

Checked by TLC only: every liveness property (fairness and ENABLED are outside what the
proof system handles), and SessionRecovery with `BalancedBetweenTurns`,
`RecoveryCodesTruthful` and `RepairResumable`. `Scan` is a function defined by recursion over
the log; what it computes for logs of every length needs induction over data, which the
installed provers cannot instantiate.

## 6. What the checks show

 - However a turn ends - answered, cut off, blocked, refused, failed, cancelled at any
   await - the log is balanced when the driver lets go (proved), and no aborted activity
   opens turns or steps, or starts a request or a model attempt (proved). `step()` looks at
   the signal once per batch: where an observer of an admitted message aborts, the rest of
   the batch is still logged, and nothing but that.
 - No message is claimed or discarded twice, none is shown to the model twice through
   retries, a model that is asked has seen its whole batch, and none is lost between the
   queues, also while a cancel has emptied one of them (proved).
 - A tool batch logs in model order whatever overlaps, and its abort codes are truthful:
   "aborted before dispatch" is only said of bodies that never ran. A batch never settles
   over running work, and an exclusive call runs alone (all proved; that it settles is
   checked).
 - A crash at any event, also in the middle of a repair, and forks at any event leave a
   log that a provider accepts; what the model is told about tools that were interrupted
   is true, thanks to the checkpoint in front of each body.
 - The write handle owes exactly what is behind its cursor and strands nothing, through
   failures, retries, closes and crashes, and behind its close (proved). The artifact keeps
   the order until the rollback of a failed append fails too, or the timer of a closed handle
   writes behind the next open (proved; section 7 for the two). Flushes and closes settle,
   however producers race them.
 - Whatever aborts, unloads, disposals and crashes fall into a creation or a resumption,
   one handle that is not closed can write a session, and no claim or registration is left
   behind (proved, with the contract AgentLife). The kernel lock is left behind in one case:
   a closed handle's timer takes it, and keeps it until the process ends. Everything that was
   asked for comes to an end.
 - Observers that publish and detach sessions from inside notifications still see each
   session start, its events in order and its end, and nothing after that (proved, at any
   depth); a detach that was asked for happens.
 - An automatic round enters a step only as the next round of the armed goal, never in
   front of a prompt that was queued behind its reservation when it was claimed, and a pass
   that waited for subagents goes on with the goal's present revision, limit and rounds (all
   proved). An armed
   goal is driven until it is paused, blocked, completed or disarmed - except behind a
   failed fold, an unloaded plugin, and what `Unnoticed` names: a reservation that was
   removed, or a prompt that was queued and gone, while no status of the agent tells the
   driver of it. In such a state the goal waits for its next change or the next turn.
 - A call that has to be approved runs only if a person allowed it, or its tool in the
   lineage before; an ask that was withdrawn behind another's prompt is not shown, answers
   nothing and leaves no grant (both proved); an aborted turn ends without the person.
 - The end of a job whose owner lives is in the log, in the inbox or on its way in a call,
   and its first outcome stays (proved), with three exceptions the properties name: the
   answer of a `job_output` or `job_kill` that the cancellation of its turn replaced (`lost`:
   the settlement was consumed, and no notice follows), a claimed notice whose step was
   rejected, and a queued notice that a cancel without `keepInbox`, as the terminal's user
   cancel is one (`tui-app/src/session.ts:305`), discarded with the rest of the inbox (`agent.ts:193`). A notice
   never repeats a delivery (a status line of `job_list` is none), except one held for a wait
   that was cancelled after another call had read the job (`owed`). A cancelled foreground command may leave a notice for a job whose record
   it then removes: the model is told of a job it cannot ask about.

## 7. Where code and documentation disagree

| run | the text | what the code does |
|---|---|---|
| `driver_stranded` | `agent.ts:233`: "Live drivers claim queued work themselves" | `turn()` returns `false` from an empty first batch without another look at the inbox; waking input sent meanwhile to the live driver stays pending behind an idle one |
| `jsonl_lease` | `session-persistence/src/handle.ts:11`: a write handle is the session's "single mutator" | an event published while `close()` awaits the release of the lock arms the timer, whose drain appends without the lock |
| `goal_fold` | `goal/goal-round-driver/README.md:53`: "An edit only invalidates an in-flight round through the revision fence, and the driver continues the new revision" | the fence is last checked before the pre-step hook returns; an edit while the step's request is prepared lets the round's message be logged for a revision that is no longer current, and the fold of the goal refuses the log for good |

Each of these is a `violation` run: TLC finds the behaviour, and its trace is the shortest
way to see it. The following were met while modelling and have no run of their own:

 - `docs/subsystems/core.md:1093` says of `agent/turn-stopping` that "the model owes no
   response"; `agent.ts:373` keeps `max-tokens` once any step met the ceiling, so a later
   step that calls tools may be followed by the end of the turn.
 - `agent.ts:233`: "disposal never latches". The latch reads the abort reason, which keeps
   the first cause: after `cancel(user)` a `cancel(disposed)` changes nothing and a wake
   still latches, so teardown waits for the replayed turn.
 - `agent.ts:193`: `cancel()` empties the inbox before it drops the latch. What an observer
   of the discards sends with a wake to the aborted activity, or what was sent behind
   maintenance, is queued behind the splice that would have discarded it and latches a wake
   that line 194 then resets: the prompt waits behind an idle driver until the next wake.
   `LatchedWakeRuns` excepts it by name (`Clearing`).
 - `session-persistence-jsonl/src/index.ts:1411` rolls a failed append back lest there be
   duplicate sequence numbers; when the rollback fails too, nothing marks the artifact and
   the retry appends the batch again (`RollbackFails`; `StoredInOrder` excepts it by
   `spoiled`).
 - `close()` leaves a timer armed for events that arrive behind its last drain. Behind the
   next open of the session that timer's drain truncates at, and appends behind, an offset
   the closed handle remembers (`LateDrain`), under a lock that was given back or under one
   that it takes and nobody releases: the log's order may be lost, and later opens in other
   processes be refused. `StoredInOrder` excepts it by `spoiled`, `NothingLeft` by `late`.
 - `session-persistence/README.md:12`: "A completed flush is the durability barrier". A
   flush resolves over events recovered from a torn frame; the next append truncates them
   before it writes them again.
 - `jobs/jobs/src/index.ts:59`: settlements of an owner's disposal "announce `cause:
   'teardown'`". A kill that lands while the disposal awaits its jobs overwrites the cause.
 - `goal-round-driver/src/index.ts:175`: "Every goal mutation requests a checkpoint, so
   passing the recheck proves this goal view is still current." `disarm()`
   (`goal/src/index.ts:291`) changes the activation without a `goal/changed`; a pass that waits
   for subagents while a turn fails or is cancelled goes on with its view of an armed goal and
   queues a round, which opens a turn that the gate refuses. The rest of its view is current
   (`JoinedViewCurrent`).
 - A drive pass that runs during maintenance takes a reservation that is still queued for
   one that has run, drops it and queues a second copy of the round. The two copies are the
   same to the fence, so the first may enter its step in front of a prompt that was queued
   between them (`PromptsFirst` speaks of the reservation's own message).
 - A round that is rejected leaves a prompt that was queued behind it pending behind an
   idle agent, until something else wakes the agent.
 - A prompt of the terminal keeps its abort listener once it is answered
   (`tui-app/src/app.ts:1395`). A later abort of that signal runs `dismissPrompt()` again
   (`:1496`), which gives the keys to the composer although the prompt of another agent may
   be on the screen by then: that prompt stays, unanswerable, and the chain behind it, until
   its own turn is aborted (`KeysStay`). `AbortsSettle` promises no more than that.

## 8. Not modelled, and why

The components without a module are listed in PROJECT.json with a reason each. Besides
the plan below: providers, concrete tools and subprocesses are effects of other programs,
which the models represent by the outcomes they can have; user interfaces, the gateway and
the CLI project the states modelled here and add transport; formats, projections and
migrations of records are functions of data without concurrency; the plugin host is built
on an external framework.

## 9. Plan

The modules, in the order of their importance, and what is left of each:

 1. AgentDriver, TurnLog: their safety properties are proved.
 2. ToolBatch: proved.
 3. SessionRecovery: checked by TLC only, for the reason section 5 gives.
 4. JsonlHandle: proved.
 5. JobRegistry and JobNotices: proved. *Left:* the disposal of the service, several owners,
    the budget of wakes.
 6. WriteOwnership and AgentLifecycle: proved.
 7. SessionStore: proved. *Left:* `fork()`, `flush()` and its hooks, independent sessions.
 8. GoalRounds and Goals: proved. *Left:* the disposal of the agent under a pass.
 9. Approvals: proved.
10. Compaction, schedules, subagents, domain storage, the publishing of migrations.

The runs are few and large: a new component should first look for a run whose question it
extends (compaction that of `session_store`, schedules that of `goal_rounds`) before it
gets one of its own.
