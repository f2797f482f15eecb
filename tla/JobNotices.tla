------------------------------ MODULE JobNotices ------------------------------
(***************************************************************************)
(* How the end of a background job reaches the model: the registry, the    *)
(* job tools (packages/jobs/tool-jobs/src/index.ts) and the foreground     *)
(* commands of the bash tool (packages/shell/tool-bash/src/index.ts).  A   *)
(* settlement is carried by the result of a call that waited, by the       *)
(* result of the kill the model asked for, or by a notice in the agent's   *)
(* inbox; input from the user, cancellation, timeouts and the agent's      *)
(* disposal may come between any two of their steps.                       *)
(*                                                                         *)
(* A timer's callback runs the code behind its await before anything else, *)
(* so a wait that times out reads in the same step.                        *)
(***************************************************************************)
EXTENDS JobRegistry

CONSTANT Reports  \* the outcomes producers report

ASSUME NoticesAssumption == Reports \subseteq Outcomes /\ "none" \notin Jobs

VARIABLES
  call,        \* what every caller is doing
  input,       \* user input waits in the next-step inbox
  aborted,     \* the turn's signal
  killedByModel,
  suppressedSettlements,
  notice,      \* the pending record of every job and the message it stands for
  given,       \* history: the ids the model holds
  known,       \* history: the jobs whose end, or own kill, a logged event told
  outputs,     \* history: how often the end of a job's output was logged
  lost         \* history: the jobs whose answer cancellation replaced

vars == <<jobs, owner, call, input, aborted, killedByModel, suppressedSettlements,
          notice, given, known, outputs, lost>>
registry == <<jobs, owner>>
plugin == <<killedByModel, suppressedSettlements, notice>>
turn == <<input, aborted>>
told == <<given, known, outputs, lost>>

\* A notice: where its message is, whether it is in the pending map, whether it
\* carries its read (inline) and the read was taken (held), whether that read had
\* the end of the output, and whether it was held for a wait that was cancelled.
\* A caller: the job its call names, and whether it claimed the next read
\* (releasedReads); once it returned, whether its answer tells the job's end or
\* kill, and carries the end of the output.
Idle == [phase |-> "idle", tool |-> "none", job |-> "none", claim |-> FALSE, tells |-> FALSE, output |-> FALSE]
Phases == {"idle", "waiting", "stopping", "settled", "released", "failed", "returned", "promoted"}

NoNotice == [at |-> "none", pending |-> FALSE, inline |-> FALSE, held |-> FALSE, end |-> FALSE, owed |-> FALSE]
Places == {"none", "queued", "claimed", "logged", "dropped"}
Sizes == {"inline", "held", "large"}   \* fits the notice; fits inlineOutputBytes only; fits neither

Init ==
  /\ RegistryInit
  /\ call = [c \in Callers |-> Idle]
  /\ input = FALSE /\ aborted = FALSE
  /\ killedByModel = {} /\ suppressedSettlements = {}
  /\ notice = [j \in Jobs |-> NoNotice]
  /\ given = {} /\ known = {} /\ outputs = [j \in Jobs |-> 0] /\ lost = {}

Claims(j) == {c \in Callers : call[c].claim /\ call[c].job = j}

\* The step that calls tools is over when all have their results, and only then
\* does the next one claim the inbox.
Between == \A c \in Callers : call[c].phase = "idle"
Claimed == {j \in Jobs : notice[j].at = "claimed"}
InBatch == owner = "live" /\ ~aborted /\ Claimed = {}
Calling(c) == InBatch /\ call[c].phase = "idle"

-----------------------------------------------------------------------------
(* Delivery.                                                               *)

\* Mutant: the notice says it is inline, and the read stays in the registry.
DeliverUnread(table, j, size) ==
  IF table[j].announced = "teardown" \/ owner = "gone"
  THEN jobs' = table /\ UNCHANGED notice
  ELSE /\ jobs' = table
       /\ notice' = [notice EXCEPT ![j] =
            [at |-> "queued", pending |-> TRUE, inline |-> size = "inline", held |-> size # "large",
             end |-> size # "large" /\ ~table[j].read, owed |-> j \in suppressedSettlements]]

\* deliverSettlement(): a notice for the owner, which stays registered while its
\* scope unwinds; a short output is read for it.
Deliver(table, j, size) ==
  IF table[j].announced = "teardown" \/ owner = "gone"
  THEN jobs' = table /\ UNCHANGED notice
  ELSE /\ jobs' = IF size = "large" THEN table ELSE Read(table, j)
       /\ notice' = [notice EXCEPT ![j] =
            [at |-> "queued", pending |-> TRUE, inline |-> size = "inline", held |-> size # "large",
             end |-> size # "large" /\ ~table[j].read, owed |-> j \in suppressedSettlements]]

\* The plugin's listener on a settled event, at the table settle() committed.
OnSettled(table, j, awaited, size) ==
  /\ killedByModel' = killedByModel \ {j}
  /\ IF j \in killedByModel \/ awaited
     THEN jobs' = table /\ UNCHANGED <<notice, suppressedSettlements>>
     ELSE IF Claims(j) # {}
          THEN jobs' = table /\ UNCHANGED notice /\ suppressedSettlements' = suppressedSettlements \cup {j}
          ELSE Deliver(table, j, size) /\ UNCHANGED suppressedSettlements

\* settle() releases the calls that wait on the job.
Release(freed) ==
  [c \in Callers |-> IF c \in freed THEN [call[c] EXCEPT !.phase = "settled"] ELSE call[c]]

-----------------------------------------------------------------------------
(* Producers and the registry's other callers.                             *)

\* The producer releases its resources, with whatever outcome.
Report(j, outcome) ==
  /\ jobs[j].done = "none" /\ jobs[j].status # "unborn"
  /\ jobs' = [jobs EXCEPT ![j].done = outcome]
  /\ UNCHANGED <<owner, call, turn, plugin, told>>

\* Behind the pump's last drain the report settles the job, unless it already is.
SettleReported(j, size) ==
  /\ jobs[j].done \in Outcomes
  /\ LET cause == IF jobs[j].settleCause = "none" THEN "producer" ELSE jobs[j].settleCause
         table == Settle([jobs EXCEPT ![j].done = "settled"], j, jobs[j].done, cause)
     IN IF Live(j)
        THEN /\ OnSettled(table, j, jobs[j].waiters # {}, size)
             /\ call' = Release(jobs[j].waiters)
        ELSE jobs' = table /\ UNCHANGED <<call, plugin>>
  /\ UNCHANGED <<owner, turn, told>>

\* A kill through the job controller of a host.
HostKill(j) ==
  /\ Live(j) /\ jobs' = Kill(jobs, j)
  /\ UNCHANGED <<owner, call, turn, plugin, told>>

\* The agent is disposed: its driver is idle when its scope unwinds, and
\* disposeOwned() cancels its jobs ...
DisposeOwner(throwing) ==
  /\ owner = "live" /\ Between /\ Claimed = {} /\ throwing \subseteq {j \in Jobs : Live(j)}
  /\ owner' = "disposing"
  /\ jobs' = CancelForTeardown(jobs, throwing)
  /\ killedByModel' = killedByModel \ throwing
  /\ UNCHANGED <<call, turn, suppressedSettlements, notice, told>>

\* ... and drops them once all are settled.
DropOwned ==
  /\ owner = "disposing" /\ ~\E j \in Jobs : Live(j)
  /\ owner' = "gone" /\ jobs' = Drop(jobs, {j \in Jobs : Listed(j)})
  /\ killedByModel' = {}
  /\ notice' = [j \in Jobs |-> [notice[j] EXCEPT !.pending = FALSE]]
  /\ UNCHANGED <<call, turn, suppressedSettlements, told>>

-----------------------------------------------------------------------------
(* The tools.                                                              *)

\* A tool starts a background job and hands its id out.
StartBackground(j) ==
  /\ InBatch /\ Startable(j)
  /\ jobs' = Start(jobs, j) /\ given' = given \cup {j}
  /\ UNCHANGED <<owner, call, turn, plugin, known, outputs, lost>>

\* bash in the foreground: the job starts, and the call waits for it.
Bash(c, j) ==
  /\ Calling(c) /\ Startable(j)
  /\ jobs' = Enter(Start(jobs, j), j, c)
  /\ call' = [call EXCEPT ![c] = [Idle EXCEPT !.phase = "waiting", !.tool = "bash", !.job = j]]
  /\ UNCHANGED <<owner, turn, plugin, told>>

\* The call behind its read: an answer with the job's state.
Answer(c, j, end) ==
  [call[c] EXCEPT !.phase = "returned", !.tool = "job_output", !.job = j, !.claim = FALSE,
                  !.tells = isTerminal(j), !.output = isTerminal(j) /\ (end \/ ~jobs[j].read)]

\* Mutant: the pending notice stays in the inbox.
ReadBesideNotice(c, j) ==
  /\ jobs' = Read(jobs, j)
  /\ call' = [call EXCEPT ![c] = Answer(c, j, notice[j].pending /\ notice[j].end)]
  /\ notice' = [notice EXCEPT ![j].pending = FALSE]
  /\ suppressedSettlements' = IF call[c].claim THEN suppressedSettlements \ {j} ELSE suppressedSettlements
  /\ UNCHANGED <<owner, turn, killedByModel, told>>

\* job_output takes its consuming read and withdraws the notice it covers.
ReadNow(c, j) ==
  /\ jobs' = Read(jobs, j)
  /\ call' = [call EXCEPT ![c] = Answer(c, j, notice[j].pending /\ notice[j].end)]
  /\ notice' = IF ~notice[j].pending THEN notice
               ELSE [notice EXCEPT ![j] = [NoNotice EXCEPT !.at = IF notice[j].at = "queued" THEN "none" ELSE notice[j].at]]
  /\ suppressedSettlements' = IF call[c].claim THEN suppressedSettlements \ {j} ELSE suppressedSettlements
  /\ UNCHANGED <<owner, turn, killedByModel, told>>

\* job_output without wait.
JobOutput(c, j) ==
  /\ Calling(c) /\ j \in given /\ Listed(j)
  /\ ReadNow(c, j)

\* job_output with wait: input that is already there releases the wait at once.
JobOutputWait(c, j) ==
  /\ Calling(c) /\ j \in given /\ Listed(j)
  /\ LET waits == Live(j) /\ ~input
         phase == IF waits THEN "waiting" ELSE IF Live(j) THEN "released" ELSE "settled"
     IN /\ jobs' = IF waits THEN Enter(jobs, j, c) ELSE jobs
        /\ call' = [call EXCEPT ![c] =
             [Idle EXCEPT !.phase = phase, !.tool = "job_output", !.job = j, !.claim = input]]
  /\ UNCHANGED <<owner, turn, plugin, told>>

\* The user steers: every job_output that still listens claims its read, and
\* one that waits is released.
Steer ==
  LET listening == {c \in Callers : call[c].tool = "job_output" /\ call[c].phase \in {"waiting", "settled", "failed"}}
      freed == {c \in listening : call[c].phase = "waiting"}
  IN /\ ~input /\ owner = "live" /\ input' = TRUE
     /\ call' = [c \in Callers |->
          IF c \notin listening THEN call[c]
          ELSE [call[c] EXCEPT !.claim = TRUE, !.phase = IF c \in freed THEN "released" ELSE @]]
     /\ jobs' = [j \in Jobs |-> [jobs[j] EXCEPT !.waiters = @ \ freed]]
     /\ UNCHANGED <<owner, aborted, plugin, told>>

Queued == {j \in Jobs : notice[j].at = "queued"}

\* cancel(): unless the caller keeps it, the inbox is cleared first, idle or not; then
\* waits on the signal of the turn reject.
Abort(keepInbox) ==
  LET cut == {c \in Callers : call[c].phase = "waiting"}
  IN /\ owner = "live"
     /\ \/ ~aborted /\ ~Between
        \/ ~keepInbox /\ (input \/ Queued # {})
     /\ aborted' = (aborted \/ ~Between) /\ input' = (keepInbox /\ input)
     /\ notice' = [j \in Jobs |->
          IF ~keepInbox /\ j \in Queued THEN [notice[j] EXCEPT !.at = "dropped"] ELSE notice[j]]
     /\ call' = [c \in Callers |-> IF c \in cut THEN [call[c] EXCEPT !.phase = "failed"] ELSE call[c]]
     /\ jobs' = [j \in Jobs |-> [jobs[j] EXCEPT !.waiters = @ \ cut]]
     /\ UNCHANGED <<owner, killedByModel, suppressedSettlements, told>>

\* job_output goes on behind its wait, unless a released one finds its turn cancelled.
Resume(c) ==
  /\ call[c].tool = "job_output" /\ call[c].phase \in {"settled", "released"}
  /\ call[c].phase = "released" => ~aborted
  /\ ReadNow(c, call[c].job)

Cancelled(c) ==
  /\ call[c].tool = "job_output" /\ aborted
  /\ call[c].phase \in {"released", "failed"}

\* The deadline of a job_output: it reads the job as it stands.
Expire(c) ==
  LET j == call[c].job
  IN /\ call[c].tool = "job_output" /\ call[c].phase = "waiting"
     /\ jobs' = Leave(jobs, j, c)
     /\ call' = [call EXCEPT ![c].phase = "returned"]
     /\ UNCHANGED <<owner, turn, plugin, told>>

\* A cancelled job_output fails behind its wait.  If its claim was the job's last, the
\* settlement held for it is delivered.
GiveUp(c, size) ==
  LET j == call[c].job
      owed == Claims(j) = {c} /\ j \in suppressedSettlements
  IN /\ Cancelled(c)
     /\ call' = [call EXCEPT ![c] = [Idle EXCEPT !.phase = "returned", !.tool = "job_output", !.job = j]]
     /\ suppressedSettlements' = IF owed THEN suppressedSettlements \ {j} ELSE suppressedSettlements
     /\ IF owed THEN Deliver(jobs, j, size) ELSE UNCHANGED <<jobs, notice>>
     /\ UNCHANGED <<owner, turn, killedByModel, told>>

\* bash behind its wait: the job settled, and its record leaves with the call.
BashReturn(c) ==
  /\ call[c].tool = "bash" /\ call[c].phase = "settled"
  /\ LET j == call[c].job
     IN /\ jobs' = Drop(jobs, {j})
        /\ killedByModel' = killedByModel \ {j}
        /\ notice' = [notice EXCEPT ![j].pending = FALSE]
  /\ call' = [call EXCEPT ![c].phase = "returned"]
  /\ UNCHANGED <<owner, turn, suppressedSettlements, told>>

\* Its deadline: the command is promoted to a background job ...
Promote(c) ==
  /\ call[c].tool = "bash" /\ call[c].phase = "waiting"
  /\ jobs' = Leave(jobs, call[c].job, c)
  /\ call' = [call EXCEPT ![c].phase = "promoted"]
  /\ UNCHANGED <<owner, turn, plugin, told>>

\* ... or stopped, when nothing was spawned yet; so it is when the call is
\* cancelled.  The second wait has no signal.
Stop(c) ==
  LET j == call[c].job
  IN /\ call[c].tool = "bash" /\ call[c].phase \in {"waiting", "failed"}
     /\ IF Live(j)
        THEN /\ jobs' = Enter(Kill(jobs, j), j, c)
             /\ call' = [call EXCEPT ![c].phase = "stopping"]
        ELSE /\ call' = [call EXCEPT ![c].phase = "settled"]
             /\ UNCHANGED jobs
     /\ UNCHANGED <<owner, turn, plugin, told>>

\* The stop does not settle in time: the record stays.
StopExpires(c) ==
  /\ call[c].phase = "stopping"
  /\ jobs' = Leave(jobs, call[c].job, c)
  /\ call' = [call EXCEPT ![c].phase = "returned"]
  /\ UNCHANGED <<owner, turn, plugin, told>>

\* job_kill: the answer to a request is the model's delivery.
JobKill(c, j) ==
  /\ Calling(c) /\ j \in given /\ Listed(j)
  /\ jobs' = Kill(jobs, j)
  /\ killedByModel' = IF Live(j) THEN killedByModel \cup {j} ELSE killedByModel
  /\ call' = [call EXCEPT ![c] =
       [Idle EXCEPT !.phase = "returned", !.tool = "job_kill", !.job = j, !.tells = Live(j)]]
  /\ UNCHANGED <<owner, turn, suppressedSettlements, notice, told>>

-----------------------------------------------------------------------------
(* The session's log.                                                      *)

\* The tool pipeline records an answer, or replaces it by the cancellation.
Record(c) ==
  /\ call[c].phase \in {"returned", "promoted"}
  /\ LET j == call[c].job
         tells == call[c].tells
     IN IF aborted
        THEN /\ lost' = IF tells THEN lost \cup {j} ELSE lost
             /\ UNCHANGED <<given, known, outputs>>
        ELSE /\ known' = IF tells THEN known \cup {j} ELSE known
             /\ outputs' = IF call[c].output THEN [outputs EXCEPT ![j] = @ + 1] ELSE outputs
             /\ given' = IF call[c].phase = "promoted" THEN given \cup {j} ELSE given
             /\ UNCHANGED lost
  /\ call' = [call EXCEPT ![c] = Idle]
  /\ UNCHANGED <<registry, turn, plugin>>

\* The driver's next step claims from the inbox, with a signal of its turn.
NextStep(some) ==
  /\ Between /\ owner = "live" /\ Claimed = {}
  /\ some \subseteq Queued /\ (input \/ aborted \/ some # {})
  /\ input' = FALSE /\ aborted' = FALSE
  /\ notice' = [j \in Jobs |-> IF j \in some THEN [notice[j] EXCEPT !.at = "claimed"] ELSE notice[j]]
  /\ UNCHANGED <<registry, call, killedByModel, suppressedSettlements, told>>

\* The step logs what it claimed; the plugin keeps only a read the notice did
\* not carry.
LogNotices ==
  /\ Claimed # {}
  /\ notice' = [j \in Jobs |->
       IF j \notin Claimed THEN notice[j]
       ELSE IF notice[j].inline \/ ~notice[j].held THEN [NoNotice EXCEPT !.at = "logged"]
            ELSE [notice[j] EXCEPT !.at = "logged"]]
  /\ known' = known \cup Claimed /\ given' = given \cup Claimed
  /\ outputs' = [j \in Jobs |-> IF j \in Claimed /\ notice[j].inline /\ notice[j].end THEN outputs[j] + 1 ELSE outputs[j]]
  /\ UNCHANGED <<registry, call, turn, killedByModel, suppressedSettlements, lost>>

\* The step is rejected or cancelled before it logs them.
DropNotices ==
  /\ Claimed # {}
  /\ notice' = [j \in Jobs |-> IF j \in Claimed THEN [notice[j] EXCEPT !.at = "dropped"] ELSE notice[j]]
  /\ UNCHANGED <<registry, call, turn, killedByModel, suppressedSettlements, told>>

Next ==
  \/ \E j \in Jobs : StartBackground(j) \/ HostKill(j)
  \/ \E j \in Jobs, outcome \in Reports : Report(j, outcome)
  \/ \E j \in Jobs, size \in Sizes : SettleReported(j, size)
  \/ \E throwing \in SUBSET Jobs : DisposeOwner(throwing)
  \/ \E some \in SUBSET Jobs : NextStep(some)
  \/ \E c \in Callers, j \in Jobs : Bash(c, j) \/ JobOutput(c, j) \/ JobOutputWait(c, j) \/ JobKill(c, j)
  \/ \E c \in Callers : Resume(c) \/ Expire(c) \/ BashReturn(c) \/ Promote(c) \/ Stop(c) \/ StopExpires(c) \/ Record(c)
  \/ \E c \in Callers, size \in Sizes : GiveUp(c, size)
  \/ \E keepInbox \in BOOLEAN : Abort(keepInbox)
  \/ Steer \/ DropOwned \/ LogNotices \/ DropNotices

Spec == Init /\ [][Next]_vars
-----------------------------------------------------------------------------
(* Properties.                                                             *)

\* Every variable has its type; a settled job has no waiter, a claim belongs to
\* a job_output, and what is held for a claim has one (jobs-local/src/index.ts:630,
\* tool-jobs/src/index.ts:346).
TypeOK ==
  /\ RegistryTypeOK
  /\ \A j \in Jobs :
       /\ jobs[j].waiters = {c \in Callers : call[c].job = j /\ call[c].phase \in {"waiting", "stopping"}}
       /\ jobs[j].waiters # {} => Live(j)
       /\ j \in suppressedSettlements => Claims(j) # {}
       /\ notice[j].at \in Places
       /\ {notice[j].pending, notice[j].inline, notice[j].held, notice[j].end, notice[j].owed} \subseteq BOOLEAN
       /\ outputs[j] \in Nat
  /\ \A c \in Callers :
       /\ call[c].phase \in Phases
       /\ call[c].claim => call[c].tool = "job_output" /\ call[c].phase \in {"settled", "released", "failed"}
  /\ {input, aborted} \subseteq BOOLEAN
  /\ killedByModel \cup given \cup known \cup lost \subseteq Jobs

\* A settled job keeps its first outcome, also when the registry failed it in a
\* teardown and its producer reports later; it only leaves the list
\* (jobs/src/index.ts:64 "Settlement is first-wins").
FirstOutcomeWins ==
  [][\A j \in Jobs : isTerminal(j) =>
       jobs'[j].status \in {jobs[j].status, "removed"} /\ jobs'[j].announced = jobs[j].announced]_vars

\* A disposal only waits for producers whose cancel returned, which have promised
\* to settle (jobs/src/types.ts:160), and leaves no job of its owner behind, also
\* if a cancel throws or a job was started or killed on the way.
DisposalAwaitsCancelled ==
  /\ owner = "disposing" => \A j \in Jobs : Live(j) => jobs[j].status = "stopping"
  /\ owner = "gone" => \A j \in Jobs : ~Listed(j)

\* A call that will tell the end of the job, if its turn is not cancelled.
Carries(c, j) ==
  /\ call[c].job = j
  /\ \/ call[c].phase = "settled"
     \/ call[c].claim /\ j \in suppressedSettlements
     \/ call[c].phase = "returned" /\ call[c].tells

\* Nothing but cancellation loses the end of a job on its way to the model: the end
\* is in the log, in the inbox, or on its way in a call.  The exceptions are the code's:
\* an answer that cancellation replaced, a claimed notice whose step did not happen,
\* and a queued one that a cancel discarded with the rest of the inbox (agent.ts:193).
CompletionReachesModel ==
  \A j \in Jobs : isTerminal(j) /\ owner = "live" /\ jobs[j].announced # "teardown" =>
    \/ j \in known \cup lost
    \/ notice[j].at \in {"queued", "claimed", "dropped"}
    \/ \E c \in Callers : Carries(c, j)

\* A notice never repeats what the result of a job_output, the model's own kill or
\* an earlier notice told of a job (a status line, as job_list and the kill of a
\* finished job give it, is no delivery to the code either); except the one
\* that was held for a wait which was then cancelled, if a second call read the
\* job meanwhile: only the released calls withdraw what is held.
NoRepeatedNotice ==
  \A j \in Jobs : j \in known /\ notice[j].at \in {"queued", "claimed"} => notice[j].owed

\* The model learns of the end of a job, unless a cancellation takes it, and once.
ToldOnce == CompletionReachesModel /\ NoRepeatedNotice

\* The end of the output is consumed once, and then logged once: until it is, a
\* notice holds it or an answer carries it, through dropped and withdrawn notices.
OutputExactlyOnce ==
  \A j \in Jobs :
    /\ outputs[j] <= 1
    /\ Listed(j) /\ jobs[j].read =>
         \/ outputs[j] = 1 \/ j \in lost
         \/ notice[j].pending /\ notice[j].end
         \/ \E c \in Callers : call[c].job = j /\ call[c].output
=============================================================================
