-------------------------- MODULE JobNoticesProofs --------------------------
(***************************************************************************)
(* Theorems about the ends of background jobs and how the model learns of  *)
(* them, for any jobs and callers and any limit of active jobs.            *)
(*                                                                         *)
(* An end is carried by one thing at a time: a call that waits for it or   *)
(* answers with it, a notice, or the log.  The invariants follow one job   *)
(* and say which of them may hold its end, and the end of its output.      *)
(***************************************************************************)
EXTENDS JobNotices, TLAPS

\* The records.
Statuses == {"unborn", "running", "stopping", "removed"} \cup Outcomes
JobRecord == [status : Statuses, done : {"none", "settled"} \cup Outcomes,
              settleCause : {"none", "kill", "teardown"}, announced : {"none"} \cup Causes,
              waiters : SUBSET Callers, read : BOOLEAN]
CallRecord == [phase : Phases, tool : {"none", "bash", "job_output", "job_kill"},
               job : Jobs \cup {"none"}, claim : BOOLEAN, tells : BOOLEAN, output : BOOLEAN]
NoticeRecord == [at : Places, pending : BOOLEAN, inline : BOOLEAN, held : BOOLEAN,
                 end : BOOLEAN, owed : BOOLEAN]

Ranges ==
  /\ jobs \in [Jobs -> JobRecord] /\ owner \in {"live", "disposing", "gone"}
  /\ call \in [Callers -> CallRecord] /\ notice \in [Jobs -> NoticeRecord]
  /\ killedByModel \subseteq Jobs /\ suppressedSettlements \subseteq Jobs
  /\ given \subseteq Jobs /\ known \subseteq Jobs /\ lost \subseteq Jobs
  /\ outputs \in [Jobs -> Nat] /\ input \in BOOLEAN /\ aborted \in BOOLEAN

\* What a call is doing agrees with its job.
CallOk(c) ==
  /\ call[c].phase = "idle" => call[c] = Idle
  /\ call[c].phase # "idle" => /\ call[c].job \in Jobs /\ call[c].tool # "none"
                               /\ jobs[call[c].job].status # "unborn"
  /\ call[c].phase = "settled" => ~Live(call[c].job)
  /\ call[c].claim => call[c].tool = "job_output" /\ call[c].phase \in {"settled", "released", "failed"}
  /\ call[c].tells \/ call[c].output => call[c].phase = "returned"
  /\ call[c].tells => call[c].tool # "bash"
  /\ call[c].tool \in {"job_output", "job_kill"} => call[c].job \in given
  /\ call[c].tool = "bash" => /\ call[c].job \notin given
                              /\ \A d \in Callers : call[d].phase # "idle" /\ call[d].job = call[c].job => d = c
Calls == \A c \in Callers : CallOk(c)

\* A job has the waiters that wait for it, and what is held for a claim has one.
Waiting(j) == {c \in Callers : call[c].job = j /\ call[c].phase \in {"waiting", "stopping"}}
Waited(j) ==
  /\ jobs[j].waiters = Waiting(j)
  /\ jobs[j].waiters # {} => Live(j)
  /\ j \in suppressedSettlements => Claims(j) # {}

\* Nothing is told of a job before it ended.
Early(j) ==
  /\ jobs[j].status = "unborn" => j \notin given
  /\ jobs[j].status = "unborn" \/ Live(j) =>
       notice[j] = NoNotice /\ ~jobs[j].read /\ j \notin suppressedSettlements
  /\ j \in suppressedSettlements => isTerminal(j) /\ notice[j] = NoNotice

\* An answer that will tell of the job.
Telling(j) == \E c \in Callers : call[c].job = j /\ call[c].tells

\* The model's own kill is told instead of the end it brings.
Killed(j) ==
  /\ j \in known => j \in given
  /\ Live(j) /\ (j \in known \/ Telling(j)) => j \in killedByModel
  /\ j \in killedByModel => j \in known \cup lost \/ Telling(j)

\* A notice behind which nobody reads the job is in the pending map; and only one
\* that is owed repeats what was told.
Noticed(j) == notice[j].at \in {"queued", "claimed"} =>
  /\ isTerminal(j) => notice[j].pending
  /\ j \in known \/ Telling(j) => notice[j].owed

\* A notice that has the end of the output, or will log it.
Holds(j) == notice[j].end /\ (notice[j].pending \/ (notice[j].at \in {"queued", "claimed"} /\ notice[j].inline))
Answering(j) == {c \in Callers : call[c].job = j /\ call[c].output}

\* The end of the output has one place.
Placed(j) ==
  /\ ~jobs[j].read => outputs[j] = 0 /\ ~Holds(j) /\ Answering(j) = {}
  /\ Holds(j) => outputs[j] = 0 /\ Answering(j) = {}
  /\ Answering(j) # {} => outputs[j] = 0
  /\ \A b, c \in Answering(j) : b = c
  /\ outputs[j] <= 1
  /\ \A c \in Answering(j) : call[c].tells
  /\ notice[j].inline \/ notice[j].end => notice[j].held

\* The end of a job was told, or is on its way; and so is the end of its output.
Reaches(j) == isTerminal(j) /\ owner = "live" /\ jobs[j].announced # "teardown" =>
  \/ j \in known \cup lost
  \/ notice[j].at \in {"queued", "claimed", "dropped"}
  \/ \E c \in Callers : Carries(c, j)
Consumed(j) == Listed(j) /\ jobs[j].read =>
  \/ outputs[j] = 1 \/ j \in lost
  \/ notice[j].pending /\ notice[j].end
  \/ \E c \in Callers : call[c].job = j /\ call[c].output

JobOk(j) == Waited(j) /\ Early(j) /\ Killed(j) /\ Noticed(j) /\ Placed(j) /\ Reaches(j) /\ Consumed(j)

\* Steps claim notices between calls, and a disposed agent has none.
Quiet == Claimed # {} \/ owner # "live" => Between

NoticeInv == Ranges /\ Calls /\ Quiet /\ \A j \in Jobs : JobOk(j)

-----------------------------------------------------------------------------
(* Types.                                                                  *)

LEMMA Names ==
  /\ Outcomes \subseteq Statuses /\ "failed" \in Outcomes
  /\ \A x \in {"unborn", "running", "stopping", "removed"} : x \in Statuses /\ x \notin Outcomes
  /\ \A x \in {"producer", "kill", "teardown"} : x \in Causes
  /\ \A x \in {"idle", "waiting", "stopping", "settled", "released", "failed", "returned", "promoted"} :
       x \in Phases
  /\ \A x \in {"none", "queued", "claimed", "logged", "dropped"} : x \in Places
  BY DEF Outcomes, Causes, Phases, Places, Statuses

\* The registry's operations make tables of tables.
LEMMA StartTypes ==
  ASSUME NEW table \in [Jobs -> JobRecord], NEW j \in Jobs
  PROVE  Start(table, j) \in [Jobs -> JobRecord]
  BY Names DEF Start, JobRecord

LEMMA KillTypes ==
  ASSUME NEW table \in [Jobs -> JobRecord], NEW j \in Jobs
  PROVE  Kill(table, j) \in [Jobs -> JobRecord]
  BY Names DEF Kill, JobRecord

LEMMA SettleTypes ==
  ASSUME NEW table \in [Jobs -> JobRecord], NEW j \in Jobs,
         NEW outcome \in Outcomes, NEW cause \in Causes
  PROVE  Settle(table, j, outcome, cause) \in [Jobs -> JobRecord]
<1>1. outcome \in Statuses
  BY Names
<1>2. [table[j] EXCEPT !.status = outcome, !.announced = cause, !.waiters = {}] \in JobRecord
  BY <1>1 DEF JobRecord
<1>3. [table EXCEPT ![j].status = outcome, ![j].announced = cause, ![j].waiters = {}]
        = [table EXCEPT ![j] = [table[j] EXCEPT !.status = outcome, !.announced = cause, !.waiters = {}]]
  OBVIOUS
<1>4. QED
  BY <1>2, <1>3 DEF Settle

LEMMA TeardownTypes ==
  ASSUME NEW table \in [Jobs -> JobRecord], NEW S
  PROVE  CancelForTeardown(table, S) \in [Jobs -> JobRecord]
<1>1. "failed" \in Statuses /\ "stopping" \in Statuses /\ "teardown" \in Causes
  BY Names
<1>2. ASSUME NEW r \in JobRecord
      PROVE  /\ [r EXCEPT !.settleCause = "teardown", !.status = "failed",
                          !.announced = "teardown", !.waiters = {}] \in JobRecord
             /\ [r EXCEPT !.settleCause = "teardown", !.status = "stopping"] \in JobRecord
  BY <1>1 DEF JobRecord
<1>3. \A j \in Jobs : table[j] \in JobRecord
  OBVIOUS
<1>4. QED
  BY <1>2, <1>3 DEF CancelForTeardown

LEMMA DropTypes ==
  ASSUME NEW table \in [Jobs -> JobRecord], NEW S
  PROVE  Drop(table, S) \in [Jobs -> JobRecord]
  BY Names DEF Drop, JobRecord

LEMMA WaitTypes ==
  ASSUME NEW table \in [Jobs -> JobRecord], NEW j \in Jobs, NEW c \in Callers
  PROVE  Enter(table, j, c) \in [Jobs -> JobRecord] /\ Leave(table, j, c) \in [Jobs -> JobRecord]
  BY DEF Enter, Leave, JobRecord

LEMMA ReadTypes ==
  ASSUME NEW table \in [Jobs -> JobRecord], NEW j \in Jobs
  PROVE  Read(table, j) \in [Jobs -> JobRecord]
<1>1. PICK b \in BOOLEAN : b <=> (table[j].read \/ table[j].status \in Outcomes)
  OBVIOUS
<1>2. Read(table, j) = [table EXCEPT ![j].read = b]
  BY <1>1 DEF Read, JobRecord
<1>3. QED
  BY <1>2 DEF JobRecord

LEMMA RecordTypes ==
  /\ Unborn \in JobRecord /\ Idle \in CallRecord /\ NoNotice \in NoticeRecord
  BY Names DEF Unborn, Idle, NoNotice, JobRecord, CallRecord, NoticeRecord

LEMMA DeliverTypes ==
  ASSUME Ranges, NEW table \in [Jobs -> JobRecord], NEW j \in Jobs, NEW size, Deliver(table, j, size)
  PROVE  jobs' \in [Jobs -> JobRecord] /\ notice' \in [Jobs -> NoticeRecord]
<1>1. Read(table, j) \in [Jobs -> JobRecord]
  BY ReadTypes
<1>2. [at |-> "queued", pending |-> TRUE, inline |-> size = "inline", held |-> size # "large",
       end |-> size # "large" /\ ~table[j].read, owed |-> j \in suppressedSettlements] \in NoticeRecord
  BY Names DEF NoticeRecord
<1>3. QED
  BY <1>1, <1>2 DEF Deliver, Ranges

LEMMA AnswerTypes ==
  ASSUME NEW r \in CallRecord, NEW j \in Jobs, NEW t \in BOOLEAN, NEW o \in BOOLEAN
  PROVE  [r EXCEPT !.phase = "returned", !.tool = "job_output", !.job = j, !.claim = FALSE,
                   !.tells = t, !.output = o] \in CallRecord
  BY Names DEF CallRecord

LEMMA ReadNowTypes ==
  ASSUME Ranges, NEW c \in Callers, NEW j \in Jobs, ReadNow(c, j)
  PROVE  Ranges'
<1>1. jobs' \in [Jobs -> JobRecord]
  BY ReadTypes DEF ReadNow, Ranges
<1>2. PICK t \in BOOLEAN, o \in BOOLEAN :
        /\ t <=> isTerminal(j)
        /\ o <=> isTerminal(j) /\ ((notice[j].pending /\ notice[j].end) \/ ~jobs[j].read)
  OBVIOUS
<1>3. call' \in [Callers -> CallRecord]
  <2>1. call[c] \in CallRecord
    BY DEF Ranges
  <2>2. (t = isTerminal(j)) /\ (o = (isTerminal(j) /\ ((notice[j].pending /\ notice[j].end) \/ ~jobs[j].read)))
    BY <1>2 DEF isTerminal
  <2>3. Answer(c, j, notice[j].pending /\ notice[j].end)
          = [call[c] EXCEPT !.phase = "returned", !.tool = "job_output", !.job = j, !.claim = FALSE,
                            !.tells = t, !.output = o]
    BY <2>2 DEF Answer
  <2>4. [call[c] EXCEPT !.phase = "returned", !.tool = "job_output", !.job = j, !.claim = FALSE,
                        !.tells = t, !.output = o] \in CallRecord
    BY ONLY <2>1, j \in Jobs, t \in BOOLEAN, o \in BOOLEAN, AnswerTypes
  <2>6. Answer(c, j, notice[j].pending /\ notice[j].end) \in CallRecord
    BY <2>3, <2>4
  <2>5. QED
    BY <2>6 DEF ReadNow, Ranges
<1>4. notice' \in [Jobs -> NoticeRecord]
  <2>1. [NoNotice EXCEPT !.at = IF notice[j].at = "queued" THEN "none" ELSE notice[j].at] \in NoticeRecord
    BY Names, RecordTypes DEF Ranges, NoticeRecord
  <2>2. QED
    BY <2>1 DEF ReadNow, Ranges
<1>5. QED
  BY <1>1, <1>3, <1>4 DEF ReadNow, Ranges, turn, told

LEMMA RangesInit == Init => Ranges
<1> SUFFICES ASSUME Init PROVE Ranges
  OBVIOUS
<1>1. QED
  BY RecordTypes DEF Init, RegistryInit, Ranges

LEMMA RangesNext ==
  ASSUME Ranges, Calls, Next
  PROVE  Ranges'
<1> USE DEF turn, plugin, told, registry
<1>0. /\ jobs \in [Jobs -> JobRecord] /\ call \in [Callers -> CallRecord]
      /\ notice \in [Jobs -> NoticeRecord]
  BY DEF Ranges
<1>1. ASSUME NEW j \in Jobs, StartBackground(j) \/ HostKill(j) PROVE Ranges'
  BY <1>0, <1>1, StartTypes, KillTypes DEF StartBackground, HostKill, Ranges
<1>2. ASSUME NEW j \in Jobs, NEW outcome \in Reports, Report(j, outcome) PROVE Ranges'
  <2>1. outcome \in Outcomes
    BY NoticesAssumption
  <2>2. jobs' \in [Jobs -> JobRecord]
    BY <1>0, <1>2, <2>1 DEF Report, JobRecord
  <2>3. QED
    BY <1>2, <2>2 DEF Report, Ranges
<1>3. ASSUME NEW j \in Jobs, NEW size \in Sizes, SettleReported(j, size) PROVE Ranges'
  <2> DEFINE cause == IF jobs[j].settleCause = "none" THEN "producer" ELSE jobs[j].settleCause
             base == [jobs EXCEPT ![j].done = "settled"]
             table == Settle(base, j, jobs[j].done, cause)
  <2>1. base \in [Jobs -> JobRecord] /\ jobs[j].done \in Outcomes /\ cause \in Causes
    BY <1>0, <1>3, Names DEF SettleReported, JobRecord
  <2>2. table \in [Jobs -> JobRecord]
    <3> HIDE DEF cause, base
    <3>1. QED
      BY <2>1, SettleTypes
  <2>3. CASE Live(j)
    <3>1. OnSettled(table, j, jobs[j].waiters # {}, size) /\ call' = Release(jobs[j].waiters)
          /\ UNCHANGED <<owner, turn, told>>
      BY <1>3, <2>3 DEF SettleReported
    <3> HIDE DEF table
    <3>2. /\ jobs' \in [Jobs -> JobRecord] /\ notice' \in [Jobs -> NoticeRecord]
          /\ killedByModel' \subseteq Jobs /\ suppressedSettlements' \subseteq Jobs
      BY <2>2, <3>1, DeliverTypes DEF OnSettled, Ranges
    <3>3. call' \in [Callers -> CallRecord]
      BY <1>0, <3>1, Names DEF Release, CallRecord
    <3>4. QED
      BY <3>1, <3>2, <3>3 DEF Ranges
  <2>4. CASE ~Live(j)
    <3>1. jobs' = table /\ UNCHANGED <<call, plugin, owner, turn, told>>
      BY <1>3, <2>4 DEF SettleReported
    <3> HIDE DEF table
    <3>2. QED
      BY <2>2, <3>1 DEF Ranges
  <2>5. QED
    BY <2>3, <2>4
<1>4. ASSUME NEW throwing \in SUBSET Jobs, DisposeOwner(throwing) PROVE Ranges'
  <2>1. jobs' \in [Jobs -> JobRecord]
    <3>1. jobs' = CancelForTeardown(jobs, throwing)
      BY <1>4 DEF DisposeOwner
    <3>2. QED
      BY <1>0, <3>1, TeardownTypes
  <2>2. QED
    BY <1>4, <2>1 DEF DisposeOwner, Ranges
<1>5. CASE DropOwned
  <2>1. jobs' \in [Jobs -> JobRecord]
    BY <1>0, <1>5, DropTypes DEF DropOwned
  <2>2. notice' \in [Jobs -> NoticeRecord]
    BY <1>0, <1>5 DEF DropOwned, NoticeRecord
  <2>3. QED
    BY <1>5, <2>1, <2>2 DEF DropOwned, Ranges
<1>6. ASSUME NEW c \in Callers, NEW j \in Jobs, Bash(c, j) PROVE Ranges'
  <2>1. Start(jobs, j) \in [Jobs -> JobRecord]
    BY <1>0, StartTypes
  <2>2. jobs' \in [Jobs -> JobRecord]
    BY <1>6, <2>1, WaitTypes DEF Bash
  <2>3. call' \in [Callers -> CallRecord]
    BY <1>0, <1>6, Names DEF Bash, Idle, CallRecord
  <2>4. QED
    BY <1>6, <2>2, <2>3 DEF Bash, Ranges
<1>7. ASSUME NEW c \in Callers, NEW j \in Jobs, JobOutputWait(c, j) PROVE Ranges'
  <2>1. jobs' \in [Jobs -> JobRecord]
    BY <1>0, <1>7, WaitTypes DEF JobOutputWait
  <2>2. call' \in [Callers -> CallRecord]
    BY <1>0, <1>7, Names DEF JobOutputWait, Idle, CallRecord, Ranges
  <2>3. QED
    BY <1>7, <2>1, <2>2 DEF JobOutputWait, Ranges
<1>8. ASSUME NEW c \in Callers, NEW j \in Jobs, JobKill(c, j) PROVE Ranges'
  <2>1. jobs' \in [Jobs -> JobRecord]
    BY <1>0, <1>8, KillTypes DEF JobKill
  <2>2. call' \in [Callers -> CallRecord]
    <3>0. PICK t \in BOOLEAN : t <=> Live(j)
      OBVIOUS
    <3>1. t = Live(j)
      BY <3>0 DEF Live
    <3>2. [Idle EXCEPT !.phase = "returned", !.tool = "job_kill", !.job = j, !.tells = t] \in CallRecord
      BY Names DEF Idle, CallRecord
    <3>3. QED
      BY <1>0, <1>8, <3>1, <3>2 DEF JobKill
  <2>3. QED
    BY <1>8, <2>1, <2>2 DEF JobKill, Ranges
<1>9. ASSUME NEW c \in Callers, NEW j \in Jobs, JobOutput(c, j) PROVE Ranges'
  BY <1>9, ReadNowTypes DEF JobOutput
<1>10. CASE Steer
  <2>1. jobs' \in [Jobs -> JobRecord]
    BY <1>0, <1>10 DEF Steer, JobRecord
  <2>2. call' \in [Callers -> CallRecord]
    <3>1. \A c \in Callers : /\ [call[c] EXCEPT !.claim = TRUE, !.phase = "released"] \in CallRecord
                             /\ [call[c] EXCEPT !.claim = TRUE, !.phase = @] \in CallRecord
      BY <1>0, Names DEF CallRecord
    <3>2. QED
      BY <1>0, <1>10, <3>1 DEF Steer
  <2>3. QED
    BY <1>10, <2>1, <2>2 DEF Steer, Ranges
<1>11. ASSUME NEW keepInbox \in BOOLEAN, Abort(keepInbox) PROVE Ranges'
  <2>1. jobs' \in [Jobs -> JobRecord]
    BY <1>0, <1>11 DEF Abort, JobRecord
  <2>2. call' \in [Callers -> CallRecord]
    BY <1>0, <1>11, Names DEF Abort, CallRecord
  <2>3. notice' \in [Jobs -> NoticeRecord]
    <3>1. \A j \in Jobs : notice[j] \in NoticeRecord /\ [notice[j] EXCEPT !.at = "dropped"] \in NoticeRecord
      BY <1>0, Names DEF NoticeRecord
    <3>2. QED
      BY <1>11, <3>1 DEF Abort
  <2>4. input' \in BOOLEAN /\ aborted' \in BOOLEAN
    BY <1>11 DEF Abort
  <2>5. /\ owner' = owner /\ killedByModel' = killedByModel /\ suppressedSettlements' = suppressedSettlements
        /\ given' = given /\ known' = known /\ outputs' = outputs /\ lost' = lost
    BY <1>11 DEF Abort
  <2>6. QED
    BY <1>0, <2>1, <2>2, <2>3, <2>4, <2>5 DEF Ranges
\* A call goes on: its job is one, as far as anything is done with it.
<1>12. ASSUME NEW c \in Callers, call[c].job \in Jobs,
              Resume(c) \/ Expire(c) \/ BashReturn(c) \/ Promote(c) \/ Stop(c) \/ StopExpires(c)
                \/ Record(c) \/ \E size \in Sizes : GiveUp(c, size)
       PROVE  Ranges'
  <2> DEFINE j == call[c].job
  <2>0. j \in Jobs /\ c \in Callers
    BY <1>12
  <2>1. CASE Resume(c)
    BY <1>12, <2>1, ReadNowTypes DEF Resume
  <2>2. CASE Expire(c) \/ Promote(c) \/ StopExpires(c)
    <3>1. /\ jobs' = Leave(jobs, j, c) /\ UNCHANGED <<owner, turn, plugin, told>>
          /\ \E p \in Phases : call' = [call EXCEPT ![c].phase = p]
      BY <2>2, Names DEF Expire, Promote, StopExpires
    <3>2. jobs' \in [Jobs -> JobRecord]
      BY <1>0, <2>0, <3>1, WaitTypes
    <3>3. call' \in [Callers -> CallRecord]
      BY <1>0, <3>1 DEF CallRecord
    <3>4. QED
      BY <3>1, <3>2, <3>3 DEF Ranges
  <2>3. CASE BashReturn(c)
    <3>1. jobs' \in [Jobs -> JobRecord]
      BY <1>0, <2>0, <2>3, DropTypes DEF BashReturn
    <3>2. call' \in [Callers -> CallRecord] /\ notice' \in [Jobs -> NoticeRecord]
      <4>1. [call[c] EXCEPT !.phase = "returned"] \in CallRecord
        BY <1>0, Names DEF CallRecord
      <4>2. [notice[j] EXCEPT !.pending = FALSE] \in NoticeRecord
        BY <1>0, <2>0 DEF NoticeRecord
      <4>3. /\ call' = [call EXCEPT ![c] = [call[c] EXCEPT !.phase = "returned"]]
            /\ notice' = [notice EXCEPT ![j] = [notice[j] EXCEPT !.pending = FALSE]]
        BY <2>3 DEF BashReturn
      <4>4. QED
        BY <1>0, <4>1, <4>2, <4>3
    <3>3. QED
      BY <2>3, <3>1, <3>2 DEF BashReturn, Ranges
  <2>4. CASE Stop(c)
    <3>1. Kill(jobs, j) \in [Jobs -> JobRecord]
      BY <1>0, <2>0, KillTypes
    <3>2. jobs' \in [Jobs -> JobRecord]
      BY <1>0, <2>0, <2>4, <3>1, WaitTypes DEF Stop
    <3>3. call' \in [Callers -> CallRecord]
      BY <1>0, <2>4, Names DEF Stop, CallRecord
    <3>4. QED
      BY <2>4, <3>2, <3>3 DEF Stop, Ranges
  <2>5. CASE Record(c)
    <3>1. call' \in [Callers -> CallRecord]
      BY <1>0, <2>5, RecordTypes DEF Record
    <3>2. /\ known' \subseteq Jobs /\ given' \subseteq Jobs /\ lost' \subseteq Jobs
          /\ outputs' \in [Jobs -> Nat]
      BY <2>0, <2>5 DEF Record, Ranges
    <3>3. QED
      BY <2>5, <3>1, <3>2 DEF Record, Ranges
  <2>6. ASSUME NEW size \in Sizes, GiveUp(c, size) PROVE Ranges'
    <3>1. jobs' \in [Jobs -> JobRecord] /\ notice' \in [Jobs -> NoticeRecord]
      BY <1>0, <2>0, <2>6, DeliverTypes DEF GiveUp
    <3>2. call' \in [Callers -> CallRecord]
      BY <1>0, <2>0, <2>6, Names DEF GiveUp, Idle, CallRecord
    <3>3. suppressedSettlements' \subseteq Jobs
      BY <2>6 DEF GiveUp, Ranges
    <3>4. QED
      BY <2>6, <3>1, <3>2, <3>3 DEF GiveUp, Ranges
  <2>7. QED
    BY <1>12, <2>1, <2>2, <2>3, <2>4, <2>5, <2>6
<1>13. ASSUME NEW c \in Callers,
              Resume(c) \/ Expire(c) \/ BashReturn(c) \/ Promote(c) \/ Stop(c) \/ StopExpires(c)
                \/ Record(c) \/ \E size \in Sizes : GiveUp(c, size)
       PROVE  Ranges'
  <2>1. call[c].phase # "idle"
    BY <1>13 DEF Resume, Expire, BashReturn, Promote, Stop, StopExpires, Record, GiveUp, Cancelled
  <2>2. call[c].job \in Jobs
    BY <2>1 DEF Calls, CallOk
  <2>3. QED
    BY <1>12, <1>13, <2>2
<1>14. CASE (\E some \in SUBSET Jobs : NextStep(some)) \/ LogNotices \/ DropNotices
  <2>1. notice' \in [Jobs -> NoticeRecord]
    BY <1>0, <1>14, Names, RecordTypes DEF NextStep, LogNotices, DropNotices, NoticeRecord
  <2>2. /\ outputs' \in [Jobs -> Nat] /\ known' \subseteq Jobs /\ given' \subseteq Jobs
        /\ input' \in BOOLEAN /\ aborted' \in BOOLEAN
    <3>1. CASE LogNotices
      <4>1. Claimed \subseteq Jobs
        BY DEF Claimed
      <4>2. QED
        BY <3>1, <4>1 DEF LogNotices, Ranges
    <3>2. QED
      BY <1>14, <3>1 DEF NextStep, DropNotices, Ranges
  <2>3. QED
    BY <1>14, <2>1, <2>2 DEF NextStep, LogNotices, DropNotices, Ranges
<1>15. QED
  BY <1>1, <1>2, <1>3, <1>4, <1>5, <1>6, <1>7, <1>8, <1>9, <1>10, <1>11, <1>13, <1>14 DEF Next

-----------------------------------------------------------------------------
(* The registry's operations, part by part.                                *)

LEMMA StartParts ==
  ASSUME NEW table \in [Jobs -> JobRecord], NEW j \in Jobs
  PROVE  \A k \in Jobs : /\ Start(table, j)[k].status = IF k = j THEN "running" ELSE table[k].status
                         /\ Start(table, j)[k].announced = table[k].announced
                         /\ Start(table, j)[k].waiters = table[k].waiters
                         /\ Start(table, j)[k].read = table[k].read
  BY DEF Start, JobRecord

LEMMA KillParts ==
  ASSUME NEW table \in [Jobs -> JobRecord], NEW j \in Jobs
  PROVE  \A k \in Jobs : /\ Kill(table, j)[k].status =
                              IF k = j /\ table[j].status \in {"running", "stopping"} THEN "stopping" ELSE table[k].status
                         /\ Kill(table, j)[k].announced = table[k].announced
                         /\ Kill(table, j)[k].waiters = table[k].waiters
                         /\ Kill(table, j)[k].read = table[k].read
  BY DEF Kill, JobRecord

LEMMA SettleParts ==
  ASSUME NEW table \in [Jobs -> JobRecord], NEW j \in Jobs, NEW outcome \in Outcomes, NEW cause \in Causes,
         table[j].status \in {"running", "stopping"}
  PROVE  \A k \in Jobs :
           IF k = j THEN /\ Settle(table, j, outcome, cause)[k].status = outcome
                         /\ Settle(table, j, outcome, cause)[k].announced = cause
                         /\ Settle(table, j, outcome, cause)[k].waiters = {}
                         /\ Settle(table, j, outcome, cause)[k].read = table[k].read
                    ELSE Settle(table, j, outcome, cause)[k] = table[k]
  BY DEF Settle, JobRecord

LEMMA TeardownParts ==
  ASSUME NEW table \in [Jobs -> JobRecord], NEW S \in SUBSET Jobs,
         \A j \in S : table[j].status \in {"running", "stopping"}
  PROVE  \A k \in Jobs : 
           /\ CancelForTeardown(table, S)[k].read = table[k].read
           /\ IF table[k].status \notin {"running", "stopping"} THEN CancelForTeardown(table, S)[k] = table[k]
              ELSE IF k \in S THEN /\ CancelForTeardown(table, S)[k].status = "failed"
                                   /\ CancelForTeardown(table, S)[k].announced = "teardown"
                                   /\ CancelForTeardown(table, S)[k].waiters = {}
                   ELSE /\ CancelForTeardown(table, S)[k].status = "stopping"
                        /\ CancelForTeardown(table, S)[k].announced = table[k].announced
                        /\ CancelForTeardown(table, S)[k].waiters = table[k].waiters
  BY DEF CancelForTeardown, JobRecord

LEMMA DropParts ==
  ASSUME NEW table \in [Jobs -> JobRecord], NEW S
  PROVE  \A k \in Jobs : /\ Drop(table, S)[k].status = IF k \in S THEN "removed" ELSE table[k].status
                         /\ Drop(table, S)[k].announced = table[k].announced
                         /\ Drop(table, S)[k].waiters = table[k].waiters
                         /\ Drop(table, S)[k].read = table[k].read
  BY DEF Drop, JobRecord

LEMMA EnterParts ==
  ASSUME NEW table \in [Jobs -> JobRecord], NEW j \in Jobs, NEW c \in Callers
  PROVE  \A k \in Jobs : /\ Enter(table, j, c)[k].status = table[k].status
                         /\ Enter(table, j, c)[k].announced = table[k].announced
                         /\ Enter(table, j, c)[k].read = table[k].read
                         /\ k # j => Enter(table, j, c)[k].waiters = table[k].waiters
                         /\ k = j => Enter(table, j, c)[k].waiters = table[k].waiters \cup {c}
  BY DEF Enter, JobRecord

LEMMA LeaveParts ==
  ASSUME NEW table \in [Jobs -> JobRecord], NEW j \in Jobs, NEW c \in Callers
  PROVE  \A k \in Jobs : /\ Leave(table, j, c)[k].status = table[k].status
                         /\ Leave(table, j, c)[k].announced = table[k].announced
                         /\ Leave(table, j, c)[k].read = table[k].read
                         /\ k # j => Leave(table, j, c)[k].waiters = table[k].waiters
                         /\ k = j => Leave(table, j, c)[k].waiters = table[k].waiters \ {c}
  BY DEF Leave, JobRecord

LEMMA ReadParts ==
  ASSUME NEW table \in [Jobs -> JobRecord], NEW j \in Jobs
  PROVE  \A k \in Jobs : /\ Read(table, j)[k].status = table[k].status
                         /\ Read(table, j)[k].announced = table[k].announced
                         /\ Read(table, j)[k].waiters = table[k].waiters
                         /\ Read(table, j)[k].read <=> table[k].read \/ (k = j /\ table[j].status \in Outcomes)
  BY DEF Read, JobRecord

LEMMA NoNoticeAt ==
  NoNotice.at = "none" /\ ~NoNotice.pending /\ ~NoNotice.inline /\ ~NoNotice.held /\ ~NoNotice.end
  BY DEF NoNotice

-----------------------------------------------------------------------------
(* What a step does not concern.                                           *)

\* Nothing about a job changed.
Untouched(k) ==
  /\ jobs'[k].status = jobs[k].status /\ jobs'[k].announced = jobs[k].announced
  /\ jobs'[k].waiters = jobs[k].waiters /\ (jobs'[k].read <=> jobs[k].read)
  /\ notice'[k] = notice[k] /\ outputs'[k] = outputs[k]
  /\ k \in killedByModel' <=> k \in killedByModel
  /\ k \in suppressedSettlements' <=> k \in suppressedSettlements
  /\ k \in given' <=> k \in given
  /\ k \in known' <=> k \in known
  /\ k \in lost' <=> k \in lost

LEMMA JobKept ==
  ASSUME NEW k \in Jobs, JobOk(k), Untouched(k), owner' = "live" => owner = "live",
         \A d \in Callers : call'[d] = call[d] \/ (call[d].job # k /\ call'[d].job # k)
  PROVE  JobOk(k)'
<1> USE DEF Untouched
<1>1. Live(k)' <=> Live(k)
  BY DEF Live
<1>2. isTerminal(k)' <=> isTerminal(k)
  BY DEF isTerminal
<1>3. Waited(k)'
  BY <1>1 DEF JobOk, Waited, Waiting, Claims
<1>4. Early(k)'
  BY <1>1, <1>2 DEF JobOk, Early
<1>5. Telling(k)' <=> Telling(k)
  BY DEF Telling
<1>6. Killed(k)' /\ Noticed(k)'
  BY <1>1, <1>2, <1>5 DEF JobOk, Killed, Noticed
<1>7. Placed(k)'
  BY DEF JobOk, Placed, Holds, Answering
<1>8. Reaches(k)'
  BY <1>2 DEF JobOk, Reaches, Carries
<1>9. Consumed(k)'
  BY <1>1, <1>2 DEF JobOk, Consumed, Listed
<1>10. QED
  BY <1>3, <1>4, <1>6, <1>7, <1>8, <1>9 DEF JobOk

\* A call that does nothing, while others act on jobs.
LEMMA CallKept ==
  ASSUME NEW d \in Callers, CallOk(d), call'[d] = call[d],
         \A k \in Jobs : /\ jobs[k].status # "unborn" => jobs'[k].status # "unborn"
                         /\ jobs[k].status # "unborn" /\ ~Live(k) => ~Live(k)',
         given \subseteq given', call[d].tool = "bash" => call[d].job \notin given' \ given,
         \A b \in Callers : call'[b].phase # "idle" /\ call[d].tool = "bash" /\ call'[b].job = call[d].job =>
           call[b].phase # "idle" /\ call[b].job = call[d].job
  PROVE  CallOk(d)'
<1>1. CASE call[d].phase = "idle"
  BY <1>1 DEF CallOk, Idle
<1>2. CASE call[d].phase # "idle"
  <2>1. call[d].job \in Jobs /\ jobs[call[d].job].status # "unborn"
    BY <1>2 DEF CallOk
  <2>2. jobs'[call[d].job].status # "unborn"
    BY <2>1
  <2>3. call[d].phase = "settled" => ~Live(call[d].job)'
    BY <2>1 DEF CallOk
  <2>4. QED
    BY <1>2, <2>1, <2>2, <2>3 DEF CallOk, Live
<1>3. QED
  BY <1>1, <1>2

\* One job is concerned, and the calls that name it.
LEMMA OneJob ==
  ASSUME NoticeInv, Ranges', NEW j \in Jobs, NEW C \in SUBSET Callers, owner' = "live" => owner = "live",
         \A k \in Jobs \ {j} : Untouched(k),
         \A d \in Callers \ C : call'[d] = call[d],
         \A c \in C : call[c].job \in {j, "none"} /\ call'[c].job \in {j, "none"},
         jobs[j].status # "unborn" => jobs'[j].status # "unborn" /\ (~Live(j) => ~Live(j)'),
         given \subseteq given',
         \A d \in Callers \ C : call[d].tool = "bash" /\ call[d].job = j =>
           j \notin given' /\ \A c \in C : call'[c].phase # "idle" => call[c].phase # "idle" /\ call[c].job = j,
         \A c \in C : CallOk(c)', JobOk(j)', Quiet'
  PROVE  NoticeInv'
<1>1. ASSUME NEW k \in Jobs PROVE JobOk(k)'
  <2>1. CASE k # j
    <3>1. Untouched(k) /\ JobOk(k)
      BY <1>1, <2>1 DEF NoticeInv
    <3>2. \A d \in Callers : call'[d] = call[d] \/ (call[d].job # k /\ call'[d].job # k)
      BY <2>1, NoticesAssumption
    <3>3. QED
      BY <3>1, <3>2, JobKept
  <2>2. QED
    BY <2>1
<1>2. ASSUME NEW d \in Callers PROVE CallOk(d)'
  <2>1. CASE d \notin C
    <3>1. CallOk(d) /\ call'[d] = call[d]
      BY <2>1 DEF NoticeInv, Calls
    <3>2. \A k \in Jobs : /\ jobs[k].status # "unborn" => jobs'[k].status # "unborn"
                          /\ jobs[k].status # "unborn" /\ ~Live(k) => ~Live(k)'
      BY DEF Untouched, Live
    <3>3. call[d].tool = "bash" => call[d].job \in Jobs
      BY <3>1 DEF CallOk, Idle
    <3>4. call[d].tool = "bash" => call[d].job \notin given' \ given
      BY <2>1, <3>3 DEF Untouched
    <3>5. \A b \in Callers : call'[b].phase # "idle" /\ call[d].tool = "bash" /\ call'[b].job = call[d].job =>
            call[b].phase # "idle" /\ call[b].job = call[d].job
      BY <2>1, <3>3, NoticesAssumption
    <3>6. QED
      BY <3>1, <3>2, <3>4, <3>5, CallKept
  <2>2. QED
    BY <2>1
<1>3. QED
  BY <1>1, <1>2 DEF NoticeInv, Calls

\* No call takes part.
LEMMA JobAlone ==
  ASSUME NoticeInv, Ranges', NEW j \in Jobs, owner' = "live" => owner = "live",
         \A k \in Jobs \ {j} : Untouched(k), call' = call,
         jobs[j].status # "unborn" => jobs'[j].status # "unborn" /\ (~Live(j) => ~Live(j)'),
         given \subseteq given',
         \A d \in Callers : call[d].tool = "bash" /\ call[d].job = j => j \notin given',
         JobOk(j)', Quiet'
  PROVE  NoticeInv'
<1>1. PICK C \in SUBSET Callers : C = {}
  OBVIOUS
<1>2. /\ \A d \in Callers \ C : call'[d] = call[d]
      /\ \A c \in C : call[c].job \in {j, "none"} /\ call'[c].job \in {j, "none"}
      /\ \A d \in Callers \ C : call[d].tool = "bash" /\ call[d].job = j =>
           j \notin given' /\ \A c \in C : call'[c].phase # "idle" => call[c].phase # "idle" /\ call[c].job = j
      /\ \A c \in C : CallOk(c)'
  BY <1>1
<1>3. QED
  BY <1>2, OneJob

-----------------------------------------------------------------------------
(* Producers and other callers of the registry.                            *)

LEMMA StartBackgroundKeeps ==
  ASSUME NoticeInv, Ranges', NEW j \in Jobs, StartBackground(j)
  PROVE  NoticeInv'
<1> USE DEF turn, plugin, told, registry
<1>1. /\ jobs[j].status = "unborn" /\ jobs'[j].status = "running" /\ jobs'[j].announced = jobs[j].announced
      /\ jobs'[j].waiters = jobs[j].waiters /\ (jobs'[j].read <=> jobs[j].read)
  BY StartParts DEF StartBackground, Startable, NoticeInv, Ranges
<1>2. given' = given \cup {j} /\ UNCHANGED <<owner, call, turn, plugin, known, outputs, lost>>
  BY DEF StartBackground
<1>3. \A k \in Jobs \ {j} : Untouched(k)
  BY <1>2, StartParts DEF StartBackground, NoticeInv, Ranges, Untouched
<1>4. Quiet'
  BY <1>2 DEF NoticeInv, Quiet, Claimed, Between
<1>5. JobOk(j) /\ \A c \in Callers : CallOk(c)
  BY DEF NoticeInv, Calls
<1>6. \A c \in Callers : call[c].job = j => call[c].phase = "idle" /\ call[c] = Idle
  BY <1>1, <1>5 DEF CallOk
<1>7. \A c \in Callers : call[c].job # j
  BY <1>6, NoticesAssumption DEF Idle
<1>8. Waited(j)' /\ Early(j)'
  BY <1>1, <1>2, <1>5 DEF JobOk, Waited, Early, Waiting, Claims, Live
<1>9. Killed(j)' /\ Noticed(j)'
  BY <1>1, <1>2, <1>5, <1>7 DEF JobOk, Killed, Noticed, Early, Telling, Live, NoNotice
<1>10. Placed(j)'
  BY <1>1, <1>2, <1>5 DEF JobOk, Placed, Holds, Answering
<1>11. Reaches(j)' /\ Consumed(j)'
  BY <1>1, <1>2, <1>5 DEF JobOk, Reaches, Consumed, Early, isTerminal, Outcomes
<1>12. JobOk(j)'
  BY <1>8, <1>9, <1>10, <1>11 DEF JobOk
<1>13. QED
  <2>1. owner' = "live" => owner = "live"
    BY <1>2
  <2>2. given \subseteq given' /\ call' = call
    BY <1>2
  <2>3. \A d \in Callers : call[d].tool = "bash" /\ call[d].job = j => j \notin given'
    BY <1>7
  <2>4. QED
    BY <1>1, <1>3, <1>4, <1>12, <2>1, <2>2, <2>3, JobAlone

\* A report, and a kill, change nothing the other invariants are about.
LEMMA RequestKeeps ==
  ASSUME NoticeInv, Ranges', NEW j \in Jobs,
         HostKill(j) \/ \E outcome \in Reports : Report(j, outcome)
  PROVE  NoticeInv'
<1> USE DEF turn, plugin, told, registry
<1>1. UNCHANGED <<owner, call, turn, plugin, told>>
  BY DEF HostKill, Report
<1>2. \A k \in Jobs : /\ jobs'[k].announced = jobs[k].announced /\ jobs'[k].waiters = jobs[k].waiters
                      /\ (jobs'[k].read <=> jobs[k].read)
                      /\ \/ jobs'[k].status = jobs[k].status
                         \/ k = j /\ Live(j) /\ jobs'[k].status = "stopping"
  <2>1. CASE HostKill(j)
    BY <2>1, KillParts DEF HostKill, NoticeInv, Ranges
  <2>2. ASSUME NEW outcome \in Reports, Report(j, outcome)
        PROVE  \A k \in Jobs : /\ jobs'[k].announced = jobs[k].announced /\ jobs'[k].waiters = jobs[k].waiters
                               /\ (jobs'[k].read <=> jobs[k].read) /\ jobs'[k].status = jobs[k].status
    BY <2>2 DEF Report, NoticeInv, Ranges, JobRecord
  <2>3. QED
    BY <2>1, <2>2
<1>3. \A k \in Jobs \ {j} : Untouched(k)
  BY <1>1, <1>2 DEF Untouched
<1>4. Quiet'
  BY <1>1 DEF NoticeInv, Quiet, Claimed, Between
<1>5. JobOk(j) /\ \A c \in Callers : CallOk(c)
  BY DEF NoticeInv, Calls
<1>6. (Live(j)' <=> Live(j)) /\ (isTerminal(j)' <=> isTerminal(j)) /\ (Listed(j)' <=> Listed(j))
      /\ (jobs'[j].status = "unborn" <=> jobs[j].status = "unborn")
  BY <1>2 DEF Live, isTerminal, Listed, Outcomes
<1>7. Waited(j)' /\ Early(j)'
  BY <1>1, <1>2, <1>5, <1>6 DEF JobOk, Waited, Early, Waiting, Claims
<1>8. Killed(j)' /\ Noticed(j)'
  BY <1>1, <1>5, <1>6 DEF JobOk, Killed, Noticed, Telling
<1>9. Placed(j)'
  BY <1>1, <1>2, <1>5 DEF JobOk, Placed, Holds, Answering
<1>10. Reaches(j)' /\ Consumed(j)'
  BY <1>1, <1>2, <1>5, <1>6 DEF JobOk, Reaches, Consumed, Carries
<1>11. JobOk(j)'
  BY <1>7, <1>8, <1>9, <1>10 DEF JobOk
<1>12. QED
  <2>1. owner' = "live" => owner = "live"
    BY <1>1
  <2>2. call' = call /\ \A d \in Callers : call[d].tool = "bash" /\ call[d].job = j => j \notin given'
    BY <1>1, <1>5 DEF CallOk
  <2>3. jobs[j].status # "unborn" => jobs'[j].status # "unborn" /\ (~Live(j) => ~Live(j)')
    BY <1>6
  <2>4. given \subseteq given'
    BY <1>1
  <2>5. QED
    BY <1>3, <1>4, <1>11, <2>1, <2>2, <2>3, <2>4, JobAlone

-----------------------------------------------------------------------------
(* The end of a job, and what is held of it.                               *)

\* deliverSettlement(): a notice and its read, unless nobody is to be told.
LEMMA DeliverParts ==
  ASSUME NEW table \in [Jobs -> JobRecord], notice \in [Jobs -> NoticeRecord],
         NEW j \in Jobs, NEW size \in Sizes, Deliver(table, j, size)
  PROVE  /\ \A k \in Jobs : /\ jobs'[k].status = table[k].status /\ jobs'[k].announced = table[k].announced
                            /\ jobs'[k].waiters = table[k].waiters
                            /\ k # j => (jobs'[k].read <=> table[k].read) /\ notice'[k] = notice[k]
         /\ \/ (table[j].announced = "teardown" \/ owner = "gone") /\ jobs' = table /\ notice' = notice
            \/ /\ jobs'[j].read <=> table[j].read \/ (notice'[j].held /\ table[j].status \in Outcomes)
               /\ notice'[j].at = "queued" /\ notice'[j].pending
               /\ notice'[j].inline => notice'[j].held
               /\ notice'[j].end <=> notice'[j].held /\ ~table[j].read
               /\ notice'[j].owed <=> j \in suppressedSettlements
<1>1. CASE table[j].announced = "teardown" \/ owner = "gone"
  BY <1>1 DEF Deliver
<1>2. CASE ~(table[j].announced = "teardown" \/ owner = "gone")
  <2>1. /\ jobs' = IF size = "large" THEN table ELSE Read(table, j)
        /\ notice' = [notice EXCEPT ![j] =
             [at |-> "queued", pending |-> TRUE, inline |-> size = "inline", held |-> size # "large",
              end |-> size # "large" /\ ~table[j].read, owed |-> j \in suppressedSettlements]]
    BY <1>2 DEF Deliver
  <2>2. /\ notice'[j].at = "queued" /\ notice'[j].pending /\ (notice'[j].held <=> size # "large")
        /\ notice'[j].inline => notice'[j].held
        /\ notice'[j].end <=> notice'[j].held /\ ~table[j].read
        /\ notice'[j].owed <=> j \in suppressedSettlements
        /\ \A k \in Jobs : k # j => notice'[k] = notice[k]
    BY <2>1
  <2>3. \A k \in Jobs : /\ jobs'[k].status = table[k].status /\ jobs'[k].announced = table[k].announced
                        /\ jobs'[k].waiters = table[k].waiters
                        /\ jobs'[k].read <=> table[k].read \/ (k = j /\ size # "large" /\ table[j].status \in Outcomes)
    BY <2>1, ReadParts
  <2>4. QED
    BY <2>2, <2>3
<1>3. QED
  BY <1>1, <1>2

LEMMA ReleaseParts ==
  ASSUME call \in [Callers -> CallRecord], NEW freed, call' = Release(freed)
  PROVE  \A c \in Callers :
           /\ call'[c].phase = IF c \in freed THEN "settled" ELSE call[c].phase
           /\ call'[c].tool = call[c].tool /\ call'[c].job = call[c].job
           /\ call'[c].claim = call[c].claim /\ call'[c].tells = call[c].tells
           /\ call'[c].output = call[c].output
           /\ c \notin freed => call'[c] = call[c]
  BY DEF Release, CallRecord

LEMMA SettleKeeps ==
  ASSUME NoticeInv, Ranges', NEW j \in Jobs, NEW size \in Sizes, SettleReported(j, size), Live(j)
  PROVE  NoticeInv'
<1> USE DEF turn, plugin, told, registry
<1> DEFINE cause == IF jobs[j].settleCause = "none" THEN "producer" ELSE jobs[j].settleCause
           base == [jobs EXCEPT ![j].done = "settled"]
           table == Settle(base, j, jobs[j].done, cause)
           freed == jobs[j].waiters
<1>1. base \in [Jobs -> JobRecord] /\ jobs[j].done \in Outcomes /\ cause \in Causes
  <2>1. jobs \in [Jobs -> JobRecord]
    BY DEF NoticeInv, Ranges
  <2>2. QED
    BY <2>1, Names DEF SettleReported, JobRecord
<1>2. \A k \in Jobs : /\ base[k].status = jobs[k].status /\ base[k].announced = jobs[k].announced
                      /\ base[k].waiters = jobs[k].waiters /\ base[k].read = jobs[k].read
  BY DEF JobRecord, NoticeInv, Ranges
<1>3. table \in [Jobs -> JobRecord]
  <2> HIDE DEF cause, base
  <2>1. QED
    BY <1>1, SettleTypes
<1>4. \A k \in Jobs : /\ table[k].read = jobs[k].read
                      /\ k # j => /\ table[k].status = jobs[k].status /\ table[k].announced = jobs[k].announced
                                  /\ table[k].waiters = jobs[k].waiters
  <2>1. base[j].status \in {"running", "stopping"}
    BY <1>2 DEF Live
  <2> HIDE DEF cause, base
  <2>2. QED
    BY <1>1, <1>2, <2>1, SettleParts
<1>5. table[j].status \in Outcomes /\ table[j].waiters = {}
  <2>1. base[j].status \in {"running", "stopping"}
    BY <1>2 DEF Live
  <2> HIDE DEF cause, base
  <2>2. QED
    BY <1>1, <2>1, SettleParts
<1>6. /\ OnSettled(table, j, freed # {}, size) /\ call' = Release(freed)
      /\ UNCHANGED <<owner, turn, told>>
  BY DEF SettleReported
<1> HIDE DEF table
<1>7. JobOk(j) /\ \A c \in Callers : CallOk(c)
  BY DEF NoticeInv, Calls
<1>8. /\ call \in [Callers -> CallRecord] /\ notice \in [Jobs -> NoticeRecord] /\ freed \subseteq Callers
      /\ freed = Waiting(j)
  BY <1>7 DEF NoticeInv, Ranges, JobRecord, JobOk, Waited, Waiting
<1>9. \A c \in Callers :
           /\ call'[c].phase = IF c \in freed THEN "settled" ELSE call[c].phase
           /\ call'[c].tool = call[c].tool /\ call'[c].job = call[c].job
           /\ call'[c].claim = call[c].claim /\ call'[c].tells = call[c].tells
           /\ call'[c].output = call[c].output
           /\ c \notin freed => call'[c] = call[c]
  BY <1>6, <1>8, ReleaseParts
<1>10. notice[j] = NoNotice /\ ~jobs[j].read /\ j \notin suppressedSettlements /\ jobs[j].status # "unborn"
  BY <1>7 DEF JobOk, Early, Live
\* The notice, the claim that holds it, or the kill or the wait that tells the end.
<1>11. /\ killedByModel' = killedByModel \ {j}
       /\ \/ (j \in killedByModel \/ freed # {}) /\ jobs' = table /\ UNCHANGED <<notice, suppressedSettlements>>
          \/ /\ j \notin killedByModel /\ freed = {} /\ Claims(j) # {} /\ jobs' = table /\ UNCHANGED notice
             /\ suppressedSettlements' = suppressedSettlements \cup {j}
          \/ /\ j \notin killedByModel /\ freed = {} /\ Claims(j) = {}
             /\ Deliver(table, j, size) /\ UNCHANGED suppressedSettlements
  BY <1>6 DEF OnSettled
<1>12. /\ \A k \in Jobs : /\ jobs'[k].status = table[k].status /\ jobs'[k].announced = table[k].announced
                          /\ jobs'[k].waiters = table[k].waiters
                          /\ k # j => (jobs'[k].read <=> table[k].read) /\ notice'[k] = notice[k]
       /\ \/ j \in killedByModel /\ ~jobs'[j].read /\ notice'[j] = NoNotice /\ j \notin suppressedSettlements'
          \/ freed # {} /\ ~jobs'[j].read /\ notice'[j] = NoNotice /\ j \notin suppressedSettlements'
          \/ Claims(j) # {} /\ ~jobs'[j].read /\ notice'[j] = NoNotice /\ j \in suppressedSettlements'
          \/ /\ j \notin killedByModel
             /\ owner = "gone" \/ table[j].announced = "teardown"
             /\ ~jobs'[j].read /\ notice'[j] = NoNotice /\ j \notin suppressedSettlements'
          \/ /\ j \notin killedByModel /\ j \notin suppressedSettlements'
             /\ notice'[j].at = "queued" /\ notice'[j].pending
             /\ jobs'[j].read <=> notice'[j].held
             /\ notice'[j].inline => notice'[j].held
             /\ notice'[j].end <=> notice'[j].held
  <2>1. CASE Deliver(table, j, size)
    BY <1>3, <1>4, <1>5, <1>8, <1>10, <1>11, <2>1, DeliverParts
  <2>2. CASE ~Deliver(table, j, size)
    BY <1>4, <1>10, <1>11, <2>2
  <2>3. QED
    BY <2>1, <2>2
<1>13. \A k \in Jobs \ {j} : Untouched(k)
  BY <1>4, <1>6, <1>11, <1>12 DEF Untouched
<1>14. (Claims(j)' = Claims(j)) /\ (Telling(j)' <=> Telling(j)) /\ (Answering(j)' = Answering(j))
  BY <1>9 DEF Claims, Telling, Answering
<1>15. isTerminal(j)' /\ ~Live(j)' /\ jobs'[j].status # "unborn"
  BY <1>5, <1>12 DEF isTerminal, Live, Outcomes
<1>16. Waited(j)'
  BY <1>5, <1>8, <1>9, <1>12, <1>14 DEF Waited, Waiting
<1>17. Early(j)'
  BY <1>12, <1>15, NoNoticeAt DEF Early
<1>18. ~(j \in known) \/ j \in killedByModel
  BY <1>7 DEF JobOk, Killed
<1>19. Killed(j)'
  BY <1>6, <1>7, <1>11, <1>14, <1>15 DEF JobOk, Killed
<1>20. Noticed(j)'
  BY <1>6, <1>7, <1>12, <1>14, NoNoticeAt DEF JobOk, Killed, Noticed
<1>21. Placed(j)'
  <2>1. outputs'[j] = 0 /\ Answering(j)' = {}
    BY <1>6, <1>7, <1>10, <1>14 DEF JobOk, Placed
  <2>2. jobs'[j].read \/ ~Holds(j)'
    BY <1>12, NoNoticeAt DEF Holds
  <2>3. notice'[j].inline \/ notice'[j].end => notice'[j].held
    BY <1>12, NoNoticeAt
  <2>4. QED
    BY <2>1, <2>2, <2>3 DEF Placed
<1>22. Reaches(j)'
  <2>1. CASE j \in killedByModel
    <3>1. j \in known' \cup lost' \/ Telling(j)'
      BY <1>6, <1>7, <1>14, <2>1 DEF JobOk, Killed
    <3>2. Telling(j)' => \E c \in Callers : Carries(c, j)'
      BY <1>7, <1>8, <1>9 DEF Telling, Carries, CallOk, Waiting
    <3>3. QED
      BY <3>1, <3>2 DEF Reaches
  <2>2. CASE freed # {}
    <3>1. PICK c \in Callers : c \in freed
      BY <1>8, <2>2
    <3>2. Carries(c, j)'
      BY <1>8, <1>9, <3>1 DEF Carries, Waiting
    <3>3. QED
      BY <3>2 DEF Reaches
  <2>3. CASE Claims(j) # {} /\ j \in suppressedSettlements'
    <3>1. PICK c \in Callers : call[c].claim /\ call[c].job = j
      BY <2>3 DEF Claims
    <3>2. Carries(c, j)'
      BY <1>9, <2>3, <3>1 DEF Carries
    <3>3. QED
      BY <3>2 DEF Reaches
  <2>4. CASE notice'[j].at = "queued" \/ owner = "gone" \/ table[j].announced = "teardown"
    BY <1>6, <1>12, <2>4 DEF Reaches
  <2>5. QED
    BY <1>12, <2>1, <2>2, <2>3, <2>4
<1>23. Consumed(j)'
  BY <1>12 DEF Consumed
<1>24. JobOk(j)'
  BY <1>16, <1>17, <1>19, <1>20, <1>21, <1>22, <1>23 DEF JobOk
<1>25. \A c \in freed : CallOk(c)'
  <2> SUFFICES ASSUME NEW c \in freed PROVE CallOk(c)'
    OBVIOUS
  <2>1. /\ CallOk(c) /\ call[c].job = j /\ call[c].phase \in {"waiting", "stopping"}
        /\ call'[c].job = j /\ call'[c].phase = "settled" /\ c \in Callers
    BY <1>7, <1>8, <1>9 DEF Waiting
  <2>2. \A d \in Callers : call'[d].phase # "idle" /\ call'[d].job = call'[c].job =>
          call[d].phase # "idle" /\ call[d].job = call[c].job
    BY <1>8, <1>9, <2>1 DEF Waiting
  <2>3. QED
    BY <1>6, <1>9, <1>15, <2>1, <2>2 DEF CallOk
<1>26. Quiet'
  <2>1. Claimed' = Claimed
    BY <1>10, <1>12, NoNoticeAt DEF Claimed
  <2>2. Between => Between'
    BY <1>8, <1>9 DEF Between, Waiting
  <2>3. QED
    BY <1>6, <2>1, <2>2 DEF NoticeInv, Quiet
<1>27. QED
  <2>1. \A c \in freed : call[c].job \in {j, "none"} /\ call'[c].job \in {j, "none"}
    BY <1>8, <1>9 DEF Waiting
  <2>2. \A d \in Callers \ freed : call[d].tool = "bash" /\ call[d].job = j =>
          j \notin given' /\ \A c \in freed : call'[c].phase # "idle" => call[c].phase # "idle" /\ call[c].job = j
    BY <1>6, <1>7, <1>8 DEF CallOk, Waiting
  <2>3. freed \in SUBSET Callers
    BY <1>8
  <2>4. (owner' = "live" => owner = "live") /\ given \subseteq given'
    BY <1>6
  <2>5. \A d \in Callers \ freed : call'[d] = call[d]
    BY <1>9
  <2> HIDE DEF freed
  <2>6. QED
    BY <1>13, <1>15, <1>24, <1>25, <1>26, <2>1, <2>2, <2>3, <2>4, <2>5, OneJob

\* A settled job whose producer reports, as the registry has failed it in a teardown.
LEMMA LateReportKeeps ==
  ASSUME NoticeInv, Ranges', NEW j \in Jobs, NEW size \in Sizes, SettleReported(j, size), ~Live(j)
  PROVE  NoticeInv'
<1> USE DEF turn, plugin, told, registry
<1>1. UNCHANGED <<owner, call, turn, plugin, told>>
  BY DEF SettleReported
<1>2. \A k \in Jobs : /\ jobs'[k].announced = jobs[k].announced /\ jobs'[k].waiters = jobs[k].waiters
                      /\ (jobs'[k].read <=> jobs[k].read) /\ jobs'[k].status = jobs[k].status
  BY DEF SettleReported, Settle, Live, NoticeInv, Ranges, JobRecord
<1>3. \A k \in Jobs : Untouched(k) /\ JobOk(k)
  BY <1>1, <1>2 DEF Untouched, NoticeInv
<1>4. \A k \in Jobs : JobOk(k)'
  BY <1>1, <1>3, JobKept
<1>5. \A d \in Callers : CallOk(d)'
  <2> SUFFICES ASSUME NEW d \in Callers PROVE CallOk(d)'
    OBVIOUS
  <2>1. CallOk(d)
    BY DEF NoticeInv, Calls
  <2>2. call'[d] = call[d] /\ call' = call /\ given' = given
    BY <1>1
  <2>3. \A k \in Jobs : Live(k)' <=> Live(k)
    BY <1>2 DEF Live
  <2>4. QED
    BY <1>2, <2>1, <2>2, <2>3, CallKept
<1>6. Quiet'
  BY <1>1 DEF NoticeInv, Quiet, Claimed, Between
<1>7. QED
  BY <1>4, <1>5, <1>6 DEF NoticeInv, Calls

\* The driver is idle, so nothing waits and nothing is claimed.
LEMMA DisposeKeeps ==
  ASSUME NoticeInv, Ranges', NEW throwing \in SUBSET Jobs, DisposeOwner(throwing)
  PROVE  NoticeInv'
<1> USE DEF turn, plugin, told, registry
<1>1. /\ owner' = "disposing" /\ jobs' = CancelForTeardown(jobs, throwing)
      /\ killedByModel' = killedByModel \ throwing
      /\ UNCHANGED <<call, turn, suppressedSettlements, notice, told>>
      /\ Between /\ Claimed = {} /\ \A j \in throwing : Live(j)
  BY DEF DisposeOwner
<1>2. \A k \in Jobs : 
        /\ (jobs'[k].read <=> jobs[k].read)
        /\ \/ /\ ~Live(k) /\ jobs'[k] = jobs[k] /\ k \notin throwing
           \/ /\ Live(k) /\ k \in throwing /\ jobs'[k].status = "failed" /\ jobs'[k].waiters = {}
           \/ /\ Live(k) /\ k \notin throwing /\ jobs'[k].status = "stopping" /\ jobs'[k].waiters = jobs[k].waiters
  <2>1. \A j \in throwing : jobs[j].status \in {"running", "stopping"}
    BY <1>1 DEF Live
  <2>2. jobs \in [Jobs -> JobRecord]
    BY DEF NoticeInv, Ranges
  <2>3. QED
    BY <1>1, <2>1, <2>2, TeardownParts DEF Live
<1>3. \A c \in Callers : CallOk(c) /\ call[c].phase = "idle"
  BY <1>1 DEF NoticeInv, Calls, Between
<1>4. ASSUME NEW k \in Jobs PROVE JobOk(k)'
  <2>1. JobOk(k)
    BY DEF NoticeInv
  <2>2. Waiting(k) = {} /\ Waiting(k)' = {} /\ (Claims(k)' = Claims(k)) /\ (Telling(k)' <=> Telling(k))
        /\ (Answering(k)' = Answering(k))
    BY <1>1, <1>3 DEF Waiting, Claims, Telling, Answering
  <2>3. (Live(k)' => Live(k) /\ k \notin throwing) /\ (jobs'[k].status = "unborn" <=> jobs[k].status = "unborn")
    BY <1>2 DEF Live
  <2>4. Waited(k)'
    BY <1>1, <1>2, <2>1, <2>2 DEF JobOk, Waited
  <2>5. Early(k)'
    <3>1. k \in suppressedSettlements => isTerminal(k)'
      BY <1>2, <2>1 DEF JobOk, Early, isTerminal, Live, Outcomes
    <3>2. QED
      BY <1>1, <1>2, <2>1, <2>3, <3>1 DEF JobOk, Early
  <2>6. Killed(k)'
    BY <1>1, <2>1, <2>2, <2>3 DEF JobOk, Killed
  <2>7. Noticed(k)'
    <3>1. isTerminal(k)' => isTerminal(k) \/ notice[k] = NoNotice
      BY <1>2, <2>1 DEF JobOk, Early, isTerminal
    <3>2. QED
      BY <1>1, <2>1, <2>2, <3>1, NoNoticeAt DEF JobOk, Noticed
  <2>8. Placed(k)'
    BY <1>1, <1>2, <2>1, <2>2 DEF JobOk, Placed, Holds
  <2>9. Reaches(k)'
    BY <1>1 DEF Reaches
  <2>10. Consumed(k)'
    <3>1. jobs[k].read => ~Live(k)
      BY <2>1 DEF JobOk, Early
    <3>2. Listed(k)' /\ jobs'[k].read => Listed(k) /\ jobs[k].read
      BY <1>2, <3>1 DEF Listed, Live, isTerminal
    <3>3. QED
      BY <1>1, <2>1, <3>2 DEF JobOk, Consumed
  <2>11. QED
    BY <2>4, <2>5, <2>6, <2>7, <2>8, <2>9, <2>10 DEF JobOk
<1>5. ASSUME NEW d \in Callers PROVE CallOk(d)'
  BY <1>1, <1>3, <1>5 DEF CallOk, Idle
<1>6. Quiet'
  BY <1>1 DEF Quiet, Claimed, Between
<1>7. QED
  BY <1>4, <1>5, <1>6 DEF NoticeInv, Calls

LEMMA DropOwnedKeeps ==
  ASSUME NoticeInv, Ranges', DropOwned
  PROVE  NoticeInv'
<1> USE DEF turn, plugin, told, registry
<1>1. /\ owner' = "gone" /\ jobs' = Drop(jobs, {j \in Jobs : Listed(j)}) /\ killedByModel' = {}
      /\ notice' = [j \in Jobs |-> [notice[j] EXCEPT !.pending = FALSE]]
      /\ UNCHANGED <<call, turn, suppressedSettlements, told>>
      /\ \A j \in Jobs : ~Live(j)
      /\ Between
  BY DEF DropOwned, NoticeInv, Quiet
<1>2. jobs \in [Jobs -> JobRecord] /\ notice \in [Jobs -> NoticeRecord]
  BY DEF NoticeInv, Ranges
<1>3. \A k \in Jobs : /\ (jobs'[k].read <=> jobs[k].read) /\ jobs'[k].waiters = jobs[k].waiters
                      /\ jobs'[k].status = IF isTerminal(k) THEN "removed" ELSE jobs[k].status
  BY <1>1, <1>2, DropParts DEF Listed
<1>4. \A k \in Jobs : ~Live(k) /\ ~Live(k)' /\ ~isTerminal(k)' /\ (jobs'[k].status = "unborn" <=> jobs[k].status = "unborn")
  BY <1>1, <1>3 DEF Live, isTerminal, Outcomes
<1>5. \A k \in Jobs : /\ notice'[k].at = notice[k].at /\ ~notice'[k].pending
                      /\ notice'[k].inline = notice[k].inline /\ notice'[k].held = notice[k].held
                      /\ notice'[k].end = notice[k].end /\ notice'[k].owed = notice[k].owed
                      /\ notice[k] = NoNotice => notice'[k] = NoNotice
  <2> SUFFICES ASSUME NEW k \in Jobs
               PROVE  /\ notice'[k].at = notice[k].at /\ ~notice'[k].pending
                      /\ notice'[k].inline = notice[k].inline /\ notice'[k].held = notice[k].held
                      /\ notice'[k].end = notice[k].end /\ notice'[k].owed = notice[k].owed
                      /\ notice[k] = NoNotice => notice'[k] = NoNotice
    OBVIOUS
  <2>1. notice'[k] = [notice[k] EXCEPT !.pending = FALSE] /\ notice[k] \in NoticeRecord
    BY <1>1, <1>2
  <2>2. [NoNotice EXCEPT !.pending = FALSE] = NoNotice
    <3>1. NoNotice \in NoticeRecord /\ NoNotice.pending = FALSE
      BY RecordTypes DEF NoNotice
    <3>2. \A r \in NoticeRecord : r.pending = FALSE => [r EXCEPT !.pending = FALSE] = r
      BY DEF NoticeRecord
    <3>3. QED
      BY <3>1, <3>2
  <2>3. QED
    BY <2>1, <2>2 DEF NoticeRecord
<1>6. ASSUME NEW k \in Jobs PROVE JobOk(k)'
  <2>1. JobOk(k)
    BY DEF NoticeInv
  <2>2. (Waiting(k)' = Waiting(k)) /\ (Claims(k)' = Claims(k)) /\ (Telling(k)' <=> Telling(k))
        /\ (Answering(k)' = Answering(k))
    BY <1>1 DEF Waiting, Claims, Telling, Answering
  <2>3. Waited(k)'
    BY <1>1, <1>3, <1>4, <2>1, <2>2 DEF JobOk, Waited
  <2>4. Early(k)'
    <3>1. Claims(k) = {}
      BY <1>1 DEF Between, Claims, NoticeInv, Calls, CallOk
    <3>2. k \notin suppressedSettlements
      BY <2>1, <3>1 DEF JobOk, Waited
    <3>3. QED
      BY <1>1, <1>3, <1>4, <1>5, <2>1, <3>2 DEF JobOk, Early
  <2>5. Killed(k)'
    BY <1>1, <1>4, <2>1 DEF JobOk, Killed
  <2>6. Noticed(k)'
    BY <1>1, <1>4, <1>5, <2>1, <2>2 DEF JobOk, Noticed
  <2>7. Placed(k)'
    BY <1>1, <1>3, <1>5, <2>1, <2>2 DEF JobOk, Placed, Holds
  <2>8. Reaches(k)' /\ Consumed(k)'
    BY <1>4 DEF Reaches, Consumed, Listed
  <2>9. QED
    BY <2>3, <2>4, <2>5, <2>6, <2>7, <2>8 DEF JobOk
<1>7. ASSUME NEW d \in Callers PROVE CallOk(d)'
  <2>1. CallOk(d)
    BY DEF NoticeInv, Calls
  <2>2. call' = call /\ given' = given
    BY <1>1
  <2>3. QED
    BY <1>4, <2>1, <2>2, CallKept
<1>8. Quiet'
  <2>1. Claimed' = Claimed
    BY <1>5 DEF Claimed
  <2>2. QED
    BY <1>1, <2>1 DEF Quiet, Between
<1>9. QED
  BY <1>6, <1>7, <1>8 DEF NoticeInv, Calls

-----------------------------------------------------------------------------
(* Calls.                                                                  *)

LEMMA OneCall ==
  ASSUME NoticeInv, Ranges', NEW j \in Jobs, NEW c \in Callers, owner' = owner,
         \A k \in Jobs \ {j} : Untouched(k),
         \A d \in Callers \ {c} : call'[d] = call[d],
         call[c].job \in {j, "none"}, call'[c].job \in {j, "none"},
         jobs[j].status # "unborn" => jobs'[j].status # "unborn" /\ (~Live(j) => ~Live(j)'),
         given \subseteq given',
         \A d \in Callers \ {c} : ~(call[d].tool = "bash" /\ call[d].job = j),
         CallOk(c)', JobOk(j)', Quiet'
  PROVE  NoticeInv'
<1>1. PICK C \in SUBSET Callers : C = {c}
  OBVIOUS
<1>2. /\ \A d \in Callers \ C : call'[d] = call[d]
      /\ \A b \in C : call[b].job \in {j, "none"} /\ call'[b].job \in {j, "none"}
      /\ \A d \in Callers \ C : call[d].tool = "bash" /\ call[d].job = j =>
           j \notin given' /\ \A b \in C : call'[b].phase # "idle" => call[b].phase # "idle" /\ call[b].job = j
      /\ \A b \in C : CallOk(b)'
  BY <1>1
<1>3. QED
  BY <1>2, OneJob

\* A command has its job for itself until it is promoted.
LEMMA BashAlone ==
  ASSUME NoticeInv, NEW c \in Callers
  PROVE  /\ \A j \in given, d \in Callers : ~(call[d].tool = "bash" /\ call[d].job = j)
         /\ call[c].phase # "idle" =>
              \A d \in Callers \ {c} : ~(call[d].tool = "bash" /\ call[d].job = call[c].job)
<1>1. \A d \in Callers : CallOk(d)
  BY DEF NoticeInv, Calls
<1>2. \A d \in Callers : call[d].tool = "bash" =>
        call[d].job \notin given /\ \A b \in Callers : call[b].phase # "idle" /\ call[b].job = call[d].job => b = d
  BY <1>1 DEF CallOk
<1>3. QED
  BY <1>2

\* A call that is under way stands between the steps that claim notices.
LEMMA Unclaimed ==
  ASSUME NoticeInv, NEW c \in Callers, call[c].phase # "idle"
  PROVE  Claimed = {} /\ ~Between /\ owner = "live"
  BY DEF NoticeInv, Quiet, Between

LEMMA AnswerParts ==
  ASSUME call \in [Callers -> CallRecord], NEW c \in Callers, NEW j \in Jobs, NEW end
  PROVE  /\ Answer(c, j, end).phase = "returned" /\ Answer(c, j, end).tool = "job_output"
         /\ Answer(c, j, end).job = j /\ ~Answer(c, j, end).claim
         /\ Answer(c, j, end).tells <=> isTerminal(j)
         /\ Answer(c, j, end).output <=> isTerminal(j) /\ (end \/ ~jobs[j].read)
<1>1. call[c] \in CallRecord
  OBVIOUS
<1>2. QED
  BY <1>1 DEF Answer, CallRecord

LEMMA ReadNowKeeps ==
  ASSUME NoticeInv, Ranges', NEW c \in Callers, NEW j \in Jobs, ReadNow(c, j), j \in given, Claimed = {}, owner = "live",
         \/ call[c].phase = "idle" /\ Calling(c)
         \/ call[c].phase \in {"settled", "released"} /\ call[c].job = j /\ call[c].tool = "job_output"
  PROVE  NoticeInv'
<1> USE DEF turn, plugin, told, registry
<1>1. /\ call \in [Callers -> CallRecord] /\ jobs \in [Jobs -> JobRecord] /\ notice \in [Jobs -> NoticeRecord]
      /\ JobOk(j) /\ CallOk(c)
  BY DEF NoticeInv, Ranges, Calls
<1>2. /\ jobs' = Read(jobs, j)
      /\ call' = [call EXCEPT ![c] = Answer(c, j, notice[j].pending /\ notice[j].end)]
      /\ notice' = IF ~notice[j].pending THEN notice
                   ELSE [notice EXCEPT ![j] = [NoNotice EXCEPT !.at = IF notice[j].at = "queued" THEN "none" ELSE notice[j].at]]
      /\ suppressedSettlements' = IF call[c].claim THEN suppressedSettlements \ {j} ELSE suppressedSettlements
      /\ UNCHANGED <<owner, turn, killedByModel, told>>
  BY DEF ReadNow
<1>3. \A k \in Jobs : /\ jobs'[k].status = jobs[k].status /\ jobs'[k].announced = jobs[k].announced
                      /\ jobs'[k].waiters = jobs[k].waiters
                      /\ jobs'[k].read <=> jobs[k].read \/ (k = j /\ isTerminal(j))
  BY <1>1, <1>2, ReadParts DEF isTerminal
<1>4. /\ call'[c].phase = "returned" /\ call'[c].tool = "job_output" /\ call'[c].job = j /\ ~call'[c].claim
      /\ call'[c].tells <=> isTerminal(j)
      /\ call'[c].output <=> isTerminal(j) /\ ((notice[j].pending /\ notice[j].end) \/ ~jobs[j].read)
      /\ \A d \in Callers \ {c} : call'[d] = call[d]
  <2> DEFINE end == notice[j].pending /\ notice[j].end
  <2>1. call'[c] = Answer(c, j, end) /\ \A d \in Callers \ {c} : call'[d] = call[d]
    BY <1>1, <1>2
  <2>2. /\ Answer(c, j, end).phase = "returned" /\ Answer(c, j, end).tool = "job_output"
        /\ Answer(c, j, end).job = j /\ ~Answer(c, j, end).claim
        /\ Answer(c, j, end).tells <=> isTerminal(j)
        /\ Answer(c, j, end).output <=> isTerminal(j) /\ (end \/ ~jobs[j].read)
    <3> HIDE DEF end
    <3>1. QED
      BY <1>1, AnswerParts
  <2>3. QED
    BY <2>1, <2>2
<1>5. /\ \A k \in Jobs \ {j} : notice'[k] = notice[k]
      /\ \/ ~notice[j].pending /\ notice'[j] = notice[j]
         \/ /\ notice[j].pending /\ ~notice'[j].pending /\ ~notice'[j].inline /\ ~notice'[j].end
            /\ notice'[j].at \notin {"queued", "claimed"}
            /\ notice'[j].at = notice[j].at \/ notice[j].at = "queued"
  <2>1. notice[j].at # "claimed"
    BY DEF Claimed
  <2>2. QED
    BY <1>1, <1>2, <2>1, NoNoticeAt DEF NoNotice, NoticeRecord
<1>6. \A k \in Jobs \ {j} : Untouched(k)
  BY <1>2, <1>3, <1>5 DEF Untouched
<1>7. /\ ~call[c].tells /\ ~call[c].output /\ call[c].phase \notin {"waiting", "stopping"}
      /\ call[c].job \in {j, "none"} /\ (call[c].claim => call[c].job = j)
      /\ jobs[j].status # "unborn"
  BY <1>1 DEF CallOk, Idle, JobOk, Early
<1>8. (Live(j)' <=> Live(j)) /\ (isTerminal(j)' <=> isTerminal(j)) /\ (Listed(j)' <=> Listed(j))
      /\ ~(Live(j) /\ isTerminal(j))
  BY <1>3 DEF Live, isTerminal, Listed, Outcomes
<1>9. Telling(j)' <=> Telling(j) \/ isTerminal(j)
  BY <1>4, <1>7 DEF Telling
<1>10. Waited(j)'
  <2>1. Waiting(j)' = Waiting(j)
    BY <1>4, <1>7 DEF Waiting
  <2>2. j \in suppressedSettlements' => Claims(j)' # {}
    <3>1. CASE call[c].claim
      BY <1>2, <3>1
    <3>2. CASE ~call[c].claim
      BY <1>1, <1>2, <1>4, <3>2 DEF Claims, JobOk, Waited
    <3>3. QED
      BY <3>1, <3>2
  <2>3. QED
    BY <1>1, <1>3, <1>8, <2>1, <2>2 DEF JobOk, Waited
<1>11. Early(j)'
  <2>1. notice[j] = NoNotice => notice'[j] = notice[j]
    BY <1>5, NoNoticeAt
  <2>2. QED
    BY <1>1, <1>2, <1>3, <1>8, <2>1 DEF JobOk, Early
<1>12. Killed(j)'
  BY <1>1, <1>2, <1>8, <1>9 DEF JobOk, Killed
<1>13. Noticed(j)'
  BY <1>1, <1>2, <1>5, <1>8, <1>9 DEF JobOk, Noticed
<1>14. Placed(j)'
  <2>1. CASE call'[c].output
    <3>1. outputs[j] = 0 /\ Answering(j) = {}
      BY <1>1, <1>4, <2>1 DEF JobOk, Placed, Holds
    <3>2. Answering(j)' = {c}
      BY <1>4, <2>1, <3>1 DEF Answering
    <3>3. ~Holds(j)' /\ (notice'[j].inline \/ notice'[j].end => notice'[j].held)
      BY <1>1, <1>4, <1>5, <2>1 DEF JobOk, Placed, Holds
    <3>4. jobs'[j].read /\ call'[c].tells /\ outputs' = outputs
      BY <1>2, <1>3, <1>4, <2>1
    <3>5. QED
      BY <3>1, <3>2, <3>3, <3>4 DEF Placed
  <2>2. CASE ~call'[c].output
    <3>1. Answering(j)' = Answering(j)
      BY <1>4, <1>7, <2>2 DEF Answering
    <3>2. Holds(j)' => Holds(j)
      BY <1>5 DEF Holds
    <3>3. \A b \in Answering(j) : call'[b].tells
      BY <1>1, <1>4, <1>7 DEF JobOk, Placed, Answering
    <3>4. notice'[j].inline \/ notice'[j].end => notice'[j].held
      BY <1>1, <1>5 DEF JobOk, Placed
    <3>5. QED
      BY <1>1, <1>2, <1>3, <3>1, <3>2, <3>3, <3>4 DEF JobOk, Placed
  <2>3. QED
    BY <2>1, <2>2
<1>15. Reaches(j)'
  BY <1>4, <1>8 DEF Reaches, Carries
<1>16. Consumed(j)'
  <2>1. \A d \in Callers : call[d].job = j /\ call[d].output => call'[d].job = j /\ call'[d].output
    BY <1>4, <1>7
  <2>2. Listed(j)' /\ jobs'[j].read => isTerminal(j)
    BY <1>1, <1>3, <1>8 DEF Listed, JobOk, Early
  <2>3. call'[c].output \/ (jobs[j].read /\ ~(notice[j].pending /\ notice[j].end)) \/ ~isTerminal(j)
    BY <1>4
  <2>4. QED
    BY <1>1, <1>2, <1>4, <1>8, <2>1, <2>2, <2>3 DEF JobOk, Consumed
<1>17. JobOk(j)'
  BY <1>10, <1>11, <1>12, <1>13, <1>14, <1>15, <1>16 DEF JobOk
<1>18. CallOk(c)'
  BY <1>2, <1>3, <1>4, <1>7 DEF CallOk
<1>19. Quiet'
  <2>1. Claimed' = {}
    BY <1>5 DEF Claimed
  <2>2. QED
    BY <1>2, <2>1 DEF Quiet
<1>20. QED
  <2>1. \A d \in Callers \ {c} : ~(call[d].tool = "bash" /\ call[d].job = j)
    BY BashAlone
  <2>2. owner' = owner /\ given \subseteq given' /\ call[c].job \in {j, "none"} /\ call'[c].job \in {j, "none"}
    BY <1>2, <1>4, <1>7
  <2>3. jobs[j].status # "unborn" => jobs'[j].status # "unborn" /\ (~Live(j) => ~Live(j)')
    BY <1>3, <1>8
  <2>4. \A d \in Callers \ {c} : call'[d] = call[d]
    BY <1>4
  <2>5. QED
    BY <1>6, <1>17, <1>18, <1>19, <2>1, <2>2, <2>3, <2>4, OneCall

\* A call starts: its record is a fresh one.
LEMMA BashKeeps ==
  ASSUME NoticeInv, Ranges', NEW c \in Callers, NEW j \in Jobs, Bash(c, j)
  PROVE  NoticeInv'
<1> USE DEF turn, plugin, told, registry
<1>1. /\ call \in [Callers -> CallRecord] /\ jobs \in [Jobs -> JobRecord] /\ JobOk(j)
      /\ \A d \in Callers : CallOk(d)
  BY DEF NoticeInv, Ranges, Calls
<1>2. /\ call[c] = Idle /\ jobs[j].status = "unborn" /\ Claimed = {} /\ owner = "live"
      /\ UNCHANGED <<owner, turn, plugin, told>>
  BY <1>1 DEF Bash, Calling, InBatch, Startable, CallOk
<1>3. \A k \in Jobs : /\ jobs'[k].status = (IF k = j THEN "running" ELSE jobs[k].status)
                      /\ jobs'[k].announced = jobs[k].announced /\ (jobs'[k].read <=> jobs[k].read)
                      /\ jobs'[k].waiters = IF k = j THEN jobs[k].waiters \cup {c} ELSE jobs[k].waiters
  <2> DEFINE started == Start(jobs, j)
  <2>1. started \in [Jobs -> JobRecord]
    BY <1>1, StartTypes
  <2>2. jobs' = Enter(started, j, c)
    BY DEF Bash
  <2>3. \A k \in Jobs : /\ started[k].status = (IF k = j THEN "running" ELSE jobs[k].status)
                        /\ started[k].announced = jobs[k].announced /\ started[k].read = jobs[k].read
                        /\ started[k].waiters = jobs[k].waiters
    BY <1>1, StartParts
  <2> HIDE DEF started
  <2>4. \A k \in Jobs : /\ jobs'[k].status = started[k].status /\ jobs'[k].announced = started[k].announced
                        /\ jobs'[k].read = started[k].read
                        /\ (k # j => jobs'[k].waiters = started[k].waiters)
                        /\ (k = j => jobs'[k].waiters = started[k].waiters \cup {c})
    BY <2>1, <2>2, EnterParts
  <2>5. QED
    BY <2>3, <2>4
<1>4. /\ call'[c].phase = "waiting" /\ call'[c].tool = "bash" /\ call'[c].job = j /\ ~call'[c].claim
      /\ ~call'[c].tells /\ ~call'[c].output
      /\ \A d \in Callers \ {c} : call'[d] = call[d]
  BY <1>1 DEF Bash, Idle
<1>5. \A d \in Callers : call[d].job # j
  <2>1. \A d \in Callers : call[d].job = j => call[d].phase = "idle" /\ call[d] = Idle
    BY <1>1, <1>2 DEF CallOk
  <2>2. QED
    BY <2>1, NoticesAssumption DEF Idle
<1>6. \A k \in Jobs \ {j} : Untouched(k)
  BY <1>2, <1>3 DEF Untouched
<1>7. (Claims(j)' = Claims(j)) /\ (Telling(j)' <=> Telling(j)) /\ (Answering(j)' = Answering(j)) /\ ~Telling(j)
      /\ (Waiting(j)' = Waiting(j) \cup {c})
  BY <1>4, <1>5 DEF Claims, Telling, Answering, Waiting
<1>8. Live(j)' /\ ~isTerminal(j)' /\ jobs'[j].status # "unborn"
  BY <1>3 DEF Live, isTerminal, Outcomes
<1>9. Waited(j)' /\ Early(j)'
  BY <1>1, <1>2, <1>3, <1>7, <1>8 DEF JobOk, Waited, Early
<1>10. Killed(j)' /\ Noticed(j)'
  BY <1>1, <1>2, <1>7, <1>8, NoNoticeAt DEF JobOk, Killed, Noticed, Early
<1>11. Placed(j)'
  <2>1. Answering(j) = {} /\ Holds(j)' = Holds(j)
    BY <1>2, <1>5 DEF Answering, Holds
  <2>2. QED
    BY <1>1, <1>2, <1>3, <1>7, <2>1 DEF JobOk, Placed
<1>12. Reaches(j)' /\ Consumed(j)'
  BY <1>1, <1>2, <1>3, <1>8 DEF JobOk, Reaches, Consumed, Early
<1>13. JobOk(j)'
  BY <1>9, <1>10, <1>11, <1>12 DEF JobOk
<1>14. CallOk(c)'
  <2>1. j \notin given'
    BY <1>1, <1>2 DEF JobOk, Early
  <2>2. \A d \in Callers : call'[d].phase # "idle" /\ call'[d].job = j => d = c
    BY <1>4, <1>5
  <2>3. QED
    BY <1>4, <1>8, <2>1, <2>2 DEF CallOk
<1>15. Quiet'
  BY <1>2 DEF Quiet, Claimed
<1>16. QED
  <2>1. \A d \in Callers \ {c} : ~(call[d].tool = "bash" /\ call[d].job = j)
    BY <1>5
  <2>2. owner' = owner /\ given \subseteq given' /\ call[c].job \in {j, "none"} /\ call'[c].job \in {j, "none"}
    BY <1>2, <1>4 DEF Idle
  <2>3. jobs[j].status # "unborn" => jobs'[j].status # "unborn" /\ (~Live(j) => ~Live(j)')
    BY <1>2
  <2>4. \A d \in Callers \ {c} : call'[d] = call[d]
    BY <1>4
  <2>5. QED
    BY <1>6, <1>13, <1>14, <1>15, <2>1, <2>2, <2>3, <2>4, OneCall

LEMMA JobOutputWaitKeeps ==
  ASSUME NoticeInv, Ranges', NEW c \in Callers, NEW j \in Jobs, JobOutputWait(c, j)
  PROVE  NoticeInv'
<1> USE DEF turn, plugin, told, registry
<1>1. /\ call \in [Callers -> CallRecord] /\ jobs \in [Jobs -> JobRecord] /\ JobOk(j)
      /\ \A d \in Callers : CallOk(d)
  BY DEF NoticeInv, Ranges, Calls
<1>2. /\ call[c] = Idle /\ j \in given /\ Listed(j) /\ Claimed = {} /\ owner = "live"
      /\ UNCHANGED <<owner, turn, plugin, told>>
  BY <1>1 DEF JobOutputWait, Calling, InBatch, CallOk
<1>3. \A k \in Jobs : /\ jobs'[k].status = jobs[k].status /\ jobs'[k].announced = jobs[k].announced
                      /\ (jobs'[k].read <=> jobs[k].read)
                      /\ jobs'[k].waiters = IF k = j /\ Live(j) /\ ~input THEN jobs[k].waiters \cup {c}
                                            ELSE jobs[k].waiters
  <2>1. jobs' = IF Live(j) /\ ~input THEN Enter(jobs, j, c) ELSE jobs
    BY DEF JobOutputWait
  <2>2. CASE Live(j) /\ ~input
    <3>1. \A k \in Jobs : /\ jobs'[k].status = jobs[k].status /\ jobs'[k].announced = jobs[k].announced
                          /\ jobs'[k].read = jobs[k].read
                          /\ (k # j => jobs'[k].waiters = jobs[k].waiters)
                          /\ (k = j => jobs'[k].waiters = jobs[k].waiters \cup {c})
      BY <1>1, <2>1, <2>2, EnterParts
    <3>2. QED
      BY <2>2, <3>1
  <2>3. QED
    BY <2>1, <2>2
<1>4. /\ call'[c].phase = IF Live(j) /\ ~input THEN "waiting" ELSE IF Live(j) THEN "released" ELSE "settled"
      /\ call'[c].tool = "job_output" /\ call'[c].job = j /\ (call'[c].claim <=> input)
      /\ ~call'[c].tells /\ ~call'[c].output
      /\ \A d \in Callers \ {c} : call'[d] = call[d]
  BY <1>1 DEF JobOutputWait, Idle
<1>5. \A k \in Jobs \ {j} : Untouched(k)
  BY <1>2, <1>3 DEF Untouched
<1>6. /\ (Telling(j)' <=> Telling(j)) /\ (Answering(j)' = Answering(j))
      /\ Claims(j) \subseteq Claims(j)'
      /\ Waiting(j)' = IF Live(j) /\ ~input THEN Waiting(j) \cup {c} ELSE Waiting(j)
  BY <1>2, <1>4 DEF Claims, Telling, Answering, Waiting, Idle
<1>7. (Live(j)' <=> Live(j)) /\ (isTerminal(j)' <=> isTerminal(j)) /\ (Listed(j)' <=> Listed(j))
      /\ jobs'[j].status # "unborn" /\ jobs[j].status # "unborn"
  BY <1>1, <1>2, <1>3 DEF Live, isTerminal, Listed, JobOk, Early
<1>8. Waited(j)' /\ Early(j)'
  BY <1>1, <1>2, <1>3, <1>6, <1>7 DEF JobOk, Waited, Early
<1>9. Killed(j)' /\ Noticed(j)'
  BY <1>1, <1>2, <1>6, <1>7 DEF JobOk, Killed, Noticed
<1>10. Placed(j)'
  <2>1. Holds(j)' = Holds(j) /\ \A b \in Answering(j) : call'[b] = call[b]
    BY <1>2, <1>4 DEF Holds, Answering, Idle
  <2>2. QED
    BY <1>1, <1>2, <1>3, <1>6, <2>1 DEF JobOk, Placed
<1>11. \A d \in Callers : call[d].job = j => call'[d] = call[d]
  BY <1>2, <1>4, NoticesAssumption DEF Idle
<1>12. Reaches(j)' /\ Consumed(j)'
  BY <1>1, <1>2, <1>3, <1>7, <1>11 DEF JobOk, Reaches, Consumed, Carries
<1>13. JobOk(j)'
  BY <1>8, <1>9, <1>10, <1>12 DEF JobOk
<1>14. CallOk(c)'
  BY <1>2, <1>4, <1>7, input \in BOOLEAN DEF CallOk, NoticeInv, Ranges
<1>15. Quiet'
  BY <1>2 DEF Quiet, Claimed
<1>16. QED
  <2>1. \A d \in Callers \ {c} : ~(call[d].tool = "bash" /\ call[d].job = j)
    BY <1>2, BashAlone
  <2>2. owner' = owner /\ given \subseteq given' /\ call[c].job \in {j, "none"} /\ call'[c].job \in {j, "none"}
    BY <1>2, <1>4 DEF Idle
  <2>3. jobs[j].status # "unborn" => jobs'[j].status # "unborn" /\ (~Live(j) => ~Live(j)')
    BY <1>7
  <2>4. \A d \in Callers \ {c} : call'[d] = call[d]
    BY <1>4
  <2>5. QED
    BY <1>5, <1>13, <1>14, <1>15, <2>1, <2>2, <2>3, <2>4, OneCall

LEMMA JobKillKeeps ==
  ASSUME NoticeInv, Ranges', NEW c \in Callers, NEW j \in Jobs, JobKill(c, j)
  PROVE  NoticeInv'
<1> USE DEF turn, plugin, told, registry
<1>1. /\ call \in [Callers -> CallRecord] /\ jobs \in [Jobs -> JobRecord] /\ JobOk(j)
      /\ \A d \in Callers : CallOk(d)
  BY DEF NoticeInv, Ranges, Calls
<1>2. /\ call[c] = Idle /\ j \in given /\ Listed(j) /\ Claimed = {} /\ owner = "live"
      /\ killedByModel' = IF Live(j) THEN killedByModel \cup {j} ELSE killedByModel
      /\ UNCHANGED <<owner, turn, suppressedSettlements, notice, told>>
  BY <1>1 DEF JobKill, Calling, InBatch, CallOk
<1>3. \A k \in Jobs : /\ jobs'[k].announced = jobs[k].announced /\ jobs'[k].waiters = jobs[k].waiters
                      /\ (jobs'[k].read <=> jobs[k].read)
                      /\ jobs'[k].status = IF k = j /\ Live(j) THEN "stopping" ELSE jobs[k].status
  BY <1>1, KillParts DEF JobKill, Live
<1>4. /\ call'[c].phase = "returned" /\ call'[c].tool = "job_kill" /\ call'[c].job = j /\ ~call'[c].claim
      /\ (call'[c].tells <=> Live(j)) /\ ~call'[c].output
      /\ \A d \in Callers \ {c} : call'[d] = call[d]
  BY <1>1 DEF JobKill, Idle
<1>5. \A k \in Jobs \ {j} : Untouched(k)
  BY <1>2, <1>3 DEF Untouched
<1>6. /\ (Telling(j)' <=> Telling(j) \/ Live(j)) /\ (Answering(j)' = Answering(j))
      /\ (Claims(j)' = Claims(j)) /\ (Waiting(j)' = Waiting(j))
  BY <1>2, <1>4 DEF Claims, Telling, Answering, Waiting, Idle
<1>7. (Live(j)' <=> Live(j)) /\ (isTerminal(j)' <=> isTerminal(j)) /\ (Listed(j)' <=> Listed(j))
      /\ jobs'[j].status # "unborn" /\ jobs[j].status # "unborn" /\ ~(Live(j) /\ isTerminal(j))
  BY <1>1, <1>2, <1>3 DEF Live, isTerminal, Listed, JobOk, Early, Outcomes
<1>8. Waited(j)' /\ Early(j)'
  BY <1>1, <1>2, <1>3, <1>6, <1>7 DEF JobOk, Waited, Early
<1>9. Killed(j)' /\ Noticed(j)'
  BY <1>1, <1>2, <1>6, <1>7, NoNoticeAt DEF JobOk, Killed, Noticed, Early
<1>10. Placed(j)'
  <2>1. Holds(j)' = Holds(j) /\ \A b \in Answering(j) : call'[b] = call[b]
    BY <1>2, <1>4 DEF Holds, Answering, Idle
  <2>2. QED
    BY <1>1, <1>2, <1>3, <1>6, <2>1 DEF JobOk, Placed
<1>11. \A d \in Callers : call[d].job = j => call'[d] = call[d]
  BY <1>2, <1>4, NoticesAssumption DEF Idle
<1>12. Reaches(j)' /\ Consumed(j)'
  BY <1>1, <1>2, <1>3, <1>7, <1>11 DEF JobOk, Reaches, Consumed, Carries
<1>13. JobOk(j)'
  BY <1>8, <1>9, <1>10, <1>12 DEF JobOk
<1>14. CallOk(c)'
  BY <1>2, <1>4, <1>7 DEF CallOk
<1>15. Quiet'
  BY <1>2 DEF Quiet, Claimed
<1>16. QED
  <2>1. \A d \in Callers \ {c} : ~(call[d].tool = "bash" /\ call[d].job = j)
    BY <1>2, BashAlone
  <2>2. owner' = owner /\ given \subseteq given' /\ call[c].job \in {j, "none"} /\ call'[c].job \in {j, "none"}
    BY <1>2, <1>4 DEF Idle
  <2>3. jobs[j].status # "unborn" => jobs'[j].status # "unborn" /\ (~Live(j) => ~Live(j)')
    BY <1>7
  <2>4. \A d \in Callers \ {c} : call'[d] = call[d]
    BY <1>4
  <2>5. QED
    BY <1>5, <1>13, <1>14, <1>15, <2>1, <2>2, <2>3, <2>4, OneCall

\* A wait that ends before the job does.
LEMMA LeaveKeeps ==
  ASSUME NoticeInv, Ranges', NEW c \in Callers, NEW j \in Jobs, call[c].job = j,
         Expire(c) \/ Promote(c) \/ StopExpires(c)
  PROVE  NoticeInv'
<1> USE DEF turn, plugin, told, registry
<1>1. /\ call \in [Callers -> CallRecord] /\ jobs \in [Jobs -> JobRecord]
      /\ \A d \in Callers : CallOk(d)
  BY DEF NoticeInv, Ranges, Calls
<1>2. /\ call[c].phase \in {"waiting", "stopping"} /\ jobs' = Leave(jobs, j, c)
      /\ UNCHANGED <<owner, turn, plugin, told>>
  BY DEF Expire, Promote, StopExpires
<1>3. PICK p \in {"returned", "promoted"} : call' = [call EXCEPT ![c].phase = p]
  BY DEF Expire, Promote, StopExpires
<1>4. /\ call'[c].phase = p /\ call'[c].tool = call[c].tool /\ call'[c].job = j /\ call'[c].claim = call[c].claim
      /\ call'[c].tells = call[c].tells /\ call'[c].output = call[c].output
      /\ \A d \in Callers \ {c} : call'[d] = call[d]
  BY <1>1, <1>3 DEF CallRecord
<1>5. /\ j \in Jobs /\ jobs[j].status # "unborn" /\ ~call[c].claim /\ ~call[c].tells /\ ~call[c].output
      /\ c \in Callers
  BY <1>1, <1>2 DEF CallOk
<1>6. \A k \in Jobs : /\ jobs'[k].status = jobs[k].status /\ jobs'[k].announced = jobs[k].announced
                      /\ jobs'[k].read = jobs[k].read
                      /\ (k # j => jobs'[k].waiters = jobs[k].waiters)
                      /\ (k = j => jobs'[k].waiters = jobs[k].waiters \ {c})
  BY <1>1, <1>2, <1>5, LeaveParts
<1>7. \A k \in Jobs \ {j} : Untouched(k)
  BY <1>2, <1>6 DEF Untouched
<1>8. JobOk(j)
  BY <1>5 DEF NoticeInv
<1>9. /\ (Telling(j)' <=> Telling(j)) /\ (Answering(j)' = Answering(j)) /\ (Claims(j)' = Claims(j))
      /\ Waiting(j)' = Waiting(j) \ {c}
  BY <1>3, <1>4, <1>5 DEF Claims, Telling, Answering, Waiting
<1>10. (Live(j)' <=> Live(j)) /\ (isTerminal(j)' <=> isTerminal(j)) /\ (Listed(j)' <=> Listed(j))
      /\ jobs'[j].status # "unborn"
  BY <1>5, <1>6 DEF Live, isTerminal, Listed
<1>11. Waited(j)'
  BY <1>2, <1>5, <1>6, <1>8, <1>9, <1>10 DEF JobOk, Waited
<1>12. Early(j)'
  BY <1>2, <1>5, <1>6, <1>8, <1>10 DEF JobOk, Early
<1>13. Killed(j)' /\ Noticed(j)'
  BY <1>2, <1>8, <1>9, <1>10 DEF JobOk, Killed, Noticed
<1>14. Placed(j)'
  <2>1. Holds(j)' = Holds(j) /\ \A b \in Answering(j) : call'[b] = call[b]
    BY <1>2, <1>4, <1>5 DEF Holds, Answering
  <2>2. QED
    BY <1>2, <1>5, <1>6, <1>8, <1>9, <2>1 DEF JobOk, Placed
<1>15. Reaches(j)'
  <2>1. \A d \in Callers : Carries(d, j) => Carries(d, j)'
    BY <1>2, <1>4, <1>5 DEF Carries
  <2>2. QED
    BY <1>2, <1>5, <1>6, <1>8, <1>10, <2>1 DEF JobOk, Reaches
<1>16. Consumed(j)'
  <2>1. \A d \in Callers : call'[d].job = call[d].job /\ call'[d].output = call[d].output
    BY <1>4
  <2>2. QED
    BY <1>2, <1>5, <1>6, <1>8, <1>10, <2>1 DEF JobOk, Consumed
<1>17. JobOk(j)'
  BY <1>11, <1>12, <1>13, <1>14, <1>15, <1>16 DEF JobOk
<1>18. CallOk(c)'
  <2>1. CallOk(c)
    BY <1>1
  <2>2. \A d \in Callers : call'[d].phase # "idle" => call[d].phase # "idle" /\ call'[d].job = call[d].job
    BY <1>2, <1>4
  <2>3. QED
    BY <1>2, <1>3, <1>4, <1>5, <1>10, <2>1, <2>2 DEF CallOk
<1>19. Quiet'
  <2>1. Claimed = {} /\ owner = "live"
    BY <1>2, Unclaimed
  <2>2. QED
    BY <1>2, <2>1 DEF Quiet, Claimed
<1>20. QED
  <2>1. \A d \in Callers \ {c} : ~(call[d].tool = "bash" /\ call[d].job = j)
    BY <1>2, BashAlone
  <2>2. owner' = owner /\ given \subseteq given' /\ call[c].job \in {j, "none"} /\ call'[c].job \in {j, "none"}
    BY <1>2, <1>4
  <2>3. jobs[j].status # "unborn" => jobs'[j].status # "unborn" /\ (~Live(j) => ~Live(j)')
    BY <1>10
  <2>4. \A d \in Callers \ {c} : call'[d] = call[d]
    BY <1>4
  <2>5. QED
    BY <1>5, <1>7, <1>17, <1>18, <1>19, <2>1, <2>2, <2>3, <2>4, OneCall

\* A command that is stopped waits once more, if its job is live.
LEMMA StopKeeps ==
  ASSUME NoticeInv, Ranges', NEW c \in Callers, NEW j \in Jobs, call[c].job = j, Stop(c)
  PROVE  NoticeInv'
<1> USE DEF turn, plugin, told, registry
<1>1. /\ call \in [Callers -> CallRecord] /\ jobs \in [Jobs -> JobRecord]
      /\ \A d \in Callers : CallOk(d)
  BY DEF NoticeInv, Ranges, Calls
<1>2. /\ call[c].phase \in {"waiting", "failed"} /\ call[c].tool = "bash"
      /\ UNCHANGED <<owner, turn, plugin, told>>
  BY DEF Stop
<1>3. /\ j \in Jobs /\ jobs[j].status # "unborn" /\ ~call[c].claim /\ ~call[c].tells /\ ~call[c].output
      /\ c \in Callers
  BY <1>1, <1>2 DEF CallOk
<1>4. /\ call'[c].phase = (IF Live(j) THEN "stopping" ELSE "settled") /\ call'[c].tool = "bash"
      /\ call'[c].job = j /\ ~call'[c].claim /\ ~call'[c].tells /\ ~call'[c].output
      /\ \A d \in Callers \ {c} : call'[d] = call[d]
  BY <1>1, <1>2, <1>3 DEF Stop, CallRecord
<1>5. JobOk(j)
  BY <1>3 DEF NoticeInv
<1>6. \A k \in Jobs : /\ jobs'[k].announced = jobs[k].announced /\ jobs'[k].read = jobs[k].read
                      /\ jobs'[k].status = IF k = j /\ Live(j) THEN "stopping" ELSE jobs[k].status
                      /\ (k # j => jobs'[k].waiters = jobs[k].waiters)
                      /\ (k = j /\ Live(j) => jobs'[k].waiters = jobs[k].waiters \cup {c})
                      /\ (k = j /\ ~Live(j) => jobs'[k].waiters = jobs[k].waiters)
  <2>1. CASE Live(j)
    <3> DEFINE table == Kill(jobs, j)
    <3>1. table \in [Jobs -> JobRecord]
      BY <1>1, <1>3, KillTypes
    <3>2. jobs' = Enter(table, j, c)
      BY <2>1 DEF Stop
    <3>3. \A k \in Jobs : /\ table[k].announced = jobs[k].announced /\ table[k].read = jobs[k].read
                          /\ table[k].status = IF k = j THEN "stopping" ELSE jobs[k].status
                          /\ table[k].waiters = jobs[k].waiters
      BY <1>1, <1>3, <2>1, KillParts DEF Live
    <3> HIDE DEF table
    <3>4. \A k \in Jobs : /\ jobs'[k].announced = table[k].announced /\ jobs'[k].read = table[k].read
                          /\ jobs'[k].status = table[k].status
                          /\ (k # j => jobs'[k].waiters = table[k].waiters)
                          /\ (k = j => jobs'[k].waiters = table[k].waiters \cup {c})
      BY <1>3, <3>1, <3>2, EnterParts
    <3>5. QED
      BY <2>1, <3>3, <3>4
  <2>2. CASE ~Live(j)
    <3>1. jobs' = jobs
      BY <2>2 DEF Stop
    <3>2. QED
      BY <2>2, <3>1
  <2>3. QED
    BY <2>1, <2>2
<1>7. \A k \in Jobs \ {j} : Untouched(k)
  BY <1>2, <1>6 DEF Untouched
<1>8. (Live(j)' <=> Live(j)) /\ (isTerminal(j)' <=> isTerminal(j)) /\ (Listed(j)' <=> Listed(j))
      /\ jobs'[j].status # "unborn"
  BY <1>3, <1>6 DEF Live, isTerminal, Listed, Outcomes
<1>9. /\ (Telling(j)' <=> Telling(j)) /\ (Answering(j)' = Answering(j)) /\ (Claims(j)' = Claims(j))
  BY <1>3, <1>4 DEF Claims, Telling, Answering
<1>10. Waited(j)'
  <2>1. CASE Live(j)
    <3>1. Waiting(j)' = Waiting(j) \cup {c}
      BY <1>3, <1>4, <2>1 DEF Waiting
    <3>2. QED
      BY <1>2, <1>3, <1>5, <1>6, <1>8, <1>9, <2>1, <3>1 DEF JobOk, Waited
  <2>2. CASE ~Live(j)
    <3>1. Waiting(j) = {}
      BY <1>5, <2>2 DEF JobOk, Waited
    <3>2. Waiting(j)' = {}
      BY <1>4, <2>2, <3>1 DEF Waiting
    <3>3. QED
      BY <1>2, <1>3, <1>5, <1>6, <1>8, <1>9, <2>2, <3>1, <3>2 DEF JobOk, Waited
  <2>3. QED
    BY <2>1, <2>2
<1>11. Early(j)'
  BY <1>2, <1>3, <1>5, <1>6, <1>8 DEF JobOk, Early
<1>12. Killed(j)' /\ Noticed(j)'
  BY <1>2, <1>5, <1>8, <1>9 DEF JobOk, Killed, Noticed
<1>13. Placed(j)'
  <2>1. Holds(j)' = Holds(j) /\ \A b \in Answering(j) : call'[b] = call[b]
    BY <1>2, <1>3, <1>4 DEF Holds, Answering
  <2>2. QED
    BY <1>2, <1>3, <1>5, <1>6, <1>9, <2>1 DEF JobOk, Placed
<1>14. Reaches(j)'
  <2>1. \A d \in Callers : Carries(d, j) => Carries(d, j)'
    BY <1>2, <1>3, <1>4 DEF Carries
  <2>2. QED
    BY <1>2, <1>3, <1>5, <1>6, <1>8, <2>1 DEF JobOk, Reaches
<1>15. Consumed(j)'
  <2>1. \A d \in Callers : call'[d].job = call[d].job /\ (call[d].output => call'[d].output)
    BY <1>3, <1>4
  <2>2. QED
    BY <1>2, <1>3, <1>5, <1>6, <1>8, <2>1 DEF JobOk, Consumed
<1>16. JobOk(j)'
  BY <1>10, <1>11, <1>12, <1>13, <1>14, <1>15 DEF JobOk
<1>17. CallOk(c)'
  <2>1. CallOk(c)
    BY <1>1
  <2>2. \A d \in Callers : call'[d].phase # "idle" => call[d].phase # "idle" /\ call'[d].job = call[d].job
    BY <1>2, <1>4
  <2>3. QED
    BY <1>2, <1>3, <1>4, <1>8, <2>1, <2>2 DEF CallOk
<1>18. Quiet'
  <2>1. Claimed = {} /\ owner = "live"
    BY <1>2, Unclaimed
  <2>2. QED
    BY <1>2, <2>1 DEF Quiet, Claimed
<1>19. QED
  <2>1. \A d \in Callers \ {c} : ~(call[d].tool = "bash" /\ call[d].job = j)
    BY <1>2, BashAlone
  <2>2. owner' = owner /\ given \subseteq given' /\ call[c].job \in {j, "none"} /\ call'[c].job \in {j, "none"}
    BY <1>2, <1>4
  <2>3. jobs[j].status # "unborn" => jobs'[j].status # "unborn" /\ (~Live(j) => ~Live(j)')
    BY <1>8
  <2>4. \A d \in Callers \ {c} : call'[d] = call[d]
    BY <1>4
  <2>5. QED
    BY <1>3, <1>7, <1>16, <1>17, <1>18, <2>1, <2>2, <2>3, <2>4, OneCall

\* The command's job leaves with it: nobody else has named it.
LEMMA BashReturnKeeps ==
  ASSUME NoticeInv, Ranges', NEW c \in Callers, NEW j \in Jobs, call[c].job = j, BashReturn(c)
  PROVE  NoticeInv'
<1> USE DEF turn, plugin, told, registry
<1>1. /\ call \in [Callers -> CallRecord] /\ jobs \in [Jobs -> JobRecord] /\ notice \in [Jobs -> NoticeRecord]
      /\ \A d \in Callers : CallOk(d)
  BY DEF NoticeInv, Ranges, Calls
<1>2. /\ call[c].phase = "settled" /\ call[c].tool = "bash" /\ jobs' = Drop(jobs, {j})
      /\ killedByModel' = killedByModel \ {j} /\ notice' = [notice EXCEPT ![j].pending = FALSE]
      /\ call' = [call EXCEPT ![c].phase = "returned"]
      /\ UNCHANGED <<owner, turn, suppressedSettlements, told>>
  BY DEF BashReturn
<1>3. /\ jobs[j].status # "unborn" /\ ~call[c].claim /\ ~call[c].tells /\ ~call[c].output
      /\ ~Live(j) /\ j \notin given
  BY <1>1, <1>2 DEF CallOk
<1>4. /\ call'[c].phase = "returned" /\ call'[c].tool = "bash"
      /\ call'[c].job = j /\ ~call'[c].claim /\ ~call'[c].tells /\ ~call'[c].output
      /\ \A d \in Callers \ {c} : call'[d] = call[d]
  BY <1>1, <1>2, <1>3 DEF CallRecord
<1>5. JobOk(j)
  BY DEF NoticeInv
<1>6. \A k \in Jobs : /\ jobs'[k].announced = jobs[k].announced /\ jobs'[k].read = jobs[k].read
                      /\ jobs'[k].waiters = jobs[k].waiters
                      /\ jobs'[k].status = IF k = j THEN "removed" ELSE jobs[k].status
  BY <1>1, <1>2, DropParts
<1>7. /\ notice'[j].at = notice[j].at /\ ~notice'[j].pending
      /\ notice'[j].inline = notice[j].inline /\ notice'[j].held = notice[j].held
      /\ notice'[j].end = notice[j].end /\ notice'[j].owed = notice[j].owed
      /\ \A k \in Jobs \ {j} : notice'[k] = notice[k]
  BY <1>1, <1>2 DEF NoticeRecord
<1>8. \A k \in Jobs \ {j} : Untouched(k)
  BY <1>2, <1>6, <1>7 DEF Untouched
<1>9. ~Live(j)' /\ ~isTerminal(j)' /\ jobs'[j].status # "unborn"
  BY <1>6 DEF Live, isTerminal, Outcomes
<1>10. /\ (Telling(j)' <=> Telling(j)) /\ (Answering(j)' = Answering(j)) /\ (Waiting(j)' = Waiting(j))
  BY <1>2, <1>3, <1>4 DEF Waiting, Telling, Answering
<1>11. j \notin suppressedSettlements
  <2>1. Claims(j) = {}
    BY <1>1, <1>2, <1>3 DEF Claims, CallOk
  <2>2. QED
    BY <1>5, <2>1 DEF JobOk, Waited
<1>12. Waited(j)'
  BY <1>2, <1>3, <1>5, <1>6, <1>10, <1>11 DEF JobOk, Waited
<1>13. Early(j)'
  BY <1>2, <1>9, <1>11 DEF Early
<1>14. Killed(j)' /\ Noticed(j)'
  BY <1>2, <1>5, <1>7, <1>9, <1>10 DEF JobOk, Killed, Noticed
<1>15. Placed(j)'
  <2>1. (Holds(j)' => Holds(j)) /\ \A b \in Answering(j) : call'[b] = call[b]
    BY <1>3, <1>4, <1>7 DEF Holds, Answering
  <2>2. /\ \A b, d \in Answering(j)' : b = d
        /\ \A b \in Answering(j)' : call'[b].tells
    BY <1>5, <1>10, <2>1 DEF JobOk, Placed
  <2>3. QED
    BY <1>2, <1>5, <1>6, <1>7, <1>10, <2>1, <2>2 DEF JobOk, Placed
<1>16. Reaches(j)' /\ Consumed(j)'
  BY <1>9 DEF Reaches, Consumed, Listed
<1>17. JobOk(j)'
  BY <1>12, <1>13, <1>14, <1>15, <1>16 DEF JobOk
<1>18. CallOk(c)'
  <2>1. CallOk(c)
    BY <1>1
  <2>2. \A d \in Callers : call'[d].phase # "idle" => call[d].phase # "idle" /\ call'[d].job = call[d].job
    BY <1>2, <1>4
  <2>3. QED
    BY <1>2, <1>3, <1>4, <1>9, <2>1, <2>2 DEF CallOk
<1>19. Quiet'
  <2>1. Claimed = {} /\ owner = "live"
    BY <1>2, Unclaimed
  <2>2. Claimed' = {}
    BY <1>7, <2>1 DEF Claimed
  <2>3. QED
    BY <1>2, <2>1, <2>2 DEF Quiet
<1>20. QED
  <2>1. \A d \in Callers \ {c} : ~(call[d].tool = "bash" /\ call[d].job = j)
    BY <1>2, BashAlone
  <2>2. owner' = owner /\ given \subseteq given' /\ call[c].job \in {j, "none"} /\ call'[c].job \in {j, "none"}
    BY <1>2, <1>4
  <2>3. jobs[j].status # "unborn" => jobs'[j].status # "unborn" /\ (~Live(j) => ~Live(j)')
    BY <1>9
  <2>4. \A d \in Callers \ {c} : call'[d] = call[d]
    BY <1>4
  <2>5. QED
    BY <1>8, <1>17, <1>18, <1>19, <2>1, <2>2, <2>3, <2>4, OneCall

\* The last claim of a job releases what was held for it.
LEMMA GiveUpKeeps ==
  ASSUME NoticeInv, Ranges', NEW c \in Callers, NEW j \in Jobs, call[c].job = j,
         NEW size \in Sizes, GiveUp(c, size)
  PROVE  NoticeInv'
<1> USE DEF turn, plugin, told, registry
<1> DEFINE owed == Claims(j) = {c} /\ j \in suppressedSettlements
<1>1. /\ call \in [Callers -> CallRecord] /\ jobs \in [Jobs -> JobRecord] /\ notice \in [Jobs -> NoticeRecord]
      /\ \A d \in Callers : CallOk(d)
  BY DEF NoticeInv, Ranges, Calls
<1>2. /\ call[c].phase \in {"released", "failed"} /\ call[c].tool = "job_output"
      /\ suppressedSettlements' = IF owed THEN suppressedSettlements \ {j} ELSE suppressedSettlements
      /\ (owed => Deliver(jobs, j, size)) /\ (~owed => UNCHANGED <<jobs, notice>>)
      /\ UNCHANGED <<owner, turn, killedByModel, told>>
  BY DEF GiveUp, Cancelled
<1>3. /\ jobs[j].status # "unborn" /\ ~call[c].tells /\ ~call[c].output /\ j \in given
  BY <1>1, <1>2 DEF CallOk
<1>4. /\ call'[c].phase = "returned" /\ call'[c].tool = "job_output"
      /\ call'[c].job = j /\ ~call'[c].claim /\ ~call'[c].tells /\ ~call'[c].output
      /\ \A d \in Callers \ {c} : call'[d] = call[d]
  BY <1>1 DEF GiveUp, Idle
<1>5. JobOk(j)
  BY DEF NoticeInv
<1>6. /\ \A k \in Jobs : /\ jobs'[k].status = jobs[k].status /\ jobs'[k].announced = jobs[k].announced
                         /\ jobs'[k].waiters = jobs[k].waiters
                         /\ k # j => (jobs'[k].read <=> jobs[k].read) /\ notice'[k] = notice[k]
      /\ \/ ~owed /\ jobs' = jobs /\ notice' = notice
         \/ owed /\ (jobs[j].announced = "teardown" \/ owner = "gone") /\ jobs' = jobs /\ notice' = notice
         \/ /\ owed
            /\ jobs'[j].read <=> jobs[j].read \/ (notice'[j].held /\ jobs[j].status \in Outcomes)
            /\ notice'[j].at = "queued" /\ notice'[j].pending
            /\ notice'[j].inline => notice'[j].held
            /\ notice'[j].end <=> notice'[j].held /\ ~jobs[j].read
            /\ notice'[j].owed
  <2>1. CASE owed
    BY <1>1, <1>2, <2>1, DeliverParts
  <2>2. CASE ~owed
    BY <1>2, <2>2
  <2>3. QED
    BY <2>1, <2>2
<1>7. \A k \in Jobs \ {j} : Untouched(k)
  BY <1>2, <1>6 DEF Untouched
<1>8. (Live(j)' <=> Live(j)) /\ (isTerminal(j)' <=> isTerminal(j)) /\ (Listed(j)' <=> Listed(j))
      /\ jobs'[j].status # "unborn"
  BY <1>3, <1>6 DEF Live, isTerminal, Listed
<1>9. /\ (Telling(j)' <=> Telling(j)) /\ (Answering(j)' = Answering(j)) /\ (Waiting(j)' = Waiting(j))
      /\ Claims(j)' = Claims(j) \ {c}
  BY <1>2, <1>3, <1>4 DEF Waiting, Telling, Answering, Claims
<1>10. owed => ~Live(j) /\ notice[j] = NoNotice
  BY <1>5 DEF JobOk, Early
<1>11. Waited(j)'
  <2>1. j \in suppressedSettlements' => Claims(j)' # {}
    BY <1>2, <1>5, <1>9 DEF JobOk, Waited, Claims
  <2>2. QED
    BY <1>5, <1>6, <1>8, <1>9, <2>1 DEF JobOk, Waited
<1>12. Early(j)'
  BY <1>2, <1>5, <1>6, <1>8, <1>10 DEF JobOk, Early
<1>13. Killed(j)'
  BY <1>2, <1>5, <1>8, <1>9 DEF JobOk, Killed
<1>14. Noticed(j)'
  BY <1>2, <1>5, <1>6, <1>8, <1>9 DEF JobOk, Noticed
<1>15. Placed(j)'
  <2>1. CASE notice'[j] = notice[j] /\ jobs' = jobs
    <3>1. Holds(j)' = Holds(j) /\ \A b \in Answering(j) : call'[b] = call[b]
      BY <1>3, <1>4, <2>1 DEF Holds, Answering
    <3>2. QED
      BY <1>2, <1>5, <1>9, <2>1, <3>1 DEF JobOk, Placed
  <2>2. CASE owed /\ notice'[j].at = "queued" /\ notice'[j].pending
             /\ (notice'[j].inline => notice'[j].held)
             /\ (notice'[j].end <=> notice'[j].held /\ ~jobs[j].read)
             /\ (jobs'[j].read <=> jobs[j].read \/ (notice'[j].held /\ jobs[j].status \in Outcomes))
    <3>1. \A b \in Answering(j) : call'[b] = call[b]
      BY <1>3, <1>4 DEF Answering
    <3>2. Holds(j)' => ~jobs[j].read /\ notice'[j].held
      BY <2>2, <1>5 DEF Holds, JobOk, Placed
    <3>3. /\ \A b, d \in Answering(j)' : b = d
          /\ \A b \in Answering(j)' : call'[b].tells
      BY <1>5, <1>9, <3>1 DEF JobOk, Placed
    <3>4. jobs[j].status \in Outcomes
      BY <1>5, <2>2 DEF JobOk, Early, isTerminal
    <3>5. QED
      BY <1>2, <1>5, <1>9, <2>2, <3>2, <3>3, <3>4 DEF JobOk, Placed
  <2>3. QED
    BY <1>6, <2>1, <2>2
<1>16. Reaches(j)'
  <2>1. CASE owed
    BY <1>2, <1>6, <2>1 DEF Reaches
  <2>2. CASE ~owed
    <3>1. \A d \in Callers : Carries(d, j) => \E b \in Callers : Carries(b, j)'
      <4> SUFFICES ASSUME NEW d \in Callers, Carries(d, j) PROVE \E b \in Callers : Carries(b, j)'
        OBVIOUS
      <4>1. CASE d # c
        BY <1>2, <1>4, <2>2, <4>1 DEF Carries
      <4>2. CASE d = c
        <5>1. call[c].claim /\ j \in suppressedSettlements
          BY <1>2, <1>3, <4>2 DEF Carries
        <5>2. PICK b \in Callers : b # c /\ call[b].claim /\ call[b].job = j
          BY <2>2, <5>1 DEF Claims
        <5>3. Carries(b, j)'
          BY <1>2, <1>4, <2>2, <5>1, <5>2 DEF Carries
        <5>4. QED
          BY <5>3
      <4>3. QED
        BY <4>1, <4>2
    <3>2. QED
      BY <1>2, <1>5, <1>8, <2>2, <3>1 DEF JobOk, Reaches
  <2>3. QED
    BY <2>1, <2>2
<1>17. Consumed(j)'
  <2>1. \A d \in Callers : call[d].job = j /\ call[d].output => call'[d].job = j /\ call'[d].output
    BY <1>3, <1>4
  <2>2. jobs'[j].read /\ ~jobs[j].read => notice'[j].pending /\ notice'[j].end
    BY <1>6
  <2>3. notice'[j] = notice[j] \/ (owed /\ notice[j] = NoNotice)
    BY <1>6, <1>10
  <2>4. QED
    BY <1>2, <1>5, <1>8, <2>1, <2>2, <2>3, NoNoticeAt DEF JobOk, Consumed
<1>18. JobOk(j)'
  BY <1>11, <1>12, <1>13, <1>14, <1>15, <1>16, <1>17 DEF JobOk
<1>19. CallOk(c)'
  BY <1>2, <1>3, <1>4, <1>8 DEF CallOk
<1>20. Quiet'
  <2>1. Claimed = {} /\ owner = "live"
    BY <1>2, Unclaimed
  <2>2. Claimed' = {}
    BY <1>6, <2>1 DEF Claimed
  <2>3. QED
    BY <1>2, <2>1, <2>2 DEF Quiet
<1>21. QED
  <2>1. \A d \in Callers \ {c} : ~(call[d].tool = "bash" /\ call[d].job = j)
    BY <1>3, BashAlone
  <2>2. owner' = owner /\ given \subseteq given' /\ call[c].job \in {j, "none"} /\ call'[c].job \in {j, "none"}
    BY <1>2, <1>4
  <2>3. jobs[j].status # "unborn" => jobs'[j].status # "unborn" /\ (~Live(j) => ~Live(j)')
    BY <1>8
  <2>4. \A d \in Callers \ {c} : call'[d] = call[d]
    BY <1>4
  <2>5. QED
    BY <1>7, <1>18, <1>19, <1>20, <2>1, <2>2, <2>3, <2>4, OneCall

-----------------------------------------------------------------------------
(* The log.                                                                *)

LEMMA RecordKeeps ==
  ASSUME NoticeInv, Ranges', NEW c \in Callers, NEW j \in Jobs, call[c].job = j, Record(c)
  PROVE  NoticeInv'
<1> USE DEF turn, plugin, told, registry
<1>1. /\ call \in [Callers -> CallRecord] /\ outputs \in [Jobs -> Nat] /\ \A d \in Callers : CallOk(d)
  BY DEF NoticeInv, Ranges, Calls
<1>2. /\ call[c].phase \in {"returned", "promoted"}
      /\ call' = [call EXCEPT ![c] = Idle]
      /\ UNCHANGED <<registry, turn, plugin>>
      /\ \/ /\ aborted /\ lost' = (IF call[c].tells THEN lost \cup {j} ELSE lost)
            /\ UNCHANGED <<given, known, outputs>>
         \/ /\ ~aborted /\ known' = (IF call[c].tells THEN known \cup {j} ELSE known)
            /\ outputs' = (IF call[c].output THEN [outputs EXCEPT ![j] = @ + 1] ELSE outputs)
            /\ given' = (IF call[c].phase = "promoted" THEN given \cup {j} ELSE given)
            /\ UNCHANGED lost
  BY DEF Record
<1>3. /\ jobs[j].status # "unborn" /\ ~call[c].claim /\ (call[c].tells => j \in given)
  BY <1>1, <1>2 DEF CallOk, CallRecord
<1>4. call'[c] = Idle /\ \A d \in Callers \ {c} : call'[d] = call[d]
  BY <1>1, <1>2
<1>5. JobOk(j)
  BY DEF NoticeInv
<1>6. /\ \A k \in Jobs \ {j} : /\ k \in lost' <=> k \in lost
                               /\ k \in known' <=> k \in known
                               /\ k \in given' <=> k \in given
                               /\ outputs'[k] = outputs[k]
      /\ given \subseteq given'
  BY <1>1, <1>2
<1>7. \A k \in Jobs \ {j} : Untouched(k)
  BY <1>2, <1>6 DEF Untouched
<1>8. (Live(j)' <=> Live(j)) /\ (isTerminal(j)' <=> isTerminal(j)) /\ (Listed(j)' <=> Listed(j))
      /\ jobs'[j].status # "unborn"
  BY <1>2, <1>3 DEF Live, isTerminal, Listed
<1>9. /\ (j \in known' <=> j \in known \/ (~aborted /\ call[c].tells))
      /\ (j \in lost' <=> j \in lost \/ (aborted /\ call[c].tells))
      /\ outputs'[j] = IF ~aborted /\ call[c].output THEN outputs[j] + 1 ELSE outputs[j]
  BY <1>1, <1>2
<1>10. ~Idle.tells /\ ~Idle.output /\ ~Idle.claim /\ Idle.phase = "idle" /\ Idle.job = "none"
  BY DEF Idle
<1>11. /\ (Telling(j) <=> Telling(j)' \/ call[c].tells) /\ (Waiting(j)' = Waiting(j)) /\ (Claims(j)' = Claims(j))
       /\ Answering(j)' = Answering(j) \ {c}
       /\ (call[c].output <=> c \in Answering(j))
  BY <1>2, <1>3, <1>4, <1>10 DEF Waiting, Telling, Answering, Claims
<1>12. Waited(j)'
  BY <1>2, <1>5, <1>8, <1>11 DEF JobOk, Waited
<1>13. Early(j)'
  BY <1>2, <1>3, <1>5, <1>8 DEF JobOk, Early
<1>14. Killed(j)'
  BY <1>2, <1>3, <1>5, <1>6, <1>8, <1>9, <1>11 DEF JobOk, Killed
<1>15. Noticed(j)'
  BY <1>2, <1>5, <1>8, <1>9, <1>11 DEF JobOk, Noticed
<1>16. Placed(j)'
  <2>1. /\ \A b, d \in Answering(j)' : b = d
        /\ \A b \in Answering(j)' : call'[b].tells
    <3>1. \A b \in Answering(j)' : b \in Answering(j) /\ call'[b] = call[b]
      BY <1>4, <1>11 DEF Answering
    <3>2. QED
      BY <1>5, <3>1 DEF JobOk, Placed
  <2>2. call[c].output => Answering(j)' = {} /\ outputs[j] = 0 /\ ~Holds(j) /\ jobs[j].read
    BY <1>5, <1>11 DEF JobOk, Placed
  <2>3. Holds(j)' <=> Holds(j)
    BY <1>2 DEF Holds
  <2>4. QED
    BY <1>2, <1>5, <1>9, <1>11, <2>1, <2>2, <2>3 DEF JobOk, Placed
<1>17. Reaches(j)'
  <2>1. \A d \in Callers : Carries(d, j) => Carries(d, j)' \/ (d = c /\ call[c].tells)
    BY <1>2, <1>3, <1>4 DEF Carries
  <2>2. QED
    BY <1>2, <1>5, <1>8, <1>9, <2>1 DEF JobOk, Reaches
<1>18. Consumed(j)'
  <2>1. \A d \in Callers : call[d].job = j /\ call[d].output => (call'[d].job = j /\ call'[d].output) \/ d = c
    BY <1>4
  <2>2. call[c].output => outputs'[j] = 1 \/ j \in lost'
    <3>1. call[c].output => call[c].tells /\ outputs[j] = 0
      BY <1>5, <1>11 DEF JobOk, Placed
    <3>2. QED
      BY <1>9, <3>1
  <2>3. outputs[j] = 1 => outputs'[j] = 1
    <3>1. call[c].output => outputs[j] = 0
      BY <1>5, <1>11 DEF JobOk, Placed
    <3>2. QED
      BY <1>9, <3>1
  <2>4. QED
    BY <1>2, <1>5, <1>8, <1>9, <2>1, <2>2, <2>3 DEF JobOk, Consumed
<1>19. JobOk(j)'
  BY <1>12, <1>13, <1>14, <1>15, <1>16, <1>17, <1>18 DEF JobOk
<1>20. CallOk(c)'
  BY <1>4, <1>10 DEF CallOk, Idle
<1>21. Quiet'
  <2>1. Claimed = {} /\ owner = "live"
    BY <1>2, Unclaimed
  <2>2. QED
    BY <1>2, <2>1 DEF Quiet, Claimed
<1>22. QED
  <2>1. \A d \in Callers \ {c} : ~(call[d].tool = "bash" /\ call[d].job = j)
    BY <1>2, BashAlone
  <2>2. owner' = owner /\ given \subseteq given' /\ call[c].job \in {j, "none"} /\ call'[c].job \in {j, "none"}
    BY <1>2, <1>4, <1>6, <1>10
  <2>3. jobs[j].status # "unborn" => jobs'[j].status # "unborn" /\ (~Live(j) => ~Live(j)')
    BY <1>8
  <2>4. \A d \in Callers \ {c} : call'[d] = call[d]
    BY <1>4
  <2>5. QED
    BY <1>7, <1>19, <1>20, <1>21, <2>1, <2>2, <2>3, <2>4, OneCall

\* A step claims notices, logs them or drops them; the calls are at rest.
LEMMA NoticesMoved ==
  ASSUME NoticeInv, UNCHANGED <<registry, call, killedByModel, suppressedSettlements>>, NEW k \in Jobs,
         notice[k] = NoNotice => notice'[k] = NoNotice,
         Noticed(k)', Killed(k)', Placed(k)', Consumed(k)',
         jobs[k].status = "unborn" => k \notin given',
         notice[k].at \in {"queued", "claimed", "dropped"} => notice'[k].at \in {"queued", "claimed", "dropped"} \/ k \in known',
         k \in known => k \in known', k \in lost => k \in lost'
  PROVE  JobOk(k)'
<1> USE DEF registry
<1>1. JobOk(k)
  BY DEF NoticeInv
<1>2. (Waiting(k)' = Waiting(k)) /\ (Claims(k)' = Claims(k)) /\ (Live(k)' <=> Live(k))
      /\ (isTerminal(k)' <=> isTerminal(k)) /\ \A d \in Callers : Carries(d, k) <=> Carries(d, k)'
  BY DEF Waiting, Claims, Live, isTerminal, Carries
<1>3. Waited(k)' /\ Early(k)'
  BY <1>1, <1>2 DEF JobOk, Waited, Early
<1>4. Reaches(k)'
  BY <1>1, <1>2 DEF JobOk, Reaches
<1>5. QED
  BY <1>3, <1>4 DEF JobOk

LEMMA ClaimKeeps ==
  ASSUME NoticeInv, Ranges', (\E some \in SUBSET Jobs : NextStep(some)) \/ DropNotices
  PROVE  NoticeInv'
<1> USE DEF turn, plugin, told, registry
<1>1. UNCHANGED <<registry, call, killedByModel, suppressedSettlements, told>>
  BY DEF NextStep, DropNotices
<1>2. notice \in [Jobs -> NoticeRecord]
  BY DEF NoticeInv, Ranges
<1>3. /\ \A k \in Jobs : notice'[k] = notice[k]
                         \/ /\ notice'[k].pending = notice[k].pending /\ notice'[k].inline = notice[k].inline
                            /\ notice'[k].held = notice[k].held /\ notice'[k].end = notice[k].end
                            /\ notice'[k].owed = notice[k].owed
                            /\ \/ notice[k].at = "queued" /\ notice'[k].at = "claimed"
                               \/ notice[k].at = "claimed" /\ notice'[k].at = "dropped"
      /\ Between
  <2>1. ASSUME NEW some \in SUBSET Jobs, NextStep(some)
        PROVE  Between /\ \A k \in Jobs : notice'[k] = notice[k]
                         \/ /\ notice'[k].pending = notice[k].pending /\ notice'[k].inline = notice[k].inline
                            /\ notice'[k].held = notice[k].held /\ notice'[k].end = notice[k].end
                            /\ notice'[k].owed = notice[k].owed
                            /\ notice[k].at = "queued" /\ notice'[k].at = "claimed"
    BY <1>2, <2>1 DEF NextStep, Queued, NoticeRecord
  <2>2. CASE DropNotices
    BY <1>2, <2>2 DEF DropNotices, Claimed, NoticeRecord, NoticeInv, Quiet
  <2>3. QED
    BY <2>1, <2>2
<1>4. ASSUME NEW k \in Jobs PROVE JobOk(k)'
  <2>1. JobOk(k) /\ (Telling(k)' <=> Telling(k)) /\ (Answering(k)' = Answering(k)) /\ (Live(k)' <=> Live(k))
        /\ (isTerminal(k)' <=> isTerminal(k)) /\ (Listed(k)' <=> Listed(k))
    BY <1>1 DEF NoticeInv, Telling, Answering, Live, isTerminal, Listed
  <2>2. notice[k] = NoNotice => notice'[k] = NoNotice
    BY <1>3, NoNoticeAt
  <2>3. Noticed(k)' /\ Killed(k)'
    BY <1>1, <1>3, <2>1 DEF JobOk, Noticed, Killed
  <2>4. Holds(k)' => Holds(k)
    BY <1>3 DEF Holds
  <2>5. Placed(k)'
    BY <1>1, <1>3, <2>1, <2>4 DEF JobOk, Placed
  <2>6. Consumed(k)'
    BY <1>1, <1>3, <2>1 DEF JobOk, Consumed
  <2>7. jobs[k].status = "unborn" => k \notin given'
    BY <1>1, <2>1 DEF JobOk, Early
  <2>8. notice[k].at \in {"queued", "claimed", "dropped"} => notice'[k].at \in {"queued", "claimed", "dropped"}
    BY <1>3
  <2>9. (k \in known => k \in known') /\ (k \in lost => k \in lost')
    BY <1>1
  <2>10. QED
    BY <1>1, <2>2, <2>3, <2>5, <2>6, <2>7, <2>8, <2>9, NoticesMoved
<1>5. ASSUME NEW d \in Callers PROVE CallOk(d)'
  <2>1. CallOk(d)
    BY DEF NoticeInv, Calls
  <2>2. QED
    BY <1>1, <2>1 DEF CallOk, Live
<1>6. Quiet'
  BY <1>1, <1>3 DEF Quiet, Between
<1>7. QED
  BY <1>4, <1>5, <1>6 DEF NoticeInv, Calls

LEMMA LogNoticesKeeps ==
  ASSUME NoticeInv, Ranges', LogNotices
  PROVE  NoticeInv'
<1> USE DEF turn, plugin, told, registry
<1>1. /\ UNCHANGED <<registry, call, turn, killedByModel, suppressedSettlements, lost>>
      /\ Claimed # {} /\ Between
      /\ known' = known \cup Claimed /\ given' = given \cup Claimed
  BY DEF LogNotices, NoticeInv, Quiet
<1>2. notice \in [Jobs -> NoticeRecord] /\ outputs \in [Jobs -> Nat]
  BY DEF NoticeInv, Ranges
<1>3. \A k \in Jobs : outputs'[k] = IF k \in Claimed /\ notice[k].inline /\ notice[k].end THEN outputs[k] + 1 ELSE outputs[k]
  BY DEF LogNotices
<1>4. \A k \in Jobs :
        /\ k \notin Claimed => notice'[k] = notice[k]
        /\ k \in Claimed =>
             /\ notice'[k].at = "logged"
             /\ \/ /\ ~notice'[k].pending /\ ~notice'[k].inline /\ ~notice'[k].held /\ ~notice'[k].end
                   /\ notice[k].inline \/ ~notice[k].held
                \/ /\ notice'[k].pending = notice[k].pending /\ ~notice'[k].inline
                   /\ ~notice[k].inline /\ notice'[k].held = notice[k].held /\ notice'[k].end = notice[k].end
  <2> SUFFICES ASSUME NEW k \in Jobs, k \in Claimed
               PROVE  /\ notice'[k].at = "logged"
                      /\ \/ /\ ~notice'[k].pending /\ ~notice'[k].inline /\ ~notice'[k].held /\ ~notice'[k].end
                            /\ notice[k].inline \/ ~notice[k].held
                         \/ /\ notice'[k].pending = notice[k].pending /\ ~notice'[k].inline
                            /\ ~notice[k].inline /\ notice'[k].held = notice[k].held /\ notice'[k].end = notice[k].end
    BY DEF LogNotices
  <2>1. notice[k] \in NoticeRecord
    BY <1>2
  <2>2. CASE notice[k].inline \/ ~notice[k].held
    <3>1. notice'[k] = [NoNotice EXCEPT !.at = "logged"]
      BY <2>2 DEF LogNotices
    <3>2. QED
      BY <2>2, <3>1 DEF NoNotice
  <2>3. CASE ~(notice[k].inline \/ ~notice[k].held)
    <3>1. notice'[k] = [notice[k] EXCEPT !.at = "logged"]
      BY <2>3 DEF LogNotices
    <3>2. QED
      BY <2>1, <2>3, <3>1 DEF NoticeRecord
  <2>4. QED
    BY <2>2, <2>3
<1>5. ASSUME NEW k \in Jobs PROVE JobOk(k)'
  <2>1. JobOk(k) /\ (Telling(k)' <=> Telling(k)) /\ (Answering(k)' = Answering(k)) /\ (Live(k)' <=> Live(k))
        /\ (isTerminal(k)' <=> isTerminal(k)) /\ (Listed(k)' <=> Listed(k))
    BY <1>1 DEF NoticeInv, Telling, Answering, Live, isTerminal, Listed
  <2>2. /\ k \in Claimed <=> notice[k].at = "claimed"
        /\ notice[k].at = "claimed" => ~Live(k) /\ jobs[k].status # "unborn"
    BY <2>1, NoNoticeAt DEF Claimed, JobOk, Early
  <2>3. notice[k] = NoNotice => notice'[k] = NoNotice
    BY <1>4, <2>2, NoNoticeAt
  <2>4. Noticed(k)'
    BY <1>1, <1>4, <2>1, <2>2 DEF JobOk, Noticed
  <2>5. Killed(k)'
    BY <1>1, <2>1, <2>2 DEF JobOk, Killed
  <2>6. Placed(k)' /\ Consumed(k)'
    <3>1. CASE k \notin Claimed
      <4>1. Holds(k)' <=> Holds(k)
        BY <1>4, <3>1 DEF Holds
      <4>2. QED
        BY <1>1, <1>3, <1>4, <2>1, <3>1, <4>1 DEF JobOk, Placed, Consumed
    <3>2. CASE k \in Claimed /\ notice[k].inline /\ notice[k].end
      <4>1. Holds(k) /\ ~Holds(k)'
        BY <1>4, <2>2, <3>2 DEF Holds
      <4>2. outputs'[k] = 1 /\ Answering(k)' = {} /\ jobs'[k].read
        BY <1>1, <1>3, <2>1, <3>2, <4>1 DEF JobOk, Placed
      <4>3. notice'[k].inline \/ notice'[k].end => notice'[k].held
        BY <1>4, <3>2
      <4>4. QED
        BY <4>1, <4>2, <4>3 DEF Placed, Consumed
    <3>3. CASE k \in Claimed /\ ~(notice[k].inline /\ notice[k].end)
      <4>1. outputs'[k] = outputs[k]
        BY <1>3, <3>3
      <4>2. notice[k].inline \/ notice[k].end => notice[k].held
        BY <2>1 DEF JobOk, Placed
      <4>3. (Holds(k)' => Holds(k)) /\ (notice[k].pending /\ notice[k].end => notice'[k].pending /\ notice'[k].end)
            /\ (notice'[k].inline \/ notice'[k].end => notice'[k].held)
        BY <1>4, <3>3, <4>2 DEF Holds
      <4>4. Placed(k)'
        BY <1>1, <2>1, <4>1, <4>3 DEF JobOk, Placed
      <4>5. Consumed(k)'
        BY <1>1, <2>1, <4>1, <4>3 DEF JobOk, Consumed
      <4>6. QED
        BY <4>4, <4>5
    <3>4. QED
      BY <3>1, <3>2, <3>3
  <2>7. jobs[k].status = "unborn" => k \notin given'
    BY <1>1, <2>1, <2>2 DEF JobOk, Early
  <2>8. notice[k].at \in {"queued", "claimed", "dropped"} => notice'[k].at \in {"queued", "claimed", "dropped"} \/ k \in known'
    BY <1>1, <1>4
  <2>9. (k \in known => k \in known') /\ (k \in lost => k \in lost')
    BY <1>1
  <2>10. QED
    BY <1>1, <2>3, <2>4, <2>5, <2>6, <2>7, <2>8, <2>9, NoticesMoved
<1>6. ASSUME NEW d \in Callers PROVE CallOk(d)'
  <2>1. CallOk(d) /\ call[d].phase = "idle"
    BY <1>1 DEF NoticeInv, Calls, Between
  <2>2. QED
    BY <1>1, <2>1 DEF CallOk, Idle
<1>7. Quiet'
  BY <1>1 DEF Quiet, Between
<1>8. QED
  BY <1>5, <1>6, <1>7 DEF NoticeInv, Calls

-----------------------------------------------------------------------------
(* Input and cancellation release what waits.                              *)

\* A step that only releases waits, lets calls claim their next read and discards
\* queued notices.
LEMMA ReleasesKeep ==
  ASSUME NoticeInv, Ranges', NEW freed \in SUBSET Callers,
         UNCHANGED <<owner, killedByModel, suppressedSettlements, told>>,
         \A k \in Jobs : \/ notice'[k] = notice[k]
                         \/ notice[k].at = "queued" /\ notice'[k] = [notice[k] EXCEPT !.at = "dropped"],
         \A k \in Jobs : /\ jobs'[k].status = jobs[k].status /\ jobs'[k].announced = jobs[k].announced
                         /\ jobs'[k].read = jobs[k].read /\ jobs'[k].waiters = jobs[k].waiters \ freed,
         \A d \in Callers : /\ call'[d].job = call[d].job /\ call'[d].tool = call[d].tool
                            /\ call'[d].tells = call[d].tells /\ call'[d].output = call[d].output
                            /\ call[d].claim => call'[d].claim
                            /\ d \in freed => call[d].phase = "waiting" /\ call'[d].phase \in {"released", "failed"}
                            /\ d \notin freed => call'[d].phase = call[d].phase
                            /\ call'[d].claim /\ ~call[d].claim =>
                                 call'[d].tool = "job_output" /\ call'[d].phase \in {"settled", "released", "failed"}
                            /\ call[d].phase = "idle" => call'[d] = call[d]
  PROVE  NoticeInv'
<1> USE DEF told
<1>1. \A k \in Jobs : (Live(k)' <=> Live(k)) /\ (isTerminal(k)' <=> isTerminal(k)) /\ (Listed(k)' <=> Listed(k))
  BY DEF Live, isTerminal, Listed
<1>2. \A d \in Callers : CallOk(d) /\ (call[d].phase \in {"idle", "settled", "returned"} <=> 
                                         call'[d].phase \in {"idle", "settled", "returned"})
  BY DEF NoticeInv, Calls
<1>7. \A k \in Jobs :
        /\ notice'[k].pending = notice[k].pending /\ notice'[k].inline = notice[k].inline
        /\ notice'[k].held = notice[k].held /\ notice'[k].end = notice[k].end /\ notice'[k].owed = notice[k].owed
        /\ notice'[k].at = notice[k].at \/ (notice[k].at = "queued" /\ notice'[k].at = "dropped")
        /\ notice[k] = NoNotice => notice'[k] = NoNotice
  <2> SUFFICES ASSUME NEW k \in Jobs
               PROVE  /\ notice'[k].pending = notice[k].pending /\ notice'[k].inline = notice[k].inline
                      /\ notice'[k].held = notice[k].held /\ notice'[k].end = notice[k].end
                      /\ notice'[k].owed = notice[k].owed
                      /\ notice'[k].at = notice[k].at \/ (notice[k].at = "queued" /\ notice'[k].at = "dropped")
                      /\ notice[k] = NoNotice => notice'[k] = NoNotice
    OBVIOUS
  <2>1. notice[k] \in NoticeRecord
    BY DEF NoticeInv, Ranges
  <2>2. CASE notice'[k] = notice[k]
    BY <2>2
  <2>3. CASE notice[k].at = "queued" /\ notice'[k] = [notice[k] EXCEPT !.at = "dropped"]
    BY <2>1, <2>3, NoNoticeAt DEF NoticeRecord
  <2>4. QED
    BY <2>2, <2>3
<1>3. ASSUME NEW k \in Jobs PROVE JobOk(k)'
  <2>1. JobOk(k)
    BY DEF NoticeInv
  <2>2. /\ (Telling(k)' <=> Telling(k)) /\ (Answering(k)' = Answering(k)) /\ Claims(k) \subseteq Claims(k)'
        /\ Waiting(k)' = Waiting(k) \ freed
        /\ \A b \in Answering(k) : call'[b].tells = call[b].tells
    BY DEF Telling, Answering, Claims, Waiting
  <2>3. Waited(k)'
    BY <1>1, <2>1, <2>2 DEF JobOk, Waited
  <2>4. Early(k)'
    BY <1>1, <1>7, <2>1 DEF JobOk, Early
  <2>5. Killed(k)' /\ Noticed(k)'
    BY <1>1, <1>7, <2>1, <2>2 DEF JobOk, Killed, Noticed
  <2>6. Placed(k)'
    <3>1. Holds(k)' => Holds(k)
      BY <1>7 DEF Holds
    <3>2. QED
      BY <1>7, <2>1, <2>2, <3>1 DEF JobOk, Placed
  <2>7. Reaches(k)'
    <3>1. \A d \in Callers : Carries(d, k) => Carries(d, k)'
      BY DEF Carries
    <3>2. QED
      BY <1>1, <1>7, <2>1, <3>1 DEF JobOk, Reaches
  <2>8. Consumed(k)'
    BY <1>1, <1>7, <2>1 DEF JobOk, Consumed
  <2>9. QED
    BY <2>3, <2>4, <2>5, <2>6, <2>7, <2>8 DEF JobOk
<1>4. ASSUME NEW d \in Callers PROVE CallOk(d)'
  <2>1. CASE call[d].phase = "idle"
    <3>1. call'[d] = call[d] /\ CallOk(d)
      BY <1>2, <2>1
    <3>2. QED
      BY <2>1, <3>1 DEF CallOk, Idle
  <2>2. CASE call[d].phase # "idle"
    <3>1. CallOk(d) /\ call[d].job \in Jobs
      BY <1>2, <2>2 DEF CallOk
    <3>2. call'[d].phase # "idle" /\ (call'[d].phase = "settled" <=> call[d].phase = "settled")
          /\ (call[d].phase = "returned" <=> call'[d].phase = "returned")
      BY <2>2
    <3>3. Live(call[d].job)' <=> Live(call[d].job)
      BY <3>1 DEF Live
    <3>4. call'[d].claim => call'[d].tool = "job_output" /\ call'[d].phase \in {"settled", "released", "failed"}
      BY <3>1 DEF CallOk
    <3>5. call'[d].tool = "bash" => \A b \in Callers : call'[b].phase # "idle" /\ call'[b].job = call'[d].job => b = d
      <4>1. \A b \in Callers : call'[b].phase # "idle" => call[b].phase # "idle"
        OBVIOUS
      <4>2. QED
        BY <3>1, <4>1 DEF CallOk
    <3>6. jobs'[call'[d].job].status # "unborn" /\ call'[d].job \in Jobs
      BY <2>2, <3>1 DEF CallOk
    <3>7. QED
      BY <2>2, <3>1, <3>2, <3>3, <3>4, <3>5, <3>6 DEF CallOk, Live
  <2>3. QED
    BY <2>1, <2>2
<1>5. Quiet'
  <2>1. Claimed' = Claimed /\ (Between => Between')
    BY <1>7 DEF Claimed, Between
  <2>2. QED
    BY <2>1 DEF NoticeInv, Quiet
<1>6. QED
  BY <1>3, <1>4, <1>5 DEF NoticeInv, Calls

LEMMA AbortKeeps ==
  ASSUME NoticeInv, Ranges', NEW keepInbox \in BOOLEAN, Abort(keepInbox)
  PROVE  NoticeInv'
<1> USE DEF told
<1>1. PICK freed \in SUBSET Callers : freed = {c \in Callers : call[c].phase = "waiting"}
  OBVIOUS
<1>2. /\ call \in [Callers -> CallRecord] /\ jobs \in [Jobs -> JobRecord]
      /\ UNCHANGED <<owner, killedByModel, suppressedSettlements, told>>
      /\ call' = [c \in Callers |-> IF c \in freed THEN [call[c] EXCEPT !.phase = "failed"] ELSE call[c]]
      /\ jobs' = [j \in Jobs |-> [jobs[j] EXCEPT !.waiters = @ \ freed]]
  BY <1>1 DEF Abort, NoticeInv, Ranges
<1>3. \A k \in Jobs : /\ jobs'[k].status = jobs[k].status /\ jobs'[k].announced = jobs[k].announced
                      /\ jobs'[k].read = jobs[k].read /\ jobs'[k].waiters = jobs[k].waiters \ freed
  BY <1>2 DEF JobRecord
<1>4. \A d \in Callers : /\ call'[d].job = call[d].job /\ call'[d].tool = call[d].tool
                         /\ call'[d].tells = call[d].tells /\ call'[d].output = call[d].output
                         /\ call'[d].claim = call[d].claim
                         /\ d \in freed => call[d].phase = "waiting" /\ call'[d].phase = "failed"
                         /\ d \notin freed => call'[d] = call[d]
  BY <1>1, <1>2 DEF CallRecord
<1>5. \A d \in Callers : /\ call'[d].job = call[d].job /\ call'[d].tool = call[d].tool
                         /\ call'[d].tells = call[d].tells /\ call'[d].output = call[d].output
                         /\ call[d].claim => call'[d].claim
                         /\ d \in freed => call[d].phase = "waiting" /\ call'[d].phase \in {"released", "failed"}
                         /\ d \notin freed => call'[d].phase = call[d].phase
                         /\ call'[d].claim /\ ~call[d].claim =>
                              call'[d].tool = "job_output" /\ call'[d].phase \in {"settled", "released", "failed"}
                         /\ call[d].phase = "idle" => call'[d] = call[d]
  BY <1>4
<1>6. ASSUME NEW k \in Jobs
      PROVE  \/ notice'[k] = notice[k]
             \/ notice[k].at = "queued" /\ notice'[k] = [notice[k] EXCEPT !.at = "dropped"]
  <2>1. notice' = [j \in Jobs |->
          IF ~keepInbox /\ j \in Queued THEN [notice[j] EXCEPT !.at = "dropped"] ELSE notice[j]]
    BY DEF Abort
  <2>2. CASE ~keepInbox /\ k \in Queued
    BY <2>1, <2>2 DEF Queued
  <2>3. CASE ~(~keepInbox /\ k \in Queued)
    BY <2>1, <2>3
  <2>4. QED
    BY <2>2, <2>3
<1>7. UNCHANGED <<owner, killedByModel, suppressedSettlements, told>>
  BY <1>2
<1>8. QED
  BY <1>3, <1>5, <1>6, <1>7, ReleasesKeep

LEMMA SteerKeeps ==
  ASSUME NoticeInv, Ranges', Steer
  PROVE  NoticeInv'
<1> USE DEF plugin, told
<1> DEFINE listens(c) == call[c].tool = "job_output" /\ call[c].phase \in {"waiting", "settled", "failed"}
<1>1. PICK freed \in SUBSET Callers : freed = {c \in Callers : listens(c) /\ call[c].phase = "waiting"}
  OBVIOUS
<1>2. /\ call \in [Callers -> CallRecord] /\ jobs \in [Jobs -> JobRecord]
      /\ UNCHANGED <<owner, killedByModel, suppressedSettlements, told>> /\ notice' = notice
  BY DEF Steer, NoticeInv, Ranges
<1>3. /\ \A c \in Callers : call'[c] = IF ~listens(c) THEN call[c]
           ELSE [call[c] EXCEPT !.claim = TRUE, !.phase = IF c \in freed THEN "released" ELSE @]
      /\ jobs' = [j \in Jobs |-> [jobs[j] EXCEPT !.waiters = @ \ freed]]
  <2>1. freed = {c \in {b \in Callers : listens(b)} : call[c].phase = "waiting"}
    BY <1>1
  <2>2. QED
    BY <2>1 DEF Steer
<1>4. \A k \in Jobs : /\ jobs'[k].status = jobs[k].status /\ jobs'[k].announced = jobs[k].announced
                      /\ jobs'[k].read = jobs[k].read /\ jobs'[k].waiters = jobs[k].waiters \ freed
  <2>1. /\ jobs \in [Jobs -> JobRecord]
        /\ jobs' = [j \in Jobs |-> [jobs[j] EXCEPT !.waiters = @ \ freed]]
    BY <1>2, <1>3
  <2>2. QED
    BY <2>1 DEF JobRecord
<1>5. \A d \in Callers :
        /\ ~listens(d) => call'[d] = call[d]
        /\ listens(d) => /\ call'[d].job = call[d].job /\ call'[d].tool = call[d].tool
                         /\ call'[d].tells = call[d].tells /\ call'[d].output = call[d].output
                         /\ call'[d].claim
                         /\ call'[d].phase = IF d \in freed THEN "released" ELSE call[d].phase
  <2> SUFFICES ASSUME NEW d \in Callers, listens(d)
               PROVE  /\ call'[d].job = call[d].job /\ call'[d].tool = call[d].tool
                      /\ call'[d].tells = call[d].tells /\ call'[d].output = call[d].output
                      /\ call'[d].claim
                      /\ call'[d].phase = IF d \in freed THEN "released" ELSE call[d].phase
    BY <1>3
  <2>1. call[d] \in CallRecord
    BY <1>2
  <2>2. call'[d] = [call[d] EXCEPT !.claim = TRUE, !.phase = IF d \in freed THEN "released" ELSE @]
    BY <1>3
  <2>3. QED
    BY <2>1, <2>2 DEF CallRecord
<1>6. \A d \in Callers : /\ call'[d].job = call[d].job /\ call'[d].tool = call[d].tool
                         /\ call'[d].tells = call[d].tells /\ call'[d].output = call[d].output
                         /\ call[d].claim => call'[d].claim
                         /\ d \in freed => call[d].phase = "waiting" /\ call'[d].phase \in {"released", "failed"}
                         /\ d \notin freed => call'[d].phase = call[d].phase
                         /\ call'[d].claim /\ ~call[d].claim =>
                              call'[d].tool = "job_output" /\ call'[d].phase \in {"settled", "released", "failed"}
                         /\ call[d].phase = "idle" => call'[d] = call[d]
  BY <1>1, <1>5
<1>7. QED
  BY <1>2, <1>4, <1>6, ReleasesKeep

-----------------------------------------------------------------------------
(* The invariant.                                                          *)

LEMMA NoticeInvInit == Init => NoticeInv
<1> SUFFICES ASSUME Init PROVE NoticeInv
  OBVIOUS
<1>1. Ranges
  BY RangesInit
<1>2. /\ \A j \in Jobs : jobs[j] = Unborn /\ notice[j] = NoNotice /\ outputs[j] = 0
      /\ \A c \in Callers : call[c] = Idle
      /\ owner = "live" /\ killedByModel = {} /\ suppressedSettlements = {}
      /\ given = {} /\ known = {} /\ lost = {}
  BY DEF Init, RegistryInit
<1>3. Calls
  BY <1>2 DEF Calls, CallOk, Idle
<1>4. Quiet
  BY <1>2, NoNoticeAt DEF Quiet, Claimed
<1>5. ASSUME NEW j \in Jobs PROVE JobOk(j)
  <2>1. Waiting(j) = {} /\ Claims(j) = {} /\ Answering(j) = {} /\ ~Telling(j)
    BY <1>2 DEF Waiting, Claims, Answering, Telling, Idle
  <2>2. jobs[j].status = "unborn" /\ jobs[j].waiters = {} /\ ~jobs[j].read
    BY <1>2 DEF Unborn
  <2>3. ~Live(j) /\ ~isTerminal(j) /\ ~Listed(j)
    BY <2>2 DEF Live, isTerminal, Listed, Outcomes
  <2>4. QED
    BY <1>2, <2>1, <2>2, <2>3, NoNoticeAt
       DEF JobOk, Waited, Early, Killed, Noticed, Placed, Holds, Reaches, Consumed
<1>6. QED
  BY <1>1, <1>3, <1>4, <1>5 DEF NoticeInv

LEMMA NoticeInvNext == NoticeInv /\ [Next]_vars => NoticeInv'
<1> SUFFICES ASSUME NoticeInv, [Next]_vars PROVE NoticeInv'
  OBVIOUS
<1>1. CASE UNCHANGED vars
  <2>1. /\ jobs' = jobs /\ owner' = owner /\ call' = call /\ input' = input /\ aborted' = aborted
        /\ killedByModel' = killedByModel /\ suppressedSettlements' = suppressedSettlements
        /\ notice' = notice /\ given' = given /\ known' = known /\ outputs' = outputs /\ lost' = lost
    BY <1>1 DEF vars
  <2>2. Ranges' /\ Quiet'
    BY <2>1 DEF NoticeInv, Ranges, Quiet, Claimed, Between
  <2>3. \A c \in Callers : CallOk(c)'
    BY <2>1 DEF NoticeInv, Calls, CallOk, Live
  <2>4. ASSUME NEW j \in Jobs PROVE JobOk(j)'
    BY <2>1, JobKept DEF NoticeInv, Untouched
  <2>5. QED
    BY <2>2, <2>3, <2>4 DEF NoticeInv, Calls
<1>2. CASE Next
  <2>0. Ranges'
    BY <1>2, RangesNext DEF NoticeInv
  <2>1. ASSUME NEW j \in Jobs, StartBackground(j) \/ HostKill(j) PROVE NoticeInv'
    BY <2>0, <2>1, StartBackgroundKeeps, RequestKeeps
  <2>2. ASSUME NEW j \in Jobs, NEW outcome \in Reports, Report(j, outcome) PROVE NoticeInv'
    BY <2>0, <2>2, RequestKeeps
  <2>3. ASSUME NEW j \in Jobs, NEW size \in Sizes, SettleReported(j, size) PROVE NoticeInv'
    BY <2>0, <2>3, SettleKeeps, LateReportKeeps
  <2>4. ASSUME NEW throwing \in SUBSET Jobs, DisposeOwner(throwing) PROVE NoticeInv'
    BY <2>0, <2>4, DisposeKeeps
  <2>5. CASE (\E some \in SUBSET Jobs : NextStep(some)) \/ DropNotices
    BY <2>0, <2>5, ClaimKeeps
  <2>6. ASSUME NEW c \in Callers, NEW j \in Jobs,
               Bash(c, j) \/ JobOutput(c, j) \/ JobOutputWait(c, j) \/ JobKill(c, j)
        PROVE  NoticeInv'
    <3>1. CASE JobOutput(c, j)
      BY <2>0, <3>1, ReadNowKeeps DEF JobOutput, Calling, InBatch
    <3>2. QED
      BY <2>0, <2>6, <3>1, BashKeeps, JobOutputWaitKeeps, JobKillKeeps
  <2>7. ASSUME NEW c \in Callers,
               \/ Resume(c) \/ Expire(c) \/ BashReturn(c) \/ Promote(c) \/ Stop(c) \/ StopExpires(c) \/ Record(c)
               \/ \E size \in Sizes : GiveUp(c, size)
        PROVE  NoticeInv'
    <3>1. call[c].phase # "idle"
      BY <2>7 DEF Resume, Expire, BashReturn, Promote, Stop, StopExpires, Record, GiveUp, Cancelled
    <3>2. PICK j \in Jobs : call[c].job = j
      BY <3>1 DEF NoticeInv, Calls, CallOk
    <3>3. CASE Resume(c)
      <4>1. ReadNow(c, j) /\ call[c].phase \in {"settled", "released"} /\ call[c].tool = "job_output"
        BY <3>2, <3>3 DEF Resume
      <4>2. j \in given
        BY <3>2, <4>1 DEF NoticeInv, Calls, CallOk
      <4>3. Claimed = {} /\ owner = "live"
        BY <3>1, Unclaimed
      <4>4. QED
        BY <2>0, <3>2, <4>1, <4>2, <4>3, ReadNowKeeps
    <3>4. CASE Expire(c) \/ Promote(c) \/ StopExpires(c)
      BY <2>0, <3>2, <3>4, LeaveKeeps
    <3>5. CASE BashReturn(c) \/ Stop(c) \/ Record(c) \/ \E size \in Sizes : GiveUp(c, size)
      BY <2>0, <3>2, <3>5, BashReturnKeeps, StopKeeps, RecordKeeps, GiveUpKeeps
    <3>6. QED
      BY <2>7, <3>3, <3>4, <3>5
  <2>8. CASE Steer \/ (\E keepInbox \in BOOLEAN : Abort(keepInbox)) \/ DropOwned \/ LogNotices
    BY <2>0, <2>8, SteerKeeps, AbortKeeps, DropOwnedKeeps, LogNoticesKeeps
  <2>9. QED
    BY <1>2, <2>1, <2>2, <2>3, <2>4, <2>5, <2>6, <2>7, <2>8 DEF Next
<1>3. QED
  BY <1>1, <1>2

LEMMA NoticeInvariant == Spec => []NoticeInv
  BY NoticeInvInit, NoticeInvNext, PTL DEF Spec

-----------------------------------------------------------------------------
(* The theorems.                                                           *)

\* A call waits for its job exactly while the job holds it as a waiter, a settled
\* job has none, and what is held for a claim has one.
THEOREM NoticesTyped == Spec => []TypeOK
<1>1. NoticeInv => TypeOK
  <2> SUFFICES ASSUME NoticeInv PROVE TypeOK
    OBVIOUS
  <2>1. RegistryTypeOK
    BY DEF NoticeInv, Ranges, RegistryTypeOK, JobRecord, Statuses, Causes
  <2>2. ASSUME NEW j \in Jobs
        PROVE  /\ jobs[j].waiters = {c \in Callers : call[c].job = j /\ call[c].phase \in {"waiting", "stopping"}}
               /\ jobs[j].waiters # {} => Live(j)
               /\ j \in suppressedSettlements => Claims(j) # {}
    BY DEF NoticeInv, JobOk, Waited, Waiting
  <2>3. ASSUME NEW j \in Jobs
        PROVE  /\ notice[j].at \in Places /\ outputs[j] \in Nat
               /\ {notice[j].pending, notice[j].inline, notice[j].held, notice[j].end, notice[j].owed} \subseteq BOOLEAN
    BY DEF NoticeInv, Ranges, NoticeRecord
  <2>4. ASSUME NEW c \in Callers
        PROVE  /\ call[c].phase \in Phases
               /\ call[c].claim => call[c].tool = "job_output" /\ call[c].phase \in {"settled", "released", "failed"}
    <3>1. call[c].phase \in Phases
      BY DEF NoticeInv, Ranges, CallRecord
    <3>2. QED
      BY <3>1 DEF NoticeInv, Calls, CallOk
  <2>5. {input, aborted} \subseteq BOOLEAN /\ killedByModel \cup given \cup known \cup lost \subseteq Jobs
    BY DEF NoticeInv, Ranges
  <2>6. QED
    BY <2>1, <2>2, <2>3, <2>4, <2>5 DEF TypeOK
<1>2. QED
  BY <1>1, NoticeInvariant, PTL

\* The end of every job reaches the model, by a notice, a call or its own kill,
\* whatever input or timeout comes between, unless a cancellation takes the answer,
\* the step or the inbox that carries it; and no notice repeats what was told.
THEOREM EveryEndToldOnce == Spec => []ToldOnce
<1>1. NoticeInv => ToldOnce
  <2> SUFFICES ASSUME NoticeInv PROVE ToldOnce
    OBVIOUS
  <2>1. CompletionReachesModel
    BY DEF NoticeInv, JobOk, Reaches, CompletionReachesModel
  <2>2. NoRepeatedNotice
    BY DEF NoticeInv, JobOk, Noticed, NoRepeatedNotice
  <2>3. QED
    BY <2>1, <2>2 DEF ToldOnce
<1>2. QED
  BY <1>1, NoticeInvariant, PTL

\* The end of a job's output is logged at most once, and never lost between the
\* notice that read it and the call that withdraws the notice.
THEOREM EveryOutputOnce == Spec => []OutputExactlyOnce
<1>1. NoticeInv => OutputExactlyOnce
  BY DEF NoticeInv, JobOk, Placed, Consumed, OutputExactlyOnce
<1>2. QED
  BY <1>1, NoticeInvariant, PTL

-----------------------------------------------------------------------------
(* What a step may do to the status of a job.                              *)

\* A job starts while its owner lives, is asked to stop, ends once, and leaves the list.
Moved(j) ==
  \/ jobs'[j].status = jobs[j].status /\ jobs'[j].announced = jobs[j].announced
  \/ owner = "live" /\ owner' = "live" /\ jobs[j].status = "unborn" /\ jobs'[j].status = "running"
  \/ Live(j) /\ jobs'[j].status \in {"stopping"} \cup Outcomes
  \/ ~Live(j) /\ jobs'[j].status = "removed" /\ jobs'[j].announced = jobs[j].announced

LEMMA StatusMoves ==
  ASSUME NoticeInv, [Next]_vars, NEW k \in Jobs
  PROVE  Moved(k)
<1> USE DEF turn, plugin, told, registry, Moved
<1>0. jobs \in [Jobs -> JobRecord] /\ call \in [Callers -> CallRecord] /\ \A c \in Callers : CallOk(c)
  BY DEF NoticeInv, Ranges, Calls
<1>1. CASE UNCHANGED vars
  BY <1>1 DEF vars
<1>2. ASSUME NEW j \in Jobs, StartBackground(j) PROVE Moved(k)
  BY <1>0, <1>2, StartParts DEF StartBackground, Startable
<1>3. ASSUME NEW j \in Jobs, HostKill(j) PROVE Moved(k)
  BY <1>0, <1>3, KillParts DEF HostKill, Live
<1>4. ASSUME NEW j \in Jobs, NEW outcome \in Reports, Report(j, outcome) PROVE Moved(k)
  BY <1>0, <1>4 DEF Report, JobRecord
<1>5. ASSUME NEW j \in Jobs, NEW size \in Sizes, SettleReported(j, size) PROVE Moved(k)
  <2> DEFINE cause == IF jobs[j].settleCause = "none" THEN "producer" ELSE jobs[j].settleCause
             base == [jobs EXCEPT ![j].done = "settled"]
             table == Settle(base, j, jobs[j].done, cause)
  <2>1. base \in [Jobs -> JobRecord] /\ jobs[j].done \in Outcomes /\ cause \in Causes
    BY <1>0, <1>5, Names DEF SettleReported, JobRecord
  <2>2. \A i \in Jobs : base[i].status = jobs[i].status /\ base[i].announced = jobs[i].announced
    BY <1>0 DEF JobRecord
  <2>3. table \in [Jobs -> JobRecord]
    <3> HIDE DEF cause, base
    <3>1. QED
      BY <2>1, SettleTypes
  <2>4. jobs'[k].status = table[k].status /\ jobs'[k].announced = table[k].announced
    <3>1. notice \in [Jobs -> NoticeRecord]
      BY DEF NoticeInv, Ranges
    <3>2. jobs' = table \/ Deliver(table, j, size)
      BY <1>5 DEF SettleReported, OnSettled
    <3> HIDE DEF table
    <3>3. QED
      BY <2>3, <3>1, <3>2, DeliverParts
  <2>5. CASE Live(j)
    <3>1. base[j].status \in {"running", "stopping"}
      BY <2>2, <2>5 DEF Live
    <3> HIDE DEF cause, base
    <3>2. QED
      BY <2>1, <2>2, <2>4, <2>5, <3>1, SettleParts
  <2>6. CASE ~Live(j)
    <3>1. table = base
      BY <2>2, <2>6 DEF Settle, Live
    <3>2. QED
      BY <2>2, <2>4, <3>1
  <2>7. QED
    BY <2>5, <2>6
<1>6. ASSUME NEW throwing \in SUBSET Jobs, DisposeOwner(throwing) PROVE Moved(k)
  <2>1. \A j \in throwing : jobs[j].status \in {"running", "stopping"}
    BY <1>6 DEF DisposeOwner, Live
  <2>2. jobs' = CancelForTeardown(jobs, throwing)
    BY <1>6 DEF DisposeOwner
  <2>3. QED
    BY <1>0, <2>1, <2>2, TeardownParts DEF Live, Outcomes
<1>7. CASE DropOwned
  BY <1>0, <1>7, DropParts DEF DropOwned, Listed
<1>8. ASSUME NEW c \in Callers, NEW j \in Jobs, Bash(c, j) PROVE Moved(k)
  <2> DEFINE started == Start(jobs, j)
  <2>1. started \in [Jobs -> JobRecord]
    BY <1>0, StartTypes
  <2>2. jobs' = Enter(started, j, c) /\ owner = "live" /\ owner' = owner /\ jobs[j].status = "unborn"
    BY <1>8 DEF Bash, Startable
  <2>3. /\ started[k].status = (IF k = j THEN "running" ELSE jobs[k].status)
        /\ started[k].announced = jobs[k].announced
    BY <1>0, StartParts
  <2> HIDE DEF started
  <2>4. jobs'[k].status = started[k].status /\ jobs'[k].announced = started[k].announced
    BY <2>1, <2>2, EnterParts
  <2>5. QED
    BY <2>2, <2>3, <2>4
<1>9. ASSUME NEW c \in Callers, NEW j \in Jobs, JobOutputWait(c, j) PROVE Moved(k)
  BY <1>0, <1>9, EnterParts DEF JobOutputWait
<1>10. ASSUME NEW c \in Callers, NEW j \in Jobs, JobKill(c, j) PROVE Moved(k)
  BY <1>0, <1>10, KillParts DEF JobKill, Live
<1>11. ASSUME NEW c \in Callers, NEW j \in Jobs, ReadNow(c, j) PROVE Moved(k)
  BY <1>0, <1>11, ReadParts DEF ReadNow
<1>12. CASE Steer
  <2>1. \E freed \in SUBSET Callers : jobs' = [j \in Jobs |-> [jobs[j] EXCEPT !.waiters = @ \ freed]]
    BY <1>12 DEF Steer
  <2>2. QED
    BY <1>0, <2>1 DEF JobRecord
<1>13. ASSUME NEW keepInbox \in BOOLEAN, Abort(keepInbox) PROVE Moved(k)
  <2>1. \E freed \in SUBSET Callers : jobs' = [j \in Jobs |-> [jobs[j] EXCEPT !.waiters = @ \ freed]]
    BY <1>13 DEF Abort
  <2>2. QED
    BY <1>0, <2>1 DEF JobRecord
<1>14. ASSUME NEW c \in Callers, NEW j \in Jobs, call[c].job = j,
              \/ Resume(c) \/ Expire(c) \/ BashReturn(c) \/ Promote(c) \/ Stop(c) \/ StopExpires(c) \/ Record(c)
              \/ \E size \in Sizes : GiveUp(c, size)
       PROVE  Moved(k)
  <2>1. CASE Resume(c)
    BY <1>11, <1>14, <2>1 DEF Resume
  <2>2. CASE Expire(c) \/ Promote(c) \/ StopExpires(c)
    <3>1. jobs' = Leave(jobs, j, c)
      BY <1>14, <2>2 DEF Expire, Promote, StopExpires
    <3>2. QED
      BY <1>0, <1>14, <3>1, LeaveParts
  <2>3. CASE BashReturn(c)
    <3>1. jobs' = Drop(jobs, {j}) /\ ~Live(j)
      BY <1>0, <1>14, <2>3 DEF BashReturn, CallOk
    <3>2. QED
      BY <1>0, <3>1, DropParts
  <2>4. CASE Stop(c)
    <3>1. CASE Live(j)
      <4> DEFINE table == Kill(jobs, j)
      <4>1. table \in [Jobs -> JobRecord]
        BY <1>0, <1>14, KillTypes
      <4>2. jobs' = Enter(table, j, c)
        BY <1>14, <2>4, <3>1 DEF Stop
      <4>3. table[k].announced = jobs[k].announced /\ table[k].status = IF k = j THEN "stopping" ELSE jobs[k].status
        BY <1>0, <1>14, <3>1, KillParts DEF Live
      <4> HIDE DEF table
      <4>4. jobs'[k].announced = table[k].announced /\ jobs'[k].status = table[k].status
        BY <1>14, <4>1, <4>2, EnterParts
      <4>5. QED
        BY <3>1, <4>3, <4>4
    <3>2. CASE ~Live(j)
      BY <1>14, <2>4, <3>2 DEF Stop
    <3>3. QED
      BY <3>1, <3>2
  <2>5. CASE Record(c)
    BY <2>5 DEF Record
  <2>6. ASSUME NEW size \in Sizes, GiveUp(c, size) PROVE Moved(k)
    <3>1. notice \in [Jobs -> NoticeRecord]
      BY DEF NoticeInv, Ranges
    <3>2. jobs' = jobs \/ Deliver(jobs, j, size)
      BY <1>14, <2>6 DEF GiveUp
    <3>3. jobs'[k].status = jobs[k].status /\ jobs'[k].announced = jobs[k].announced
      BY <1>0, <1>14, <3>1, <3>2, DeliverParts
    <3>4. QED
      BY <3>3
  <2>7. QED
    BY <1>14, <2>1, <2>2, <2>3, <2>4, <2>5, <2>6
<1>15. ASSUME NEW c \in Callers,
              \/ Resume(c) \/ Expire(c) \/ BashReturn(c) \/ Promote(c) \/ Stop(c) \/ StopExpires(c) \/ Record(c)
              \/ \E size \in Sizes : GiveUp(c, size)
       PROVE  Moved(k)
  <2>1. call[c].phase # "idle"
    BY <1>15 DEF Resume, Expire, BashReturn, Promote, Stop, StopExpires, Record, GiveUp, Cancelled
  <2>2. PICK j \in Jobs : call[c].job = j
    BY <1>0, <2>1 DEF CallOk
  <2>3. QED
    BY <1>14, <1>15, <2>2
<1>16. CASE (\E some \in SUBSET Jobs : NextStep(some)) \/ LogNotices \/ DropNotices
  BY <1>16 DEF NextStep, LogNotices, DropNotices
<1>17. CASE Next
  BY <1>2, <1>3, <1>4, <1>5, <1>6, <1>7, <1>8, <1>9, <1>10, <1>11, <1>12, <1>13, <1>15, <1>16, <1>17
     DEF Next, JobOutput
<1>18. QED
  BY <1>1, <1>17

\* The first outcome of a job stays, also when its producer reports late or a kill
\* or a teardown comes behind it.
THEOREM OutcomesStay == Spec => FirstOutcomeWins
<1>1. NoticeInv /\ [Next]_vars =>
        [\A j \in Jobs : isTerminal(j) =>
           jobs'[j].status \in {jobs[j].status, "removed"} /\ jobs'[j].announced = jobs[j].announced]_vars
  <2> SUFFICES ASSUME NoticeInv, [Next]_vars, NEW j \in Jobs, isTerminal(j)
               PROVE  jobs'[j].status \in {jobs[j].status, "removed"} /\ jobs'[j].announced = jobs[j].announced
    OBVIOUS
  <2>1. Moved(j)
    BY StatusMoves
  <2>2. QED
    BY <2>1 DEF Moved, isTerminal, Live, Outcomes
<1>2. QED
  BY <1>1, NoticeInvariant, PTL DEF Spec, FirstOutcomeWins

\* A disposal waits only for jobs whose producer has promised to end them, and
\* leaves none behind.
THEOREM DisposalsEnd == Spec => []DisposalAwaitsCancelled
<1>1. Init => DisposalAwaitsCancelled
  BY DEF Init, RegistryInit, DisposalAwaitsCancelled
<1>2. NoticeInv /\ DisposalAwaitsCancelled /\ [Next]_vars => DisposalAwaitsCancelled'
  <2> SUFFICES ASSUME NoticeInv, DisposalAwaitsCancelled, [Next]_vars PROVE DisposalAwaitsCancelled'
    OBVIOUS
  <2>1. \A j \in Jobs : Moved(j)
    BY StatusMoves
  <2>2. CASE owner' = owner
    <3>1. owner = "disposing" => \A j \in Jobs : Live(j)' => jobs'[j].status = "stopping"
      BY <2>1 DEF DisposalAwaitsCancelled, Moved, Live, Outcomes
    <3>2. owner = "gone" => \A j \in Jobs : ~Listed(j)'
      BY <2>1 DEF DisposalAwaitsCancelled, Moved, Listed, Live, isTerminal, Outcomes
    <3>3. QED
      BY <2>2, <3>1, <3>2 DEF DisposalAwaitsCancelled
  <2>3. ASSUME NEW throwing \in SUBSET Jobs, DisposeOwner(throwing) PROVE DisposalAwaitsCancelled'
    <3>1. owner' = "disposing" /\ jobs' = CancelForTeardown(jobs, throwing)
          /\ \A j \in throwing : jobs[j].status \in {"running", "stopping"}
      BY <2>3 DEF DisposeOwner, Live
    <3>2. \A k \in Jobs : Live(k)' => jobs'[k].status = "stopping"
      BY <3>1, TeardownParts DEF Live, NoticeInv, Ranges
    <3>3. QED
      BY <3>1, <3>2 DEF DisposalAwaitsCancelled
  <2>4. CASE DropOwned
    <3>1. owner' = "gone" /\ jobs' = Drop(jobs, {j \in Jobs : Listed(j)})
      BY <2>4 DEF DropOwned
    <3>2. \A k \in Jobs : ~Listed(k)'
      BY <3>1, DropParts DEF Listed, Live, isTerminal, NoticeInv, Ranges, Outcomes
    <3>3. QED
      BY <3>1, <3>2 DEF DisposalAwaitsCancelled
  <2>5. owner' = owner \/ DropOwned \/ \E throwing \in SUBSET Jobs : DisposeOwner(throwing)
    BY DEF Next, vars, registry, StartBackground, HostKill, Report, SettleReported, NextStep, Bash, JobOutput,
           JobOutputWait, JobKill, ReadNow, Resume, Expire, BashReturn, Promote, Stop, StopExpires, Record,
           GiveUp, Steer, Abort, LogNotices, DropNotices
  <2>6. QED
    BY <2>2, <2>3, <2>4, <2>5
<1>3. QED
  BY <1>1, <1>2, NoticeInvariant, PTL DEF Spec
=============================================================================
