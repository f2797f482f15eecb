----------------------------- MODULE JobRegistry -----------------------------
(***************************************************************************)
(* The in-memory registry of background jobs                               *)
(* (packages/jobs/jobs-local/src/index.ts), for the jobs of one agent: the *)
(* records and what each operation does to them.  JobNotices takes the     *)
(* steps, since every event the registry emits runs its listeners inside   *)
(* the operation.                                                          *)
(***************************************************************************)
EXTENDS Naturals, FiniteSets

CONSTANTS
  Jobs,      \* job ids
  Callers,   \* tool calls that may wait for a job
  MaxActive  \* maxConcurrentJobsPerOwner

ASSUME MaxActiveAssumption == MaxActive \in Nat \ {0}

VARIABLES
  jobs,   \* the record of every job
  owner   \* the owning agent: "live", "disposing" or "gone"

Outcomes == {"completed", "killed", "failed"}
Causes == {"producer", "kill", "teardown"}

\* A record before start(); done is the producer's unsettled report, announced
\* the cause the settled event carried, and read whether the model's cursor has
\* passed the end of the output and the result.
Unborn == [status |-> "unborn", done |-> "none", settleCause |-> "none",
           announced |-> "none", waiters |-> {}, read |-> FALSE]

RegistryInit == jobs = [j \in Jobs |-> Unborn] /\ owner = "live"

RegistryTypeOK ==
  /\ \A j \in Jobs :
       /\ jobs[j].status \in {"unborn", "running", "stopping", "removed"} \cup Outcomes
       /\ jobs[j].done \in {"none", "settled"} \cup Outcomes
       /\ jobs[j].settleCause \in {"none", "kill", "teardown"}
       /\ jobs[j].announced \in {"none"} \cup Causes
       /\ jobs[j].waiters \subseteq Callers /\ jobs[j].read \in BOOLEAN
  /\ owner \in {"live", "disposing", "gone"}

isTerminal(j) == jobs[j].status \in Outcomes
Live(j) == jobs[j].status \in {"running", "stopping"}
Listed(j) == Live(j) \/ isTerminal(j)

\* start(): the owner's scope rejects the cleanup effect once it is disposing.
Startable(j) ==
  /\ jobs[j].status = "unborn" /\ owner = "live"
  /\ Cardinality({k \in Jobs : Live(k)}) < MaxActive

Start(table, j) == [table EXCEPT ![j].status = "running"]

\* killJob(), whose cancel did not throw.
Kill(table, j) ==
  IF table[j].status \in {"running", "stopping"}
  THEN [table EXCEPT ![j].status = "stopping", ![j].settleCause = "kill"]
  ELSE table

\* Mutant: a late outcome replaces the first one.
SettleLate(table, j, outcome, cause) ==
  [table EXCEPT ![j].status = outcome, ![j].announced = cause, ![j].waiters = {}]

\* settle(): the first outcome wins, and releases every waiter.
Settle(table, j, outcome, cause) ==
  IF table[j].status \in {"running", "stopping"}
  THEN [table EXCEPT ![j].status = outcome, ![j].announced = cause, ![j].waiters = {}]
  ELSE table

\* Mutant: a job whose cancel throws is left as it was.
CancelUnforced(table, throwing) ==
  [j \in Jobs |->
     IF table[j].status \notin {"running", "stopping"} THEN table[j]
     ELSE IF j \in throwing THEN [table[j] EXCEPT !.settleCause = "teardown"]
          ELSE [table[j] EXCEPT !.settleCause = "teardown", !.status = "stopping"]]

\* cancelForTeardown(): a throwing cancel force-fails the record.
CancelForTeardown(table, throwing) ==
  [j \in Jobs |->
     IF table[j].status \notin {"running", "stopping"} THEN table[j]
     ELSE IF j \in throwing
          THEN [table[j] EXCEPT !.settleCause = "teardown", !.status = "failed",
                                !.announced = "teardown", !.waiters = {}]
          ELSE [table[j] EXCEPT !.settleCause = "teardown", !.status = "stopping"]]

\* drop()
Drop(table, gone) ==
  [j \in Jobs |-> IF j \in gone THEN [table[j] EXCEPT !.status = "removed"] ELSE table[j]]

\* Mutant: a wait that ends early stays registered.
LeaveRegistered(table, j, c) == table

\* waitJob() while the job is live, and a wait that ends before it settles.
Enter(table, j, c) == [table EXCEPT ![j].waiters = @ \cup {c}]
Leave(table, j, c) == [table EXCEPT ![j].waiters = @ \ {c}]

\* readJob(), as far as it takes the end of the output and the result.
Read(table, j) == [table EXCEPT ![j].read = @ \/ table[j].status \in Outcomes]
=============================================================================
