--------------------------- MODULE WriteOwnership ---------------------------
(***************************************************************************)
(* Who may write one stored session                                        *)
(* (packages/session/session-persistence-jsonl): the claim and the pending *)
(* creation each process tracks (src/storage.ts, JsonlBackendTracker), the *)
(* kernel lock between processes (src/lease.ts), and create(), open() and  *)
(* the handle's first write, its close() and the timer that may outlive it *)
(* (src/index.ts, src/storage.ts), which take and give them back.  An      *)
(* action ends where the code awaits.                                      *)
(***************************************************************************)
EXTENDS Naturals

CONSTANTS
  Attempts,   \* creations and resumptions of the session, each mints one handle
  Processes,
  Homes,      \* the ways the attempts may be spread over the processes
  Nobody      \* no attempt

ASSUME OwnershipAssumption == Homes \subseteq [Attempts -> Processes] /\ Nobody \notin Attempts

VARIABLES
  home,      \* the process of each attempt, once and for all
  writers,   \* per process: the attempt whose claim or handle is in the map
  pending,   \* per process: a creation no artifact exists for yet is tracked
  lock,      \* the holder of the session's kernel lock
  artifact,  \* whether the log file has been published
  io,        \* per attempt: create(), open() or the handle they returned
  op,        \* per attempt: the handle's first write
  made,      \* per attempt: the handle's `materialized`
  dirty,     \* per attempt: events that wait for the first write
  late       \* per attempt: what a timer of its closed handle does, if one is armed

ownership == <<home, writers, pending, lock, artifact, io, op, made, dirty, late>>

OwnershipInit ==
  /\ home \in Homes
  /\ writers = [p \in Processes |-> Nobody] /\ pending = [p \in Processes |-> FALSE]
  /\ lock = Nobody /\ artifact = FALSE
  /\ io = [a \in Attempts |-> "none"] /\ op = [a \in Attempts |-> "idle"]
  /\ made = [a \in Attempts |-> FALSE] /\ dirty = [a \in Attempts |-> FALSE]
  /\ late = [a \in Attempts |-> "no"]

OwnershipTypeOK ==
  /\ home \in Homes
  /\ writers \in [Processes -> Attempts \cup {Nobody}] /\ pending \in [Processes -> BOOLEAN]
  /\ lock \in Attempts \cup {Nobody} /\ artifact \in BOOLEAN
  /\ io \in [Attempts -> {"none", "creating", "looked", "opening", "claimed", "locked",
                          "open", "closing", "absent", "failed"}]
  /\ op \in [Attempts -> {"idle", "writing", "failed"}]
  /\ made \in [Attempts -> BOOLEAN] /\ dirty \in [Attempts -> BOOLEAN]
  /\ late \in [Attempts -> {"no", "create", "acquire", "keeps"}]

\* An attempt that stands in its process's map of writers.
Owning(a) == io[a] \in {"claimed", "locked", "open", "closing"}
\* An attempt that has no handle, and none that is being minted.
Ended(a) == io[a] \in {"none", "absent", "failed"}

Becomes(a, state) == io' = [io EXCEPT ![a] = state]
Forget(p) == writers' = [writers EXCEPT ![p] = Nobody]
\* The kernel knows the holder: only its own descriptor releases the lock.
Unlocked(a) == IF lock = a THEN Nobody ELSE lock

-----------------------------------------------------------------------------
(* create() and open(); `stopped` is what their signal says.               *)

\* create(): nothing pending here, and findLog() found no artifact.
CreateLook(a, stopped) ==
  /\ io[a] = "creating"
  /\ Becomes(a, IF stopped \/ pending[home[a]] \/ artifact THEN "failed" ELSE "looked")
  /\ UNCHANGED <<home, writers, pending, lock, artifact, op, made, dirty, late>>

\* Mutant: a creation trusts its lookup.
RegisterAnyway(a, stopped) ==
  /\ io[a] = "looked"
  /\ Becomes(a, "open") /\ writers' = [writers EXCEPT ![home[a]] = a]
  /\ pending' = [pending EXCEPT ![home[a]] = TRUE]
  /\ UNCHANGED <<home, lock, artifact, op, made, dirty, late>>

\* registerCreated() and adopt(): the lookup may be stale by now.
CreateRegister(a, stopped) ==
  /\ io[a] = "looked"
  /\ IF stopped \/ writers[home[a]] # Nobody
     THEN Becomes(a, "failed") /\ UNCHANGED <<home, writers, pending>>
     ELSE /\ Becomes(a, "open") /\ writers' = [writers EXCEPT ![home[a]] = a]
          /\ pending' = [pending EXCEPT ![home[a]] = TRUE]
  /\ UNCHANGED <<home, lock, artifact, op, made, dirty, late>>

\* claimWrite(): a refusal is outside the try that gives the claim back.
OpenClaim(a, stopped) ==
  /\ io[a] = "opening"
  /\ IF stopped \/ writers[home[a]] # Nobody
     THEN Becomes(a, "failed") /\ UNCHANGED writers
     ELSE Becomes(a, "claimed") /\ writers' = [writers EXCEPT ![home[a]] = a]
  /\ UNCHANGED <<home, pending, lock, artifact, op, made, dirty, late>>

\* findLog() and SessionWriteLease.acquire(); releaseClaim() undoes a refusal.
OpenLock(a, stopped) ==
  /\ io[a] = "claimed"
  /\ IF stopped \/ ~artifact \/ lock # Nobody
     THEN /\ Becomes(a, IF artifact \/ stopped THEN "failed" ELSE "absent")
          /\ Forget(home[a]) /\ UNCHANGED lock
     ELSE Becomes(a, "locked") /\ lock' = a /\ UNCHANGED writers
  /\ UNCHANGED <<home, pending, artifact, op, made, dirty, late>>

\* requireStoredLog(), which may find a corrupt log, and adopt().
OpenRead(a, stopped) ==
  /\ io[a] = "locked"
  /\ \/ /\ ~stopped /\ Becomes(a, "open") /\ made' = [made EXCEPT ![a] = TRUE]
        /\ UNCHANGED <<home, writers, lock>>
     \/ /\ Becomes(a, "failed") /\ lock' = Unlocked(a) /\ Forget(home[a])
        /\ UNCHANGED made
  /\ UNCHANGED <<home, pending, artifact, op, dirty, late>>

-----------------------------------------------------------------------------
(* The first write of a created session.                                   *)

\* An event routed to the handle; once it has written, nothing new is taken.
Route(a) == dirty' = [dirty EXCEPT ![a] = ~made[a]]

StartWrite(a) ==
  /\ io[a] = "open" /\ op[a] \in {"idle", "failed"} /\ dirty[a]
  /\ op' = [op EXCEPT ![a] = "writing"]
  /\ UNCHANGED <<home, writers, pending, lock, artifact, io, made, dirty, late>>

\* ensureLease(), whose lock stays through a failure behind it, and
\* materialize(), whose link() refuses an artifact that exists.
FirstWrite(a) ==
  /\ op[a] = "writing"
  /\ \/ /\ lock \in {Nobody, a} /\ ~artifact
        /\ lock' = a /\ artifact' = TRUE /\ made' = [made EXCEPT ![a] = TRUE]
        /\ pending' = [pending EXCEPT ![home[a]] = FALSE]
        /\ dirty' = [dirty EXCEPT ![a] = FALSE] /\ op' = [op EXCEPT ![a] = "idle"]
     \/ /\ lock' \in {lock, IF lock = Nobody THEN a ELSE lock}
        /\ op' = [op EXCEPT ![a] = "failed"]
        /\ UNCHANGED <<artifact, made, pending, dirty>>
  /\ UNCHANGED <<home, writers, io, late>>

-----------------------------------------------------------------------------
(* close(), which its owner starts by Closing(a).                          *)

\* What close() finds: an earlier failed drain is tried once more.
Closing(a) ==
  /\ Becomes(a, "closing")
  /\ op' = [op EXCEPT ![a] = IF @ = "failed" THEN "idle" ELSE @]

CloseDrain(a) ==
  /\ io[a] = "closing" /\ op[a] = "idle" /\ dirty[a]
  /\ op' = [op EXCEPT ![a] = "writing"]
  /\ UNCHANGED <<home, writers, pending, lock, artifact, io, made, dirty, late>>

Drained(a) == op[a] = "failed" \/ (op[a] = "idle" /\ ~dirty[a])

\* What a timer may be armed for that close() does not clear: an event that arrived
\* while the lock was given back, or behind the last drain, which failed.  A handle
\* that has written once only appends, which changes nothing that is kept here.
Leftover(a, routed) ==
  IF ~routed THEN "no"
  ELSE IF lock = a THEN IF made[a] THEN "no" ELSE "create"
  ELSE IF op[a] = "failed" THEN "acquire" ELSE "no"

\* Whether the last drain failed or not, the kernel lock goes and then release()
\* drops the claim; between the two other processes see the one and this one the other.
CloseRelease(a, routed) ==
  /\ io[a] = "closing" /\ Drained(a)
  /\ Becomes(a, "none") /\ lock' = Unlocked(a) /\ Forget(home[a])
  /\ pending' = [pending EXCEPT ![home[a]] = @ /\ made[a]]
  /\ made' = [made EXCEPT ![a] = FALSE] /\ dirty' = [dirty EXCEPT ![a] = FALSE]
  /\ op' = [op EXCEPT ![a] = "idle"]
  /\ late' = [late EXCEPT ![a] = Leftover(a, routed)]
  /\ UNCHANGED <<home, artifact>>

\* The timer of a closed handle fires and its drain runs, whoever owns the session by
\* then.  ensureLease() takes no second lock for one that was released; one that is
\* taken here is given back by nobody.
LateDrain(a) ==
  /\ \/ late[a] = "create" /\ ~artifact /\ artifact' = TRUE /\ UNCHANGED lock
     \/ late[a] = "acquire" /\ lock = Nobody /\ lock' = a /\ artifact' \in {artifact, TRUE}
  /\ late' = [late EXCEPT ![a] = IF lock' = a THEN "keeps" ELSE "no"]
  /\ pending' = [pending EXCEPT ![home[a]] = @ /\ artifact' = artifact]
  /\ UNCHANGED <<home, writers, io, op, made, dirty>>

\* The process dies: its memory is gone and the kernel drops its locks.
ProcessDies(p) ==
  /\ writers' = [writers EXCEPT ![p] = Nobody] /\ pending' = [pending EXCEPT ![p] = FALSE]
  /\ lock' = IF lock # Nobody /\ home[lock] = p THEN Nobody ELSE lock
  /\ io' = [a \in Attempts |-> IF home[a] = p THEN "none" ELSE io[a]]
  /\ op' = [a \in Attempts |-> IF home[a] = p THEN "idle" ELSE op[a]]
  /\ made' = [a \in Attempts |-> made[a] /\ home[a] # p]
  /\ dirty' = [a \in Attempts |-> dirty[a] /\ home[a] # p]
  /\ late' = [a \in Attempts |-> IF home[a] = p THEN "no" ELSE late[a]]
  /\ UNCHANGED <<home, artifact>>
=============================================================================
