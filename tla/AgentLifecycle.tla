--------------------------- MODULE AgentLifecycle ---------------------------
(***************************************************************************)
(* Creation, resumption and teardown of the agents of one session          *)
(* (packages/core/agent-loop/src/index.ts) over WriteOwnership, with the   *)
(* registration edges of the session store and the agent registry          *)
(* (packages/core/session/src/index.ts, packages/core/agent/src/index.ts). *)
(* Callers abort, owner fibers unload, factories are disposed of and       *)
(* mounted again, processes die, at any await.                             *)
(***************************************************************************)
EXTENDS WriteOwnership, FiniteSets

CONSTANT MaxStops   \* bound: aborts, unloads, disposals and crashes together

ASSUME LifecycleAssumption == MaxStops \in Nat

VARIABLES
  pc,        \* per attempt: the await its creation stands at
  td,        \* per attempt: the await its memoized teardown stands at
  stop,      \* per attempt: "aborted", or its "owner" is gone and only that
  shown,     \* per process: the entries of both registries for the session
  factory,   \* per process: the agent loop
  stops      \* how many of them there were

lifecycle == <<pc, td, stop, shown, factory, stops>>
vars == <<ownership, lifecycle>>

Hidden == [by |-> Nobody, as |-> "none"]

Init ==
  /\ OwnershipInit
  /\ pc = [a \in Attempts |-> "new"] /\ td = [a \in Attempts |-> "no"]
  /\ stop = [a \in Attempts |-> "no"]
  /\ shown = [p \in Processes |-> Hidden] /\ factory = [p \in Processes |-> "active"]
  /\ stops = 0

\* The awaits of persistence: createAgent(), resume(), and a configured start
\* that restores the session or, where nothing is stored, creates it.
Acquiring(a) == pc[a] \in {"creating", "resuming", "restoring", "founding"}
\* runMaintenance()'s job runs: `publication` is unresolved.
Publishing(a) == pc[a] \in {"storing", "setup", "announcing"}
\* Its wrapper has rejected while persistence was still at work for it.
Abandoned(a) == pc[a] = "over" /\ ~Ended(a)

\* Processes no attempt belongs to are left alone.
Used(p) == \E a \in Attempts : home[a] = p
Active(a) == factory[home[a]] = "active"
\* The signal the backend gets: a creation's caller, a resume's three owners,
\* and none for the creation of a configured agent.
LoadStopped(a) == stop[a] = "aborted" \/ (pc[a] \in {"resuming", "restoring"} /\ ~Active(a))
\* initializeAgent()'s `abort`
Aborted(a) == stop[a] # "no" \/ ~Active(a) \/ td[a] # "no"

Stops == stops < MaxStops /\ stops' = stops + 1
Goes(a, place) == pc' = [pc EXCEPT ![a] = place]
\* Its signals matter to nobody any more.
Over(a) == Goes(a, "over") /\ stop' = [stop EXCEPT ![a] = "no"]

\* Mutant: a teardown does not wait for the creation's listeners.
AskedAtOnce(as) == [a \in Attempts |-> IF a \in as /\ td[a] = "no" THEN "quiescing" ELSE td[a]]

\* teardown(): memoized, so a second request joins the first; it waits for
\* `publication`, if there is one, and then for the driver and its scope.
Asked(as) ==
  [a \in Attempts |-> IF a \notin as \/ td[a] # "no" THEN td[a]
                      ELSE IF Publishing(a) THEN "asked" ELSE "quiescing"]

-----------------------------------------------------------------------------
(* Taking write ownership.                                                 *)

\* createAgent(): prepare() refuses an id that is live.
BeginCreate(a, seeded) ==
  /\ pc[a] = "new" /\ Active(a)
  /\ IF shown[home[a]] # Hidden
     THEN Goes(a, "over") /\ UNCHANGED ownership
     ELSE /\ Goes(a, "creating") /\ Becomes(a, "creating")
          /\ dirty' = [dirty EXCEPT ![a] = seeded]
          /\ UNCHANGED <<home, writers, pending, lock, artifact, op, made, late>>
  /\ UNCHANGED <<td, stop, shown, factory, stops>>

Opens(a, place) ==
  /\ Goes(a, place) /\ Becomes(a, "opening")
  /\ UNCHANGED <<home, writers, pending, lock, artifact, op, made, dirty, late,
                 td, stop, shown, factory, stops>>

\* resume()
BeginResume(a) == pc[a] = "new" /\ Active(a) /\ Opens(a, "resuming")

\* restoreOrCreateConfigured(), behind waitForDrainingConfiguredIdentity(); a
\* start that still waits when the factory goes has changed nothing.
BeginConfigured(a) ==
  pc[a] = "new" /\ Active(a) /\ shown[home[a]] = Hidden /\ Opens(a, "restoring")

\* raceAbortCall(): the wrapper stops waiting, persistence does not.
AcquireAborted(a) ==
  /\ pc[a] \in {"creating", "resuming", "restoring"} /\ LoadStopped(a)
  /\ Goes(a, "over") /\ stop' = [stop EXCEPT ![a] = "aborted"]
  /\ UNCHANGED <<ownership, td, shown, factory, stops>>

\* Mutant: a handle that arrives behind the abort is nobody's.
LeaveAbandoned(a) == FALSE /\ UNCHANGED vars

\* releaseAbandoned
CloseAbandoned(a) ==
  /\ pc[a] = "over" /\ io[a] = "open"
  /\ Closing(a)
  /\ UNCHANGED <<home, writers, pending, lock, artifact, made, dirty, late, lifecycle>>

\* A configured start falls back to creation only where nothing is stored.
AcquireFails(a) ==
  /\ Acquiring(a) /\ io[a] \in {"absent", "failed"}
  /\ IF pc[a] = "restoring" /\ io[a] = "absent" /\ Active(a) /\ shown[home[a]] = Hidden
     THEN Goes(a, "founding") /\ Becomes(a, "creating") /\ UNCHANGED stop
     ELSE Over(a) /\ Becomes(a, "none")
  /\ UNCHANGED <<home, writers, pending, lock, artifact, op, made, dirty, late, td, shown, factory, stops>>

\* The handle of a creation that was refused is closed again.
Unwound(a) ==
  /\ pc[a] = "unwinding" /\ io[a] = "none"
  /\ Over(a)
  /\ UNCHANGED <<ownership, td, shown, factory, stops>>

-----------------------------------------------------------------------------
(* initializeAgent()                                                       *)

\* The handle is there.  resumeWith() reads the log, appends the closers of an
\* interrupted turn and prepares the session; initializeAgent() checks its
\* owners once more and enters runMaintenance().  A refusal closes the handle.
Initialize(a) ==
  /\ Acquiring(a) /\ io[a] = "open"
  /\ \/ /\ stop[a] = "no" /\ Active(a)
        /\ pc[a] \in {"resuming", "restoring"} => shown[home[a]] = Hidden
        /\ Goes(a, "storing") /\ UNCHANGED <<io, op>>
     \/ Goes(a, "unwinding") /\ Closing(a)
  /\ UNCHANGED <<home, writers, pending, lock, artifact, made, dirty, late,
                 td, stop, shown, factory, stops>>

\* The job rejects: `publication` resolves and dispose() is awaited.
Fails(a) == Goes(a, "failing") /\ td' = [td EXCEPT ![a] = "quiescing"]

\* appendUnstoredSuffix()
StoreSuffix(a) == pc[a] = "storing" /\ op[a] = "idle" /\ StartWrite(a) /\ UNCHANGED lifecycle

Shows(a, as) == shown' = [shown EXCEPT ![home[a]] = [by |-> a, as |-> as]]

\* sessions.enter() refuses a live id, and a listener of announce() may veto.
EnterSession(a) ==
  /\ pc[a] = "storing" /\ (op[a] = "failed" \/ (op[a] = "idle" /\ ~dirty[a]))
  /\ \/ /\ op[a] = "idle" /\ ~Aborted(a) /\ shown[home[a]] = Hidden
        /\ Shows(a, "session")
        /\ \/ Goes(a, "setup") /\ UNCHANGED td
           \/ Fails(a)
     \/ /\ op[a] = "failed" \/ Aborted(a) \/ shown[home[a]] # Hidden
        /\ Fails(a) /\ UNCHANGED shown
  /\ UNCHANGED <<ownership, stop, factory, stops>>

\* The raced setup, its commit, and agents.enter().
EndSetup(a) ==
  /\ pc[a] = "setup"
  /\ \/ ~Aborted(a) /\ Shows(a, "agent") /\ Goes(a, "announcing") /\ UNCHANGED td
     \/ Fails(a) /\ UNCHANGED shown
  /\ UNCHANGED <<ownership, stop, factory, stops>>

\* agents.announce() awaits its listeners, aborted or not.
EndAnnounce(a) ==
  /\ pc[a] = "announcing"
  /\ \/ ~Aborted(a) /\ Goes(a, "live") /\ UNCHANGED td
     \/ Fails(a)
  /\ UNCHANGED <<ownership, stop, shown, factory, stops>>

\* Events of a registered session reach its handle, also while close() drains it.
LiveEvent(a) ==
  /\ shown[home[a]].by = a /\ io[a] \in {"open", "closing"} /\ ~made[a] /\ ~dirty[a]
  /\ Route(a)
  /\ UNCHANGED <<home, writers, pending, lock, artifact, io, op, made, late, lifecycle>>

LiveWrite(a) == shown[home[a]].by = a /\ StartWrite(a) /\ UNCHANGED lifecycle

-----------------------------------------------------------------------------
(* teardown(), and who asks for it.                                        *)

CallerAborts(a) ==
  /\ Stops
  /\ \/ pc[a] \in {"creating", "resuming"} \/ Publishing(a)
  /\ stop[a] = "no" \/ (pc[a] = "creating" /\ stop[a] = "owner")
  /\ stop' = [stop EXCEPT ![a] = "aborted"]
  /\ UNCHANGED <<ownership, pc, td, shown, factory>>

\* The owner fiber unloads; once there is a lifecycle to tear down, the holder
\* of a returned handle may also ask for it.
OwnerUnloads(a) ==
  /\ Stops
  /\ \/ /\ pc[a] \in {"creating", "resuming"} /\ stop[a] = "no"
        /\ stop' = [stop EXCEPT ![a] = IF pc[a] = "creating" THEN "owner" ELSE "aborted"]
        /\ UNCHANGED td
     \/ /\ Publishing(a) \/ pc[a] = "live"
        /\ td[a] = "no" /\ td' = Asked({a}) /\ UNCHANGED stop
  /\ UNCHANGED <<ownership, pc, shown, factory>>

\* FactoryOwnership.dispose()
FactoryDisposes(p) ==
  /\ Stops
  /\ Used(p) /\ factory[p] = "active" /\ factory' = [factory EXCEPT ![p] = "disposing"]
  /\ td' = Asked({a \in Attempts : home[a] = p /\ (Publishing(a) \/ pc[a] = "live")})
  /\ UNCHANGED <<ownership, pc, stop, shown>>

\* Mutant: it awaits the live agents only.
FactoryForgets(p) ==
  /\ factory[p] = "disposing" /\ \A a \in Attempts : home[a] = p => td[a] = "no"
  /\ factory' = [factory EXCEPT ![p] = "disposed"]
  /\ UNCHANGED <<ownership, pc, td, stop, shown, stops>>

\* Every live agent's teardown and every tracked wrapper has settled.
FactoryDisposed(p) ==
  /\ factory[p] = "disposing" /\ \A a \in Attempts : home[a] = p => pc[a] \in {"new", "over"}
  /\ factory' = [factory EXCEPT ![p] = "disposed"]
  /\ UNCHANGED <<ownership, pc, td, stop, shown, stops>>

\* The plugin is mounted again, over the same persistence.
Remount(p) ==
  /\ factory[p] = "disposed" /\ factory' = [factory EXCEPT ![p] = "active"]
  /\ UNCHANGED <<ownership, pc, td, stop, shown, stops>>

\* The driver is idle and its scope is unwound: the handle closes.
TeardownCloses(a) ==
  /\ td[a] = "quiescing" /\ td' = [td EXCEPT ![a] = "closing"] /\ Closing(a)
  /\ UNCHANGED <<home, writers, pending, lock, artifact, made, dirty, late,
                 pc, stop, shown, factory, stops>>

Detached(a) == IF shown[home[a]].by = a THEN [shown EXCEPT ![home[a]] = Hidden] ELSE shown

\* detachAgent(), detachSession() and untrack(); the wrapper settles.
TeardownDetaches(a) ==
  /\ td[a] = "closing" /\ io[a] = "none"
  /\ td' = [td EXCEPT ![a] = "no"] /\ shown' = Detached(a) /\ Over(a)
  /\ UNCHANGED <<ownership, factory, stops>>

\* The process dies, and is started again.
Crash(p) ==
  /\ Used(p) /\ Stops
  /\ ProcessDies(p)
  /\ pc' = [a \in Attempts |-> IF home[a] = p /\ pc[a] # "new" THEN "over" ELSE pc[a]]
  /\ td' = [a \in Attempts |-> IF home[a] = p THEN "no" ELSE td[a]]
  /\ shown' = [shown EXCEPT ![p] = Hidden] /\ factory' = [factory EXCEPT ![p] = "active"]
  /\ stop' = [a \in Attempts |-> IF home[a] = p THEN "no" ELSE stop[a]]

-----------------------------------------------------------------------------

\* The backend's answers, one chain of awaits for each attempt.
Backend(a) ==
  \/ /\ \/ CreateLook(a, LoadStopped(a)) \/ CreateRegister(a, LoadStopped(a))
        \/ OpenClaim(a, LoadStopped(a)) \/ OpenLock(a, LoadStopped(a)) \/ OpenRead(a, LoadStopped(a))
        \/ FirstWrite(a) \/ CloseDrain(a)
        \/ CloseRelease(a, shown[home[a]].by = a)
     /\ UNCHANGED lifecycle
  \/ CloseAbandoned(a)
Creation(a) ==
  \/ AcquireAborted(a) \/ AcquireFails(a) \/ Unwound(a) \/ Initialize(a)
  \/ StoreSuffix(a) \/ EnterSession(a) \/ EndSetup(a) \/ EndAnnounce(a)
Teardown(a) == TeardownCloses(a) \/ TeardownDetaches(a)

Environment(a) ==
  \/ \E seeded \in BOOLEAN : BeginCreate(a, seeded)
  \/ BeginResume(a) \/ BeginConfigured(a)
  \/ CallerAborts(a) \/ OwnerUnloads(a)
  \/ LiveEvent(a) \/ LiveWrite(a)

\* The timer of a closed handle, which nobody awaits.
Late(a) == LateDrain(a) /\ UNCHANGED lifecycle

Next ==
  \/ \E a \in Attempts : Backend(a) \/ Creation(a) \/ Teardown(a) \/ Environment(a) \/ Late(a)
  \/ \E p \in Processes : FactoryDisposes(p) \/ FactoryDisposed(p) \/ Remount(p) \/ Crash(p)

Spec == Init /\ [][Next]_vars

\* What an attempt awaits settles; callers, owners, factories and crashes owe
\* nothing.
FairSpec ==
  Spec /\ \A a \in Attempts : WF_vars(Backend(a)) /\ WF_vars(Creation(a) \/ Teardown(a))

-----------------------------------------------------------------------------
(* Properties.                                                             *)

TypeOK ==
  /\ OwnershipTypeOK
  /\ pc \in [Attempts -> {"new", "creating", "resuming", "restoring", "founding", "unwinding",
                          "storing", "setup", "announcing", "live", "failing", "over"}]
  /\ td \in [Attempts -> {"no", "asked", "quiescing", "closing"}]
  /\ \A a \in Attempts : td[a] = "asked" => Publishing(a)
  /\ stop \in [Attempts -> {"no", "owner", "aborted"}]
  /\ shown \in [Processes -> [by : Attempts \cup {Nobody}, as : {"none", "session", "agent"}]]
  /\ factory \in [Processes -> {"active", "disposing", "disposed"}]
  /\ stops \in 0..MaxStops

\* No two handles of the session can write before their close is over: in one process
\* every attempt with a claim or a handle is the one in the map, and between processes
\* a handle that writes without another look at the kernel lock holds it.  Nobody takes
\* the lock from it but a crash: the timer of a closed handle, which writes behind the
\* owner's back where a lock was given back, has no lock while the owner has one.
SingleWriter ==
  \A a \in Attempts :
    /\ Owning(a) => writers[home[a]] = a
    /\ made[a] \/ io[a] = "locked" => lock = a

\* Nothing outlives what it was taken for: a claim and a pending creation belong to
\* an attempt that still holds or closes its handle, and so does the kernel lock but
\* for one taken behind the close; a registered session belongs to a creation or an
\* agent that is not over; and behind a disposed factory there is at most a handle
\* nobody waited for, on its way out, or the timer of one that is closed.
NothingLeft ==
  /\ TypeOK
  /\ \A p \in Processes :
       /\ writers[p] # Nobody => Owning(writers[p]) /\ home[writers[p]] = p
       /\ pending[p] => writers[p] # Nobody /\ ~made[writers[p]]
       /\ shown[p] # Hidden => pc[shown[p].by] \notin {"new", "over"}
       /\ factory[p] = "disposed" =>
            /\ shown[p] = Hidden
            /\ \A a \in Attempts : home[a] = p => Ended(a) \/ Abandoned(a)
  /\ lock # Nobody => Owning(lock) \/ late[lock] = "keeps"

Life == INSTANCE AgentLife WITH writer <- writers
\* Agents come and go as the rest of the harness relies on.
KeepsContract == Life!Spec

\* A creation returns a live agent or ends, a requested teardown and an
\* abandoned handle come to their end; behind each no claim stands.
SettlesFor(a) ==
  (pc[a] \notin {"new", "live"} \/ td[a] # "no")
    ~> (td[a] = "no" /\ (pc[a] = "live" \/ (pc[a] = "over" /\ Ended(a))))
=============================================================================
