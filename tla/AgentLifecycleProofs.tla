------------------------ MODULE AgentLifecycleProofs ------------------------
(***************************************************************************)
(* Safety of the agents of one session, for any attempts and processes and *)
(* any number of aborts, unloads, disposals and crashes.                   *)
(*                                                                         *)
(* Who writes rests on ownership alone (OwnershipInv).  What is left       *)
(* behind rests on where each attempt stands: its place says what its      *)
(* handle and its teardown may be doing (Places), and what is registered   *)
(* in its process (Entries).                                               *)
(***************************************************************************)
EXTENDS AgentLifecycle, TLAPS

-----------------------------------------------------------------------------
(* The inductive invariant.                                                *)

Entry == [by : Attempts \cup {Nobody}, as : {"none", "session", "agent"}]

LifecycleTypeOK ==
  /\ pc \in [Attempts -> {"new", "creating", "resuming", "restoring", "founding", "unwinding",
                          "storing", "setup", "announcing", "live", "failing", "over"}]
  /\ td \in [Attempts -> {"no", "asked", "quiescing", "closing"}]
  /\ stop \in [Attempts -> {"no", "owner", "aborted"}]
  /\ shown \in [Processes -> Entry]
  /\ factory \in [Processes -> {"active", "disposing", "disposed"}]
  /\ stops \in 0..MaxStops

\* Owners and the map agree, and a lock, a pending creation, a write and a
\* materialized log are each of somebody whose handle has come far enough.
OwnershipInv ==
  /\ \A a \in Attempts :
       /\ Owning(a) => writers[home[a]] = a
       /\ made[a] \/ io[a] = "locked" => lock = a
       /\ lock = a => io[a] \in {"locked", "open", "closing"} \/ late[a] = "keeps"
       /\ made[a] \/ op[a] = "writing" => io[a] \in {"open", "closing"}
  /\ \A p \in Processes :
       /\ writers[p] # Nobody => Owning(writers[p]) /\ home[writers[p]] = p
       /\ pending[p] => /\ writers[p] # Nobody /\ ~made[writers[p]]
                        /\ io[writers[p]] \in {"open", "closing"}

\* What the handle and the teardown of an attempt may be at its place.
PlaceOf(a) ==
  /\ pc[a] \in {"live", "failing"} =>
       IF td[a] = "closing" THEN io[a] \in {"closing", "none"} ELSE io[a] = "open"
  /\ pc[a] = "failing" => td[a] \in {"quiescing", "closing"}
  /\ Publishing(a) => io[a] = "open" /\ td[a] \in {"no", "asked"}
  /\ pc[a] \notin {"live", "failing"} /\ ~Publishing(a) => td[a] = "no"
  /\ pc[a] = "live" => td[a] # "asked"
  /\ pc[a] = "new" => io[a] = "none"
  /\ pc[a] \in {"creating", "founding"} => io[a] \in {"creating", "looked", "open", "failed"}
  /\ pc[a] \in {"resuming", "restoring"} =>
       io[a] \in {"opening", "claimed", "locked", "open", "absent", "failed"}
  /\ pc[a] = "unwinding" => io[a] \in {"closing", "none"}
  /\ late[a] # "no" => io[a] = "none" /\ (pc[a] \in {"unwinding", "over"} \/ td[a] = "closing")

Places == \A a \in Attempts : PlaceOf(a)

\* A registered session is that of an attempt between its publication and its
\* end, which is at its place; a disposed factory has none under way.
Entries ==
  /\ \A p \in Processes :
       /\ shown[p] # Hidden => /\ shown[p].by \in Attempts /\ home[shown[p].by] = p
                               /\ pc[shown[p].by] \in {"setup", "announcing", "live", "failing"}
       /\ factory[p] = "disposed" => \A a \in Attempts : home[a] = p => pc[a] \in {"new", "over"}
  /\ \A a \in Attempts : pc[a] = "setup" => shown[home[a]] = [by |-> a, as |-> "session"]

LifecycleInv == OwnershipTypeOK /\ LifecycleTypeOK /\ OwnershipInv /\ Places /\ Entries

-----------------------------------------------------------------------------
(* The steps of one attempt, and types.                                    *)

\* A step of the backend for an attempt; what its signal says does not matter.
Persists(a) ==
  \/ \E stopped \in BOOLEAN :
       \/ CreateLook(a, stopped) \/ CreateRegister(a, stopped)
       \/ OpenClaim(a, stopped) \/ OpenLock(a, stopped) \/ OpenRead(a, stopped)
  \/ FirstWrite(a) \/ CloseDrain(a) \/ CloseRelease(a, shown[home[a]].by = a) \/ LateDrain(a)

\* Every other step of an attempt.
Proceeds(a) == CloseAbandoned(a) \/ Creation(a) \/ Teardown(a) \/ Environment(a)

\* A step of the system is one of an attempt or of a process.
LEMMA NextByActor ==
  ASSUME Next
  PROVE  \/ \E a \in Attempts : Persists(a) /\ UNCHANGED lifecycle
         \/ \E a \in Attempts : Proceeds(a)
         \/ \E p \in Processes : FactoryDisposes(p) \/ FactoryDisposed(p) \/ Remount(p) \/ Crash(p)
<1>1. ASSUME NEW a \in Attempts, Backend(a) PROVE (Persists(a) /\ UNCHANGED lifecycle) \/ CloseAbandoned(a)
  <2>1. LoadStopped(a) \in BOOLEAN
    BY DEF LoadStopped
  <2>2. QED
    BY <1>1, <2>1 DEF Backend, Persists
<1>2. QED
  BY <1>1 DEF Next, Proceeds, Late, Persists

\* Every attempt has its process, and nobody is not one of them.
LEMMA HomeTyped == OwnershipTypeOK => /\ \A a \in Attempts : home[a] \in Processes
                             /\ Nobody \notin Attempts
  BY OwnershipAssumption DEF OwnershipTypeOK

\* What the lifecycle itself does to an attempt's handle: it asks for one, or
\* forgets that it asked; it closes it; it starts a write.
HandleStep(a) ==
  /\ UNCHANGED <<home, writers, pending, lock, artifact, made, late>>
  /\ dirty' \in [Attempts -> BOOLEAN]
  /\ \/ UNCHANGED <<io, op>>
     \/ Ended(a) /\ UNCHANGED op /\ \E state \in {"creating", "opening", "none"} : Becomes(a, state)
     \/ io[a] = "open" /\ Closing(a)
     \/ io[a] = "open" /\ op' = [op EXCEPT ![a] = "writing"] /\ UNCHANGED io

LEMMA ProceedsOnHandle ==
  ASSUME OwnershipTypeOK, Places, NEW a \in Attempts, Proceeds(a)
  PROVE  HandleStep(a)
<1> dirty \in [Attempts -> BOOLEAN] /\ PlaceOf(a)
  BY DEF OwnershipTypeOK, Places
<1> USE DEF HandleStep, PlaceOf, Publishing, Acquiring, Ended, ownership, lifecycle
<1>1. CASE CloseAbandoned(a)
  BY <1>1 DEF CloseAbandoned
<1>2. CASE AcquireAborted(a)
  BY <1>2 DEF AcquireAborted
<1>3. CASE AcquireFails(a)
  BY <1>3 DEF AcquireFails, Goes, Over, Becomes
<1>4. CASE Unwound(a)
  BY <1>4 DEF Unwound
<1>5. CASE Initialize(a)
  BY <1>5 DEF Initialize
<1>6. CASE StoreSuffix(a)
  BY <1>6 DEF StoreSuffix, StartWrite
<1>7. CASE EnterSession(a)
  BY <1>7 DEF EnterSession
<1>8. CASE EndSetup(a)
  BY <1>8 DEF EndSetup
<1>9. CASE EndAnnounce(a)
  BY <1>9 DEF EndAnnounce
<1>10. CASE TeardownCloses(a)
  BY <1>10 DEF TeardownCloses
<1>11. CASE TeardownDetaches(a)
  BY <1>11 DEF TeardownDetaches
<1>12. ASSUME NEW seeded \in BOOLEAN, BeginCreate(a, seeded) PROVE HandleStep(a)
  BY <1>12 DEF BeginCreate
<1>13. CASE BeginResume(a)
  BY <1>13 DEF BeginResume, Opens
<1>14. CASE BeginConfigured(a)
  BY <1>14 DEF BeginConfigured, Opens
<1>15. CASE CallerAborts(a)
  BY <1>15 DEF CallerAborts
<1>16. CASE OwnerUnloads(a)
  BY <1>16 DEF OwnerUnloads
<1>17. CASE LiveEvent(a)
  BY <1>17 DEF LiveEvent, Route
<1>18. CASE LiveWrite(a)
  BY <1>18 DEF LiveWrite, StartWrite
<1>19. QED
  BY <1>1, <1>2, <1>3, <1>4, <1>5, <1>6, <1>7, <1>8, <1>9, <1>10, <1>11, <1>12, <1>13, <1>14,
     <1>15, <1>16, <1>17, <1>18
     DEF Proceeds, Creation, Teardown, Environment

LEMMA OwnershipTypeSteps ==
  ASSUME OwnershipTypeOK, NEW a \in Attempts, Persists(a) \/ HandleStep(a)
  PROVE  OwnershipTypeOK'
<1> USE HomeTyped DEF OwnershipTypeOK, Becomes, Forget, Unlocked
<1>1. ASSUME NEW stopped \in BOOLEAN, CreateLook(a, stopped) PROVE OwnershipTypeOK'
  BY <1>1 DEF CreateLook
<1>2. ASSUME NEW stopped \in BOOLEAN, CreateRegister(a, stopped) PROVE OwnershipTypeOK'
  BY <1>2 DEF CreateRegister
<1>3. ASSUME NEW stopped \in BOOLEAN, OpenClaim(a, stopped) PROVE OwnershipTypeOK'
  BY <1>3 DEF OpenClaim
<1>4. ASSUME NEW stopped \in BOOLEAN, OpenLock(a, stopped) PROVE OwnershipTypeOK'
  BY <1>4 DEF OpenLock
<1>5. ASSUME NEW stopped \in BOOLEAN, OpenRead(a, stopped) PROVE OwnershipTypeOK'
  BY <1>5 DEF OpenRead
<1>6. CASE FirstWrite(a)
  BY <1>6 DEF FirstWrite
<1>7. CASE CloseDrain(a)
  BY <1>7 DEF CloseDrain
<1>8. CASE CloseRelease(a, shown[home[a]].by = a)
  <2>1. Leftover(a, shown[home[a]].by = a) \in {"no", "create", "acquire", "keeps"}
    BY DEF Leftover
  <2>2. QED
    BY <1>8, <2>1 DEF CloseRelease
<1>9. CASE HandleStep(a)
  BY <1>9 DEF HandleStep, Closing
<1>10. CASE LateDrain(a)
  BY <1>10 DEF LateDrain
<1>11. QED
  BY <1>1, <1>2, <1>3, <1>4, <1>5, <1>6, <1>7, <1>8, <1>9, <1>10 DEF Persists

LEMMA TypeInit == Init => OwnershipTypeOK /\ LifecycleTypeOK
<1> SUFFICES ASSUME Init PROVE OwnershipTypeOK /\ LifecycleTypeOK
  OBVIOUS
<1>1. OwnershipTypeOK
  BY DEF Init, OwnershipInit, OwnershipTypeOK
<1>2. Hidden \in Entry
  BY DEF Hidden, Entry
<1>3. LifecycleTypeOK
  BY <1>2, LifecycleAssumption DEF Init, LifecycleTypeOK
<1>4. QED
  BY <1>1, <1>3

\* Only a creation, a resumption or a teardown moves its attempt, and what it
\* registers is that attempt.
LEMMA LifecycleTypeSteps ==
  ASSUME OwnershipTypeOK, LifecycleTypeOK, NEW a \in Attempts, Proceeds(a)
  PROVE  LifecycleTypeOK'
<1> home[a] \in Processes
  BY HomeTyped
<1> Hidden \in Entry /\ \A as \in {"session", "agent"} : [by |-> a, as |-> as] \in Entry
  BY DEF Hidden, Entry
<1> USE LifecycleAssumption DEF LifecycleTypeOK, lifecycle
<1>1. CASE CloseAbandoned(a)
  BY <1>1 DEF CloseAbandoned
<1>2. CASE AcquireAborted(a)
  BY <1>2 DEF AcquireAborted, Goes
<1>3. CASE AcquireFails(a)
  BY <1>3 DEF AcquireFails, Goes, Over
<1>4. CASE Unwound(a)
  BY <1>4 DEF Unwound, Over, Goes
<1>5. CASE Initialize(a)
  BY <1>5 DEF Initialize, Goes
<1>6. CASE StoreSuffix(a)
  BY <1>6 DEF StoreSuffix, StartWrite
<1>7. CASE EnterSession(a)
  BY <1>7 DEF EnterSession, Shows, Goes, Fails
<1>8. CASE EndSetup(a)
  BY <1>8 DEF EndSetup, Shows, Goes, Fails
<1>9. CASE EndAnnounce(a)
  BY <1>9 DEF EndAnnounce, Goes, Fails
<1>10. CASE TeardownCloses(a)
  BY <1>10 DEF TeardownCloses
<1>11. CASE TeardownDetaches(a)
  BY <1>11 DEF TeardownDetaches, Detached, Over, Goes
<1>12. ASSUME NEW seeded \in BOOLEAN, BeginCreate(a, seeded) PROVE LifecycleTypeOK'
  BY <1>12 DEF BeginCreate, Goes
<1>13. CASE BeginResume(a)
  BY <1>13 DEF BeginResume, Opens, Goes
<1>14. CASE BeginConfigured(a)
  BY <1>14 DEF BeginConfigured, Opens, Goes
<1>15. CASE CallerAborts(a)
  BY <1>15 DEF CallerAborts, Stops
<1>16. CASE OwnerUnloads(a)
  BY <1>16 DEF OwnerUnloads, Stops, Asked
<1>17. CASE LiveEvent(a)
  BY <1>17 DEF LiveEvent, Route
<1>18. CASE LiveWrite(a)
  BY <1>18 DEF LiveWrite, StartWrite
<1>19. QED
  BY <1>1, <1>2, <1>3, <1>4, <1>5, <1>6, <1>7, <1>8, <1>9, <1>10, <1>11, <1>12, <1>13, <1>14,
     <1>15, <1>16, <1>17, <1>18
     DEF Proceeds, Creation, Teardown, Environment

LEMMA TypeProcess ==
  ASSUME OwnershipTypeOK, LifecycleTypeOK, NEW p \in Processes,
         FactoryDisposes(p) \/ FactoryDisposed(p) \/ Remount(p) \/ Crash(p)
  PROVE  OwnershipTypeOK' /\ LifecycleTypeOK'
<1>1. CASE FactoryDisposes(p) \/ FactoryDisposed(p) \/ Remount(p)
  <2>1. OwnershipTypeOK'
    BY <1>1 DEF FactoryDisposes, FactoryDisposed, Remount, OwnershipTypeOK, ownership
  <2>2. LifecycleTypeOK'
    <3>1. CASE FactoryDisposes(p)
      BY <3>1, LifecycleAssumption DEF FactoryDisposes, LifecycleTypeOK, Stops, Asked
    <3>2. CASE FactoryDisposed(p) \/ Remount(p)
      BY <3>2 DEF FactoryDisposed, Remount, LifecycleTypeOK
    <3>3. QED
      BY <1>1, <3>1, <3>2
  <2>3. QED
    BY <2>1, <2>2
<1>2. CASE Crash(p)
  <2>1. OwnershipTypeOK'
    BY <1>2 DEF Crash, ProcessDies, OwnershipTypeOK
  <2>2. Hidden \in Entry
    BY DEF Hidden, Entry
  <2>3. LifecycleTypeOK'
    BY <1>2, <2>2, LifecycleAssumption DEF Crash, LifecycleTypeOK, Stops
  <2>4. QED
    BY <2>1, <2>3
<1>3. QED
  BY <1>1, <1>2

-----------------------------------------------------------------------------
(* Who may write.                                                          *)

LEMMA OwnershipStart == Init => OwnershipInv
  BY OwnershipAssumption DEF Init, OwnershipInit, OwnershipInv, Owning

\* A claim is taken where there is none and given back by the one who took it,
\* and so is the lock.
LEMMA OwnershipSteps ==
  ASSUME OwnershipTypeOK, OwnershipInv, NEW a \in Attempts, Persists(a) \/ HandleStep(a)
  PROVE  OwnershipInv'
<1> USE HomeTyped DEF OwnershipTypeOK, OwnershipInv, Owning, Becomes, Forget, Unlocked
<1>1. ASSUME NEW stopped \in BOOLEAN, CreateLook(a, stopped) PROVE OwnershipInv'
  BY <1>1 DEF CreateLook
<1>2. ASSUME NEW stopped \in BOOLEAN, CreateRegister(a, stopped) PROVE OwnershipInv'
  BY <1>2 DEF CreateRegister
<1>3. ASSUME NEW stopped \in BOOLEAN, OpenClaim(a, stopped) PROVE OwnershipInv'
  BY <1>3 DEF OpenClaim
<1>4. ASSUME NEW stopped \in BOOLEAN, OpenLock(a, stopped) PROVE OwnershipInv'
  BY <1>4 DEF OpenLock
<1>5. ASSUME NEW stopped \in BOOLEAN, OpenRead(a, stopped) PROVE OwnershipInv'
  BY <1>5 DEF OpenRead
<1>6. CASE FirstWrite(a)
  BY <1>6 DEF FirstWrite
<1>7. CASE CloseDrain(a)
  BY <1>7 DEF CloseDrain
<1>8. CASE CloseRelease(a, shown[home[a]].by = a)
  BY <1>8 DEF CloseRelease, Drained
<1>9. CASE HandleStep(a)
  BY <1>9 DEF HandleStep, Closing, Ended
<1>10. CASE LateDrain(a)
  <2>1. UNCHANGED <<home, writers, io, op, made>> /\ (lock' = lock \/ (lock = Nobody /\ lock' = a))
    BY <1>10 DEF LateDrain
  <2>2. \A q \in Processes : pending'[q] => pending[q]
    BY <1>10 DEF LateDrain
  <2>3. \A b \in Attempts : made[b] \/ io[b] = "locked" => lock' = b
    BY <2>1
  <2>4. \A b \in Attempts : lock' = b => io[b] \in {"locked", "open", "closing"} \/ late'[b] = "keeps"
    <3> SUFFICES ASSUME NEW b \in Attempts, lock' = b
                 PROVE  io[b] \in {"locked", "open", "closing"} \/ late'[b] = "keeps"
      OBVIOUS
    <3>1. CASE b = a
      BY <1>10, <3>1 DEF LateDrain
    <3>2. CASE b # a
      BY <1>10, <2>1, <3>2 DEF LateDrain
    <3>3. QED
      BY <3>1, <3>2
  <2>5. QED
    BY <2>1, <2>2, <2>3, <2>4
<1>11. QED
  BY <1>1, <1>2, <1>3, <1>4, <1>5, <1>6, <1>7, <1>8, <1>9, <1>10 DEF Persists

\* A crash takes all of one process's claims and locks, and no other's.
LEMMA OwnershipProcess ==
  ASSUME OwnershipTypeOK, OwnershipInv, NEW p \in Processes,
         FactoryDisposes(p) \/ FactoryDisposed(p) \/ Remount(p) \/ Crash(p)
  PROVE  OwnershipInv'
<1>1. CASE FactoryDisposes(p) \/ FactoryDisposed(p) \/ Remount(p)
  BY <1>1 DEF FactoryDisposes, FactoryDisposed, Remount, OwnershipInv, ownership, Owning
<1>2. CASE Crash(p)
  BY <1>2, HomeTyped DEF Crash, ProcessDies, OwnershipInv, OwnershipTypeOK, Owning
<1>3. QED
  BY <1>1, <1>2

-----------------------------------------------------------------------------
(* Where each attempt stands.                                              *)

LEMMA PlacesStart == Init => Places /\ Entries
  BY DEF Init, OwnershipInit, Places, PlaceOf, Entries, Publishing

\* The backend moves a handle through the states its attempt's place allows.
LEMMA PlacesPersists ==
  ASSUME OwnershipTypeOK, LifecycleTypeOK, Places, NEW a \in Attempts, Persists(a), UNCHANGED lifecycle
  PROVE  Places'
<1>1. \A b \in Attempts : b # a => io'[b] = io[b] /\ late'[b] = late[b]
  BY DEF Persists, CreateLook, CreateRegister, OpenClaim, OpenLock, OpenRead, FirstWrite, CloseDrain,
         CloseRelease, LateDrain, Becomes, OwnershipTypeOK
<1>2. \/ io'[a] = io[a]
      \/ io[a] = "creating" /\ io'[a] \in {"looked", "failed"}
      \/ io[a] = "looked" /\ io'[a] \in {"open", "failed"}
      \/ io[a] = "opening" /\ io'[a] \in {"claimed", "failed"}
      \/ io[a] = "claimed" /\ io'[a] \in {"locked", "absent", "failed"}
      \/ io[a] = "locked" /\ io'[a] \in {"open", "failed"}
      \/ io[a] = "closing" /\ io'[a] = "none"
  BY DEF Persists, CreateLook, CreateRegister, OpenClaim, OpenLock, OpenRead, FirstWrite, CloseDrain,
         CloseRelease, LateDrain, Becomes, OwnershipTypeOK
<1>a. late'[a] = late[a] \/ (late[a] # "no" /\ io'[a] = io[a]) \/ (io[a] = "closing" /\ io'[a] = "none")
  BY DEF Persists, CreateLook, CreateRegister, OpenClaim, OpenLock, OpenRead, FirstWrite, CloseDrain,
         CloseRelease, LateDrain, Becomes, OwnershipTypeOK
<1>3. PlaceOf(a)'
  BY <1>2, <1>a DEF Places, PlaceOf, Publishing, lifecycle, LifecycleTypeOK
<1>4. ASSUME NEW b \in Attempts, b # a PROVE PlaceOf(b)'
  BY <1>1, <1>4 DEF Places, PlaceOf, Publishing, lifecycle
<1>5. QED
  BY <1>3, <1>4 DEF Places

\* A creation, a resumption and a teardown keep to their places.
LEMMA PlacesProceeds ==
  ASSUME OwnershipTypeOK, LifecycleTypeOK, Places, NEW a \in Attempts, Proceeds(a)
  PROVE  Places'
<1>1. \A b \in Attempts : b # a => io'[b] = io[b] /\ pc'[b] = pc[b] /\ td'[b] = td[b] /\ late'[b] = late[b]
  <2> USE DEF OwnershipTypeOK, LifecycleTypeOK, ownership, lifecycle, Becomes
  <2>1. CASE CloseAbandoned(a)
    BY <2>1 DEF CloseAbandoned, Closing
  <2>2. CASE AcquireAborted(a)
    BY <2>2 DEF AcquireAborted, Goes
  <2>3. CASE AcquireFails(a)
    BY <2>3 DEF AcquireFails, Goes, Over
  <2>4. CASE Unwound(a)
    BY <2>4 DEF Unwound, Over, Goes
  <2>5. CASE Initialize(a)
    BY <2>5 DEF Initialize, Goes, Closing
  <2>6. CASE StoreSuffix(a)
    BY <2>6 DEF StoreSuffix, StartWrite
  <2>7. CASE EnterSession(a)
    BY <2>7 DEF EnterSession, Goes, Fails
  <2>8. CASE EndSetup(a)
    BY <2>8 DEF EndSetup, Goes, Fails
  <2>9. CASE EndAnnounce(a)
    BY <2>9 DEF EndAnnounce, Goes, Fails
  <2>10. CASE TeardownCloses(a)
    BY <2>10 DEF TeardownCloses, Closing
  <2>11. CASE TeardownDetaches(a)
    BY <2>11 DEF TeardownDetaches, Over, Goes
  <2>12. ASSUME NEW seeded \in BOOLEAN, BeginCreate(a, seeded) PROVE \A b \in Attempts : b # a => io'[b] = io[b] /\ pc'[b] = pc[b] /\ td'[b] = td[b] /\ late'[b] = late[b]
    BY <2>12 DEF BeginCreate, Goes
  <2>13. CASE BeginResume(a)
    BY <2>13 DEF BeginResume, Opens, Goes
  <2>14. CASE BeginConfigured(a)
    BY <2>14 DEF BeginConfigured, Opens, Goes
  <2>15. CASE CallerAborts(a)
    BY <2>15 DEF CallerAborts
  <2>16. CASE OwnerUnloads(a)
    BY <2>16 DEF OwnerUnloads, Asked
  <2>17. CASE LiveEvent(a)
    BY <2>17 DEF LiveEvent, Route
  <2>18. CASE LiveWrite(a)
    BY <2>18 DEF LiveWrite, StartWrite
  <2>19. QED
    BY <2>1, <2>2, <2>3, <2>4, <2>5, <2>6, <2>7, <2>8, <2>9, <2>10, <2>11, <2>12, <2>13, <2>14,
     <2>15, <2>16, <2>17, <2>18
     DEF Proceeds, Creation, Teardown, Environment
<1>2. PlaceOf(a)'
  <2> PlaceOf(a)
    BY DEF Places
  <2> USE DEF OwnershipTypeOK, LifecycleTypeOK, ownership, lifecycle, Becomes, PlaceOf, Publishing, Acquiring
  <2>1. CASE CloseAbandoned(a)
    BY <2>1 DEF CloseAbandoned, Closing
  <2>2. CASE AcquireAborted(a)
    BY <2>2 DEF AcquireAborted, Goes
  <2>3. CASE AcquireFails(a)
    BY <2>3 DEF AcquireFails, Goes, Over
  <2>4. CASE Unwound(a)
    BY <2>4 DEF Unwound, Over, Goes
  <2>5. CASE Initialize(a)
    BY <2>5 DEF Initialize, Goes, Closing
  <2>6. CASE StoreSuffix(a)
    BY <2>6 DEF StoreSuffix, StartWrite
  <2>7. CASE EnterSession(a)
    BY <2>7 DEF EnterSession, Goes, Fails, Aborted
  <2>8. CASE EndSetup(a)
    BY <2>8 DEF EndSetup, Goes, Fails, Aborted
  <2>9. CASE EndAnnounce(a)
    BY <2>9 DEF EndAnnounce, Goes, Fails, Aborted
  <2>10. CASE TeardownCloses(a)
    BY <2>10 DEF TeardownCloses, Closing
  <2>11. CASE TeardownDetaches(a)
    BY <2>11 DEF TeardownDetaches, Over, Goes
  <2>12. ASSUME NEW seeded \in BOOLEAN, BeginCreate(a, seeded) PROVE PlaceOf(a)'
    BY <2>12 DEF BeginCreate, Goes
  <2>13. CASE BeginResume(a)
    BY <2>13 DEF BeginResume, Opens, Goes
  <2>14. CASE BeginConfigured(a)
    BY <2>14 DEF BeginConfigured, Opens, Goes
  <2>15. CASE CallerAborts(a)
    BY <2>15 DEF CallerAborts
  <2>16. CASE OwnerUnloads(a)
    BY <2>16 DEF OwnerUnloads, Asked
  <2>17. CASE LiveEvent(a)
    BY <2>17 DEF LiveEvent, Route
  <2>18. CASE LiveWrite(a)
    BY <2>18 DEF LiveWrite, StartWrite
  <2>19. QED
    BY <2>1, <2>2, <2>3, <2>4, <2>5, <2>6, <2>7, <2>8, <2>9, <2>10, <2>11, <2>12, <2>13, <2>14,
     <2>15, <2>16, <2>17, <2>18
     DEF Proceeds, Creation, Teardown, Environment
<1>3. ASSUME NEW b \in Attempts, b # a PROVE PlaceOf(b)'
  BY <1>1, <1>3 DEF Places, PlaceOf, Publishing
<1>4. QED
  BY <1>2, <1>3 DEF Places

LEMMA PlacesProcess ==
  ASSUME OwnershipTypeOK, LifecycleTypeOK, Places, NEW p \in Processes,
         FactoryDisposes(p) \/ FactoryDisposed(p) \/ Remount(p) \/ Crash(p)
  PROVE  Places'
<1> USE DEF Places, PlaceOf, Publishing, ownership, LifecycleTypeOK, OwnershipTypeOK
<1>1. CASE FactoryDisposes(p)
  BY <1>1 DEF FactoryDisposes, Asked
<1>2. CASE FactoryDisposed(p) \/ Remount(p)
  BY <1>2 DEF FactoryDisposed, Remount
<1>3. CASE Crash(p)
  BY <1>3 DEF Crash, ProcessDies
<1>4. QED
  BY <1>1, <1>2, <1>3

-----------------------------------------------------------------------------
(* What is registered.                                                     *)

\* The registration edges: an attempt enters an empty place, and only it, or a
\* crash, empties that place again.
LEMMA EntriesProceeds ==
  ASSUME OwnershipTypeOK, LifecycleTypeOK, Places, Entries, NEW a \in Attempts, Proceeds(a)
  PROVE  Entries'
<1> home[a] \in Processes /\ home' = home /\ PlaceOf(a)
  BY HomeTyped, ProceedsOnHandle DEF HandleStep, Places
<1> Hidden.by = Nobody /\ Nobody \notin Attempts
  BY OwnershipAssumption DEF Hidden
<1> \A b \in Attempts : pc[b] = "setup" => shown[home[b]] # Hidden /\ shown[home[b]].by = b
  <2> SUFFICES ASSUME NEW b \in Attempts, pc[b] = "setup"
               PROVE  shown[home[b]] # Hidden /\ shown[home[b]].by = b
    OBVIOUS
  <2>1. shown[home[b]] = [by |-> b, as |-> "session"]
    BY DEF Entries
  <2>2. [by |-> b, as |-> "session"].by = b
    OBVIOUS
  <2>3. shown[home[b]].by = b
    BY <2>1, <2>2
  <2>4. QED
    BY <2>3
<1> \A as : [by |-> a, as |-> as].by = a
  OBVIOUS
<1> USE DEF LifecycleTypeOK, Entries, PlaceOf, Publishing, lifecycle
<1>1. CASE CloseAbandoned(a)
  BY <1>1 DEF CloseAbandoned
<1>2. CASE AcquireAborted(a)
  BY <1>2 DEF AcquireAborted, Goes
<1>3. CASE AcquireFails(a)
  BY <1>3 DEF AcquireFails, Goes, Over
<1>4. CASE Unwound(a)
  BY <1>4 DEF Unwound, Over, Goes
<1>5. CASE Initialize(a)
  BY <1>5 DEF Initialize, Goes, Acquiring
<1>6. CASE StoreSuffix(a)
  BY <1>6 DEF StoreSuffix, StartWrite
<1>7. CASE EnterSession(a)
  <2>1. CASE Fails(a) /\ UNCHANGED shown
    BY <1>7, <2>1 DEF EnterSession, Goes, Fails
  <2>2. CASE shown[home[a]] = Hidden /\ Shows(a, "session")
    <3>1. \A b \in Attempts : home[b] = home[a] => pc[b] # "setup"
      BY <2>2
    <3>2. pc' = [pc EXCEPT ![a] = "setup"] \/ pc' = [pc EXCEPT ![a] = "failing"]
      BY <1>7 DEF EnterSession, Goes, Fails
    <3>3. pc[a] = "storing" /\ UNCHANGED factory
      BY <1>7 DEF EnterSession
    <3>4. shown' = [shown EXCEPT ![home[a]] = [by |-> a, as |-> "session"]]
      BY <2>2 DEF Shows
    <3>5. QED
      BY <3>1, <3>2, <3>3, <3>4
  <2>3. QED
    BY <1>7, <2>1, <2>2 DEF EnterSession
<1>8. CASE EndSetup(a)
  <2>1. CASE Fails(a) /\ UNCHANGED shown
    BY <1>8, <2>1 DEF EndSetup, Goes, Fails
  <2>2. CASE Shows(a, "agent") /\ Goes(a, "announcing")
    <3>1. \A b \in Attempts : home[b] = home[a] /\ pc[b] = "setup" => b = a
      BY <1>8 DEF EndSetup
    <3>2. pc[a] = "setup" /\ UNCHANGED factory
      BY <1>8 DEF EndSetup
    <3>3. shown' = [shown EXCEPT ![home[a]] = [by |-> a, as |-> "agent"]]
      BY <2>2 DEF Shows
    <3>4. QED
      BY <2>2, <3>1, <3>2, <3>3 DEF Goes
  <2>3. QED
    BY <1>8, <2>1, <2>2 DEF EndSetup
<1>9. CASE EndAnnounce(a)
  BY <1>9 DEF EndAnnounce, Goes, Fails
<1>10. CASE TeardownCloses(a)
  BY <1>10 DEF TeardownCloses
<1>11. CASE TeardownDetaches(a)
  BY <1>11 DEF TeardownDetaches, Detached, Over, Goes
<1>12. ASSUME NEW seeded \in BOOLEAN, BeginCreate(a, seeded) PROVE Entries'
  BY <1>12 DEF BeginCreate, Goes, Active
<1>13. CASE BeginResume(a)
  BY <1>13 DEF BeginResume, Opens, Goes, Active
<1>14. CASE BeginConfigured(a)
  BY <1>14 DEF BeginConfigured, Opens, Goes, Active
<1>15. CASE CallerAborts(a)
  BY <1>15 DEF CallerAborts
<1>16. CASE OwnerUnloads(a)
  BY <1>16 DEF OwnerUnloads, Asked
<1>17. CASE LiveEvent(a)
  BY <1>17 DEF LiveEvent, Route
<1>18. CASE LiveWrite(a)
  BY <1>18 DEF LiveWrite, StartWrite
<1>19. QED
  BY <1>1, <1>2, <1>3, <1>4, <1>5, <1>6, <1>7, <1>8, <1>9, <1>10, <1>11, <1>12, <1>13, <1>14,
     <1>15, <1>16, <1>17, <1>18
     DEF Proceeds, Creation, Teardown, Environment

LEMMA EntriesProcess ==
  ASSUME OwnershipTypeOK, LifecycleTypeOK, Entries, NEW p \in Processes,
         FactoryDisposes(p) \/ FactoryDisposed(p) \/ Remount(p) \/ Crash(p)
  PROVE  Entries'
<1> USE HomeTyped DEF Entries, ownership, LifecycleTypeOK, Hidden, Entry
<1>1. CASE FactoryDisposes(p)
  BY <1>1 DEF FactoryDisposes
<1>2. CASE FactoryDisposed(p)
  BY <1>2 DEF FactoryDisposed
<1>3. CASE Remount(p)
  BY <1>3 DEF Remount
<1>4. CASE Crash(p)
  BY <1>4 DEF Crash, ProcessDies
<1>5. QED
  BY <1>1, <1>2, <1>3, <1>4

\* The invariant holds in every reachable state.
LEMMA LifecycleSafe == Spec => []LifecycleInv
<1>1. Init => LifecycleInv
  BY TypeInit, OwnershipStart, PlacesStart DEF LifecycleInv
<1>2. LifecycleInv /\ [Next]_vars => LifecycleInv'
  <2> SUFFICES ASSUME LifecycleInv, [Next]_vars PROVE LifecycleInv'
    OBVIOUS
  <2>1. ASSUME NEW a \in Attempts, Persists(a), UNCHANGED lifecycle PROVE LifecycleInv'
    <3>1. LifecycleTypeOK'
      BY <2>1 DEF LifecycleInv, LifecycleTypeOK, lifecycle
    <3>2. home' = home
      BY <2>1 DEF Persists, CreateLook, CreateRegister, OpenClaim, OpenLock, OpenRead, FirstWrite,
                  CloseDrain, CloseRelease, LateDrain
    <3>3. Entries'
      BY <2>1, <3>2 DEF LifecycleInv, Entries, lifecycle
    <3>4. QED
      BY <2>1, <3>1, <3>3, OwnershipTypeSteps, OwnershipSteps, PlacesPersists DEF LifecycleInv
  <2>2. ASSUME NEW a \in Attempts, Proceeds(a) PROVE LifecycleInv'
    <3>1. HandleStep(a)
      BY <2>2, ProceedsOnHandle DEF LifecycleInv
    <3>2. QED
      BY <2>2, <3>1, OwnershipTypeSteps, LifecycleTypeSteps, OwnershipSteps, PlacesProceeds, EntriesProceeds
         DEF LifecycleInv
  <2>3. ASSUME NEW p \in Processes,
               FactoryDisposes(p) \/ FactoryDisposed(p) \/ Remount(p) \/ Crash(p)
        PROVE  LifecycleInv'
    BY <2>3, TypeProcess, OwnershipProcess, PlacesProcess, EntriesProcess DEF LifecycleInv
  <2>4. CASE UNCHANGED vars
    BY <2>4 DEF vars, ownership, lifecycle, LifecycleInv, OwnershipTypeOK, LifecycleTypeOK, OwnershipInv,
                Owning, Places, PlaceOf, Publishing, Entries
  <2>5. QED
    BY <2>1, <2>2, <2>3, <2>4, NextByActor
<1>3. QED
  BY <1>1, <1>2, PTL DEF Spec

\* Until its close is over, the handle of an attempt is the one handle of its process
\* that can write, and one that writes without another look holds the kernel lock:
\* whatever aborts, unloads, disposals and crashes intervene, and although the timer
\* of a closed handle may take a free lock, or write where it gave one back.
THEOREM LifecycleSingleWriter == Spec => []SingleWriter
<1>1. LifecycleInv => SingleWriter
  BY DEF LifecycleInv, OwnershipInv, SingleWriter
<1>2. QED
  BY <1>1, LifecycleSafe, PTL

\* Whatever way an attempt ends, no claim, pending creation or registered session
\* outlives the attempt it was taken for, and no kernel lock but one that the timer
\* of its closed handle took.
THEOREM LifecycleLeavesNothing == Spec => []NothingLeft
<1>1. LifecycleInv => NothingLeft
  <2> SUFFICES ASSUME LifecycleInv PROVE NothingLeft
    OBVIOUS
  <2>1. TypeOK
    BY DEF LifecycleInv, LifecycleTypeOK, Entry, Places, PlaceOf, TypeOK
  <2>2. ASSUME NEW p \in Processes, factory[p] = "disposed"
        PROVE  shown[p] = Hidden /\ \A a \in Attempts : home[a] = p => Ended(a) \/ Abandoned(a)
    BY <2>2 DEF LifecycleInv, Entries, Places, PlaceOf, Ended, Abandoned
  <2>3. ASSUME NEW p \in Processes, shown[p] # Hidden
        PROVE  pc[shown[p].by] \notin {"new", "over"}
    BY <2>3 DEF LifecycleInv, Entries
  <2>4. ASSUME NEW p \in Processes
        PROVE  /\ writers[p] # Nobody => Owning(writers[p]) /\ home[writers[p]] = p
               /\ pending[p] => writers[p] # Nobody /\ ~made[writers[p]]
    BY DEF LifecycleInv, OwnershipInv
  <2>5. lock # Nobody => Owning(lock) \/ late[lock] = "keeps"
    BY <2>1 DEF LifecycleInv, OwnershipInv, OwnershipTypeOK, Owning
  <2>6. QED
    BY <2>1, <2>2, <2>3, <2>4, <2>5 DEF NothingLeft
<1>2. QED
  BY <1>1, LifecycleSafe, PTL

-----------------------------------------------------------------------------
(* The contract.                                                           *)

LifeView == <<home, writers, shown, lock>>

\* The initial states are the contract's.
LEMMA ContractStarts == Init => Life!Init
  BY OwnershipAssumption DEF Init, OwnershipInit, Life!Init, Life!Hidden, Hidden

\* A backend step claims, locks, gives back, or is none of the contract's.
LEMMA ContractPersists ==
  ASSUME LifecycleInv, NEW a \in Attempts, Persists(a), UNCHANGED lifecycle
  PROVE  Life!Next \/ UNCHANGED LifeView
<1> DEFINE p == home[a]
<1> p \in Processes
  BY HomeTyped DEF LifecycleInv
<1>1. UNCHANGED <<home, shown>>
  BY DEF Persists, CreateLook, CreateRegister, OpenClaim, OpenLock, OpenRead, FirstWrite, CloseDrain,
         CloseRelease, LateDrain, lifecycle
<1> HIDE DEF p
<1> SUFFICES Life!Claim(p, a) \/ Life!Seize(a) \/ Life!Lock(p) \/ Life!Yield(p) \/ UNCHANGED <<writers, lock>>
  BY <1>1 DEF Life!Next, LifeView
<1>2. ASSUME Owning(a) PROVE writers[p] = a /\ writers[p] # Nobody
  BY <1>2, OwnershipAssumption DEF LifecycleInv, OwnershipInv, p
<1>3. ASSUME NEW stopped \in BOOLEAN, CreateLook(a, stopped) PROVE Life!Claim(p, a) \/ Life!Seize(a) \/ Life!Lock(p) \/ Life!Yield(p) \/ UNCHANGED <<writers, lock>>
  BY <1>3 DEF CreateLook
<1>4. ASSUME NEW stopped \in BOOLEAN, CreateRegister(a, stopped) PROVE Life!Claim(p, a) \/ Life!Seize(a) \/ Life!Lock(p) \/ Life!Yield(p) \/ UNCHANGED <<writers, lock>>
  BY <1>1, <1>4 DEF CreateRegister, Life!Claim, p
<1>5. ASSUME NEW stopped \in BOOLEAN, OpenClaim(a, stopped) PROVE Life!Claim(p, a) \/ Life!Seize(a) \/ Life!Lock(p) \/ Life!Yield(p) \/ UNCHANGED <<writers, lock>>
  BY <1>1, <1>5 DEF OpenClaim, Life!Claim, p
<1>6. ASSUME NEW stopped \in BOOLEAN, OpenLock(a, stopped) PROVE Life!Claim(p, a) \/ Life!Seize(a) \/ Life!Lock(p) \/ Life!Yield(p) \/ UNCHANGED <<writers, lock>>
  <2>1. Owning(a) /\ lock # a
    BY <1>6 DEF OpenLock, Owning, LifecycleInv, OwnershipInv, Places, PlaceOf
  <2>2. CASE Forget(home[a]) /\ UNCHANGED lock
    BY <1>1, <1>2, <2>1, <2>2 DEF Forget, Life!Yield, p
  <2>3. CASE lock = Nobody /\ lock' = a /\ UNCHANGED writers
    BY <1>1, <1>2, <2>1, <2>3 DEF Life!Lock
  <2>4. QED
    BY <1>6, <2>2, <2>3 DEF OpenLock
<1>7. ASSUME NEW stopped \in BOOLEAN, OpenRead(a, stopped) PROVE Life!Claim(p, a) \/ Life!Seize(a) \/ Life!Lock(p) \/ Life!Yield(p) \/ UNCHANGED <<writers, lock>>
  <2>1. Owning(a)
    BY <1>7 DEF OpenRead, Owning
  <2>2. QED
    BY <1>1, <1>2, <1>7, <2>1 DEF OpenRead, Forget, Unlocked, Life!Yield, p
<1>8. CASE FirstWrite(a)
  <2>1. Owning(a) /\ UNCHANGED writers
    BY <1>8 DEF FirstWrite, Owning, LifecycleInv, OwnershipInv
  <2>2. lock' = lock \/ (lock = Nobody /\ lock' = a)
    BY <1>8 DEF FirstWrite
  <2>3. QED
    BY <1>1, <1>2, <2>1, <2>2 DEF Life!Lock
<1>9. CASE CloseDrain(a)
  BY <1>9 DEF CloseDrain
<1>10. CASE CloseRelease(a, shown[home[a]].by = a)
  <2>1. Owning(a)
    BY <1>10 DEF CloseRelease, Owning
  <2>2. QED
    BY <1>1, <1>2, <1>10, <2>1 DEF CloseRelease, Forget, Unlocked, Life!Yield, p
<1>11. CASE LateDrain(a)
  <2>1. ~Owning(a)
    BY <1>11 DEF LateDrain, LifecycleInv, Places, PlaceOf, Owning
  <2>2. writers[p] # a
    BY <2>1, OwnershipAssumption DEF LifecycleInv, OwnershipInv, p
  <2>3. QED
    BY <1>1, <1>11, <2>2 DEF LateDrain, Life!Seize, p
<1>12. QED
  BY <1>3, <1>4, <1>5, <1>6, <1>7, <1>8, <1>9, <1>10, <1>11 DEF Persists

\* A step of the lifecycle enters, introduces or withdraws its attempt, or
\* changes nothing the contract speaks of.
LEMMA ContractProceeds ==
  ASSUME LifecycleInv, NEW a \in Attempts, Proceeds(a)
  PROVE  Life!Next \/ UNCHANGED LifeView
<1> DEFINE p == home[a]
<1> p \in Processes
  BY HomeTyped DEF LifecycleInv
<1>1. UNCHANGED <<home, writers, lock>>
  BY ProceedsOnHandle DEF LifecycleInv, HandleStep
<1>2. PlaceOf(a) /\ (Owning(a) => writers[p] = a) /\ (writers[p] = a => Owning(a)) /\ a # Nobody
  BY OwnershipAssumption DEF LifecycleInv, OwnershipInv, Places
<1> HIDE DEF p
<1> SUFFICES Life!Appear(p) \/ Life!Introduce(p) \/ Life!Withdraw(p) \/ UNCHANGED shown
  BY <1>1 DEF Life!Next, LifeView
<1>3. CASE CloseAbandoned(a)
  BY <1>3 DEF CloseAbandoned, lifecycle
<1>4. CASE AcquireAborted(a)
  BY <1>4 DEF AcquireAborted, lifecycle
<1>5. CASE AcquireFails(a)
  BY <1>5 DEF AcquireFails, lifecycle
<1>6. CASE Unwound(a)
  BY <1>6 DEF Unwound, lifecycle
<1>7. CASE Initialize(a)
  BY <1>7 DEF Initialize, lifecycle
<1>8. CASE StoreSuffix(a)
  BY <1>8 DEF StoreSuffix, StartWrite, lifecycle
<1>9. CASE EnterSession(a)
  <2>1. CASE shown[home[a]] = Hidden /\ Shows(a, "session")
    <3>1. writers[p] = a
      BY <1>2, <1>9 DEF EnterSession, PlaceOf, Publishing, Owning
    <3>2. QED
      BY <1>1, <1>2, <2>1, <3>1 DEF Shows, Life!Appear, Life!Hidden, Hidden, p
  <2>2. QED
    BY <1>9, <2>1 DEF EnterSession
<1>10. CASE EndSetup(a)
  <2>1. CASE Shows(a, "agent")
    <3>1. writers[p] = a /\ pc[a] = "setup"
      BY <1>2, <1>10 DEF EndSetup, PlaceOf, Publishing, Owning
    <3>2. shown[p] = [by |-> a, as |-> "session"]
      BY <3>1 DEF LifecycleInv, Entries, p
    <3>3. [shown EXCEPT ![p].as = "agent"] = [shown EXCEPT ![p] = [by |-> a, as |-> "agent"]]
      <4>1. [shown[p] EXCEPT !.as = "agent"] = [by |-> a, as |-> "agent"]
        BY <3>2
      <4>2. QED
        BY <4>1
    <3>4. QED
      BY <1>1, <2>1, <3>1, <3>2, <3>3 DEF Shows, Life!Introduce, p
  <2>2. QED
    BY <1>10, <2>1 DEF EndSetup
<1>11. CASE EndAnnounce(a)
  BY <1>11 DEF EndAnnounce, lifecycle
<1>12. CASE TeardownCloses(a)
  BY <1>12 DEF TeardownCloses, lifecycle
<1>13. CASE TeardownDetaches(a)
  <2>1. CASE shown[p].by = a
    <3>1. writers[p] # a /\ shown' = [shown EXCEPT ![p] = Hidden]
      BY <1>2, <1>13, <2>1 DEF TeardownDetaches, Detached, Owning, p
    <3>2. shown[p] # Hidden
      BY <1>2, <2>1 DEF Hidden
    <3>3. QED
      BY <1>1, <2>1, <3>1, <3>2 DEF Life!Withdraw, Life!Hidden, Hidden
  <2>2. CASE shown[p].by # a
    BY <1>13, <2>2 DEF TeardownDetaches, Detached, p
  <2>3. QED
    BY <2>1, <2>2
<1>14. ASSUME NEW seeded \in BOOLEAN, BeginCreate(a, seeded) PROVE Life!Appear(p) \/ Life!Introduce(p) \/ Life!Withdraw(p) \/ UNCHANGED shown
  BY <1>14 DEF BeginCreate, lifecycle
<1>15. CASE BeginResume(a)
  BY <1>15 DEF BeginResume, Opens, lifecycle
<1>16. CASE BeginConfigured(a)
  BY <1>16 DEF BeginConfigured, Opens, lifecycle
<1>17. CASE CallerAborts(a)
  BY <1>17 DEF CallerAborts, lifecycle
<1>18. CASE OwnerUnloads(a)
  BY <1>18 DEF OwnerUnloads, lifecycle
<1>19. CASE LiveEvent(a)
  BY <1>19 DEF LiveEvent, lifecycle
<1>20. CASE LiveWrite(a)
  BY <1>20 DEF LiveWrite, StartWrite, lifecycle
<1>21. QED
  BY <1>3, <1>4, <1>5, <1>6, <1>7, <1>8, <1>9, <1>10, <1>11, <1>12, <1>13, <1>14, <1>15, <1>16,
     <1>17, <1>18, <1>19, <1>20
     DEF Proceeds, Creation, Teardown, Environment

\* Agents of one session come and go as AgentLife promises: each step of the
\* lifecycle is a step of that contract or leaves its state alone.
THEOREM LifecycleKeepsContract == Spec => KeepsContract
<1>1. Init => Life!Init
  BY ContractStarts
<1>2. LifecycleInv /\ [Next]_vars => [Life!Next]_LifeView
  <2> SUFFICES ASSUME LifecycleInv, [Next]_vars PROVE Life!Next \/ UNCHANGED LifeView
    OBVIOUS
  <2>1. ASSUME NEW p \in Processes,
               FactoryDisposes(p) \/ FactoryDisposed(p) \/ Remount(p) \/ Crash(p)
        PROVE  Life!Next \/ UNCHANGED LifeView
    <3>1. CASE FactoryDisposes(p) \/ FactoryDisposed(p) \/ Remount(p)
      BY <3>1 DEF FactoryDisposes, FactoryDisposed, Remount, LifeView, ownership
    <3>2. CASE Crash(p)
      BY <2>1, <3>2 DEF Crash, ProcessDies, Life!Next, Life!Crash, Life!Hidden, Hidden
    <3>3. QED
      BY <2>1, <3>1, <3>2
  <2>2. CASE UNCHANGED vars
    BY <2>2 DEF vars, ownership, lifecycle, LifeView
  <2>3. QED
    BY <2>1, <2>2, ContractPersists, ContractProceeds, NextByActor
<1>3. QED
  BY <1>1, <1>2, LifecycleSafe, PTL DEF Spec, KeepsContract, Life!Spec, LifeView

=============================================================================
