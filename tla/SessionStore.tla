---------------------------- MODULE SessionStore ----------------------------
(***************************************************************************)
(* The store of live sessions and the publication of their logs            *)
(* (packages/core/session/src/index.ts).  Everything is synchronous: what  *)
(* interleaves are the observers, which may call the store and the session *)
(* again while they are being told of something.  `stack` is the call      *)
(* stack of the dispatches; only its top runs.                             *)
(***************************************************************************)
EXTENDS Naturals, Sequences

CONSTANTS
  Sessions, Ids, IdOf,   \* session objects, and the id each is prepared with
  Observers,             \* the number of listeners of each kind of event
  MaxCalls, MaxDepth     \* bounds: calls of the store, and dispatches in one another

ASSUME StoreAssumption ==
  /\ IdOf \in [Sessions -> Ids] /\ Observers \in Nat \ {0}
  /\ MaxCalls \in Nat /\ MaxDepth \in Nat \ {0}

VARIABLES
  store,    \* the entered sessions, by id
  entry,    \* what each session is attached to, and its lifecycle there
  log,      \* the length of each log
  stack,    \* the dispatches under way
  seen,     \* history: what each observer has been told of each session since it
            \* was last entered
  calls     \* how many calls there have been

vars == <<store, entry, log, stack, seen, calls>>

None == {}
\* held: the caller still has the disposer that enter() returned.
Unattached == [at |-> "null", announcement |-> "pending", appending |-> FALSE,
               detachRequested |-> FALSE, held |-> FALSE]
Observer == 1..Observers
Unseen == [phase |-> "unseen", last |-> 0]

Init ==
  /\ store = [i \in Ids |-> None]
  /\ entry = [s \in Sessions |-> [Unattached EXCEPT !.at = "unborn"]]
  /\ log = [s \in Sessions |-> 0] /\ stack = <<>>
  /\ seen = [o \in Observer |-> [s \in Sessions |-> Unseen]]
  /\ calls = 0

Live(s) == entry[s].at = "store"
Holds(s) == {s}
Top == stack[Len(stack)]
Below == SubSeq(stack, 1, Len(stack) - 1)
\* Code runs outside of every dispatch, or in the observer that was told last.
Runs == (stack # <<>> => Top.inside) /\ calls < MaxCalls /\ calls' = calls + 1
Dispatched(kind, s, n) == [kind |-> kind, session |-> s, event |-> n, told |-> 0, inside |-> FALSE]
Dispatch(kind, s, n) == Len(stack) < MaxDepth /\ stack' = Append(stack, Dispatched(kind, s, n))

-----------------------------------------------------------------------------
(* The calls.                                                              *)

Quiet(s) == \A k \in DOMAIN stack : stack[k].session # s

Prepare(s) ==
  /\ Runs /\ entry[s].at = "unborn" /\ store[IdOf[s]] = None
  /\ entry' = [entry EXCEPT ![s] = Unattached]
  /\ UNCHANGED <<store, log, stack, seen>>

\* No caller enters a session again while its end is being told.
Enter(s) ==
  /\ Runs /\ Quiet(s) /\ store[IdOf[s]] = None /\ entry[s].at = "null"
  /\ store' = [store EXCEPT ![IdOf[s]] = Holds(s)]
  /\ entry' = [entry EXCEPT ![s] = [Unattached EXCEPT !.at = "store", !.held = TRUE]]
  /\ seen' = [o \in Observer |-> [seen[o] EXCEPT ![s] = Unseen]]
  /\ UNCHANGED <<log, stack>>

Announce(s) ==
  /\ Runs /\ Live(s) /\ entry[s].announcement = "pending"
  /\ Dispatch("created", s, 0)
  /\ entry' = [entry EXCEPT ![s].announcement = "dispatching"]
  /\ UNCHANGED <<store, log, seen>>

\* append() and commit(): the event is in the log before anyone is told.
AppendEvent(s) ==
  /\ Runs /\ Live(s) /\ entry[s].announcement = "complete" /\ ~entry[s].appending
  /\ Dispatch("event", s, log[s] + 1) /\ log' = [log EXCEPT ![s] = @ + 1]
  /\ entry' = [entry EXCEPT ![s].appending = TRUE]
  /\ UNCHANGED <<store, seen>>

\* detachEntered(): left is the stack that the disposal goes on.
DetachEntered(s, e, left) ==
  /\ store' = [store EXCEPT ![IdOf[s]] = None]
  /\ entry' = [e EXCEPT ![s] = Unattached]
  /\ stack' = IF e[s].announcement = "pending" THEN left
              ELSE Append(left, Dispatched("disposed", s, 0))

\* Mutant: the session is removed under a dispatch.
DetachAtOnce(s) ==
  /\ Runs /\ Live(s) /\ entry[s].held
  /\ Len(stack) < MaxDepth /\ DetachEntered(s, entry, stack)
  /\ UNCHANGED <<log, seen>>

\* The disposer that enter() returned: a dispatch of the session goes first.
Detach(s) ==
  /\ Runs /\ Live(s) /\ entry[s].held
  /\ IF entry[s].announcement = "dispatching" \/ entry[s].appending
     THEN /\ entry' = [entry EXCEPT ![s].held = FALSE, ![s].detachRequested = TRUE]
          /\ UNCHANGED <<store, stack>>
     ELSE Len(stack) < MaxDepth /\ DetachEntered(s, entry, stack)
  /\ UNCHANGED <<log, seen>>

-----------------------------------------------------------------------------
(* The dispatches.                                                         *)

\* What an observer makes of one more notification.
Observed(v, frame) ==
  CASE frame.kind = "created" /\ v.phase = "unseen" ->
         [phase |-> "created", last |-> log[frame.session]]
    [] frame.kind = "event" /\ v.phase = "created" /\ frame.event = v.last + 1 ->
         [v EXCEPT !.last = frame.event]
    [] frame.kind = "disposed" /\ v.phase # "disposed" -> [v EXCEPT !.phase = "disposed"]
    [] OTHER -> [v EXCEPT !.phase = "torn"]

Tell ==
  /\ stack # <<>> /\ ~Top.inside /\ Top.told < Observers
  /\ stack' = [stack EXCEPT ![Len(stack)].told = @ + 1, ![Len(stack)].inside = TRUE]
  /\ seen' = [seen EXCEPT ![Top.told + 1][Top.session] = Observed(@, Top)]
  /\ UNCHANGED <<store, entry, log, calls>>

\* The observer is done; only one of session/created may stop the dispatch.
Returns ==
  /\ stack # <<>> /\ Top.inside
  /\ stack' = [stack EXCEPT ![Len(stack)].inside = FALSE]
  /\ UNCHANGED <<store, entry, log, seen, calls>>

\* Mutant: what was asked for meanwhile is forgotten.
LeaveAttached(s, e) == entry' = e /\ stack' = Below /\ UNCHANGED store

\* A detach that was asked for meanwhile follows.
Leave(s, e) ==
  IF e[s].detachRequested THEN DetachEntered(s, e, Below)
  ELSE entry' = e /\ stack' = Below /\ UNCHANGED store

Vetoes ==
  /\ stack # <<>> /\ Top.inside /\ Top.kind = "created"
  /\ Leave(Top.session, [entry EXCEPT ![Top.session].announcement = "failed"])
  /\ UNCHANGED <<log, seen, calls>>

Completes ==
  /\ stack # <<>> /\ ~Top.inside /\ Top.told = Observers
  /\ CASE Top.kind = "created" ->
            Leave(Top.session, [entry EXCEPT ![Top.session].announcement = "complete"])
       [] Top.kind = "event" ->
            Leave(Top.session, [entry EXCEPT ![Top.session].appending = FALSE])
       [] OTHER -> stack' = Below /\ UNCHANGED <<store, entry>>
  /\ UNCHANGED <<log, seen, calls>>

-----------------------------------------------------------------------------

Calls == \E s \in Sessions :
  Prepare(s) \/ Enter(s) \/ Announce(s) \/ AppendEvent(s) \/ Detach(s)
Dispatches == Tell \/ Returns \/ Vetoes \/ Completes

Next == Calls \/ Dispatches
Spec == Init /\ [][Next]_vars

\* Observers return.
FairSpec == Spec /\ WF_vars(Dispatches)

-----------------------------------------------------------------------------
(* Properties.                                                             *)

Entry == [at : {"unborn", "null", "store"},
          announcement : {"pending", "dispatching", "complete", "failed"},
          appending : BOOLEAN, detachRequested : BOOLEAN, held : BOOLEAN]
Frame == [kind : {"created", "event", "disposed"}, session : Sessions, event : Nat,
          told : 0..Observers, inside : BOOLEAN]

\* The store and the attachments say the same of every session.
TypeOK ==
  /\ store \in [Ids -> {None} \cup {Holds(s) : s \in Sessions}]
  /\ entry \in [Sessions -> Entry] /\ log \in [Sessions -> Nat]
  /\ stack \in Seq(Frame) /\ calls \in 0..MaxCalls
  /\ seen \in [Observer -> [Sessions -> [phase : {"unseen", "created", "disposed", "torn"},
                                         last : Nat]]]
  /\ \A s \in Sessions : Live(s) <=> store[IdOf[s]] = Holds(s)

\* However the observers call back, each of them is told of a session's start, of
\* its events in the order of the log, of its end, and of nothing after; and
\* between dispatches all know what the store holds.
ObserversAgree == TypeOK /\ \A o \in Observer, s \in Sessions :
  /\ seen[o][s].phase # "torn"
  /\ Quiet(s) /\ Live(s) /\ entry[s].announcement = "complete" =>
       seen[o][s] = [phase |-> "created", last |-> log[s]]
  /\ Quiet(s) /\ ~Live(s) => seen[o][s].phase # "created"

\* A session whose disposer was called is removed, once what publishes it is over.
DetachHappens == \A s \in Sessions : Live(s) /\ ~entry[s].held ~> ~Live(s)
=============================================================================
