----------------------------- MODULE GoalRounds -----------------------------
(***************************************************************************)
(* The goal-round driver (packages/goal/goal-round-driver/src/index.ts)    *)
(* over the goal of a session and over its agent, of which the inbox, the  *)
(* status, the pre-step hooks and the awaits in front of a step's input    *)
(* are kept (AgentDriver has the rest).  A drive pass may start inside     *)
(* another operation and runs to its first await there: such a pass is     *)
(* "due", and nothing else happens before it.                              *)
(***************************************************************************)
EXTENDS Goals, Sequences, Functions

CONSTANT MaxEvents   \* bound: what hosts, models, faults and restarts do, together

ASSUME EventsAssumption == MaxEvents \in Nat

VARIABLES
  goal,      \* the projection of the log, with the process's activation
  failed,    \* the projection has met an event it refuses
  place,     \* the agent: idle, in maintenance, or where its turn stands
  aborted,   \* the activity's signal
  latch,     \* a wake for when it has converged
  replay,    \* that wake, while the observers of the idle status run
  nextTurn,  \* queued prompts, of people and of the driver
  steering,  \* next-step input is queued
  batch,     \* what the turn has claimed, and whether steering was with it
  d,         \* the driver's state for this agent
  late,      \* history: the goal has changed behind the last check of the batch
  overtaken, \* history: a prompt waited behind the batch as it was claimed
  events     \* how much has happened

agent == <<place, aborted, latch, replay, nextTurn, steering, batch>>
history == <<late, overtaken>>
vars == <<goal, failed, agent, d, history, events>>

Prompt == [ref |-> 0, round |-> 0, id |-> 0]
NoBatch == [turn |-> <<>>, steer |-> FALSE]
First(q) == SubSeq(q, 1, IF q = <<>> THEN 0 ELSE 1)
Rest(q) == IF q = <<>> THEN q ELSE Tail(q)
Without(q, k) == SubSeq(q, 1, k - 1) \o SubSeq(q, k + 1, Len(q))
NoAttempt == [ref |-> 0, round |-> 0, id |-> 0, phase |-> "none", cancelled |-> FALSE, stale |-> FALSE]
Fresh == [attempt |-> NoAttempt, competing |-> FALSE, checkpoint |-> FALSE, requested |-> FALSE,
          run |-> "off", view |-> NoGoal, stopping |-> FALSE]

Init ==
  /\ goal = NoGoal /\ failed = FALSE
  /\ place = "idle" /\ aborted = FALSE /\ latch = FALSE /\ replay = FALSE
  /\ nextTurn = <<>> /\ steering = FALSE /\ batch = NoBatch
  /\ d = Fresh /\ late = FALSE /\ overtaken = FALSE /\ events = 0

Running == place \notin {"idle", "maintenance"}
IsRound(m) == m.round > 0
RoundClaimed == batch.turn # <<>> /\ IsRound(batch.turn[1])
Same(m, attempt) == attempt.phase # "none" /\ m.ref = attempt.ref /\ m.round = attempt.round
\* Nothing runs between these and what they interrupted.
Free == d.run # "due" /\ ~replay
Happens == Free /\ events < MaxEvents /\ events' = events + 1

-----------------------------------------------------------------------------
(* What the driver's listeners make of its state.                          *)

\* Mutant: a request while a pass runs is taken for served.
RequestedOnce(s) ==
  IF s.stopping \/ s.run # "off" THEN s ELSE [s EXCEPT !.requested = TRUE, !.run = "due"]

\* requestDrive()
Requested(s) ==
  IF s.stopping THEN s
  ELSE [s EXCEPT !.requested = TRUE, !.run = IF @ = "off" THEN "due" ELSE @]
\* Mutant: a change of the goal asks for no checkpoint.
ChangedUnflushed(s) == Requested(s)

\* goal/changed
Changed(s) == Requested([s EXCEPT !.checkpoint = TRUE])
\* agent/inbox/inserted, for a prompt that is not the driver's own
Competing(s) ==
  [s EXCEPT !.competing = TRUE, !.attempt.stale = @ \/ s.attempt.phase = "queued"]
\* agent/inbox/claimed
Claimed(s, q) ==
  IF q # <<>> /\ Same(q[1], s.attempt) THEN [s EXCEPT !.attempt.phase = "claimed"] ELSE s
\* agent/inbox/discarded
Discarded(s, q) ==
  IF \E k \in DOMAIN q : Same(q[k], s.attempt) THEN [s EXCEPT !.attempt.cancelled = TRUE] ELSE s
Dropped(s) == [s EXCEPT !.attempt = NoAttempt]

-----------------------------------------------------------------------------
(* The agent.                                                              *)

\* A driver starts, or goes on: turn/start and the claim of the first batch.
OpenTurn(s, q, steer) ==
  /\ place' = "claimed" /\ aborted' = FALSE /\ latch' = FALSE /\ late' = FALSE
  /\ overtaken' = \E m \in Range(Rest(q)) : ~IsRound(m)
  /\ batch' = [turn |-> First(q), steer |-> steer]
  /\ nextTurn' = Rest(q) /\ steering' = FALSE
  /\ d' = Claimed(s, First(q))

\* wakeDriver() behind an insertion that left s, q and steer.
Wake(s, q, steer) ==
  \/ place = "idle" /\ OpenTurn(s, q, steer)
  \/ /\ place # "idle"
     /\ latch' = (latch \/ place = "maintenance" \/ aborted)
     /\ nextTurn' = q /\ steering' = steer /\ d' = s
     /\ UNCHANGED <<place, aborted, batch, history>>

\* agent/status: the attempt could not run, and its goal is still the one it was
\* reserved for.
Pauses(s, g) ==
  /\ s.attempt.phase \in {"queued", "claimed"} \/ s.attempt.cancelled
  /\ Drivable(g) /\ s.attempt.ref = g.ref

\* A reservation that is still queued is taken back.
Withdrawn(s, q) ==
  LET own == {k \in DOMAIN q : q[k].id = s.attempt.id}
  IN IF s.attempt.phase = "queued" /\ own # {} THEN Without(q, CHOOSE k \in own : TRUE) ELSE q

\* The turn is over and nothing follows: the listeners of agent/status run, then a
\* latched wake, if there is one.
BecomeIdle(s, g, q, steer) ==
  LET pause == Pauses(s, g)
      idle == [s EXCEPT !.competing = FALSE,
                        !.attempt = IF pause \/ @.phase = "queued" THEN NoAttempt ELSE @]
  IN /\ goal' \in (IF pause THEN Paused(g) ELSE {g})
     /\ d' = IF pause THEN Changed(idle) ELSE Requested(idle)
     /\ nextTurn' = Withdrawn(s, q) /\ steering' = steer
     /\ place' = "idle" /\ batch' = NoBatch /\ aborted' = FALSE
     /\ replay' = latch /\ latch' = FALSE /\ UNCHANGED history

Replay ==
  /\ replay /\ d.run # "due" /\ replay' = FALSE
  /\ IF place = "idle" /\ (nextTurn # <<>> \/ steering)
     THEN OpenTurn(d, nextTurn, steering)
     ELSE UNCHANGED <<place, aborted, latch, nextTurn, steering, batch, d, history>>
  /\ UNCHANGED <<goal, failed, events>>

\* turn/end (aborted), from any place of a turn; a step that downstream hooks
\* entered all the same has its steering restored.
AbortedTurn ==
  /\ Free /\ Running /\ aborted
  /\ LET own == d.attempt.phase \in {"claimed", "admitted"}
         s == IF own THEN [d EXCEPT !.attempt.cancelled = TRUE] ELSE d
     IN \E back \in {FALSE, place = "asking" /\ batch.steer} :
          BecomeIdle(s, IF own THEN goal ELSE Disarmed(goal), nextTurn, steering \/ back)
  /\ UNCHANGED <<failed, events>>

\* agent/error and turn/end (error): the turn failed at an await of its own.
FailedTurn ==
  /\ Happens /\ Running /\ ~aborted /\ place # "rejected"
  /\ BecomeIdle(IF place = "asking" THEN Requested(Dropped(d)) ELSE d,
                Disarmed(goal), nextTurn, steering)
  /\ UNCHANGED failed

\* turn() returns without another look at the inbox.
BlockedTurn ==
  /\ Free /\ place = "rejected" /\ ~aborted
  /\ BecomeIdle(d, goal, nextTurn, steering)
  /\ UNCHANGED <<failed, events>>
EmptyTurn ==
  /\ Free /\ place = "claimed" /\ ~aborted /\ batch = NoBatch
  /\ BecomeIdle(d, goal, nextTurn, steering)
  /\ UNCHANGED <<failed, events>>

\* The pre-step hooks of a batch without a round.
OrdinaryStep ==
  /\ Free /\ place = "claimed" /\ ~aborted /\ batch # NoBatch /\ ~RoundClaimed
  /\ place' = "entering"
  /\ UNCHANGED <<goal, failed, aborted, latch, replay, nextTurn, steering, batch, d, history, events>>
\* They may refuse it, and the steering of a later step as well.
OrdinaryRejected ==
  /\ Happens /\ ~aborted
  /\ \/ place = "claimed" /\ batch # NoBatch /\ ~RoundClaimed /\ UNCHANGED steering
     \/ place = "acting" /\ steering /\ steering' = FALSE
  /\ place' = "rejected"
  /\ UNCHANGED <<goal, failed, aborted, latch, replay, nextTurn, batch, d, history>>

\* Mutant: only the reservation is checked, not the goal.
ValidUnchecked(s, g, m) == s.attempt.phase = "claimed" /\ ~s.attempt.stale /\ Same(m, s.attempt)

\* Mutant: what people queued behind the reservation is not looked at.
ValidThoughStale(s, g, m) ==
  /\ ~s.stopping /\ s.attempt.phase = "claimed" /\ Same(m, s.attempt)
  /\ Drivable(g) /\ m.ref = g.ref /\ m.round = g.rounds + 1

\* validReservation()
Valid(s, g, m) ==
  /\ ~s.stopping
  /\ s.attempt.phase = "claimed" /\ ~s.attempt.stale /\ Same(m, s.attempt)
  /\ Drivable(g) /\ m.ref = g.ref /\ m.round = g.rounds + 1

\* The driver's hook, before and behind the hooks downstream.
Gate ==
  /\ Free /\ place = "claimed" /\ ~aborted /\ RoundClaimed
  /\ IF Valid(d, goal, batch.turn[1])
     THEN place' = "asking" /\ UNCHANGED <<steering, d>>
     ELSE /\ place' = "rejected" /\ steering' = (steering \/ batch.steer)
          /\ d' = Requested(IF Same(batch.turn[1], d.attempt) THEN Dropped(d) ELSE d)
  /\ UNCHANGED <<goal, failed, aborted, latch, replay, nextTurn, batch, history, events>>
Recheck ==
  /\ Free /\ place = "asking" /\ ~aborted
  /\ IF Valid(d, goal, batch.turn[1])
     THEN place' = "entering" /\ UNCHANGED <<steering, d>>
     ELSE /\ place' = "rejected" /\ steering' = (steering \/ batch.steer)
          /\ d' = Requested(Dropped(d))
  /\ UNCHANGED <<goal, failed, aborted, latch, replay, nextTurn, batch, history, events>>
RoundRejected ==
  /\ Happens /\ place = "asking" /\ ~aborted
  /\ place' = "rejected"
  /\ IF Drivable(goal) /\ batch.turn[1].ref = goal.ref
     THEN goal' \in Blocked(goal) /\ d' = Changed(Dropped(d))
     ELSE UNCHANGED goal /\ d' = Dropped(d)
  /\ UNCHANGED <<failed, aborted, latch, replay, nextTurn, steering, batch, history>>

\* prepareRequest() is over: the batch is logged, which the goal's fold reads.
Admit ==
  /\ Free /\ place = "entering" /\ ~aborted
  /\ place' = "acting"
  /\ IF RoundClaimed
     THEN LET m == batch.turn[1] IN
          /\ goal' = IF Admits(goal, m) THEN [goal EXCEPT !.rounds = m.round] ELSE goal
          /\ failed' = ~Admits(goal, m)
          /\ d' = IF m.id = d.attempt.id THEN [d EXCEPT !.attempt.phase = "admitted"] ELSE d
     ELSE UNCHANGED <<goal, failed, d>>
  /\ UNCHANGED <<aborted, latch, replay, nextTurn, steering, batch, history, events>>

\* The last step is closed and no steering waits; the ceiling disarms.
EndTurn ==
  /\ Free /\ place = "acting" /\ ~aborted /\ ~steering
  /\ \E g \in {goal} \cup {Disarmed(goal)} :
       /\ IF g = goal THEN UNCHANGED events ELSE events < MaxEvents /\ events' = events + 1
       /\ IF nextTurn # <<>>
          THEN OpenTurn(d, nextTurn, FALSE) /\ goal' = g /\ UNCHANGED replay
          ELSE BecomeIdle(d, g, nextTurn, FALSE)
  /\ UNCHANGED failed

\* A further step of the turn claims what waits for it.
NextStep ==
  /\ Free /\ place = "acting" /\ ~aborted /\ steering
  /\ steering' = FALSE
  /\ UNCHANGED <<goal, failed, place, aborted, latch, replay, nextTurn, batch, d, history, events>>

\* Compaction and other maintenance of an idle agent: its status stays idle.
BeginMaintenance ==
  /\ Happens /\ place = "idle"
  /\ place' = "maintenance" /\ aborted' = FALSE /\ latch' = FALSE
  /\ UNCHANGED <<goal, failed, replay, nextTurn, steering, batch, d, history>>
EndMaintenance ==
  /\ Free /\ place = "maintenance"
  /\ place' = "idle" /\ replay' = latch /\ latch' = FALSE /\ aborted' = FALSE
  /\ UNCHANGED <<goal, failed, nextTurn, steering, batch, d, history, events>>

-----------------------------------------------------------------------------
(* The drive passes.                                                       *)

Ready(s) == ~s.stopping /\ ~Running /\ ~s.competing
\* The loop of requestDrive() behind a pass that left s.
Loop(s) == [s EXCEPT !.run = IF s.requested /\ ~s.stopping THEN "again" ELSE "off"]
Done(s) == d' = Loop(s) /\ UNCHANGED <<goal, agent, history>>

\* createUserMessage(): an id that no message of the agent has.
UnusedId ==
  LET messages == nextTurn \o batch.turn
  IN CHOOSE i \in 1..Len(messages) + 1 : \A k \in DOMAIN messages : messages[k].id # i

\* The next round of the goal as the pass saw it: queued, and the agent woken.
Reserve(s, g) ==
  LET id == UnusedId
      m == [ref |-> g.ref, round |-> g.rounds + 1, id |-> id]
  IN /\ Wake(Loop([s EXCEPT !.attempt = [NoAttempt EXCEPT !.ref = m.ref, !.round = m.round,
                                                         !.id = id, !.phase = "queued"]]),
             Append(nextTurn, m), steering)
     /\ UNCHANGED <<goal, replay>>

\* A goal without rounds left is blocked; a ref that is stale by now throws.
ReserveOrBlock(s, g) ==
  IF g.rounds < g.cap THEN Reserve(s, g)
  ELSE /\ IF goal.ref = g.ref /\ goal.phase = "active"
          THEN goal' \in Blocked(goal) /\ d' = Loop(Changed(s))
          ELSE goal' = Disarmed(goal) /\ d' = Loop(s)
       /\ UNCHANGED <<agent, history>>

\* drive() behind its checkpoint; it may have to join the agent's subagents.
Proceed(s) ==
  IF s.attempt # NoAttempt
  THEN Done([s EXCEPT !.attempt = NoAttempt, !.checkpoint = TRUE, !.requested = TRUE])
  ELSE IF ~Drivable(goal) THEN Done(s)
  ELSE \/ ReserveOrBlock(s, goal)
       \/ d' = [s EXCEPT !.run = "joining", !.view = goal] /\ UNCHANGED <<goal, agent, history>>

Drive ==
  /\ d.run \in {"due", "again"} /\ (d.run = "due" \/ ~replay)
  /\ LET s == [d EXCEPT !.requested = FALSE] IN
       IF d.stopping \/ ~Ready(d) THEN Done(s)
       ELSE IF d.checkpoint
       THEN /\ d' = [s EXCEPT !.checkpoint = FALSE, !.run = "flushing"]
            /\ UNCHANGED <<goal, agent, history>>
       ELSE Proceed(s)
  /\ UNCHANGED <<failed, events>>

Checkpointed ==
  /\ Free /\ d.run = "flushing"
  /\ IF Ready(d) /\ ~d.checkpoint THEN Proceed(d) ELSE Done(d)
  /\ UNCHANGED <<failed, events>>
CheckpointFails ==
  /\ Happens /\ d.run = "flushing"
  /\ goal' = Disarmed(goal) /\ d' = Loop(d)
  /\ UNCHANGED <<failed, agent, history>>

Joined ==
  /\ Free /\ d.run = "joining"
  /\ LET s == [d EXCEPT !.view = NoGoal] IN
       IF Ready(d) /\ ~d.checkpoint THEN ReserveOrBlock(s, d.view) ELSE Done(s)
  /\ UNCHANGED <<failed, events>>

-----------------------------------------------------------------------------
(* People, the model, faults.                                              *)

\* send(): behind an abort steering becomes a prompt of its own.
SendPrompt ==
  /\ Happens
  /\ Wake(Competing(d), Append(nextTurn, Prompt), steering)
  /\ UNCHANGED <<goal, failed, replay>>
Steer ==
  /\ Happens /\ ~(place # "idle" /\ aborted)
  /\ Wake(d, nextTurn, TRUE)
  /\ UNCHANGED <<goal, failed, replay>>

\* A queued message is removed.
Remove ==
  /\ Happens
  /\ \E k \in DOMAIN nextTurn :
       /\ nextTurn' = Without(nextTurn, k)
       /\ d' = Discarded(d, <<nextTurn[k]>>)
  /\ UNCHANGED <<goal, failed, place, aborted, latch, replay, steering, batch, history>>

\* A queued message is replaced by a prompt of a person.
Replace ==
  /\ Happens
  /\ \E k \in DOMAIN nextTurn :
       /\ nextTurn' = [nextTurn EXCEPT ![k] = Prompt]
       /\ d' = Competing(Discarded(d, <<nextTurn[k]>>))
  /\ UNCHANGED <<goal, failed, place, aborted, latch, replay, steering, batch, history>>

\* cancel(), with or without `keepInbox`
Cancel ==
  /\ Happens
  /\ aborted' = (place # "idle")
  /\ \/ UNCHANGED <<nextTurn, steering, latch, d>>
     \/ nextTurn' = <<>> /\ steering' = FALSE /\ latch' = FALSE /\ d' = Discarded(d, nextTurn)
  /\ UNCHANGED <<goal, failed, place, replay, batch, history>>

\* A change of the goal from outside of the agent's turn; a pause stops the turn.
HostChanges ==
  /\ Happens
  /\ \/ /\ goal' \in Created(goal) \cup Edited(goal) \cup Resumed(goal) \cup Completed(goal)
                       \cup Cleared(goal)
        /\ UNCHANGED aborted
     \/ goal' \in Paused(goal) /\ aborted' = (aborted \/ Running)
  /\ d' = Changed(d) /\ late' = (late \/ place = "entering")
  /\ UNCHANGED <<failed, place, latch, replay, nextTurn, steering, batch, overtaken>>

\* update_goal and create_goal, called in the agent's turn.
ModelChanges ==
  /\ Happens /\ place = "acting" /\ ~aborted
  /\ goal' \in Created(goal) \cup Edited(goal) \cup Completed(goal) \cup Blocked(goal)
               \cup Paused(goal) \cup (IF goal.phase = "paused" THEN {} ELSE Resumed(goal))
  /\ d' = Changed(d)
  /\ UNCHANGED <<failed, agent, history>>

\* The process ends and the session is resumed: the inbox is part of the log, the
\* activation is not.
Restart ==
  /\ Happens
  /\ goal' = Disarmed(goal) /\ d' = Fresh /\ batch' = NoBatch /\ UNCHANGED history
  /\ place' = "idle" /\ aborted' = FALSE /\ latch' = FALSE /\ replay' = FALSE
  /\ UNCHANGED <<failed, nextTurn, steering>>

\* The plugin unloads: its fence stays until what it waits for has settled.
Unload ==
  /\ Happens /\ ~d.stopping
  /\ goal' = Disarmed(goal)
  /\ LET s == [d EXCEPT !.stopping = TRUE, !.attempt.stale = @ \/ d.attempt # NoAttempt] IN
       IF Running /\ d.attempt # NoAttempt
       THEN /\ aborted' = TRUE /\ latch' = FALSE
            /\ nextTurn' = <<>> /\ steering' = FALSE /\ d' = Discarded(s, nextTurn)
       ELSE d' = s /\ UNCHANGED <<aborted, latch, nextTurn, steering>>
  /\ UNCHANGED <<failed, place, replay, batch, history>>

-----------------------------------------------------------------------------

Turn ==
  \/ Replay \/ AbortedTurn \/ BlockedTurn \/ EmptyTurn \/ OrdinaryStep \/ Gate \/ Recheck
  \/ Admit \/ EndTurn \/ NextStep \/ EndMaintenance
Faults == FailedTurn \/ OrdinaryRejected \/ RoundRejected \/ CheckpointFails \/ Restart \/ Unload
People == SendPrompt \/ Steer \/ Remove \/ Replace \/ Cancel \/ HostChanges \/ ModelChanges \/ BeginMaintenance
Pass == Drive \/ Checkpointed \/ Joined

\* Behind a failed fold every access to the goal is refused.
Next == ~failed /\ (Turn \/ Pass \/ Faults \/ People)

Spec == Init /\ [][Next]_vars

\* The agent's awaits and the driver's settle; people, models and faults owe
\* nothing.
FairSpec == Spec /\ WF_vars(~failed /\ Turn) /\ WF_vars(~failed /\ Pass)

-----------------------------------------------------------------------------
(* Properties.                                                             *)

Message == [ref : Nat, round : Nat, id : Nat]
Attempt == [ref : Nat, round : Nat, id : Nat, phase : {"none", "queued", "claimed", "admitted"},
            cancelled : BOOLEAN, stale : BOOLEAN]
State == [attempt : Attempt, competing : BOOLEAN, checkpoint : BOOLEAN, requested : BOOLEAN,
          run : {"off", "due", "again", "flushing", "joining"}, view : Goal, stopping : BOOLEAN]

TypeOK ==
  /\ goal \in Goal /\ failed \in BOOLEAN /\ d \in State
  /\ place \in {"idle", "maintenance", "claimed", "asking", "rejected", "entering", "acting"}
  /\ aborted \in BOOLEAN /\ latch \in BOOLEAN /\ replay \in BOOLEAN
  /\ nextTurn \in Seq(Message) /\ steering \in BOOLEAN
  /\ batch \in [turn : Seq(Message), steer : BOOLEAN]
  /\ late \in BOOLEAN /\ overtaken \in BOOLEAN /\ events \in 0..MaxEvents
  /\ aborted \/ latch => place # "idle"

\* A round whose step is about to enter is the next one of the armed goal, unless
\* it was changed behind the last check; so nothing else breaks the goal's fold.
RoundsFollowGoal ==
  /\ TypeOK
  /\ place = "entering" /\ RoundClaimed /\ ~aborted /\ ~late =>
       Drivable(goal) /\ Admits(goal, batch.turn[1])
  /\ failed => late

\* A reservation that a prompt was queued behind never enters its step.
PromptsFirst ==
  place = "entering" /\ RoundClaimed /\ batch.turn[1].id = d.attempt.id => ~overtaken

\* A pass that returns from its join and finds nothing to flush goes on with the
\* revision, the limit and the rounds that the goal still has.
JoinedViewCurrent == d.run = "joining" /\ ~d.checkpoint => d.view = [goal EXCEPT !.armed = TRUE]

\* What waited for maintenance to end was taken back: no status tells the driver.
Unnoticed == place \in {"idle", "maintenance"} /\ (d.attempt.cancelled \/ d.competing)

\* An armed goal is driven until it is paused, blocked, completed or disarmed.
ArmedGoalsMove == Drivable(goal) ~> ~Drivable(goal) \/ failed \/ d.stopping \/ Unnoticed

\* "An edit only invalidates an in-flight round through the revision fence, and the
\* driver continues the new revision".
FoldNeverFails == ~failed
=============================================================================
