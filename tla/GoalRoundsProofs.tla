-------------------------- MODULE GoalRoundsProofs --------------------------
(***************************************************************************)
(* Safety of the goal rounds for any round limits and any number of        *)
(* events.                                                                 *)
(*                                                                         *)
(* The round driver trusts a copy: the attempt it remembers, of a message  *)
(* that may be in the inbox, in the batch of the turn, or nowhere any      *)
(* more.  The invariant says where the message can still be, and that an   *)
(* attempt whose message could do harm is stale or spent.                  *)
(***************************************************************************)
EXTENDS GoalRounds, FiniteSetTheorems, SequenceTheorems, TLAPS

-----------------------------------------------------------------------------
(* The inductive invariant.                                                *)

\* A queued round is of a revision that there was, and within its limit.
Fits(m, g) ==
  IsRound(m) => m.id # 0 /\ m.ref <= g.ref /\ (m.ref = g.ref => m.round <= g.cap)
Queue(q, g) == \A k \in DOMAIN q : Fits(q[k], g)
OneEach(q) ==
  \A j, k \in DOMAIN q : IsRound(q[j]) /\ IsRound(q[k]) /\ q[j].id = q[k].id => j = k

\* What the driver remembers of its attempt and of the goal it read.
Attempts(s, g) ==
  LET a == s.attempt IN
  /\ a.phase = "none" => a = NoAttempt
  /\ a.phase # "none" => a.id # 0 /\ a.round > 0 /\ a.ref <= g.ref
  /\ a.phase # "none" /\ a.ref = g.ref =>
       a.round <= g.rounds + 1 /\ ~s.checkpoint /\ s.run # "flushing"
  /\ s.run = "joining" => a.phase = "none"
  /\ s.run = "joining" /\ ~s.checkpoint => s.view = [g EXCEPT !.armed = TRUE]

\* The message is the attempt's; the attempt cannot start a round any more; a
\* batch holds a round that is taken for the attempt's.
Own(m, a) == IsRound(m) /\ m.id = a.id
Spent(a, g) == ~(Drivable(g) /\ a.ref = g.ref /\ a.round = g.rounds + 1)
Copied(a) ==
  /\ a.phase = "claimed" /\ RoundClaimed /\ Same(batch.turn[1], a)
  /\ place \in {"claimed", "asking", "entering"}

\* The attempt's message is still queued only before it is claimed, or the attempt
\* is spent; a prompt behind it makes it stale.
Ahead(q, a, g, copied) ==
  \A k \in DOMAIN q : Own(q[k], a) =>
    /\ a.phase # "queued" => Spent(a, g) \/ copied
    /\ (\E l \in DOMAIN q : k < l /\ ~IsRound(q[l])) => a.stale \/ Spent(a, g) \/ copied

Config(s, q, g, copied) ==
  Attempts(s, g) /\ Queue(q, g) /\ OneEach(q) /\ Ahead(q, s.attempt, g, copied)

\* What the place of a turn says about its batch.
Placed ==
  /\ Queue(batch.turn, goal) /\ Len(batch.turn) <= 1
  /\ place \in {"idle", "maintenance"} => batch = NoBatch
  /\ place = "asking" => RoundClaimed
  /\ /\ place \in {"claimed", "asking"} /\ RoundClaimed
     /\ Own(batch.turn[1], d.attempt) /\ overtaken
     => d.attempt.stale \/ Spent(d.attempt, goal)
  /\ place = "entering" /\ RoundClaimed =>
       /\ d.attempt.phase = "claimed" /\ Same(batch.turn[1], d.attempt)
       /\ aborted \/ late \/ ~Spent(d.attempt, goal)
       /\ Own(batch.turn[1], d.attempt) => ~overtaken
  /\ failed => late

Inv == TypeOK /\ Config(d, nextTurn, goal, Copied(d.attempt)) /\ Placed

-----------------------------------------------------------------------------
(* Goals.                                                                  *)

\* From g to h no revision, limit or round is taken back, and no authority given.
Later(g, h) ==
  \/ h.ref > g.ref
  \/ /\ h.ref = g.ref /\ h.cap = g.cap /\ h.phase = g.phase /\ h.rounds >= g.rounds
     /\ h.armed => g.armed

\* A number that a goal has is a number.
LEMMA GoalFields ==
  ASSUME NEW g \in Goal
  PROVE  /\ g.ref \in Nat /\ g.rounds \in Nat /\ g.cap \in Nat
         /\ g.phase \in Phases /\ g.armed \in BOOLEAN
<1>1. /\ g.ref \in Nat /\ g.rounds \in Nat /\ g.cap \in Caps \cup {0}
      /\ g.phase \in Phases /\ g.armed \in BOOLEAN
  BY DEF Goal
<1>2. QED
  <2>1. Caps \cup {0} \subseteq Nat
    BY CapsAssumption
  <2>2. g.cap \in Nat
    BY <1>1, <2>1
  <2>3. QED
    BY <1>1, <2>2

\* What a goal is made of makes a goal.
LEMMA GoalOf ==
  ASSUME NEW ref \in Nat, NEW phase \in Phases, NEW rounds \in Nat, NEW cap \in Caps \cup {0},
         NEW armed \in BOOLEAN
  PROVE  [ref |-> ref, phase |-> phase, rounds |-> rounds, cap |-> cap, armed |-> armed] \in Goal
  BY DEF Goal

\* A write to the goal leaves a goal.
LEMMA RevisedIsGoal ==
  ASSUME NEW g \in Goal, NEW phase \in Phases, NEW armed \in BOOLEAN
  PROVE  Revised(g, phase, armed) \in Goal /\ Revised(g, phase, armed).ref = g.ref + 1
<1>1. g.ref \in Nat /\ g.ref + 1 \in Nat
  BY GoalFields
<1>2. QED
  BY <1>1 DEF Goal, Revised

\* Every change of a goal takes the next revision.
LEMMA Revisions ==
  ASSUME NEW g \in Goal, NEW h,
         \/ h \in Created(g) \/ h \in Edited(g) \/ h \in Resumed(g) \/ h \in Cleared(g)
         \/ h \in Paused(g) \/ h \in Completed(g) \/ h \in Blocked(g)
  PROVE  h \in Goal /\ h.ref = g.ref + 1
<1>1. CASE h \in Created(g)
  <2>1. PICK c \in Caps :
          h = [ref |-> g.ref + 1, phase |-> "active", rounds |-> 0, cap |-> c, armed |-> TRUE]
    BY <1>1 DEF Created
  <2>2. g.ref + 1 \in Nat /\ "active" \in Phases
    BY GoalFields DEF Phases
  <2>3. QED
    BY <2>1, <2>2, GoalOf
<1>2. CASE h \in Edited(g)
  <2>1. PICK c \in Caps : h = [Revised(g, g.phase, g.armed) EXCEPT !.cap = c]
    BY <1>2 DEF Edited
  <2>2. Revised(g, g.phase, g.armed) \in Goal /\ Revised(g, g.phase, g.armed).ref = g.ref + 1
    BY GoalFields, RevisedIsGoal
  <2>3. QED
    BY <2>1, <2>2 DEF Goal
<1>3. CASE h \in Resumed(g)
  BY <1>3, RevisedIsGoal DEF Resumed, Phases
<1>4. CASE h \in Cleared(g)
  <2>1. h = [ref |-> g.ref + 1, phase |-> "none", rounds |-> 0, cap |-> 0, armed |-> FALSE]
    <3>1. h = [NoGoal EXCEPT !.ref = g.ref + 1]
      BY <1>4 DEF Cleared
    <3>2. QED
      BY <3>1 DEF NoGoal
  <2>2. g.ref + 1 \in Nat /\ g.ref \in Nat /\ "none" \in Phases
    BY GoalFields DEF Phases
  <2>3. QED
    BY <2>1, <2>2, GoalOf
<1>5. CASE h \in Paused(g) \/ h \in Completed(g) \/ h \in Blocked(g)
  <2>1. PICK to \in {"paused", "complete", "blocked"} : h = Revised(g, to, FALSE)
    BY <1>5 DEF Paused, Completed, Blocked, Transition
  <2>2. QED
    BY <2>1, RevisedIsGoal DEF Phases
<1>6. QED
  BY <1>1, <1>2, <1>3, <1>4, <1>5

\* Disarming takes only the authority.
LEMMA Disarming ==
  ASSUME NEW g \in Goal
  PROVE  /\ Disarmed(g) \in Goal /\ ~Drivable(Disarmed(g))
         /\ Later(g, g) /\ Later(g, Disarmed(g))
         /\ [Disarmed(g) EXCEPT !.armed = TRUE] = [g EXCEPT !.armed = TRUE]
<1>1. Disarmed(g) \in Goal /\ Disarmed(g).armed = FALSE
  BY DEF Goal, Disarmed
<1>2. Disarmed(g).ref = g.ref /\ Disarmed(g).cap = g.cap /\ Disarmed(g).phase = g.phase
      /\ Disarmed(g).rounds = g.rounds
  BY DEF Goal, Disarmed
<1>3. g.rounds >= g.rounds
  BY GoalFields
<1>4. [Disarmed(g) EXCEPT !.armed = TRUE] = [g EXCEPT !.armed = TRUE]
  BY DEF Goal, Disarmed
<1>5. QED
  BY <1>1, <1>2, <1>3, <1>4 DEF Later, Drivable

\* A later goal fits what fitted, and an attempt that is spent stays so.
LEMMA LaterFits ==
  ASSUME NEW g \in Goal, NEW h \in Goal, Later(g, h),
         NEW q \in Seq(Message), Queue(q, g)
  PROVE  Queue(q, h)
<1> SUFFICES ASSUME NEW k \in DOMAIN q, IsRound(q[k]), Fits(q[k], g)
             PROVE  Fits(q[k], h)
  BY DEF Queue, Fits
<1>1. q[k] \in Message
  BY ElementOfSeq, LenProperties
<1>2. /\ g.ref \in Nat /\ g.cap \in Nat /\ h.ref \in Nat /\ h.cap \in Nat
      /\ q[k].ref \in Nat /\ q[k].round \in Nat
  BY <1>1, GoalFields DEF Message
<1>3. QED
  BY <1>2 DEF Fits, Later

\* A spent attempt stays spent as the goal goes on.
LEMMA LaterSpent ==
  ASSUME NEW g \in Goal, NEW h \in Goal, Later(g, h),
         NEW s \in State, Attempts(s, g), Spent(s.attempt, g)
  PROVE  Spent(s.attempt, h)
<1>1. s.attempt \in Attempt
  BY DEF State
<1>2. s.attempt.ref \in Nat /\ s.attempt.round \in Nat
  BY <1>1 DEF Attempt
<1>3. CASE s.attempt.phase = "none"
  BY <1>2, <1>3, GoalFields DEF Attempts, NoAttempt, Spent
<1>4. CASE s.attempt.phase # "none"
  BY <1>2, <1>4, GoalFields DEF Attempts, Spent, Later, Drivable
<1>5. QED
  BY <1>3, <1>4

-----------------------------------------------------------------------------
(* The driver's state.                                                     *)

\* The pass goes on as it was, or is one that begins or ends.
Keeps(s, t) ==
  t.view = s.view /\ (t.run = s.run \/ t.run \in {"off", "due", "again"})

\* b is the attempt a still, perhaps stale or cancelled by now, or no attempt.
Continues(a, b) ==
  \/ b = NoAttempt
  \/ /\ b.ref = a.ref /\ b.round = a.round /\ b.id = a.id /\ b.phase = a.phase
     /\ a.stale => b.stale
     /\ a.phase = "none" => b = a

\* What the fields of a state are.
LEMMA StateFields ==
  ASSUME NEW s \in State
  PROVE  /\ s.attempt \in Attempt /\ s.view \in Goal
         /\ s.run \in {"off", "due", "again", "flushing", "joining"}
         /\ s.checkpoint \in BOOLEAN /\ s.requested \in BOOLEAN /\ s.competing \in BOOLEAN
         /\ s.stopping \in BOOLEAN
  BY DEF State
LEMMA AttemptFields ==
  ASSUME NEW a \in Attempt
  PROVE  /\ a.ref \in Nat /\ a.round \in Nat /\ a.id \in Nat
         /\ a.phase \in {"none", "queued", "claimed", "admitted"}
         /\ a.cancelled \in BOOLEAN /\ a.stale \in BOOLEAN
  BY DEF Attempt
LEMMA NoAttemptTyped ==
  /\ NoAttempt \in Attempt /\ NoAttempt.phase = "none" /\ NoAttempt.id = 0
  /\ NoAttempt.ref = 0 /\ NoAttempt.round = 0 /\ NoAttempt.stale = FALSE
  BY DEF NoAttempt, Attempt
LEMMA NoGoalTyped == NoGoal \in Goal
  BY DEF NoGoal, Goal, Phases
LEMMA FreshTyped == Fresh \in State
  BY NoAttemptTyped, NoGoalTyped DEF Fresh, State

\* requestDrive() touches no attempt and no view.
LEMMA RequestedTyped ==
  ASSUME NEW s \in State
  PROVE  /\ Requested(s) \in State /\ Requested(s).attempt = s.attempt
         /\ Requested(s).checkpoint = s.checkpoint /\ Keeps(s, Requested(s))
  BY DEF Requested, State, Keeps

\* A change of the goal asks for a checkpoint.
LEMMA ChangedTyped ==
  ASSUME NEW s \in State
  PROVE  /\ Changed(s) \in State /\ Changed(s).attempt = s.attempt
         /\ Changed(s).checkpoint = TRUE /\ Keeps(s, Changed(s))
<1> DEFINE t == [s EXCEPT !.checkpoint = TRUE]
<1>1. t \in State /\ t.attempt = s.attempt /\ t.checkpoint = TRUE /\ t.view = s.view /\ t.run = s.run
  BY DEF State
<1>2. Changed(s) = Requested(t)
  BY DEF Changed
<1> HIDE DEF t
<1>3. QED
  BY <1>1, <1>2, RequestedTyped DEF Keeps

\* The driver drops its attempt.
LEMMA DroppedTyped ==
  ASSUME NEW s \in State
  PROVE  /\ Dropped(s) \in State /\ Dropped(s).attempt = NoAttempt
         /\ Dropped(s).checkpoint = s.checkpoint /\ Keeps(s, Dropped(s))
  BY NoAttemptTyped DEF Dropped, State, Keeps

\* The loop ends a pass and begins the next.
LEMMA LoopTyped ==
  ASSUME NEW s \in State
  PROVE  /\ Loop(s) \in State /\ Loop(s).attempt = s.attempt
         /\ Loop(s).checkpoint = s.checkpoint /\ Keeps(s, Loop(s))
         /\ Loop(s).run \in {"again", "off"}
  BY DEF Loop, State, Keeps

\* A prompt of a person makes a queued attempt stale.
LEMMA CompetingTyped ==
  ASSUME NEW s \in State
  PROVE  /\ Competing(s) \in State /\ Competing(s).checkpoint = s.checkpoint
         /\ Keeps(s, Competing(s)) /\ Continues(s.attempt, Competing(s).attempt)
         /\ s.attempt.phase = "queued" => Competing(s).attempt.stale
         /\ Competing(s).attempt.phase = s.attempt.phase
<1> DEFINE a == [s.attempt EXCEPT !.stale = @ \/ s.attempt.phase = "queued"]
<1>1. s.attempt \in Attempt
  BY StateFields
<1>2. /\ a \in Attempt /\ a.ref = s.attempt.ref /\ a.round = s.attempt.round
      /\ a.id = s.attempt.id /\ a.phase = s.attempt.phase
      /\ a.stale = (s.attempt.stale \/ s.attempt.phase = "queued")
      /\ s.attempt.phase # "queued" => a = s.attempt
  BY <1>1 DEF Attempt
<1>3. Competing(s) = [s EXCEPT !.competing = TRUE, !.attempt = a]
  BY DEF Competing, State
<1> HIDE DEF a
<1>4. QED
  BY <1>2, <1>3 DEF State, Keeps, Continues

\* What is discarded may cancel the attempt.
LEMMA DiscardedTyped ==
  ASSUME NEW s \in State, NEW q
  PROVE  /\ Discarded(s, q) \in State /\ Discarded(s, q).checkpoint = s.checkpoint
         /\ Keeps(s, Discarded(s, q)) /\ Continues(s.attempt, Discarded(s, q).attempt)
         /\ Discarded(s, q).attempt.phase = s.attempt.phase
<1> DEFINE a == [s.attempt EXCEPT !.cancelled = TRUE]
<1>1. s.attempt \in Attempt
  BY StateFields
<1>2. /\ a \in Attempt /\ a.ref = s.attempt.ref /\ a.round = s.attempt.round
      /\ a.id = s.attempt.id /\ a.phase = s.attempt.phase /\ a.stale = s.attempt.stale
  BY <1>1 DEF Attempt
<1>3. \/ Discarded(s, q) = s
      \/ Discarded(s, q) = [s EXCEPT !.attempt = a] /\ s.attempt.phase # "none"
  BY DEF Discarded, State, Same
<1> HIDE DEF a
<1>4. QED
  BY <1>2, <1>3 DEF State, Keeps, Continues

\* A claim of the attempt's message moves the attempt on.
LEMMA ClaimedTyped ==
  ASSUME NEW s \in State, NEW q \in Seq(Message)
  PROVE  /\ Claimed(s, q) \in State /\ Claimed(s, q).checkpoint = s.checkpoint
         /\ Claimed(s, q).view = s.view /\ Claimed(s, q).run = s.run
         /\ ~(q # <<>> /\ Same(q[1], s.attempt)) => Claimed(s, q) = s
         /\ q # <<>> /\ Same(q[1], s.attempt) =>
              /\ Claimed(s, q).attempt.ref = s.attempt.ref
              /\ Claimed(s, q).attempt.round = s.attempt.round
              /\ Claimed(s, q).attempt.id = s.attempt.id
              /\ Claimed(s, q).attempt.stale = s.attempt.stale
              /\ Claimed(s, q).attempt.phase = "claimed"
<1> DEFINE a == [s.attempt EXCEPT !.phase = "claimed"]
<1>1. s.attempt \in Attempt
  BY StateFields
<1>2. /\ a \in Attempt /\ a.ref = s.attempt.ref /\ a.round = s.attempt.round
      /\ a.id = s.attempt.id /\ a.phase = "claimed" /\ a.stale = s.attempt.stale
  BY <1>1 DEF Attempt
<1>3. Claimed(s, q) = IF q # <<>> /\ Same(q[1], s.attempt) THEN [s EXCEPT !.attempt = a] ELSE s
  BY DEF Claimed, State
<1> HIDE DEF a
<1>4. QED
  BY <1>2, <1>3 DEF State

-----------------------------------------------------------------------------
(* Queues.                                                                 *)

\* What an attempt still is when it is no other, and when it is no more.
LEMMA Continued ==
  ASSUME NEW a \in Attempt, NEW b \in Attempt, Continues(a, b), b.phase # "none"
  PROVE  /\ b.ref = a.ref /\ b.round = a.round /\ b.id = a.id /\ b.phase = a.phase
         /\ a.stale => b.stale
  BY NoAttemptTyped DEF Continues

\* A later state of the driver remembers no more of the goal than it may.
LEMMA AttemptsLater ==
  ASSUME NEW s \in State, NEW t \in State, NEW g \in Goal, NEW h \in Goal,
         Attempts(s, g), Later(g, h), Keeps(s, t), Continues(s.attempt, t.attempt),
         t.checkpoint = s.checkpoint \/ h.ref > g.ref \/ t.attempt = NoAttempt,
         s.run # "joining" \/ t.checkpoint
           \/ (t.checkpoint = s.checkpoint /\ [h EXCEPT !.armed = TRUE] = [g EXCEPT !.armed = TRUE])
  PROVE  Attempts(t, h)
<1> DEFINE a == s.attempt
           b == t.attempt
<1>1. a \in Attempt /\ b \in Attempt
  BY StateFields
<1>2. t.run = "joining" => b.phase = "none" /\ (~t.checkpoint => t.view = [h EXCEPT !.armed = TRUE])
  <2> SUFFICES ASSUME t.run = "joining"
               PROVE  b.phase = "none" /\ (~t.checkpoint => t.view = [h EXCEPT !.armed = TRUE])
    OBVIOUS
  <2>1. s.run = "joining" /\ t.view = s.view
    BY DEF Keeps
  <2>2. a.phase = "none"
    BY <2>1 DEF Attempts
  <2>3. b.phase = "none"
    BY <2>2, NoAttemptTyped DEF Continues
  <2>4. ~t.checkpoint => t.view = [h EXCEPT !.armed = TRUE]
    BY <2>1 DEF Attempts
  <2>5. QED
    BY <2>3, <2>4
<1>3. CASE b.phase = "none"
  <2>1. b = NoAttempt
    <3>1. a.phase = "none" => a = NoAttempt
      BY DEF Attempts
    <3>2. QED
      BY <1>3, <3>1 DEF Continues
  <2>2. QED
    BY <1>2, <1>3, <2>1 DEF Attempts
<1>4. CASE b.phase # "none"
  <2>1. /\ b.ref = a.ref /\ b.round = a.round /\ b.id = a.id /\ b.phase = a.phase
        /\ a.ref \in Nat /\ a.round \in Nat
    BY <1>1, <1>4, Continued, AttemptFields
  <2>2. a.id # 0 /\ a.round > 0 /\ a.ref <= g.ref
    BY <1>4, <2>1 DEF Attempts
  <2>3. /\ g.ref \in Nat /\ h.ref \in Nat /\ g.rounds \in Nat /\ h.rounds \in Nat
    BY GoalFields
  <2>4. b.ref <= h.ref
    BY <2>1, <2>2, <2>3 DEF Later
  <2>5. b.ref = h.ref => h.ref = g.ref /\ h.rounds >= g.rounds
    BY <2>1, <2>2, <2>3 DEF Later
  <2>6. b.ref = h.ref => a.round <= g.rounds + 1 /\ ~s.checkpoint /\ s.run # "flushing"
    BY <1>4, <2>1, <2>5 DEF Attempts
  <2>7. b.ref = h.ref => b.round <= h.rounds + 1
    BY <2>1, <2>3, <2>5, <2>6
  <2>8. t.attempt # NoAttempt
    BY <1>4, NoAttemptTyped
  <2>9. b.ref = h.ref => ~t.checkpoint /\ t.run # "flushing"
    BY <2>3, <2>5, <2>6, <2>8 DEF Keeps
  <2>10. QED
    BY <1>2, <1>4, <2>1, <2>2, <2>4, <2>7, <2>9 DEF Attempts
<1>5. QED
  BY <1>3, <1>4

\* So the queue stays what it may be for the attempt.
LEMMA ConfigLater ==
  ASSUME NEW s \in State, NEW t \in State, NEW g \in Goal, NEW h \in Goal,
         NEW q \in Seq(Message), NEW c \in BOOLEAN, NEW c2 \in BOOLEAN,
         Config(s, q, g, c), Later(g, h), Attempts(t, h), Continues(s.attempt, t.attempt),
         c => c2 \/ Spent(t.attempt, h) \/ t.attempt = NoAttempt
  PROVE  Config(t, q, h, c2)
<1>1. Attempts(s, g) /\ Queue(q, g) /\ OneEach(q) /\ Ahead(q, s.attempt, g, c)
  BY DEF Config
<1>2. Queue(q, h)
  BY <1>1, LaterFits
<1>3. s.attempt \in Attempt /\ t.attempt \in Attempt
  BY StateFields
<1>4. Ahead(q, t.attempt, h, c2)
  <2>1. SUFFICES ASSUME NEW k \in DOMAIN q, Own(q[k], t.attempt)
                 PROVE  /\ t.attempt.phase # "queued" => Spent(t.attempt, h) \/ c2
                        /\ (\E l \in DOMAIN q : k < l /\ ~IsRound(q[l])) =>
                             t.attempt.stale \/ Spent(t.attempt, h) \/ c2
    BY DEF Ahead
  <2>2. t.attempt.id # 0
    BY <1>1, <2>1 DEF Own, Queue, Fits
  <2>3. t.attempt # NoAttempt
    BY <2>2, NoAttemptTyped
  <2>4. /\ t.attempt.ref = s.attempt.ref /\ t.attempt.round = s.attempt.round
        /\ t.attempt.id = s.attempt.id /\ t.attempt.phase = s.attempt.phase
        /\ s.attempt.stale => t.attempt.stale
    BY <2>3 DEF Continues
  <2>5. Own(q[k], s.attempt)
    BY <2>1, <2>4 DEF Own
  <2>6. Spent(s.attempt, g) => Spent(t.attempt, h)
    <3>1. Spent(s.attempt, g) => Spent(s.attempt, h)
      BY <1>1, LaterSpent
    <3>2. QED
      BY <2>4, <3>1 DEF Spent
  <2>7. /\ s.attempt.phase # "queued" => Spent(s.attempt, g) \/ c
        /\ (\E l \in DOMAIN q : k < l /\ ~IsRound(q[l])) => s.attempt.stale \/ Spent(s.attempt, g) \/ c
    BY <1>1, <2>1, <2>5 DEF Ahead
  <2>8. c => c2 \/ Spent(t.attempt, h)
    BY <2>3
  <2>9. QED
    BY <2>4, <2>6, <2>7, <2>8
<1>5. QED
  BY <1>1, <1>2, <1>4 DEF Config

\* A message may join the queue if it fits, and if it is no round there is.
LEMMA QueueAppend ==
  ASSUME NEW g \in Goal, NEW q \in Seq(Message), NEW m \in Message, Queue(q, g), OneEach(q),
         Fits(m, g), IsRound(m) => \A k \in DOMAIN q : q[k].id # m.id
  PROVE  /\ Append(q, m) \in Seq(Message) /\ Queue(Append(q, m), g) /\ OneEach(Append(q, m))
<1> DEFINE w == Append(q, m)
<1>1. /\ w \in Seq(Message) /\ DOMAIN w = 1..Len(q) + 1 /\ DOMAIN q = 1..Len(q) /\ Len(q) \in Nat
      /\ w[Len(q) + 1] = m /\ \A k \in DOMAIN q : w[k] = q[k]
  BY AppendProperties, LenProperties
<1> HIDE DEF w
<1>2. Queue(w, g)
  <2>1. SUFFICES ASSUME NEW k \in DOMAIN w PROVE Fits(w[k], g)
    BY DEF Queue
  <2>2. k \in DOMAIN q \/ k = Len(q) + 1
    BY <1>1
  <2>3. QED
    BY <1>1, <2>2 DEF Queue
<1>3. OneEach(w)
  <2>1. SUFFICES ASSUME NEW j \in DOMAIN w, NEW k \in DOMAIN w, IsRound(w[j]), IsRound(w[k]),
                        w[j].id = w[k].id
                 PROVE  j = k
    BY DEF OneEach
  <2>2. (j \in DOMAIN q \/ j = Len(q) + 1) /\ (k \in DOMAIN q \/ k = Len(q) + 1)
    BY <1>1
  <2>3. CASE j \in DOMAIN q /\ k \in DOMAIN q
    BY <1>1, <2>1, <2>3 DEF OneEach
  <2>4. CASE j \in DOMAIN q /\ k = Len(q) + 1
    BY <1>1, <2>1, <2>4
  <2>5. CASE j = Len(q) + 1 /\ k \in DOMAIN q
    BY <1>1, <2>1, <2>5
  <2>6. QED
    BY <2>2, <2>3, <2>4, <2>5
<1>4. QED
  BY <1>1, <1>2, <1>3 DEF w

\* A queue whose messages stand in another queue, in the same order, is as good.
LEMMA Thinned ==
  ASSUME NEW g \in Goal, NEW q \in Seq(Message), NEW w \in Seq(Message), NEW c \in BOOLEAN,
         NEW a \in Attempt, NEW f \in [DOMAIN w -> DOMAIN q],
         \A i \in DOMAIN w : w[i] = q[f[i]],
         \A i, j \in DOMAIN w : i < j => f[i] < f[j],
         Queue(q, g), OneEach(q), Ahead(q, a, g, c)
  PROVE  Queue(w, g) /\ OneEach(w) /\ Ahead(w, a, g, c)
<1>1. DOMAIN w = 1..Len(w) /\ DOMAIN q = 1..Len(q) /\ Len(w) \in Nat /\ Len(q) \in Nat
  BY LenProperties
<1>2. Queue(w, g)
  BY DEF Queue
<1>3. OneEach(w)
  <2>1. SUFFICES ASSUME NEW j \in DOMAIN w, NEW k \in DOMAIN w, IsRound(w[j]), IsRound(w[k]),
                        w[j].id = w[k].id
                 PROVE  j = k
    BY DEF OneEach
  <2>2. f[j] = f[k]
    BY <2>1 DEF OneEach
  <2>3. ~(f[j] < f[k]) /\ ~(f[k] < f[j])
    BY <1>1, <2>2
  <2>4. ~(j < k) /\ ~(k < j)
    BY <2>3
  <2>5. QED
    BY <1>1, <2>4
<1>4. Ahead(w, a, g, c)
  <2>1. SUFFICES ASSUME NEW k \in DOMAIN w, Own(w[k], a)
                 PROVE  /\ a.phase # "queued" => Spent(a, g) \/ c
                        /\ (\E l \in DOMAIN w : k < l /\ ~IsRound(w[l])) => a.stale \/ Spent(a, g) \/ c
    BY DEF Ahead
  <2>2. Own(q[f[k]], a) /\ f[k] \in DOMAIN q
    BY <2>1
  <2>3. (\E l \in DOMAIN w : k < l /\ ~IsRound(w[l])) =>
          \E l \in DOMAIN q : f[k] < l /\ ~IsRound(q[l])
    OBVIOUS
  <2>4. QED
    BY <2>2, <2>3 DEF Ahead
<1>5. QED
  BY <1>2, <1>3, <1>4

\* What a claim leaves is the queue without its first message.
LEMMA FirstProperties ==
  ASSUME NEW q \in Seq(Message)
  PROVE  /\ First(q) \in Seq(Message) /\ Len(First(q)) <= 1
         /\ q = <<>> => First(q) = <<>>
         /\ q # <<>> => 1 \in DOMAIN q /\ First(q) # <<>> /\ First(q)[1] = q[1] /\ Len(First(q)) = 1
         /\ DOMAIN First(q) \subseteq {1}
<1>1. DOMAIN q = 1..Len(q) /\ Len(q) \in Nat
  BY LenProperties
<1>2. CASE q = <<>>
  BY <1>2, SubSeqEmpty, EmptySeq DEF First
<1>3. CASE q # <<>>
  <2>1. 1 \in 1..Len(q)
    BY <1>1, <1>3, EmptySeq
  <2>2. First(q) = SubSeq(q, 1, 1)
    BY <1>3 DEF First
  <2>3. \A i \in 1..1 : q[i] \in Message
    BY <2>1, ElementOfSeq
  <2>4. /\ SubSeq(q, 1, 1) \in Seq(Message) /\ Len(SubSeq(q, 1, 1)) = 1
        /\ SubSeq(q, 1, 1)[1] = q[1]
    BY <2>3, SubSeqProperties
  <2>5. DOMAIN First(q) = 1..1
    BY <2>2, <2>4, LenProperties
  <2>6. First(q) # <<>>
    <3>1. Len(First(q)) = 1 /\ First(q) \in Seq(Message)
      BY <2>2, <2>4
    <3>2. QED
      BY <3>1, EmptySeq
  <2>7. QED
    BY <1>1, <1>3, <2>1, <2>2, <2>4, <2>5, <2>6
<1>4. QED
  BY <1>2, <1>3

\* The rest is the queue from its second message on.
LEMMA RestProperties ==
  ASSUME NEW q \in Seq(Message)
  PROVE  /\ Rest(q) \in Seq(Message)
         /\ \A i \in DOMAIN Rest(q) : i \in Nat /\ i + 1 \in DOMAIN q /\ Rest(q)[i] = q[i + 1]
<1>1. CASE q = <<>>
  BY <1>1 DEF Rest
<1>2. CASE q # <<>>
  <2>1. Rest(q) = Tail(q)
    BY <1>2 DEF Rest
  <2>2. /\ Tail(q) \in Seq(Message) /\ Len(Tail(q)) = Len(q) - 1
        /\ \A i \in 1..Len(Tail(q)) : Tail(q)[i] = q[i + 1]
    BY <1>2, HeadTailProperties
  <2>3. /\ DOMAIN Tail(q) = 1..Len(Tail(q)) /\ DOMAIN q = 1..Len(q) /\ Len(q) \in Nat
    BY <2>2, LenProperties
  <2>4. QED
    BY <2>1, <2>2, <2>3
<1>3. QED
  BY <1>1, <1>2

\* It stays in order, with one round, which the attempt still owns.
LEMMA RestKeeps ==
  ASSUME NEW g \in Goal, NEW q \in Seq(Message), NEW c \in BOOLEAN, NEW a \in Attempt,
         Queue(q, g), OneEach(q), Ahead(q, a, g, c)
  PROVE  Queue(Rest(q), g) /\ OneEach(Rest(q)) /\ Ahead(Rest(q), a, g, c)
<1> DEFINE f == [i \in DOMAIN Rest(q) |-> i + 1]
<1>1. Rest(q) \in Seq(Message) /\ f \in [DOMAIN Rest(q) -> DOMAIN q]
  BY RestProperties
<1>2. \A i \in DOMAIN Rest(q) : Rest(q)[i] = q[f[i]]
  BY RestProperties
<1>3. \A i, j \in DOMAIN Rest(q) : i < j => f[i] < f[j]
  BY RestProperties
<1> HIDE DEF f
<1>4. QED
  BY <1>1, <1>2, <1>3, Thinned

\* The queue behind the removal of a message.
LEMMA WithoutProperties ==
  ASSUME NEW q \in Seq(Message), NEW k \in DOMAIN q
  PROVE  /\ Without(q, k) \in Seq(Message)
         /\ DOMAIN Without(q, k) = 1..Len(q) - 1
         /\ \A i \in 1..Len(q) - 1 : Without(q, k)[i] = q[IF i < k THEN i ELSE i + 1]
<1> DEFINE x == SubSeq(q, 1, k - 1)
           y == SubSeq(q, k + 1, Len(q))
<1>1. DOMAIN q = 1..Len(q) /\ Len(q) \in Nat /\ k \in 1..Len(q)
  BY LenProperties
<1>2. \A i \in 1..Len(q) : q[i] \in Message
  BY ElementOfSeq
<1>3. /\ x \in Seq(Message) /\ Len(x) = k - 1 /\ \A i \in 1..k - 1 : x[i] = q[i]
  <2>1. 1 \in Int /\ k - 1 \in Int /\ \A i \in 1..k - 1 : q[i] \in Message
    BY <1>1, <1>2
  <2>2. /\ x \in Seq(Message) /\ Len(x) = IF 1 <= k - 1 THEN (k - 1) - 1 + 1 ELSE 0
        /\ \A i \in 1..(k - 1) - 1 + 1 : x[i] = q[1 + i - 1]
    BY <2>1, SubSeqProperties
  <2> HIDE DEF x
  <2>3. QED
    BY <1>1, <2>2
<1>4. /\ y \in Seq(Message) /\ Len(y) = Len(q) - k /\ \A i \in 1..Len(q) - k : y[i] = q[k + i]
  <2>1. k + 1 \in Int /\ Len(q) \in Int /\ \A i \in k + 1..Len(q) : q[i] \in Message
    BY <1>1, <1>2
  <2>2. /\ y \in Seq(Message) /\ Len(y) = IF k + 1 <= Len(q) THEN Len(q) - (k + 1) + 1 ELSE 0
        /\ \A i \in 1..Len(q) - (k + 1) + 1 : y[i] = q[k + 1 + i - 1]
    BY <2>1, SubSeqProperties
  <2> HIDE DEF y
  <2>3. Len(q) - (k + 1) + 1 = Len(q) - k
    BY <1>1
  <2>4. Len(y) = Len(q) - k
    <3>1. CASE k + 1 <= Len(q)
      BY <2>2, <2>3, <3>1
    <3>2. CASE ~(k + 1 <= Len(q))
      BY <1>1, <2>2, <3>2
    <3>3. QED
      BY <3>1, <3>2
  <2>5. \A i \in 1..Len(q) - k : y[i] = q[k + i]
    <3>1. SUFFICES ASSUME NEW i \in 1..Len(q) - k
                   PROVE  y[i] = q[k + i]
      OBVIOUS
    <3>2. y[i] = q[k + 1 + i - 1]
      BY <2>2, <2>3
    <3>3. k + 1 + i - 1 = k + i
      BY <1>1
    <3>4. QED
      BY <3>2, <3>3
  <2>6. QED
    BY <2>2, <2>4, <2>5
<1>5. Without(q, k) = x \o y
  BY DEF Without
<1> HIDE DEF x, y
<1>6. /\ x \o y \in Seq(Message) /\ Len(x \o y) = Len(x) + Len(y)
      /\ \A i \in 1..Len(x) + Len(y) : (x \o y)[i] = IF i <= Len(x) THEN x[i] ELSE y[i - Len(x)]
  BY <1>3, <1>4, ConcatProperties
<1>7. DOMAIN (x \o y) = 1..Len(q) - 1
  <2>1. DOMAIN (x \o y) = 1..Len(x \o y)
    BY <1>6, LenProperties
  <2>2. Len(x \o y) = Len(q) - 1
    BY <1>1, <1>3, <1>4, <1>6
  <2>3. QED
    BY <2>1, <2>2
<1>8. ASSUME NEW i \in 1..Len(q) - 1
      PROVE  (x \o y)[i] = q[IF i < k THEN i ELSE i + 1]
  <2>1. (x \o y)[i] = IF i <= k - 1 THEN x[i] ELSE y[i - (k - 1)]
    BY <1>1, <1>3, <1>4, <1>6
  <2>2. CASE i < k
    BY <1>1, <1>3, <2>1, <2>2
  <2>3. CASE ~(i < k)
    <3>1. i - (k - 1) \in 1..Len(q) - k /\ k + (i - (k - 1)) = i + 1
      BY <1>1, <2>3
    <3>2. y[i - (k - 1)] = q[k + (i - (k - 1))]
      BY <1>4, <3>1
    <3>3. QED
      BY <1>1, <2>1, <2>3, <3>1, <3>2
  <2>4. QED
    BY <2>2, <2>3
<1>9. QED
  BY <1>5, <1>6, <1>7, <1>8

\* A removal too keeps the order and the attempt's claim.
LEMMA WithoutKeeps ==
  ASSUME NEW g \in Goal, NEW q \in Seq(Message), NEW c \in BOOLEAN, NEW a \in Attempt,
         NEW k \in DOMAIN q, Queue(q, g), OneEach(q), Ahead(q, a, g, c)
  PROVE  /\ Without(q, k) \in Seq(Message)
         /\ Queue(Without(q, k), g) /\ OneEach(Without(q, k)) /\ Ahead(Without(q, k), a, g, c)
<1> DEFINE w == Without(q, k)
           f == [i \in DOMAIN w |-> IF i < k THEN i ELSE i + 1]
<1>1. DOMAIN q = 1..Len(q) /\ Len(q) \in Nat /\ k \in 1..Len(q)
  BY LenProperties
<1>2. /\ w \in Seq(Message) /\ DOMAIN w = 1..Len(q) - 1
      /\ \A i \in 1..Len(q) - 1 : w[i] = q[IF i < k THEN i ELSE i + 1]
  BY WithoutProperties
<1> HIDE DEF w
<1>3. f \in [DOMAIN w -> DOMAIN q]
  BY <1>1, <1>2
<1>4. \A i \in DOMAIN w : w[i] = q[f[i]]
  BY <1>2
<1>5. \A i, j \in DOMAIN w : i < j => f[i] < f[j]
  BY <1>1, <1>2
<1> HIDE DEF f
<1>6. w \in Seq(Message)
  BY <1>2
<1>7. Queue(w, g) /\ OneEach(w) /\ Ahead(w, a, g, c)
  BY <1>3, <1>4, <1>5, <1>6, Thinned
<1>8. QED
  BY <1>6, <1>7 DEF w

\* A message's id is new: there are more numbers than messages.
LEMMA UnusedIsFresh ==
  ASSUME nextTurn \in Seq(Message), batch.turn \in Seq(Message)
  PROVE  UnusedId \in Nat \ {0} /\ \A k \in DOMAIN nextTurn : nextTurn[k].id # UnusedId
<1> DEFINE messages == nextTurn \o batch.turn
           n == Len(messages)
           used(i) == CHOOSE k \in DOMAIN messages : messages[k].id = i
           f == [i \in 1..n + 1 |-> used(i)]
<1>1. /\ messages \in Seq(Message) /\ n = Len(nextTurn) + Len(batch.turn)
      /\ \A i \in 1..Len(nextTurn) + Len(batch.turn) : messages[i] =
           IF i <= Len(nextTurn) THEN nextTurn[i] ELSE batch.turn[i - Len(nextTurn)]
  BY ConcatProperties
<1>2. /\ DOMAIN messages = 1..n /\ n \in Nat /\ DOMAIN nextTurn = 1..Len(nextTurn)
      /\ Len(nextTurn) \in Nat /\ Len(batch.turn) \in Nat
  BY <1>1, LenProperties
<1>3. \E i \in 1..n + 1 : \A k \in DOMAIN messages : messages[k].id # i
  <2>1. SUFFICES ASSUME \A i \in 1..n + 1 : \E k \in DOMAIN messages : messages[k].id = i
                 PROVE  FALSE
    BY Zenon
  <2>2. \A i \in 1..n + 1 : used(i) \in DOMAIN messages /\ messages[used(i)].id = i
    BY <2>1
  <2>3. f \in [1..n + 1 -> 1..n]
    BY <1>2, <2>2
  <2>4. /\ IsFiniteSet(1..n + 1) /\ IsFiniteSet(1..n)
        /\ Cardinality(1..n) < Cardinality(1..n + 1)
    <3>1. 1 \in Int /\ n \in Int /\ n + 1 \in Int
      BY <1>2
    <3> HIDE DEF n, messages, f, used
    <3>2. IsFiniteSet(1..n) /\ Cardinality(1..n) = IF 1 > n THEN 0 ELSE n - 1 + 1
      BY <3>1, FS_Interval
    <3>3. /\ IsFiniteSet(1..n + 1)
          /\ Cardinality(1..n + 1) = IF 1 > n + 1 THEN 0 ELSE (n + 1) - 1 + 1
      BY <3>1, FS_Interval
    <3>4. QED
      BY <1>2, <3>2, <3>3
  <2> HIDE DEF used, f, messages
  <2>5. PICK x \in 1..n + 1, y \in 1..n + 1 : x # y /\ f[x] = f[y]
    BY <2>3, <2>4, FS_PigeonHole
  <2>6. used(x) = used(y)
    BY <2>5 DEF f
  <2>7. QED
    BY <2>2, <2>5, <2>6
<1>4. UnusedId = CHOOSE i \in 1..n + 1 : \A k \in DOMAIN messages : messages[k].id # i
  BY DEF UnusedId
<1> HIDE DEF messages
<1>5. UnusedId \in 1..n + 1 /\ \A k \in DOMAIN messages : messages[k].id # UnusedId
  BY <1>3, <1>4
<1>6. \A k \in DOMAIN nextTurn : k \in DOMAIN messages /\ messages[k] = nextTurn[k]
  BY <1>1, <1>2
<1>7. QED
  BY <1>2, <1>5, <1>6

-----------------------------------------------------------------------------
(* Turns that begin and end.                                               *)

\* A turn that opens claims the first message: what is said of a queue with the
\* attempt's message in it becomes what is said of the batch.
LEMMA OpenTurnKeeps ==
  ASSUME NEW s \in State, NEW q \in Seq(Message), NEW steer \in BOOLEAN,
         OpenTurn(s, q, steer), goal' \in Goal, Config(s, q, goal', FALSE),
         failed' = FALSE, replay' \in BOOLEAN, events' \in 0..MaxEvents
  PROVE  Inv'
<1>1. /\ place' = "claimed" /\ aborted' = FALSE /\ latch' = FALSE /\ late' = FALSE
      /\ overtaken' = \E m \in Range(Rest(q)) : ~IsRound(m)
      /\ batch' = [turn |-> First(q), steer |-> steer]
      /\ nextTurn' = Rest(q) /\ steering' = FALSE /\ d' = Claimed(s, First(q))
  BY DEF OpenTurn
<1>2. /\ First(q) \in Seq(Message) /\ Len(First(q)) <= 1 /\ Rest(q) \in Seq(Message)
      /\ q = <<>> => First(q) = <<>>
      /\ q # <<>> => 1 \in DOMAIN q /\ First(q) # <<>> /\ First(q)[1] = q[1]
      /\ DOMAIN First(q) \subseteq {1}
  BY FirstProperties, RestProperties
<1>3. /\ Attempts(s, goal') /\ Queue(q, goal') /\ OneEach(q)
      /\ Ahead(q, s.attempt, goal', FALSE) /\ s.attempt \in Attempt
  BY StateFields DEF Config
<1>4. /\ d' \in State /\ d'.checkpoint = s.checkpoint /\ d'.view = s.view /\ d'.run = s.run
      /\ \/ d' = s /\ ~(First(q) # <<>> /\ Same(First(q)[1], s.attempt))
         \/ /\ First(q) # <<>> /\ Same(First(q)[1], s.attempt)
            /\ d'.attempt.ref = s.attempt.ref /\ d'.attempt.round = s.attempt.round
            /\ d'.attempt.id = s.attempt.id /\ d'.attempt.stale = s.attempt.stale
            /\ d'.attempt.phase = "claimed"
  <2>1. First(q) \in Seq(Message)
    BY <1>2
  <2>2. QED
    BY <1>1, <2>1, ClaimedTyped
<1>5. TypeOK'
  <2>1. batch' \in [turn : Seq(Message), steer : BOOLEAN]
    BY <1>1, <1>2
  <2>2. overtaken' \in BOOLEAN
    BY <1>1
  <2>3. /\ aborted' \in BOOLEAN /\ latch' \in BOOLEAN /\ late' \in BOOLEAN /\ steering' \in BOOLEAN
        /\ failed' \in BOOLEAN /\ nextTurn' \in Seq(Message)
        /\ place' \in {"idle", "maintenance", "claimed", "asking", "rejected", "entering", "acting"}
        /\ aborted' \/ latch' => place' # "idle"
    BY <1>1, <1>2
  <2>4. QED
    BY <1>4, <2>1, <2>2, <2>3 DEF TypeOK
<1>6. Attempts(d', goal')
  <2>1. CASE d' = s
    BY <1>3, <2>1
  <2>2. CASE d' # s
    <3>1. s.attempt.phase # "none"
      BY <1>4, <2>2 DEF Same
    <3>2. QED
      BY <1>3, <1>4, <2>2, <3>1 DEF Attempts
  <2>3. QED
    BY <2>1, <2>2
<1>7. /\ RoundClaimed' => First(q) # <<>> /\ IsRound(q[1]) /\ q # <<>> /\ 1 \in DOMAIN q
                          /\ batch'.turn[1] = q[1]
      /\ batch'.turn = First(q)
      /\ First(q) # <<>> => q # <<>> /\ First(q)[1] = q[1] /\ 1 \in DOMAIN q
  <2>1. batch'.turn = First(q)
    BY <1>1
  <2>2. QED
    BY <1>2, <2>1 DEF RoundClaimed
<1>8. Queue(nextTurn', goal') /\ OneEach(nextTurn') /\ Ahead(nextTurn', s.attempt, goal', FALSE)
  BY <1>1, <1>3, RestKeeps
<1>9. Ahead(nextTurn', d'.attempt, goal', Copied(d.attempt)')
  <2>1. CASE d' = s
    BY <1>8, <2>1 DEF Ahead
  <2>2. CASE d' # s
    <3>1. Same(q[1], s.attempt) /\ First(q) # <<>> /\ q # <<>> /\ 1 \in DOMAIN q
      BY <1>4, <1>7, <2>2
    <3>2. q[1].round = s.attempt.round /\ s.attempt.phase # "none" /\ q[1].ref = s.attempt.ref
      BY <3>1 DEF Same
    <3>3. s.attempt.round > 0
      BY <1>3, <3>2 DEF Attempts
    <3>4. IsRound(q[1])
      BY <3>2, <3>3 DEF IsRound
    <3>5. batch'.turn # <<>> /\ batch'.turn[1] = q[1]
      BY <1>7, <3>1
    <3>6. Copied(d.attempt)'
      BY <1>1, <1>4, <2>2, <3>2, <3>4, <3>5 DEF Copied, RoundClaimed, Same
    <3>7. QED
      BY <3>6 DEF Ahead
  <2>3. QED
    BY <2>1, <2>2
<1>10. Placed'
  <2>1. Queue(batch'.turn, goal') /\ Len(batch'.turn) <= 1
    <3>1. \A k \in DOMAIN First(q) : k = 1 /\ First(q) # <<>>
      BY <1>2
    <3>2. Queue(First(q), goal')
      BY <1>3, <1>7, <3>1 DEF Queue
    <3>3. QED
      BY <1>2, <1>7, <3>2
  <2>2. ASSUME RoundClaimed', Own(batch'.turn[1], d'.attempt), overtaken'
        PROVE  d'.attempt.stale \/ Spent(d'.attempt, goal')
    <3>1. /\ d'.attempt.id = s.attempt.id /\ d'.attempt.ref = s.attempt.ref
          /\ d'.attempt.round = s.attempt.round /\ d'.attempt.stale = s.attempt.stale
      BY <1>4
    <3>2. Own(q[1], s.attempt) /\ 1 \in DOMAIN q
      BY <1>7, <2>2, <3>1 DEF Own
    <3>3. \E l \in DOMAIN q : 1 < l /\ ~IsRound(q[l])
      <4>1. PICK i \in DOMAIN Rest(q) : ~IsRound(Rest(q)[i])
        BY <1>1, <2>2 DEF Range
      <4>2. i \in DOMAIN Rest(q) /\ DOMAIN Rest(q) = 1..Len(Rest(q)) /\ Len(Rest(q)) \in Nat
        BY <1>2, <4>1, LenProperties
      <4>3. i + 1 \in DOMAIN q /\ 1 < i + 1 /\ Rest(q)[i] = q[i + 1]
        BY <4>2, RestProperties
      <4>4. QED
        BY <4>1, <4>3
    <3>4. s.attempt.stale \/ Spent(s.attempt, goal')
      BY <1>3, <3>2, <3>3 DEF Ahead
    <3>5. QED
      BY <3>1, <3>4 DEF Spent
  <2>3. QED
    BY <1>1, <2>1, <2>2 DEF Placed
<1>11. QED
  BY <1>5, <1>6, <1>8, <1>9, <1>10 DEF Inv, Config

\* What is taken back from the queue is one message of it, or none.
LEMMA WithdrawnKeeps ==
  ASSUME NEW g \in Goal, NEW q \in Seq(Message), NEW c \in BOOLEAN, NEW s \in State,
         NEW a \in Attempt, Queue(q, g), OneEach(q), Ahead(q, a, g, c)
  PROVE  /\ Withdrawn(s, q) \in Seq(Message)
         /\ Queue(Withdrawn(s, q), g) /\ OneEach(Withdrawn(s, q)) /\ Ahead(Withdrawn(s, q), a, g, c)
<1> DEFINE own == {k \in DOMAIN q : q[k].id = s.attempt.id}
           k == CHOOSE k \in own : TRUE
<1>1. CASE s.attempt.phase = "queued" /\ own # {}
  <2>1. k \in DOMAIN q
    BY <1>1
  <2>2. Withdrawn(s, q) = Without(q, k)
    BY <1>1 DEF Withdrawn
  <2> HIDE DEF k
  <2>3. QED
    BY <2>1, <2>2, WithoutKeeps
<1>2. CASE ~(s.attempt.phase = "queued" /\ own # {})
  BY <1>2 DEF Withdrawn
<1>3. QED
  BY <1>1, <1>2

\* Nothing is own to no attempt.
LEMMA AheadOfNone ==
  ASSUME NEW g \in Goal, NEW q \in Seq(Message), NEW c \in BOOLEAN, Queue(q, g)
  PROVE  Ahead(q, NoAttempt, g, c)
  BY NoAttemptTyped DEF Ahead, Own, Queue, Fits

\* A turn that ends pauses the goal or leaves an attempt that is spent, and takes back
\* what is still queued.
LEMMA BecomeIdleKeeps ==
  ASSUME NEW s \in State, NEW g \in Goal, NEW q \in Seq(Message), NEW steer \in BOOLEAN,
         NEW c \in BOOLEAN, BecomeIdle(s, g, q, steer), Config(s, q, g, c),
         c => s.attempt.phase = "claimed",
         latch \in BOOLEAN, late \in BOOLEAN, overtaken \in BOOLEAN,
         failed' \in BOOLEAN, failed' => late, events' \in 0..MaxEvents
  PROVE  Inv'
<1> DEFINE pause == Pauses(s, g)
           b == IF pause \/ s.attempt.phase = "queued" THEN NoAttempt ELSE s.attempt
           idle == [s EXCEPT !.competing = FALSE, !.attempt = b]
<1>1. /\ goal' \in (IF pause THEN Paused(g) ELSE {g})
      /\ d' = IF pause THEN Changed(idle) ELSE Requested(idle)
      /\ nextTurn' = Withdrawn(s, q) /\ steering' = steer
      /\ place' = "idle" /\ batch' = NoBatch /\ aborted' = FALSE
      /\ replay' = latch /\ latch' = FALSE /\ late' = late /\ overtaken' = overtaken
  BY DEF BecomeIdle, history
<1>2. /\ Attempts(s, g) /\ Queue(q, g) /\ OneEach(q) /\ Ahead(q, s.attempt, g, c)
      /\ s.attempt \in Attempt
  BY StateFields DEF Config
<1>3. /\ idle \in State /\ idle.attempt = b /\ idle.checkpoint = s.checkpoint
      /\ idle.view = s.view /\ idle.run = s.run
  BY <1>2, NoAttemptTyped DEF State
<1> HIDE DEF idle
<1>4. /\ d' \in State /\ d'.attempt = b /\ Keeps(s, d')
      /\ d'.checkpoint = (pause \/ s.checkpoint)
  <2>1. CASE pause
    <3>1. /\ Changed(idle) \in State /\ Changed(idle).attempt = b /\ Changed(idle).checkpoint = TRUE
          /\ Keeps(idle, Changed(idle))
      BY <1>3, ChangedTyped
    <3>2. QED
      BY <1>1, <1>3, <2>1, <3>1 DEF Keeps
  <2>2. CASE ~pause
    <3>1. /\ Requested(idle) \in State /\ Requested(idle).attempt = b
          /\ Requested(idle).checkpoint = s.checkpoint /\ Keeps(idle, Requested(idle))
      BY <1>3, RequestedTyped
    <3>2. s.checkpoint \in BOOLEAN
      BY StateFields
    <3>3. QED
      BY <1>1, <1>3, <2>2, <3>1, <3>2 DEF Keeps
  <2>3. QED
    BY <2>1, <2>2
<1>5. goal' \in Goal /\ Later(g, goal') /\ (pause => goal'.ref > g.ref) /\ (~pause => goal' = g)
  <2>1. CASE pause
    <3>1. goal' \in Paused(g)
      BY <1>1, <2>1
    <3>2. goal' \in Goal /\ goal'.ref = g.ref + 1
      BY <3>1, Revisions
    <3>3. g.ref \in Nat
      BY GoalFields
    <3>4. QED
      BY <2>1, <3>2, <3>3 DEF Later
  <2>2. CASE ~pause
    BY <1>1, <2>2, Disarming
  <2>3. QED
    BY <2>1, <2>2
<1>6. Continues(s.attempt, b)
  BY DEF Continues
<1>7. Attempts(d', goal')
  <2>1. Continues(s.attempt, d'.attempt)
    BY <1>4, <1>6
  <2>2. d'.checkpoint = s.checkpoint \/ goal'.ref > g.ref
    BY <1>4, <1>5, StateFields
  <2>3. d'.checkpoint \/ (d'.checkpoint = s.checkpoint /\ goal' = g)
    BY <1>4, <1>5, StateFields
  <2> HIDE DEF b, pause
  <2>4. QED
    BY <1>2, <1>4, <1>5, <2>1, <2>2, <2>3, AttemptsLater
<1>8. c => Spent(d'.attempt, goal') \/ d'.attempt = NoAttempt
  BY <1>4, <1>5 DEF Pauses, Spent
<1>9. Config(d', q, goal', FALSE)
  <2>1. Continues(s.attempt, d'.attempt)
    BY <1>4, <1>6
  <2>2. c => FALSE \/ Spent(d'.attempt, goal') \/ d'.attempt = NoAttempt
    BY <1>8
  <2>3. FALSE \in BOOLEAN /\ d' \in State /\ goal' \in Goal /\ Later(g, goal')
    BY <1>4, <1>5
  <2> HIDE DEF b, pause
  <2>4. ASSUME NEW c2 \in BOOLEAN, c => c2 \/ Spent(d'.attempt, goal') \/ d'.attempt = NoAttempt
        PROVE  Config(d', q, goal', c2)
    BY <1>7, <2>1, <2>3, <2>4, ConfigLater
  <2>5. QED
    BY <2>2, <2>4
<1>10. nextTurn' \in Seq(Message) /\ Config(d', nextTurn', goal', FALSE)
  <2>1. d'.attempt \in Attempt
    BY <1>4, StateFields
  <2>2. Queue(q, goal') /\ OneEach(q) /\ Ahead(q, d'.attempt, goal', FALSE)
    BY <1>9 DEF Config
  <2>3. /\ Withdrawn(s, q) \in Seq(Message)
        /\ Queue(Withdrawn(s, q), goal') /\ OneEach(Withdrawn(s, q))
        /\ Ahead(Withdrawn(s, q), d'.attempt, goal', FALSE)
    BY <1>5, <2>1, <2>2, WithdrawnKeeps
  <2>4. QED
    BY <1>1, <1>7, <2>3 DEF Config
<1>11. ~Copied(d.attempt)' /\ ~RoundClaimed'
  BY <1>1 DEF Copied, RoundClaimed, NoBatch
<1>12. TypeOK'
  <2>1. batch' \in [turn : Seq(Message), steer : BOOLEAN]
    BY <1>1 DEF NoBatch
  <2>2. /\ replay' \in BOOLEAN /\ late' \in BOOLEAN /\ overtaken' \in BOOLEAN
        /\ latch' \in BOOLEAN /\ aborted' \in BOOLEAN /\ steering' \in BOOLEAN
        /\ place' \in {"idle", "maintenance", "claimed", "asking", "rejected", "entering", "acting"}
        /\ ~(aborted' \/ latch')
    BY <1>1
  <2>3. QED
    BY <1>4, <1>5, <1>10, <2>1, <2>2 DEF TypeOK
<1>13. Placed'
  <2>1. batch'.turn = <<>>
    BY <1>1 DEF NoBatch
  <2>2. QED
    BY <1>1, <1>11, <2>1 DEF Placed, Queue
<1>14. Config(d', nextTurn', goal', Copied(d.attempt)')
  <2>1. Copied(d.attempt)' = FALSE
    BY <1>11 DEF Copied
  <2>2. QED
    BY <1>10, <2>1
<1>15. QED
  BY <1>12, <1>13, <1>14 DEF Inv

-----------------------------------------------------------------------------
(* What happens beside the turn.                                           *)

\* Nothing outside of the turn makes a batch what it may not be.
LEMMA PlacedAside ==
  ASSUME Inv, d' \in State, goal' \in Goal, Later(goal, goal'),
         place' = place, batch' = batch, overtaken' = overtaken,
         place \in {"idle", "maintenance"} \/ Continues(d.attempt, d'.attempt),
         place = "entering" /\ RoundClaimed =>
           /\ d'.attempt.phase = d.attempt.phase
           /\ (aborted => aborted') /\ (late => late') /\ (aborted' \/ late' \/ goal' = goal),
         failed' => late'
  PROVE  Placed'
<1>1. /\ goal \in Goal /\ d \in State /\ batch.turn \in Seq(Message) /\ Attempts(d, goal)
      /\ Queue(batch.turn, goal)
  BY DEF Inv, TypeOK, Config, Placed
<1>2. d.attempt \in Attempt /\ d'.attempt \in Attempt
  BY <1>1, StateFields
<1>3. RoundClaimed' = RoundClaimed /\ batch'.turn = batch.turn
  BY DEF RoundClaimed
<1>4. Queue(batch'.turn, goal')
  BY <1>1, <1>3, LaterFits
<1>5. Spent(d.attempt, goal) => Spent(d.attempt, goal')
  BY <1>1, LaterSpent
<1>6. ASSUME place \in {"claimed", "asking"}, RoundClaimed, Own(batch.turn[1], d'.attempt), overtaken
      PROVE  d'.attempt.stale \/ Spent(d'.attempt, goal')
  <2>1. batch.turn[1].id # 0
    <3>1. 1 \in DOMAIN batch.turn
      BY <1>1, <1>6, LenProperties, EmptySeq DEF RoundClaimed
    <3>2. QED
      BY <1>1, <1>6, <3>1 DEF Queue, Fits, RoundClaimed
  <2>2. d'.attempt # NoAttempt
    BY <1>6, <2>1, NoAttemptTyped DEF Own
  <2>3. /\ d'.attempt.ref = d.attempt.ref /\ d'.attempt.round = d.attempt.round
        /\ d'.attempt.id = d.attempt.id /\ (d.attempt.stale => d'.attempt.stale)
    BY <1>6, <2>2 DEF Continues
  <2>4. d.attempt.stale \/ Spent(d.attempt, goal)
    BY <1>6, <2>3 DEF Inv, Placed, Own
  <2>5. QED
    BY <1>5, <2>3, <2>4 DEF Spent
<1>7. ASSUME place = "entering", RoundClaimed
      PROVE  /\ d'.attempt.phase = "claimed" /\ Same(batch.turn[1], d'.attempt)
             /\ aborted' \/ late' \/ ~Spent(d'.attempt, goal')
             /\ Own(batch.turn[1], d'.attempt) => ~overtaken
  <2>1. /\ d.attempt.phase = "claimed" /\ Same(batch.turn[1], d.attempt)
        /\ aborted \/ late \/ ~Spent(d.attempt, goal)
        /\ Own(batch.turn[1], d.attempt) => ~overtaken
    BY <1>7 DEF Inv, Placed
  <2>2. d'.attempt.phase = "claimed" /\ d'.attempt # NoAttempt
    BY <1>7, <2>1, NoAttemptTyped
  <2>3. /\ d'.attempt.ref = d.attempt.ref /\ d'.attempt.round = d.attempt.round
        /\ d'.attempt.id = d.attempt.id
    BY <1>7, <2>2 DEF Continues
  <2>4. QED
    BY <1>7, <2>1, <2>2, <2>3 DEF Same, Own, Spent
<1>8. /\ Len(batch.turn) <= 1 /\ (place \in {"idle", "maintenance"} => batch = NoBatch)
      /\ place = "asking" => RoundClaimed
  BY DEF Inv, Placed
<1>9. QED
  BY <1>3, <1>4, <1>6, <1>7, <1>8 DEF Placed

\* An attempt that goes on, or is no more, leaves the queue what it was.
LEMMA ConfigAside ==
  ASSUME Inv, d' \in State, goal' \in Goal, Later(goal, goal'), nextTurn' = nextTurn,
         place' = place, batch' = batch,
         Continues(d.attempt, d'.attempt), Attempts(d', goal')
  PROVE  Config(d', nextTurn', goal', Copied(d.attempt)')
<1>1. /\ goal \in Goal /\ d \in State /\ nextTurn \in Seq(Message)
      /\ Config(d, nextTurn, goal, Copied(d.attempt))
  BY DEF Inv, TypeOK
<1>2. Copied(d.attempt) => Copied(d.attempt)' \/ d'.attempt = NoAttempt
  BY DEF Copied, Continues, RoundClaimed, Same
<1>3. Copied(d.attempt) \in BOOLEAN /\ Copied(d.attempt)' \in BOOLEAN
  BY DEF Copied
<1>4. ASSUME NEW c \in BOOLEAN, NEW c2 \in BOOLEAN, Config(d, nextTurn, goal, c),
             c => c2 \/ d'.attempt = NoAttempt
      PROVE  Config(d', nextTurn, goal', c2)
  BY <1>1, <1>4, ConfigLater
<1>5. QED
  BY <1>1, <1>2, <1>3, <1>4

\* So a step that only touches what the driver knows, or the goal, is one aside.
LEMMA Aside ==
  ASSUME Inv, TypeOK', Later(goal, goal'), nextTurn' = nextTurn,
         place' = place, batch' = batch, overtaken' = overtaken,
         Continues(d.attempt, d'.attempt), Attempts(d', goal'),
         place = "entering" /\ RoundClaimed =>
           /\ d'.attempt.phase = d.attempt.phase
           /\ (aborted => aborted') /\ (late => late') /\ (aborted' \/ late' \/ goal' = goal),
         failed' => late'
  PROVE  Inv'
<1>1. d' \in State /\ goal' \in Goal
  BY DEF TypeOK
<1>2. Placed'
  BY <1>1, PlacedAside
<1>3. Config(d', nextTurn', goal', Copied(d.attempt)')
  BY <1>1, ConfigAside
<1>4. QED
  BY <1>2, <1>3 DEF Inv

\* A wake behind an insertion opens a turn, or leaves the message for later.
LEMMA WakeKeeps ==
  ASSUME Inv, NEW s \in State, NEW q \in Seq(Message), NEW steer \in BOOLEAN,
         Wake(s, q, steer), Config(s, q, goal, Copied(s.attempt)),
         place \in {"idle", "maintenance"} \/ Continues(d.attempt, s.attempt),
         place = "entering" => s.attempt.phase = d.attempt.phase,
         goal' = goal, failed' = FALSE, replay' \in BOOLEAN, events' \in 0..MaxEvents
  PROVE  Inv'
<1>1. TypeOK /\ goal \in Goal
  BY DEF Inv, TypeOK
<1>2. CASE place = "idle" /\ OpenTurn(s, q, steer)
  <2>1. Copied(s.attempt) = FALSE
    BY <1>2 DEF Copied
  <2>2. Config(s, q, goal', FALSE)
    BY <2>1
  <2>3. QED
    BY <1>1, <1>2, <2>2, OpenTurnKeeps
<1>3. CASE /\ place # "idle"
           /\ latch' = (latch \/ place = "maintenance" \/ aborted)
           /\ nextTurn' = q /\ steering' = steer /\ d' = s
           /\ UNCHANGED <<place, aborted, batch, history>>
  <2>1. TypeOK'
    BY <1>1, <1>3 DEF TypeOK, history
  <2>2. Placed'
    BY <1>1, <1>3, Disarming, PlacedAside DEF history
  <2>3. Copied(d.attempt)' = Copied(s.attempt)
    BY <1>3 DEF Copied, RoundClaimed
  <2>4. QED
    BY <1>3, <2>1, <2>2, <2>3 DEF Inv
<1>4. QED
  BY <1>2, <1>3 DEF Wake

\* A prompt of a person that joins the queue, or takes the place of a message, makes
\* a queued attempt stale, so that whatever waits behind it goes first.
LEMMA PromptKeeps ==
  ASSUME NEW s \in State, NEW t \in State, NEW g \in Goal, NEW q \in Seq(Message),
         NEW w \in Seq(Message), NEW c \in BOOLEAN, Config(s, q, g, c), Attempts(t, g),
         Continues(s.attempt, t.attempt), t.attempt.phase = s.attempt.phase,
         s.attempt.phase = "queued" => t.attempt.stale,
         \A k \in DOMAIN w : IsRound(w[k]) => k \in DOMAIN q /\ w[k] = q[k]
  PROVE  Config(t, w, g, c)
<1>1. /\ Attempts(s, g) /\ Queue(q, g) /\ OneEach(q) /\ Ahead(q, s.attempt, g, c)
  BY DEF Config
<1>2. Queue(w, g)
  BY <1>1 DEF Queue, Fits
<1>3. OneEach(w)
  BY <1>1 DEF OneEach
<1>4. Ahead(w, t.attempt, g, c)
  <2>1. SUFFICES ASSUME NEW k \in DOMAIN w, Own(w[k], t.attempt)
                 PROVE  (t.attempt.phase # "queued" => Spent(t.attempt, g) \/ c)
                        /\ (t.attempt.stale \/ Spent(t.attempt, g) \/ c)
    BY DEF Ahead
  <2>2. k \in DOMAIN q /\ w[k] = q[k] /\ w[k].id # 0
    BY <1>2, <2>1 DEF Own, Queue, Fits
  <2>3. t.attempt # NoAttempt
    BY <2>1, <2>2, NoAttemptTyped DEF Own
  <2>4. /\ t.attempt.ref = s.attempt.ref /\ t.attempt.round = s.attempt.round
        /\ t.attempt.id = s.attempt.id
    BY <2>3 DEF Continues
  <2>5. Own(q[k], s.attempt)
    BY <2>1, <2>2, <2>4 DEF Own
  <2>6. s.attempt.phase # "queued" => Spent(s.attempt, g) \/ c
    BY <1>1, <2>2, <2>5 DEF Ahead
  <2>7. QED
    BY <2>4, <2>6 DEF Spent
<1>5. QED
  BY <1>1, <1>2, <1>3, <1>4 DEF Config

\* What the driver hears of the inbox changes nothing of what it may remember.
LEMMA AttemptsBeside ==
  ASSUME NEW s \in State, NEW t \in State, NEW g \in Goal, Attempts(s, g), Keeps(s, t),
         Continues(s.attempt, t.attempt), t.checkpoint = s.checkpoint
  PROVE  Attempts(t, g)
  BY Disarming, AttemptsLater

-----------------------------------------------------------------------------
(* People.                                                                 *)

\* A prompt is no round.
LEMMA PromptTyped == Prompt \in Message /\ ~IsRound(Prompt)
  BY DEF Prompt, Message, IsRound

\* A prompt of a person is queued behind what there is.
LEMMA SendPromptKeeps ==
  ASSUME Inv, ~failed, SendPrompt
  PROVE  Inv'
<1> DEFINE s == Competing(d)
           q == Append(nextTurn, Prompt)
<1>1. /\ Wake(s, q, steering) /\ goal' = goal /\ failed' = failed /\ replay' = replay
      /\ events' = events + 1 /\ events < MaxEvents
  BY DEF SendPrompt, Happens
<1>2. /\ goal \in Goal /\ d \in State /\ nextTurn \in Seq(Message) /\ steering \in BOOLEAN
      /\ failed' = FALSE /\ replay' \in BOOLEAN /\ events' \in 0..MaxEvents
  BY <1>1, EventsAssumption DEF Inv, TypeOK
<1>3. /\ s \in State /\ s.checkpoint = d.checkpoint /\ Keeps(d, s)
      /\ Continues(d.attempt, s.attempt) /\ s.attempt.phase = d.attempt.phase
      /\ d.attempt.phase = "queued" => s.attempt.stale
  BY <1>2, CompetingTyped
<1>4. /\ q \in Seq(Message)
      /\ \A k \in DOMAIN q : IsRound(q[k]) => k \in DOMAIN nextTurn /\ q[k] = nextTurn[k]
  <2>1. /\ q \in Seq(Message) /\ Len(q) = Len(nextTurn) + 1 /\ q[Len(nextTurn) + 1] = Prompt
        /\ \A k \in 1..Len(nextTurn) : q[k] = nextTurn[k]
    BY <1>2, PromptTyped, AppendProperties
  <2>2. DOMAIN q = 1..Len(q) /\ DOMAIN nextTurn = 1..Len(nextTurn) /\ Len(nextTurn) \in Nat
    BY <1>2, <2>1, LenProperties
  <2> HIDE DEF q
  <2>3. QED
    BY <2>1, <2>2, PromptTyped
<1> HIDE DEF s, q
<1>5. Attempts(d, goal) /\ Config(d, nextTurn, goal, Copied(d.attempt))
  BY DEF Inv, Config
<1>6. Attempts(s, goal)
  BY <1>2, <1>3, <1>5, AttemptsBeside
<1>7. Copied(d.attempt) \in BOOLEAN /\ (Copied(d.attempt) <=> Copied(s.attempt))
  <2>1. d.attempt.phase = "claimed" => s.attempt.ref = d.attempt.ref /\ s.attempt.round = d.attempt.round
    BY <1>3, NoAttemptTyped DEF Continues
  <2>2. QED
    BY <1>3, <2>1 DEF Copied, Same
<1>8. ASSUME NEW c \in BOOLEAN, Config(d, nextTurn, goal, c)
      PROVE  Config(s, q, goal, c)
  BY <1>2, <1>3, <1>4, <1>6, <1>8, PromptKeeps
<1>9. Config(s, q, goal, Copied(s.attempt))
  <2>1. Config(s, q, goal, Copied(d.attempt))
    BY <1>5, <1>7, <1>8
  <2>2. QED
    BY <1>7, <2>1 DEF Config, Ahead
<1>10. QED
  BY <1>1, <1>2, <1>3, <1>4, <1>9, WakeKeeps

\* Steering waits for the next step.
LEMMA SteerKeeps ==
  ASSUME Inv, ~failed, Steer
  PROVE  Inv'
<1>1. /\ Wake(d, nextTurn, TRUE) /\ goal' = goal /\ failed' = failed /\ replay' = replay
      /\ events' = events + 1 /\ events < MaxEvents
  BY DEF Steer, Happens
<1>2. /\ goal \in Goal /\ d \in State /\ nextTurn \in Seq(Message)
      /\ failed' = FALSE /\ replay' \in BOOLEAN /\ events' \in 0..MaxEvents
  BY <1>1, EventsAssumption DEF Inv, TypeOK
<1>3. Config(d, nextTurn, goal, Copied(d.attempt)) /\ Continues(d.attempt, d.attempt)
  BY DEF Inv, Continues
<1>4. QED
  BY <1>1, <1>2, <1>3, WakeKeeps

\* A message is removed, and the attempt may be cancelled with it.
LEMMA RemoveKeeps ==
  ASSUME Inv, ~failed, Remove
  PROVE  Inv'
<1>1. PICK k \in DOMAIN nextTurn : nextTurn' = Without(nextTurn, k) /\ d' = Discarded(d, <<nextTurn[k]>>)
  BY DEF Remove
<1>2. /\ goal' = goal /\ failed' = failed /\ place' = place /\ aborted' = aborted /\ latch' = latch
      /\ replay' = replay /\ steering' = steering /\ batch' = batch /\ late' = late
      /\ overtaken' = overtaken /\ events' = events + 1 /\ events < MaxEvents
  BY DEF Remove, Happens, history
<1>3. TypeOK /\ Config(d, nextTurn, goal, Copied(d.attempt)) /\ (failed => late)
  BY DEF Inv, Placed
<1>4. goal \in Goal /\ d \in State /\ nextTurn \in Seq(Message)
  BY <1>3 DEF TypeOK
<1>5. /\ d' \in State /\ d'.checkpoint = d.checkpoint /\ Keeps(d, d')
      /\ Continues(d.attempt, d'.attempt) /\ d'.attempt.phase = d.attempt.phase
  BY <1>1, <1>4, DiscardedTyped
<1>6. Attempts(d', goal) /\ Later(goal, goal)
  BY <1>3, <1>4, <1>5, AttemptsBeside, Disarming DEF Config
<1>7. Config(d', nextTurn, goal, Copied(d.attempt)')
  <2>1. ASSUME NEW c \in BOOLEAN, NEW c2 \in BOOLEAN, Config(d, nextTurn, goal, c),
               c => c2 \/ d'.attempt = NoAttempt
        PROVE  Config(d', nextTurn, goal, c2)
    BY <1>4, <1>5, <1>6, <2>1, ConfigLater
  <2>2. Copied(d.attempt) => Copied(d.attempt)' \/ d'.attempt = NoAttempt
    BY <1>2, <1>5 DEF Copied, Continues, RoundClaimed, Same
  <2>3. Copied(d.attempt) \in BOOLEAN /\ Copied(d.attempt)' \in BOOLEAN
    BY DEF Copied
  <2>4. QED
    BY <1>3, <2>1, <2>2, <2>3
<1>8. nextTurn' \in Seq(Message) /\ Config(d', nextTurn', goal, Copied(d.attempt)')
  <2>1. d'.attempt \in Attempt
    BY <1>5, StateFields
  <2>2. ASSUME NEW c \in BOOLEAN, Config(d', nextTurn, goal, c)
        PROVE  Without(nextTurn, k) \in Seq(Message) /\ Config(d', Without(nextTurn, k), goal, c)
    BY <1>4, <2>1, <2>2, WithoutKeeps DEF Config
  <2>3. Copied(d.attempt)' \in BOOLEAN
    BY DEF Copied
  <2>4. QED
    BY <1>1, <1>7, <2>2, <2>3
<1>9. TypeOK'
  BY <1>2, <1>3, <1>5, <1>8, EventsAssumption DEF TypeOK
<1>10. Placed'
  BY <1>2, <1>3, <1>4, <1>5, <1>6, PlacedAside
<1>11. QED
  BY <1>2, <1>8, <1>9, <1>10 DEF Inv

\* A message makes way for a prompt.
LEMMA ReplaceKeeps ==
  ASSUME Inv, ~failed, Replace
  PROVE  Inv'
<1>1. PICK k \in DOMAIN nextTurn : /\ nextTurn' = [nextTurn EXCEPT ![k] = Prompt]
                                   /\ d' = Competing(Discarded(d, <<nextTurn[k]>>))
  BY DEF Replace
<1>2. /\ goal' = goal /\ failed' = failed /\ place' = place /\ aborted' = aborted /\ latch' = latch
      /\ replay' = replay /\ steering' = steering /\ batch' = batch /\ late' = late
      /\ overtaken' = overtaken /\ events' = events + 1 /\ events < MaxEvents
  BY DEF Replace, Happens, history
<1>3. TypeOK /\ Config(d, nextTurn, goal, Copied(d.attempt)) /\ (failed => late)
  BY DEF Inv, Placed
<1>4. goal \in Goal /\ d \in State /\ nextTurn \in Seq(Message)
  BY <1>3 DEF TypeOK
<1>5. /\ d' \in State /\ d'.checkpoint = d.checkpoint /\ Keeps(d, d')
      /\ Continues(d.attempt, d'.attempt) /\ d'.attempt.phase = d.attempt.phase
      /\ d.attempt.phase = "queued" => d'.attempt.stale
  <2> DEFINE s == Discarded(d, <<nextTurn[k]>>)
  <2>1. /\ s \in State /\ s.checkpoint = d.checkpoint /\ Keeps(d, s)
        /\ Continues(d.attempt, s.attempt) /\ s.attempt.phase = d.attempt.phase
    BY <1>4, DiscardedTyped
  <2> HIDE DEF s
  <2>2. d' = Competing(s)
    BY <1>1 DEF s
  <2>3. /\ d' \in State /\ d'.checkpoint = s.checkpoint /\ Keeps(s, d')
        /\ Continues(s.attempt, d'.attempt) /\ d'.attempt.phase = s.attempt.phase
        /\ s.attempt.phase = "queued" => d'.attempt.stale
    BY <2>1, <2>2, CompetingTyped
  <2>4. Keeps(d, d')
    BY <2>1, <2>3 DEF Keeps
  <2>5. Continues(d.attempt, d'.attempt)
    BY <2>1, <2>3, NoAttemptTyped DEF Continues
  <2>6. QED
    BY <2>1, <2>3, <2>4, <2>5
<1>6. Attempts(d', goal) /\ Later(goal, goal)
  BY <1>3, <1>4, <1>5, AttemptsBeside, Disarming DEF Config
<1>7. /\ nextTurn' \in Seq(Message)
      /\ \A j \in DOMAIN nextTurn' : IsRound(nextTurn'[j]) => j \in DOMAIN nextTurn /\ nextTurn'[j] = nextTurn[j]
  <2>1. DOMAIN nextTurn = 1..Len(nextTurn)
    BY <1>4, LenProperties
  <2>2. nextTurn' \in Seq(Message)
    BY <1>1, <1>4, <2>1, PromptTyped, ExceptSeq
  <2>3. DOMAIN nextTurn' = DOMAIN nextTurn
    BY <1>1
  <2>4. QED
    BY <1>1, <2>2, <2>3, PromptTyped
<1>8. Config(d', nextTurn', goal, Copied(d.attempt)')
  <2>1. Copied(d.attempt) = Copied(d.attempt)' /\ Copied(d.attempt) \in BOOLEAN
    <3>1. d.attempt.phase = "claimed" => d'.attempt.ref = d.attempt.ref /\ d'.attempt.round = d.attempt.round
      BY <1>5, NoAttemptTyped DEF Continues
    <3>2. Copied(d.attempt) <=> Copied(d.attempt)'
      BY <1>2, <1>5, <3>1 DEF Copied, RoundClaimed, Same
    <3>3. QED
      BY <3>2 DEF Copied
  <2>2. ASSUME NEW c \in BOOLEAN, Config(d, nextTurn, goal, c)
        PROVE  Config(d', nextTurn', goal, c)
    BY <1>4, <1>5, <1>6, <1>7, <2>2, PromptKeeps
  <2>3. QED
    BY <1>3, <2>1, <2>2
<1>9. TypeOK'
  BY <1>2, <1>3, <1>5, <1>7, EventsAssumption DEF TypeOK
<1>10. Placed'
  BY <1>2, <1>3, <1>4, <1>5, <1>6, PlacedAside
<1>11. QED
  BY <1>2, <1>8, <1>9, <1>10 DEF Inv

\* A cancel leaves the inbox, or empties it.
LEMMA CancelKeeps ==
  ASSUME Inv, ~failed, Cancel
  PROVE  Inv'
<1>1. /\ aborted' = (place # "idle") /\ goal' = goal /\ failed' = failed /\ place' = place
      /\ replay' = replay /\ batch' = batch /\ late' = late /\ overtaken' = overtaken
      /\ events' = events + 1 /\ events < MaxEvents
      /\ \/ nextTurn' = nextTurn /\ steering' = steering /\ latch' = latch /\ d' = d
         \/ /\ nextTurn' = <<>> /\ steering' = FALSE /\ latch' = FALSE
            /\ d' = Discarded(d, nextTurn)
  BY DEF Cancel, Happens, history
<1>2. TypeOK /\ Attempts(d, goal) /\ Config(d, nextTurn, goal, Copied(d.attempt))
  BY DEF Inv, Config
<1>3. goal \in Goal /\ d \in State /\ nextTurn \in Seq(Message)
  BY <1>2 DEF TypeOK
<1>4. /\ d' \in State /\ Continues(d.attempt, d'.attempt) /\ d'.attempt.phase = d.attempt.phase
      /\ d'.checkpoint = d.checkpoint /\ Keeps(d, d')
  <2>1. CASE d' = d
    BY <1>3, <2>1 DEF Continues, Keeps
  <2>2. CASE d' = Discarded(d, nextTurn)
    BY <1>3, <2>2, DiscardedTyped
  <2>3. QED
    BY <1>1, <2>1, <2>2
<1>5. Attempts(d', goal') /\ Later(goal, goal')
  BY <1>1, <1>2, <1>3, <1>4, AttemptsBeside, Disarming
<1>6. TypeOK'
  <2>1. nextTurn' \in Seq(Message) /\ steering' \in BOOLEAN /\ latch' \in BOOLEAN
    <3>1. nextTurn \in Seq(Message) /\ steering \in BOOLEAN /\ latch \in BOOLEAN
      BY <1>2 DEF TypeOK
    <3>2. <<>> \in Seq(Message)
      OBVIOUS
    <3>3. QED
      BY <1>1, <3>1, <3>2
  <2>2. aborted' \in BOOLEAN /\ events' \in 0..MaxEvents
    BY <1>1, <1>2, EventsAssumption DEF TypeOK
  <2>3. aborted' \/ latch' => place' # "idle"
    BY <1>1, <1>2 DEF TypeOK
  <2>4. QED
    BY <1>1, <1>2, <1>4, <2>1, <2>2, <2>3 DEF TypeOK
<1>7. place = "entering" => /\ d'.attempt.phase = d.attempt.phase /\ (aborted => aborted')
                            /\ (late => late') /\ (aborted' \/ late' \/ goal' = goal)
  BY <1>1, <1>4
<1>8. CASE nextTurn' = nextTurn
  BY <1>1, <1>4, <1>5, <1>6, <1>7, <1>8, Aside
<1>9. CASE nextTurn' = <<>>
  <2>1. Placed'
    <3>1. d' \in State /\ goal' \in Goal
      BY <1>6 DEF TypeOK
    <3>2. failed' => late'
      BY <1>1 
    <3>3. QED
      BY <1>1, <1>4, <1>5, <1>7, <3>1, <3>2, PlacedAside
  <2>2. Config(d', nextTurn', goal', Copied(d.attempt)')
    BY <1>5, <1>9 DEF Config, Queue, OneEach, Ahead
  <2>3. QED
    BY <1>6, <2>1, <2>2 DEF Inv
<1>10. QED
  BY <1>1, <1>8, <1>9

\* A change of the goal asks for a checkpoint, and what is about to enter is late.
LEMMA RevisionKeeps ==
  ASSUME Inv, ~failed, goal' \in Goal, goal'.ref > goal.ref, d' = Changed(d),
         aborted' \in BOOLEAN, aborted => aborted', aborted' => place # "idle",
         late' \in BOOLEAN, place = "entering" => late',
         events' \in 0..MaxEvents,
         UNCHANGED <<failed, place, latch, replay, nextTurn, steering, batch, overtaken>>
  PROVE  Inv'
<1>1. TypeOK /\ Attempts(d, goal)
  BY DEF Inv, Config
<1>2. goal \in Goal /\ d \in State
  BY <1>1 DEF TypeOK
<1>3. d' \in State /\ d'.attempt = d.attempt /\ d'.checkpoint = TRUE /\ Keeps(d, d')
  BY <1>2, ChangedTyped
<1>4. Later(goal, goal') /\ Continues(d.attempt, d'.attempt)
  BY <1>3 DEF Later, Continues
<1>5. Attempts(d', goal')
  BY <1>1, <1>2, <1>3, <1>4, AttemptsLater
<1>6. TypeOK'
  BY <1>1, <1>3 DEF TypeOK
<1>7. QED
  BY <1>3, <1>4, <1>5, <1>6, Aside

\* A change of the goal from outside takes the next revision.
LEMMA HostChangesKeeps ==
  ASSUME Inv, ~failed, HostChanges
  PROVE  Inv'
<1>1. TypeOK /\ goal \in Goal /\ goal.ref \in Nat
  BY GoalFields DEF Inv, TypeOK
<1>2. /\ d' = Changed(d) /\ late' = (late \/ place = "entering")
      /\ UNCHANGED <<failed, place, latch, replay, nextTurn, steering, batch, overtaken>>
      /\ events' = events + 1 /\ events < MaxEvents
  BY DEF HostChanges, Happens
<1>3. goal' \in Goal /\ goal'.ref = goal.ref + 1
  <2>1. \/ goal' \in Created(goal) \/ goal' \in Edited(goal) \/ goal' \in Resumed(goal)
        \/ goal' \in Completed(goal) \/ goal' \in Cleared(goal) \/ goal' \in Paused(goal)
    BY DEF HostChanges
  <2>2. QED
    BY <1>1, <2>1, Revisions
<1>4. aborted' = aborted \/ aborted' = (aborted \/ place \notin {"idle", "maintenance"})
  BY DEF HostChanges, Running
<1>5. aborted' \in BOOLEAN /\ (aborted => aborted') /\ (aborted' => place # "idle")
  <2>1. aborted \in BOOLEAN /\ (aborted => place # "idle")
    BY <1>1 DEF TypeOK
  <2>2. CASE aborted' = aborted
    BY <2>1, <2>2
  <2>3. CASE aborted' = (aborted \/ place \notin {"idle", "maintenance"})
    BY <2>1, <2>3
  <2>4. QED
    BY <1>4, <2>2, <2>3
<1>6. late' \in BOOLEAN /\ events' \in 0..MaxEvents /\ (place = "entering" => late')
  <2>1. late \in BOOLEAN /\ events \in 0..MaxEvents
    BY <1>1 DEF TypeOK
  <2>2. late' = (late \/ place = "entering")
    BY <1>2
  <2>3. late' \in BOOLEAN /\ (place = "entering" => late')
    BY <2>1, <2>2
  <2>4. events' \in 0..MaxEvents
    BY <1>2, <2>1, EventsAssumption
  <2>5. QED
    BY <2>3, <2>4
<1>7. goal'.ref > goal.ref
  BY <1>1, <1>3
<1>8. QED
  BY <1>2, <1>3, <1>5, <1>6, <1>7, RevisionKeeps

\* So do the tool's, from inside the turn.
LEMMA ModelChangesKeeps ==
  ASSUME Inv, ~failed, ModelChanges
  PROVE  Inv'
<1>1. TypeOK /\ goal \in Goal /\ goal.ref \in Nat
  BY GoalFields DEF Inv, TypeOK
<1>2. /\ d' = Changed(d) /\ place = "acting" /\ UNCHANGED <<failed, agent, history>>
      /\ events' = events + 1 /\ events < MaxEvents
  BY DEF ModelChanges, Happens
<1>3. goal' \in Goal /\ goal'.ref = goal.ref + 1
  <2>1. \/ goal' \in Created(goal) \/ goal' \in Edited(goal) \/ goal' \in Resumed(goal)
        \/ goal' \in Completed(goal) \/ goal' \in Blocked(goal) \/ goal' \in Paused(goal)
    BY DEF ModelChanges
  <2>2. QED
    BY <1>1, <2>1, Revisions
<1>4. events' \in 0..MaxEvents /\ goal'.ref > goal.ref
  BY <1>1, <1>2, <1>3, EventsAssumption DEF TypeOK
<1>5. aborted \in BOOLEAN /\ late \in BOOLEAN
  BY <1>1 DEF TypeOK
<1>6. QED
  BY <1>2, <1>3, <1>4, <1>5, RevisionKeeps DEF agent, history

\* Maintenance holds no batch.
LEMMA BeginMaintenanceKeeps ==
  ASSUME Inv, ~failed, BeginMaintenance
  PROVE  Inv'
<1>1. /\ place = "idle" /\ place' = "maintenance" /\ aborted' = FALSE /\ latch' = FALSE
      /\ UNCHANGED <<goal, failed, replay, nextTurn, steering, batch, d, history>>
      /\ events' = events + 1 /\ events < MaxEvents
  BY DEF BeginMaintenance, Happens
<1>2. Copied(d.attempt)' = Copied(d.attempt)
  BY <1>1 DEF Copied
<1>3. TypeOK'
  <2>1. events' \in 0..MaxEvents
    BY <1>1, EventsAssumption DEF Inv, TypeOK
  <2>2. QED
    BY <1>1, <2>1 DEF Inv, TypeOK, history
<1>4. Placed'
  BY <1>1 DEF Inv, Placed, RoundClaimed, history
<1>5. QED
  BY <1>1, <1>2, <1>3, <1>4 DEF Inv

\* Behind maintenance the agent is idle, its queue as it was.
LEMMA EndMaintenanceKeeps ==
  ASSUME Inv, ~failed, EndMaintenance
  PROVE  Inv'
<1>1. /\ place = "maintenance" /\ place' = "idle" /\ aborted' = FALSE /\ latch' = FALSE
      /\ replay' = latch
      /\ UNCHANGED <<goal, failed, nextTurn, steering, batch, d, history, events>>
  BY DEF EndMaintenance
<1>2. Copied(d.attempt)' = Copied(d.attempt)
  BY <1>1 DEF Copied
<1>3. TypeOK'
  BY <1>1 DEF Inv, TypeOK, history
<1>4. Placed'
  BY <1>1 DEF Inv, Placed, RoundClaimed, history
<1>5. QED
  BY <1>1, <1>2, <1>3, <1>4 DEF Inv

-----------------------------------------------------------------------------
(* Faults.                                                                 *)

\* A process that starts again remembers no attempt.
LEMMA RestartKeeps ==
  ASSUME Inv, ~failed, Restart
  PROVE  Inv'
<1>1. /\ goal' = Disarmed(goal) /\ d' = Fresh /\ batch' = NoBatch
      /\ place' = "idle" /\ aborted' = FALSE /\ latch' = FALSE /\ replay' = FALSE
      /\ UNCHANGED <<failed, nextTurn, steering, late, overtaken>>
      /\ events' = events + 1 /\ events < MaxEvents
  BY DEF Restart, Happens, history
<1>2. /\ TypeOK /\ goal \in Goal /\ nextTurn \in Seq(Message)
      /\ Queue(nextTurn, goal) /\ OneEach(nextTurn)
  BY DEF Inv, TypeOK, Config
<1>3. goal' \in Goal /\ Later(goal, goal')
  BY <1>1, <1>2, Disarming
<1>4. Fresh.attempt = NoAttempt /\ Fresh.run = "off"
  BY DEF Fresh
<1>5. TypeOK'
  <2>1. batch' \in [turn : Seq(Message), steer : BOOLEAN]
    BY <1>1 DEF NoBatch
  <2>2. d' \in State
    BY <1>1, FreshTyped
  <2>3. events' \in 0..MaxEvents
    BY <1>1, <1>2, EventsAssumption DEF TypeOK
  <2>4. QED
    BY <1>1, <1>2, <1>3, <2>1, <2>2, <2>3 DEF TypeOK
<1>6. Queue(nextTurn, goal')
  BY <1>2, <1>3, LaterFits
<1>7. Attempts(d', goal')
  BY <1>1, <1>4, NoAttemptTyped DEF Attempts
<1>8. Ahead(nextTurn, d'.attempt, goal', Copied(d.attempt)')
  <2>1. \A c \in BOOLEAN : Ahead(nextTurn, NoAttempt, goal', c)
    BY <1>2, <1>3, <1>6, AheadOfNone
  <2>2. Copied(d.attempt)' \in BOOLEAN
    BY DEF Copied
  <2>3. QED
    BY <1>1, <1>4, <2>1, <2>2
<1>9. Placed'
  <2>1. batch'.turn = <<>> /\ ~RoundClaimed'
    BY <1>1 DEF NoBatch, RoundClaimed
  <2>2. QED
    BY <1>1, <2>1 DEF Placed, Queue
<1>10. QED
  BY <1>1, <1>2, <1>5, <1>6, <1>7, <1>8, <1>9 DEF Inv, Config

\* A plugin that unloads makes its attempt stale and stops its turn.
LEMMA UnloadKeeps ==
  ASSUME Inv, ~failed, Unload
  PROVE  Inv'
<1> DEFINE a == [d.attempt EXCEPT !.stale = @ \/ d.attempt # NoAttempt]
           s == [d EXCEPT !.stopping = TRUE, !.attempt = a]
<1>1. /\ TypeOK /\ Attempts(d, goal) /\ goal \in Goal /\ d \in State /\ nextTurn \in Seq(Message)
      /\ d.attempt \in Attempt
  BY StateFields DEF Inv, TypeOK, Config
<1>2. /\ goal' = Disarmed(goal) /\ UNCHANGED <<failed, place, replay, batch, late, overtaken>>
      /\ events' = events + 1 /\ events < MaxEvents
  BY DEF Unload, Happens, history
<1>3. [d EXCEPT !.stopping = TRUE, !.attempt.stale = @ \/ d.attempt # NoAttempt] = s
  BY <1>1 DEF State
<1>4. IF Running /\ d.attempt # NoAttempt
      THEN /\ aborted' = TRUE /\ latch' = FALSE /\ nextTurn' = <<>> /\ steering' = FALSE
           /\ d' = Discarded(s, nextTurn)
      ELSE d' = s /\ UNCHANGED <<aborted, latch, nextTurn, steering>>
  BY <1>3 DEF Unload
<1>5. /\ a \in Attempt /\ a.ref = d.attempt.ref /\ a.round = d.attempt.round /\ a.id = d.attempt.id
      /\ a.phase = d.attempt.phase /\ (d.attempt.stale => a.stale)
      /\ d.attempt = NoAttempt => a = d.attempt
  BY <1>1 DEF Attempt
<1>6. d.attempt.phase = "none" => d.attempt = NoAttempt
  BY <1>1 DEF Attempts
<1> HIDE DEF a
<1>7. /\ s \in State /\ s.attempt = a /\ s.checkpoint = d.checkpoint /\ Keeps(d, s)
      /\ Continues(d.attempt, s.attempt)
  BY <1>1, <1>5, <1>6 DEF State, Keeps, Continues
<1> HIDE DEF s
<1>8. /\ Discarded(s, nextTurn) \in State /\ Discarded(s, nextTurn).checkpoint = s.checkpoint
      /\ Keeps(s, Discarded(s, nextTurn)) /\ Continues(s.attempt, Discarded(s, nextTurn).attempt)
      /\ Discarded(s, nextTurn).attempt.phase = s.attempt.phase
  BY <1>7, DiscardedTyped
<1>9. /\ d' \in State /\ d'.checkpoint = d.checkpoint /\ Keeps(d, d')
      /\ Continues(d.attempt, d'.attempt) /\ d'.attempt.phase = d.attempt.phase
  <2>1. CASE d' = s
    BY <1>5, <1>7, <2>1
  <2>2. CASE d' = Discarded(s, nextTurn)
    <3>1. Keeps(d, d')
      BY <1>7, <1>8, <2>2 DEF Keeps
    <3>2. Continues(d.attempt, d'.attempt)
      BY <1>7, <1>8, <2>2, NoAttemptTyped DEF Continues
    <3>3. QED
      BY <1>5, <1>7, <1>8, <2>2, <3>1, <3>2
  <2>3. QED
    BY <1>4, <2>1, <2>2
<1>10. /\ goal' \in Goal /\ Later(goal, goal')
       /\ [goal' EXCEPT !.armed = TRUE] = [goal EXCEPT !.armed = TRUE]
  BY <1>1, <1>2, Disarming
<1>11. Attempts(d', goal')
  BY <1>1, <1>9, <1>10, AttemptsLater
<1>12. TypeOK'
  <2>1. /\ nextTurn' \in Seq(Message) /\ steering' \in BOOLEAN /\ latch' \in BOOLEAN
        /\ aborted' \in BOOLEAN /\ (aborted' \/ latch' => place' # "idle")
    <3>1. /\ steering \in BOOLEAN /\ latch \in BOOLEAN /\ aborted \in BOOLEAN
          /\ (aborted \/ latch => place # "idle")
      BY <1>1 DEF TypeOK
    <3>2. CASE Running /\ d.attempt # NoAttempt
      <4>1. <<>> \in Seq(Message) /\ place # "idle"
        BY <3>2 DEF Running
      <4>2. QED
        BY <1>2, <1>4, <3>2, <4>1
    <3>3. CASE ~(Running /\ d.attempt # NoAttempt)
      BY <1>1, <1>2, <1>4, <3>1, <3>3
    <3>4. QED
      BY <3>2, <3>3
  <2>2. events' \in 0..MaxEvents
    BY <1>1, <1>2, EventsAssumption DEF TypeOK
  <2>3. QED
    BY <1>1, <1>2, <1>9, <1>10, <2>1, <2>2 DEF TypeOK
<1>13. place = "entering" => /\ d'.attempt.phase = d.attempt.phase /\ (aborted => aborted')
                             /\ (late => late')
  BY <1>2, <1>4, <1>9
<1>14. Placed'
  <2>1. place = "entering" /\ RoundClaimed => Running /\ d.attempt # NoAttempt
    BY NoAttemptTyped DEF Inv, Placed, Running
  <2>2. place = "entering" /\ RoundClaimed => aborted' \/ late' \/ goal' = goal
    BY <1>4, <2>1
  <2>3. QED
    BY <1>2, <1>9, <1>10, <1>13, <2>2, PlacedAside
<1>15. Config(d', nextTurn', goal', Copied(d.attempt)')
  <2>1. CASE nextTurn' = nextTurn
    BY <1>2, <1>9, <1>10, <1>11, <2>1, ConfigAside
  <2>2. CASE nextTurn' = <<>>
    BY <1>11, <2>2 DEF Config, Queue, OneEach, Ahead
  <2>3. QED
    BY <1>4, <2>1, <2>2
<1>16. QED
  BY <1>12, <1>14, <1>15 DEF Inv

-----------------------------------------------------------------------------
(* The turn.                                                               *)

\* A turn that ends may end with any later goal, and with the attempt or without.
LEMMA IdleKeeps ==
  ASSUME Inv, ~failed, NEW s \in State, NEW g \in Goal, NEW steer \in BOOLEAN,
         BecomeIdle(s, g, nextTurn, steer), Later(goal, g), Attempts(s, g),
         Continues(d.attempt, s.attempt), failed' = failed, events' \in 0..MaxEvents
  PROVE  Inv'
<1> DEFINE c == Copied(d.attempt) /\ s.attempt # NoAttempt
<1>1. /\ goal \in Goal /\ d \in State /\ nextTurn \in Seq(Message) /\ latch \in BOOLEAN
      /\ late \in BOOLEAN /\ overtaken \in BOOLEAN /\ failed \in BOOLEAN
      /\ Config(d, nextTurn, goal, Copied(d.attempt))
  BY DEF Inv, TypeOK
<1>2. Copied(d.attempt) \in BOOLEAN /\ c \in BOOLEAN
  BY DEF Copied
<1>3. c => s.attempt.phase = "claimed"
  BY DEF Copied, Continues
<1>4. Copied(d.attempt) => c \/ s.attempt = NoAttempt
  OBVIOUS
<1> HIDE DEF c
<1>5. ASSUME NEW c1 \in BOOLEAN, NEW c2 \in BOOLEAN, Config(d, nextTurn, goal, c1),
             c1 => c2 \/ s.attempt = NoAttempt
      PROVE  Config(s, nextTurn, g, c2)
  BY <1>1, <1>5, ConfigLater
<1>6. Config(s, nextTurn, g, c)
  BY <1>1, <1>2, <1>4, <1>5
<1>7. failed' \in BOOLEAN /\ (failed' => late)
  BY <1>1
<1>8. QED
  BY <1>1, <1>2, <1>3, <1>6, <1>7, BecomeIdleKeeps

\* The three ends of a turn: cancelled,
LEMMA AbortedTurnKeeps ==
  ASSUME Inv, ~failed, AbortedTurn
  PROVE  Inv'
<1> DEFINE own == d.attempt.phase \in {"claimed", "admitted"}
           a == [d.attempt EXCEPT !.cancelled = TRUE]
           s == IF own THEN [d EXCEPT !.attempt = a] ELSE d
           g == IF own THEN goal ELSE Disarmed(goal)
<1>1. /\ goal \in Goal /\ d \in State /\ Attempts(d, goal) /\ steering \in BOOLEAN
      /\ batch.steer \in BOOLEAN /\ events \in 0..MaxEvents /\ d.attempt \in Attempt
  BY StateFields DEF Inv, TypeOK, Config
<1>2. s = IF own THEN [d EXCEPT !.attempt.cancelled = TRUE] ELSE d
  BY <1>1 DEF State
<1>3. /\ failed' = failed /\ events' = events
      /\ \E back \in {FALSE, place = "asking" /\ batch.steer} :
           BecomeIdle(s, g, nextTurn, steering \/ back)
  BY <1>2 DEF AbortedTurn
<1>4. /\ a \in Attempt /\ a.ref = d.attempt.ref /\ a.round = d.attempt.round
      /\ a.id = d.attempt.id /\ a.phase = d.attempt.phase /\ a.stale = d.attempt.stale
  BY <1>1 DEF Attempt
<1> HIDE DEF a
<1>5. /\ s \in State /\ Keeps(d, s) /\ Continues(d.attempt, s.attempt) /\ s.checkpoint = d.checkpoint
  BY <1>1, <1>4 DEF State, Keeps, Continues
<1>6. /\ g \in Goal /\ Later(goal, g) /\ [g EXCEPT !.armed = TRUE] = [goal EXCEPT !.armed = TRUE]
  BY <1>1, Disarming
<1> HIDE DEF s, g
<1>7. Attempts(s, g)
  BY <1>1, <1>5, <1>6, AttemptsLater
<1>8. PICK back \in {FALSE, place = "asking" /\ batch.steer} :
        BecomeIdle(s, g, nextTurn, steering \/ back)
  BY <1>3
<1>9. (steering \/ back) \in BOOLEAN
  BY <1>1, <1>8
<1>10. ASSUME NEW steer \in BOOLEAN, BecomeIdle(s, g, nextTurn, steer)
       PROVE  Inv'
  BY <1>1, <1>3, <1>5, <1>6, <1>7, <1>10, IdleKeeps
<1>11. QED
  BY <1>8, <1>9, <1>10

\* failed,
LEMMA FailedTurnKeeps ==
  ASSUME Inv, ~failed, FailedTurn
  PROVE  Inv'
<1> DEFINE s == IF place = "asking" THEN Requested(Dropped(d)) ELSE d
           g == Disarmed(goal)
<1>1. /\ goal \in Goal /\ d \in State /\ Attempts(d, goal) /\ steering \in BOOLEAN
      /\ events \in 0..MaxEvents
  BY DEF Inv, TypeOK, Config
<1>2. /\ failed' = failed /\ events' = events + 1 /\ events < MaxEvents
      /\ BecomeIdle(s, g, nextTurn, steering)
  BY DEF FailedTurn, Happens
<1>3. /\ s \in State /\ Keeps(d, s) /\ Continues(d.attempt, s.attempt) /\ s.checkpoint = d.checkpoint
  <2>1. CASE place = "asking"
    <3>1. /\ Dropped(d) \in State /\ Dropped(d).attempt = NoAttempt
          /\ Dropped(d).checkpoint = d.checkpoint /\ Keeps(d, Dropped(d))
      BY <1>1, DroppedTyped
    <3>2. /\ Requested(Dropped(d)) \in State /\ Requested(Dropped(d)).attempt = NoAttempt
          /\ Requested(Dropped(d)).checkpoint = d.checkpoint
          /\ Keeps(Dropped(d), Requested(Dropped(d)))
      BY <3>1, RequestedTyped
    <3>3. QED
      BY <2>1, <3>1, <3>2 DEF Keeps, Continues
  <2>2. CASE place # "asking"
    BY <1>1, <2>2 DEF Keeps, Continues
  <2>3. QED
    BY <2>1, <2>2
<1>4. /\ g \in Goal /\ Later(goal, g) /\ [g EXCEPT !.armed = TRUE] = [goal EXCEPT !.armed = TRUE]
  BY <1>1, Disarming
<1> HIDE DEF s, g
<1>5. Attempts(s, g)
  BY <1>1, <1>3, <1>4, AttemptsLater
<1>6. events' \in 0..MaxEvents
  BY <1>1, <1>2, EventsAssumption
<1>7. QED
  BY <1>1, <1>2, <1>3, <1>4, <1>5, <1>6, IdleKeeps

\* or quiet;
LEMMA QuietTurnKeeps ==
  ASSUME Inv, ~failed, BlockedTurn \/ EmptyTurn
  PROVE  Inv'
<1>1. /\ goal \in Goal /\ d \in State /\ Attempts(d, goal) /\ steering \in BOOLEAN
      /\ events \in 0..MaxEvents
  BY DEF Inv, TypeOK, Config
<1>2. failed' = failed /\ events' = events /\ BecomeIdle(d, goal, nextTurn, steering)
  BY DEF BlockedTurn, EmptyTurn
<1>3. Later(goal, goal) /\ Continues(d.attempt, d.attempt)
  BY <1>1, Disarming DEF Continues
<1>4. QED
  BY <1>1, <1>2, <1>3, IdleKeeps

\* A latched wake, and a turn that another one follows.
LEMMA ReplayKeeps ==
  ASSUME Inv, ~failed, Replay
  PROVE  Inv'
<1>1. /\ replay' = FALSE /\ goal' = goal /\ failed' = failed /\ events' = events
  BY DEF Replay
<1>2. /\ TypeOK /\ goal \in Goal /\ d \in State /\ nextTurn \in Seq(Message) /\ steering \in BOOLEAN
      /\ events \in 0..MaxEvents /\ failed' = FALSE
  BY <1>1 DEF Inv, TypeOK
<1>3. CASE place = "idle" /\ OpenTurn(d, nextTurn, steering)
  <2>1. Copied(d.attempt) = FALSE
    BY <1>3 DEF Copied
  <2>2. Config(d, nextTurn, goal', FALSE)
    BY <1>1, <2>1 DEF Inv
  <2>3. QED
    BY <1>1, <1>2, <1>3, <2>2, OpenTurnKeeps
<1>4. CASE UNCHANGED <<place, aborted, latch, nextTurn, steering, batch, d, history>>
  <2>1. TypeOK'
    BY <1>1, <1>2, <1>4 DEF TypeOK, history
  <2>2. Placed'
    BY <1>1, <1>4 DEF Inv, Placed, RoundClaimed, history
  <2>3. Copied(d.attempt)' = Copied(d.attempt)
    BY <1>4 DEF Copied, RoundClaimed
  <2>4. QED
    BY <1>1, <1>4, <2>1, <2>2, <2>3 DEF Inv
<1>5. QED
  BY <1>3, <1>4 DEF Replay

\* whichever it is, the attempt of the turn is settled.
LEMMA EndTurnKeeps ==
  ASSUME Inv, ~failed, EndTurn
  PROVE  Inv'
<1>1. PICK g \in {goal} \cup {Disarmed(goal)} :
        /\ IF g = goal THEN UNCHANGED events ELSE events < MaxEvents /\ events' = events + 1
        /\ IF nextTurn # <<>>
           THEN OpenTurn(d, nextTurn, FALSE) /\ goal' = g /\ UNCHANGED replay
           ELSE BecomeIdle(d, g, nextTurn, FALSE)
  BY DEF EndTurn
<1>2. place = "acting" /\ failed' = failed
  BY DEF EndTurn
<1>3. /\ TypeOK /\ goal \in Goal /\ d \in State /\ nextTurn \in Seq(Message)
      /\ events \in 0..MaxEvents /\ failed' = FALSE /\ Attempts(d, goal)
  BY <1>2 DEF Inv, TypeOK, Config
<1>4. /\ g \in Goal /\ Later(goal, g) /\ [g EXCEPT !.armed = TRUE] = [goal EXCEPT !.armed = TRUE]
  BY <1>1, <1>3, Disarming
<1>5. events' \in 0..MaxEvents
  BY <1>1, <1>3, EventsAssumption
<1>6. Continues(d.attempt, d.attempt) /\ Keeps(d, d)
  BY DEF Continues, Keeps
<1>7. Attempts(d, g)
  BY <1>3, <1>4, <1>6, AttemptsLater
<1>8. CASE BecomeIdle(d, g, nextTurn, FALSE)
  BY <1>2, <1>3, <1>4, <1>5, <1>6, <1>7, <1>8, IdleKeeps
<1>9. CASE OpenTurn(d, nextTurn, FALSE) /\ goal' = g /\ UNCHANGED replay
  <2>1. Copied(d.attempt) = FALSE
    BY <1>2 DEF Copied
  <2>2. Config(d, nextTurn, goal, FALSE)
    BY <2>1 DEF Inv
  <2>3. ASSUME NEW c2 \in BOOLEAN, Config(d, nextTurn, goal, c2)
        PROVE  Config(d, nextTurn, g, c2)
    BY <1>3, <1>4, <1>6, <1>7, <2>3, ConfigLater
  <2>4. Config(d, nextTurn, goal', FALSE) /\ goal' \in Goal
    BY <1>4, <1>9, <2>2, <2>3
  <2>5. replay' \in BOOLEAN
    BY <1>3, <1>9 DEF TypeOK
  <2>6. QED
    BY <1>3, <1>5, <1>9, <2>4, <2>5, OpenTurnKeeps
<1>10. QED
  BY <1>1, <1>8, <1>9

\* A batch without a round passes the gate untouched, or is refused.
LEMMA OrdinaryKeeps ==
  ASSUME Inv, ~failed, OrdinaryStep \/ OrdinaryRejected \/ NextStep
  PROVE  Inv'
<1>1. /\ UNCHANGED <<goal, failed, aborted, latch, replay, nextTurn, batch, d, late, overtaken>>
      /\ steering' = steering \/ steering' = FALSE
      /\ events' \in {events, events + 1}
      /\ events' = events \/ events < MaxEvents
      /\ \/ place' \in {"entering", "rejected"} /\ place = "claimed" /\ ~RoundClaimed
         \/ place' \in {"rejected", "acting"} /\ place = "acting"
  <2>1. CASE OrdinaryStep
    BY <2>1 DEF OrdinaryStep, history
  <2>2. CASE OrdinaryRejected
    <3>1. events' = events + 1 /\ events < MaxEvents
      BY <2>2 DEF OrdinaryRejected, Happens
    <3>2. UNCHANGED <<goal, failed, aborted, latch, replay, nextTurn, batch, d, late, overtaken>>
      BY <2>2 DEF OrdinaryRejected, history
    <3>3. /\ place' = "rejected" /\ (steering' = steering \/ steering' = FALSE)
          /\ (place = "claimed" /\ ~RoundClaimed) \/ place = "acting"
      BY <2>2 DEF OrdinaryRejected
    <3>4. QED
      BY <3>1, <3>2, <3>3
  <2>3. CASE NextStep
    BY <2>3 DEF NextStep, history
  <2>4. QED
    BY <2>1, <2>2, <2>3
<1>2. /\ TypeOK /\ steering \in BOOLEAN /\ events \in 0..MaxEvents
  BY DEF Inv, TypeOK
<1>3. TypeOK'
  <2>1. steering' \in BOOLEAN /\ events' \in 0..MaxEvents
    <3>1. steering' \in BOOLEAN
      BY <1>1, <1>2
    <3>2. events' = events \/ (events' = events + 1 /\ events < MaxEvents)
      BY <1>1
    <3>3. events' \in 0..MaxEvents
      BY <1>2, <3>2, EventsAssumption
    <3>4. QED
      BY <3>1, <3>3
  <2>2. place # "idle" /\ place' # "idle"
        /\ place' \in {"idle", "maintenance", "claimed", "asking", "rejected", "entering", "acting"}
    BY <1>1
  <2>3. QED
    BY <1>1, <1>2, <2>1, <2>2 DEF TypeOK
<1>4. RoundClaimed' = RoundClaimed
  BY <1>1 DEF RoundClaimed
<1>5. Placed'
  BY <1>1, <1>4 DEF Inv, Placed
<1>6. ~Copied(d.attempt)' /\ ~Copied(d.attempt)
  BY <1>1, <1>4 DEF Copied
<1>7. Copied(d.attempt)' = Copied(d.attempt)
  BY <1>6 DEF Copied
<1>8. QED
  BY <1>1, <1>3, <1>5, <1>7 DEF Inv

\* A batch that is refused leaves no attempt that is taken for its round.
LEMMA RefusedKeeps ==
  ASSUME Inv, ~failed, goal' \in Goal, d' \in State, steering' \in BOOLEAN,
         events' \in 0..MaxEvents,
         Running, place' = "rejected", Later(goal, goal'), Attempts(d', goal'),
         Continues(d.attempt, d'.attempt),
         d'.attempt = NoAttempt \/ ~Copied(d.attempt),
         UNCHANGED <<failed, aborted, latch, replay, nextTurn, batch, history>>
  PROVE  Inv'
<1>1. /\ TypeOK /\ goal \in Goal /\ d \in State /\ nextTurn \in Seq(Message)
      /\ Config(d, nextTurn, goal, Copied(d.attempt)) /\ Queue(batch.turn, goal)
      /\ batch.turn \in Seq(Message)
  BY DEF Inv, TypeOK, Placed
<1>2. Copied(d.attempt)' = FALSE /\ Copied(d.attempt) \in BOOLEAN
  BY DEF Copied
<1>3. ASSUME NEW c \in BOOLEAN, NEW c2 \in BOOLEAN, Config(d, nextTurn, goal, c),
             c => c2 \/ d'.attempt = NoAttempt
      PROVE  Config(d', nextTurn, goal', c2)
  BY <1>1, <1>3, ConfigLater
<1>4. Config(d', nextTurn', goal', Copied(d.attempt)')
  BY <1>1, <1>2, <1>3
<1>5. Queue(batch'.turn, goal')
  BY <1>1, LaterFits
<1>6. Placed'
  BY <1>5 DEF Inv, Placed, history
<1>7. TypeOK'
  BY <1>1 DEF TypeOK, history
<1>8. QED
  BY <1>4, <1>6, <1>7 DEF Inv

\* Nothing is copied but the batch of the attempt.
LEMMA CopiedSame == Copied(d.attempt) => Same(batch.turn[1], d.attempt)
  BY DEF Copied

\* The gate lets the round of a reservation pass that is valid, and drops the others.
LEMMA GateKeeps ==
  ASSUME Inv, ~failed, Gate \/ Recheck
  PROVE  Inv'
<1>1. /\ TypeOK /\ goal \in Goal /\ d \in State /\ Attempts(d, goal) /\ steering \in BOOLEAN
      /\ batch.steer \in BOOLEAN /\ events \in 0..MaxEvents /\ d.attempt \in Attempt
  BY StateFields DEF Inv, TypeOK, Config
<1>2. /\ UNCHANGED <<goal, failed, aborted, latch, replay, nextTurn, batch, history, events>>
      /\ Running /\ RoundClaimed
      /\ place = "claimed" \/ place = "asking"
  BY DEF Gate, Recheck, Running, Inv, Placed
<1>3. CASE Valid(d, goal, batch.turn[1])
  <2>1. /\ UNCHANGED <<steering, d>>
        /\ \/ place = "claimed" /\ place' = "asking"
           \/ place = "asking" /\ place' = "entering"
    BY <1>3 DEF Gate, Recheck
  <2>2. /\ d.attempt.phase = "claimed" /\ ~d.attempt.stale /\ Same(batch.turn[1], d.attempt)
        /\ ~Spent(d.attempt, goal)
    BY <1>3 DEF Valid, Same, Spent
  <2>3. RoundClaimed' = RoundClaimed
    BY <1>2 DEF RoundClaimed
  <2>4. Copied(d.attempt)' = Copied(d.attempt)
    BY <1>2, <2>1, <2>3 DEF Copied
  <2>5. TypeOK'
    BY <1>1, <1>2, <2>1 DEF TypeOK, history
  <2>6. Own(batch.turn[1], d.attempt) => ~overtaken
    BY <1>2, <2>2 DEF Inv, Placed
  <2>7. Placed'
    BY <1>2, <2>1, <2>2, <2>3, <2>6 DEF Inv, Placed, history
  <2>8. QED
    BY <1>2, <2>1, <2>4, <2>5, <2>7 DEF Inv
<1>4. CASE ~Valid(d, goal, batch.turn[1])
  <2>1. /\ place' = "rejected" /\ steering' = (steering \/ batch.steer)
        /\ \/ d' = Requested(Dropped(d))
           \/ d' = Requested(d) /\ ~Same(batch.turn[1], d.attempt)
    BY <1>4 DEF Gate, Recheck
  <2>2. steering' \in BOOLEAN
    BY <1>1, <2>1
  <2>3. /\ d' \in State /\ Keeps(d, d') /\ Continues(d.attempt, d'.attempt)
        /\ d'.checkpoint = d.checkpoint /\ (d'.attempt = NoAttempt \/ ~Copied(d.attempt))
    <3>1. CASE d' = Requested(Dropped(d))
      <4>1. /\ Dropped(d) \in State /\ Dropped(d).attempt = NoAttempt
            /\ Dropped(d).checkpoint = d.checkpoint /\ Keeps(d, Dropped(d))
        BY <1>1, DroppedTyped
      <4>2. /\ Requested(Dropped(d)) \in State /\ Requested(Dropped(d)).attempt = NoAttempt
            /\ Requested(Dropped(d)).checkpoint = d.checkpoint
            /\ Keeps(Dropped(d), Requested(Dropped(d)))
        BY <4>1, RequestedTyped
      <4>3. QED
        BY <3>1, <4>1, <4>2 DEF Keeps, Continues
    <3>2. CASE d' = Requested(d) /\ ~Same(batch.turn[1], d.attempt)
      <4>1. /\ Requested(d) \in State /\ Requested(d).attempt = d.attempt
            /\ Requested(d).checkpoint = d.checkpoint /\ Keeps(d, Requested(d))
        BY <1>1, RequestedTyped
      <4>2. QED
        BY <3>2, <4>1, CopiedSame DEF Continues
    <3>3. QED
      BY <2>1, <3>1, <3>2
  <2>4. Attempts(d', goal) /\ Later(goal, goal)
    BY <1>1, <2>3, AttemptsBeside, Disarming
  <2>5. QED
    BY <1>1, <1>2, <2>1, <2>2, <2>3, <2>4, RefusedKeeps
<1>5. QED
  BY <1>3, <1>4

\* A rejected round withdraws its attempt.
LEMMA RoundRejectedKeeps ==
  ASSUME Inv, ~failed, RoundRejected
  PROVE  Inv'
<1>1. /\ TypeOK /\ goal \in Goal /\ d \in State /\ Attempts(d, goal) /\ steering \in BOOLEAN
      /\ events \in 0..MaxEvents /\ goal.ref \in Nat
  BY GoalFields DEF Inv, TypeOK, Config
<1>2. /\ place = "asking" /\ Running /\ place' = "rejected"
      /\ UNCHANGED <<failed, aborted, latch, replay, nextTurn, steering, batch, history>>
      /\ events' = events + 1 /\ events < MaxEvents
      /\ \/ goal' \in Blocked(goal) /\ d' = Changed(Dropped(d))
         \/ goal' = goal /\ d' = Dropped(d)
  BY DEF RoundRejected, Happens, Running
<1>3. events' \in 0..MaxEvents
  BY <1>1, <1>2, EventsAssumption
<1>4. /\ Dropped(d) \in State /\ Dropped(d).attempt = NoAttempt
      /\ Dropped(d).checkpoint = d.checkpoint /\ Keeps(d, Dropped(d))
  BY <1>1, DroppedTyped
<1>5. CASE goal' \in Blocked(goal) /\ d' = Changed(Dropped(d))
  <2>1. goal' \in Goal /\ goal'.ref = goal.ref + 1
    BY <1>1, <1>5, Revisions
  <2>2. goal'.ref > goal.ref /\ Later(goal, goal')
    BY <1>1, <2>1 DEF Later
  <2>3. /\ Changed(Dropped(d)) \in State /\ Changed(Dropped(d)).attempt = NoAttempt
        /\ Changed(Dropped(d)).checkpoint = TRUE /\ Keeps(Dropped(d), Changed(Dropped(d)))
    BY <1>4, ChangedTyped
  <2>4. /\ d' \in State /\ d'.attempt = NoAttempt /\ d'.checkpoint = TRUE /\ Keeps(d, d')
        /\ Continues(d.attempt, d'.attempt)
    BY <1>4, <1>5, <2>3 DEF Keeps, Continues
  <2>5. Attempts(d', goal')
    BY <1>1, <2>1, <2>2, <2>4, AttemptsLater
  <2>6. QED
    BY <1>1, <1>2, <1>3, <2>1, <2>2, <2>4, <2>5, RefusedKeeps
<1>6. CASE goal' = goal /\ d' = Dropped(d)
  <2>1. d' \in State /\ d'.attempt = NoAttempt /\ Continues(d.attempt, d'.attempt)
    BY <1>4, <1>6 DEF Continues
  <2>2. Attempts(d', goal') /\ Later(goal, goal')
    BY <1>1, <1>4, <1>6, <2>1, AttemptsBeside, Disarming
  <2>3. QED
    BY <1>1, <1>2, <1>3, <1>6, <2>1, <2>2, RefusedKeeps
<1>7. QED
  BY <1>2, <1>5, <1>6

\* A round that enters is spent by its own admission; one that the goal's fold refuses
\* was changed behind the last check.
LEMMA AdmitKeeps ==
  ASSUME Inv, ~failed, Admit
  PROVE  Inv'
<1>1. /\ TypeOK /\ goal \in Goal /\ d \in State /\ Attempts(d, goal) /\ d.attempt \in Attempt
      /\ nextTurn \in Seq(Message) /\ Queue(nextTurn, goal) /\ OneEach(nextTurn)
      /\ batch.turn \in Seq(Message) /\ Queue(batch.turn, goal)
  BY StateFields DEF Inv, TypeOK, Config, Placed
<1>2. /\ place = "entering" /\ ~aborted /\ place' = "acting"
      /\ UNCHANGED <<aborted, latch, replay, nextTurn, steering, batch, history, events>>
  BY DEF Admit
<1>3. Copied(d.attempt)' = FALSE
  BY <1>2 DEF Copied
<1>4. CASE ~RoundClaimed
  <2>1. UNCHANGED <<goal, failed, d>>
    BY <1>4 DEF Admit
  <2>2. Copied(d.attempt) = FALSE
    BY <1>4 DEF Copied
  <2>3. TypeOK'
    BY <1>1, <1>2, <2>1 DEF TypeOK, history
  <2>4. Placed'
    BY <1>2, <2>1 DEF Inv, Placed, history
  <2>5. QED
    BY <1>2, <1>3, <2>1, <2>2, <2>3, <2>4 DEF Inv
<1>5. CASE RoundClaimed
  <2> DEFINE m == batch.turn[1]
  <2>1. /\ goal' = IF Admits(goal, m) THEN [goal EXCEPT !.rounds = m.round] ELSE goal
        /\ failed' = ~Admits(goal, m)
        /\ d' = IF m.id = d.attempt.id THEN [d EXCEPT !.attempt.phase = "admitted"] ELSE d
    BY <1>5 DEF Admit
  <2>2. /\ d.attempt.phase = "claimed" /\ m.ref = d.attempt.ref /\ m.round = d.attempt.round
        /\ late \/ ~Spent(d.attempt, goal)
    BY <1>2, <1>5 DEF Inv, Placed, Same
  <2>3. m \in Message /\ Fits(m, goal) /\ IsRound(m)
    <3>1. 1 \in DOMAIN batch.turn
      BY <1>1, <1>5, LenProperties, EmptySeq DEF RoundClaimed
    <3>2. m \in Message
      BY <1>1, <3>1, LenProperties, ElementOfSeq
    <3>3. QED
      BY <1>1, <1>5, <3>1, <3>2 DEF Queue, RoundClaimed
  <2>4. /\ goal.ref \in Nat /\ goal.rounds \in Nat /\ goal.cap \in Nat /\ m.ref \in Nat
        /\ m.round \in Nat
    BY <1>1, <2>3, GoalFields DEF Message
  <2> HIDE DEF m
  <2>5. ~Admits(goal, m) => Spent(d.attempt, goal)
    BY <2>2, <2>3, <2>4 DEF Admits, Spent, Drivable, Fits
  <2>6. /\ goal' \in Goal /\ goal'.ref = goal.ref /\ goal'.cap = goal.cap /\ goal'.phase = goal.phase
        /\ goal'.armed = goal.armed
        /\ goal'.rounds = IF Admits(goal, m) THEN m.round ELSE goal.rounds
    BY <1>1, <2>1, <2>4 DEF Goal
  <2>7. Later(goal, goal') /\ goal'.rounds \in Nat /\ goal'.rounds >= goal.rounds
    BY <2>4, <2>6 DEF Later, Admits
  <2>8. Spent(d.attempt, goal')
    <3>1. CASE Admits(goal, m)
      BY <2>2, <2>4, <2>6, <3>1 DEF Spent, Admits
    <3>2. CASE ~Admits(goal, m)
      BY <2>1, <2>5, <3>2
    <3>3. QED
      BY <3>1, <3>2
  <2>9. /\ d' \in State /\ d'.attempt.ref = d.attempt.ref /\ d'.attempt.round = d.attempt.round
        /\ d'.attempt.id = d.attempt.id /\ d'.attempt.phase \in {"claimed", "admitted"}
        /\ d'.checkpoint = d.checkpoint /\ d'.run = d.run
    <3> DEFINE a == [d.attempt EXCEPT !.phase = "admitted"]
    <3>1. /\ a \in Attempt /\ a.ref = d.attempt.ref /\ a.round = d.attempt.round
          /\ a.id = d.attempt.id /\ a.phase = "admitted"
      BY <1>1 DEF Attempt
    <3>2. d' = d \/ d' = [d EXCEPT !.attempt = a]
      BY <1>1, <2>1 DEF State
    <3> HIDE DEF a
    <3>3. QED
      BY <1>1, <2>2, <3>1, <3>2 DEF State
  <2>10. Attempts(d', goal')
    <3>1. /\ d.attempt.id # 0 /\ d.attempt.round > 0 /\ d.attempt.ref <= goal.ref /\ d.run # "joining"
          /\ d.attempt.ref = goal.ref =>
               d.attempt.round <= goal.rounds + 1 /\ ~d.checkpoint /\ d.run # "flushing"
      BY <1>1, <2>2 DEF Attempts
    <3>2. d.attempt.round \in Nat
      BY <1>1, AttemptFields
    <3>3. d.attempt.ref = goal.ref => d.attempt.round <= goal'.rounds + 1
      BY <2>4, <2>7, <3>1, <3>2
    <3>4. QED
      BY <2>6, <2>9, <3>1, <3>3 DEF Attempts
  <2>11. Queue(nextTurn, goal') /\ Queue(batch.turn, goal')
    BY <1>1, <2>6, <2>7, LaterFits
  <2>12. Spent(d'.attempt, goal')
    BY <2>8, <2>9 DEF Spent
  <2>13. Config(d', nextTurn', goal', Copied(d.attempt)')
    BY <1>1, <1>2, <2>10, <2>11, <2>12 DEF Config, Ahead
  <2>14. Placed'
    BY <1>2, <2>1, <2>2, <2>5, <2>11 DEF Inv, Placed, history
  <2>15. TypeOK'
    <3>1. failed' \in BOOLEAN
      BY <2>1
    <3>2. QED
      BY <1>1, <1>2, <2>6, <2>9, <3>1 DEF TypeOK, history
  <2>16. QED
    BY <2>13, <2>14, <2>15 DEF Inv
<1>6. QED
  BY <1>4, <1>5

-----------------------------------------------------------------------------
(* The drive passes.                                                       *)

\* A pass that ends.
LEMMA DoneKeeps ==
  ASSUME Inv, ~failed, NEW s \in State, Done(s),
         Attempts(Loop(s), goal), Continues(d.attempt, s.attempt),
         place = "entering" => s.attempt.phase = d.attempt.phase,
         failed' = failed, events' = events
  PROVE  Inv'
<1>1. TypeOK /\ goal \in Goal /\ d \in State
  BY DEF Inv, TypeOK
<1>2. /\ Loop(s) \in State /\ Loop(s).attempt = s.attempt
  BY LoopTyped
<1>3. d' = Loop(s) /\ UNCHANGED <<goal, agent, history>>
  BY DEF Done
<1>4. TypeOK'
  BY <1>1, <1>2, <1>3 DEF TypeOK, agent, history
<1>5. QED
  BY <1>1, <1>2, <1>3, <1>4, Disarming, Aside DEF agent, history

\* The round that is reserved is the next of the goal, with an id of its own, and it
\* goes behind what waits.
LEMMA ReserveKeeps ==
  ASSUME Inv, ~failed, NEW s \in State, NEW g \in Goal, Reserve(s, g), ~Running,
         g.ref = goal.ref, g.rounds = goal.rounds, g.cap = goal.cap, g.rounds < g.cap,
         ~s.checkpoint, failed' = failed, events' = events
  PROVE  Inv'
<1> DEFINE a == [NoAttempt EXCEPT !.ref = g.ref, !.round = g.rounds + 1, !.id = UnusedId,
                                  !.phase = "queued"]
           m == [ref |-> g.ref, round |-> g.rounds + 1, id |-> UnusedId]
           r == [s EXCEPT !.attempt = a]
           t == Loop(r)
           q == Append(nextTurn, m)
<1>1. Wake(t, q, steering) /\ goal' = goal /\ replay' = replay
  BY DEF Reserve
<1>2. /\ TypeOK /\ goal \in Goal /\ d \in State /\ nextTurn \in Seq(Message)
      /\ batch.turn \in Seq(Message) /\ steering \in BOOLEAN
      /\ Queue(nextTurn, goal) /\ OneEach(nextTurn)
  BY DEF Inv, TypeOK, Config
<1>3. g.ref \in Nat /\ g.rounds \in Nat /\ g.cap \in Nat
  BY GoalFields
<1>4. UnusedId \in Nat \ {0} /\ \A k \in DOMAIN nextTurn : nextTurn[k].id # UnusedId
  BY <1>2, UnusedIsFresh
<1>5. NoAttempt \in Attempt /\ g.rounds + 1 \in Nat
  BY <1>3, NoAttemptTyped
<1>6. /\ a \in Attempt /\ a.ref = g.ref /\ a.round = g.rounds + 1 /\ a.id = UnusedId
      /\ a.phase = "queued"
  BY <1>3, <1>4, <1>5 DEF Attempt
<1>7. m \in Message /\ m.ref = g.ref /\ m.round = g.rounds + 1 /\ m.id = UnusedId
  BY <1>3, <1>4 DEF Message
<1> HIDE DEF a, m
<1>8. r \in State /\ r.attempt = a /\ r.checkpoint = s.checkpoint
  BY <1>6 DEF State
<1> HIDE DEF r
<1>9. t \in State /\ t.attempt = a /\ t.checkpoint = s.checkpoint /\ t.run \in {"again", "off"}
  BY <1>8, LoopTyped
<1>10. Attempts(t, goal)
  BY <1>3, <1>4, <1>6, <1>9 DEF Attempts
<1>11. Fits(m, goal) /\ IsRound(m)
  BY <1>3, <1>4, <1>7 DEF Fits, IsRound
<1>12. q \in Seq(Message) /\ Queue(q, goal) /\ OneEach(q)
  BY <1>2, <1>4, <1>7, <1>11, QueueAppend
<1>13. Ahead(q, t.attempt, goal, Copied(t.attempt))
  <2>1. /\ DOMAIN q = 1..Len(nextTurn) + 1 /\ Len(nextTurn) \in Nat
        /\ DOMAIN nextTurn = 1..Len(nextTurn) /\ \A k \in DOMAIN nextTurn : q[k] = nextTurn[k]
    BY <1>2, <1>7, AppendProperties, LenProperties
  <2> HIDE DEF q, t
  <2>2. ASSUME NEW k \in DOMAIN q, Own(q[k], a)
        PROVE  k = Len(nextTurn) + 1
    <3>1. k \in DOMAIN nextTurn => q[k].id # UnusedId
      BY <1>4, <2>1
    <3>2. k \notin DOMAIN nextTurn
      BY <1>6, <2>2, <3>1 DEF Own
    <3>3. QED
      BY <2>1, <3>2
  <2>3. ASSUME NEW k \in DOMAIN q, Own(q[k], a)
        PROVE  ~\E l \in DOMAIN q : k < l
    BY <2>1, <2>2, <2>3
  <2>4. QED
    BY <1>6, <1>9, <2>3 DEF Ahead
<1>14. Config(t, q, goal, Copied(t.attempt))
  BY <1>10, <1>12, <1>13 DEF Config
<1>15. place \in {"idle", "maintenance"} /\ (place = "entering" => t.attempt.phase = d.attempt.phase)
  BY DEF Running
<1>16. replay' \in BOOLEAN /\ events' \in 0..MaxEvents /\ failed' = FALSE
  BY <1>1, <1>2 DEF TypeOK
<1> HIDE DEF t, q
<1>17. QED
  BY <1>1, <1>2, <1>9, <1>12, <1>14, <1>15, <1>16, WakeKeeps

\* Without an attempt there is little to remember.
LEMMA AttemptsOfNone ==
  ASSUME NEW t \in State, NEW g \in Goal, t.attempt = NoAttempt,
         t.run = "joining" /\ ~t.checkpoint => t.view = [g EXCEPT !.armed = TRUE]
  PROVE  Attempts(t, g)
  BY NoAttemptTyped DEF Attempts

\* A goal without rounds left is blocked, or only disarmed when it is another by now.
LEMMA ReserveOrBlockKeeps ==
  ASSUME Inv, ~failed, NEW s \in State, NEW g \in Goal, ReserveOrBlock(s, g), ~Running,
         [g EXCEPT !.armed = TRUE] = [goal EXCEPT !.armed = TRUE],
         s.attempt = NoAttempt, ~s.checkpoint, failed' = failed, events' = events
  PROVE  Inv'
<1>1. TypeOK /\ goal \in Goal /\ d \in State /\ goal.ref \in Nat
  BY GoalFields DEF Inv, TypeOK
<1>2. g.ref = goal.ref /\ g.rounds = goal.rounds /\ g.cap = goal.cap
  <2>1. /\ [g EXCEPT !.armed = TRUE].ref = g.ref /\ [goal EXCEPT !.armed = TRUE].ref = goal.ref
        /\ [g EXCEPT !.armed = TRUE].rounds = g.rounds
        /\ [goal EXCEPT !.armed = TRUE].rounds = goal.rounds
        /\ [g EXCEPT !.armed = TRUE].cap = g.cap /\ [goal EXCEPT !.armed = TRUE].cap = goal.cap
    BY <1>1 DEF Goal
  <2>2. QED
    BY <2>1
<1>3. CASE g.rounds < g.cap
  BY <1>2, <1>3, ReserveKeeps DEF ReserveOrBlock
<1>4. CASE ~(g.rounds < g.cap)
  <2>1. /\ UNCHANGED <<agent, history>>
        /\ \/ goal' \in Blocked(goal) /\ d' = Loop(Changed(s))
           \/ goal' = Disarmed(goal) /\ d' = Loop(s)
    BY <1>4 DEF ReserveOrBlock
  <2>2. goal' \in Goal /\ Later(goal, goal')
    <3>1. CASE goal' \in Blocked(goal)
      BY <1>1, <3>1, Revisions DEF Later
    <3>2. CASE goal' = Disarmed(goal)
      BY <1>1, <3>2, Disarming
    <3>3. QED
      BY <2>1, <3>1, <3>2
  <2>3. d' \in State /\ d'.attempt = NoAttempt /\ d'.run \in {"again", "off"}
    <3>1. CASE d' = Loop(Changed(s))
      <4>1. Changed(s) \in State /\ Changed(s).attempt = NoAttempt
        BY ChangedTyped
      <4>2. QED
        BY <3>1, <4>1, LoopTyped
    <3>2. CASE d' = Loop(s)
      BY <3>2, LoopTyped
    <3>3. QED
      BY <2>1, <3>1, <3>2
  <2>4. Attempts(d', goal')
    BY <2>2, <2>3, AttemptsOfNone
  <2>5. TypeOK'
    BY <1>1, <2>1, <2>2, <2>3 DEF TypeOK, agent, history
  <2>6. place # "entering" /\ (failed' => late')
    BY DEF Running
  <2>7. Continues(d.attempt, d'.attempt)
    BY <2>3 DEF Continues
  <2>8. nextTurn' = nextTurn /\ place' = place /\ batch' = batch /\ overtaken' = overtaken
    BY <2>1 DEF agent, history
  <2>9. QED
    BY <2>2, <2>4, <2>5, <2>6, <2>7, <2>8, Aside
<1>5. QED
  BY <1>3, <1>4

\* Behind its checkpoint a pass retires the attempt, reserves the next round, or joins
\* the subagents first.
LEMMA ProceedKeeps ==
  ASSUME Inv, ~failed, NEW s \in State, Proceed(s), ~Running, ~s.checkpoint,
         s.attempt = d.attempt, s.run # "joining", failed' = failed, events' = events
  PROVE  Inv'
<1>1. TypeOK /\ goal \in Goal /\ d \in State
  BY DEF Inv, TypeOK
<1>2. place # "entering"
  BY DEF Running
<1>3. CASE s.attempt # NoAttempt
  <2> DEFINE t == [s EXCEPT !.attempt = NoAttempt, !.checkpoint = TRUE, !.requested = TRUE]
  <2>1. Done(t)
    BY <1>3 DEF Proceed
  <2>2. t \in State /\ t.attempt = NoAttempt
    BY NoAttemptTyped DEF State
  <2> HIDE DEF t
  <2>3. Loop(t) \in State /\ Loop(t).attempt = NoAttempt /\ Loop(t).run # "joining"
    BY <2>2, LoopTyped
  <2>4. Attempts(Loop(t), goal)
    BY <1>1, <2>3, AttemptsOfNone
  <2>5. Continues(d.attempt, t.attempt)
    BY <2>2 DEF Continues
  <2>6. QED
    BY <1>2, <2>1, <2>2, <2>4, <2>5, DoneKeeps
<1>4. CASE s.attempt = NoAttempt /\ Done(s)
  <2>1. Loop(s) \in State /\ Loop(s).attempt = NoAttempt /\ Loop(s).run # "joining"
    BY <1>4, LoopTyped
  <2>2. Attempts(Loop(s), goal)
    BY <1>1, <2>1, AttemptsOfNone
  <2>3. Continues(d.attempt, s.attempt)
    BY <1>4 DEF Continues
  <2>4. QED
    BY <1>2, <1>4, <2>2, <2>3, DoneKeeps
<1>5. CASE s.attempt = NoAttempt /\ ReserveOrBlock(s, goal)
  BY <1>1, <1>5, ReserveOrBlockKeeps
<1>6. CASE /\ s.attempt = NoAttempt /\ Drivable(goal) /\ UNCHANGED <<goal, agent, history>>
           /\ d' = [s EXCEPT !.run = "joining", !.view = goal]
  <2>1. d' \in State /\ d'.attempt = NoAttempt /\ d'.view = goal
    BY <1>1, <1>6 DEF State
  <2>2. goal = [goal EXCEPT !.armed = TRUE]
    <3>1. goal.armed = TRUE
      BY <1>1, <1>6, GoalFields DEF Drivable
    <3>2. QED
      BY <1>1, <3>1 DEF Goal
  <2>3. Attempts(d', goal)
    BY <1>1, <2>1, <2>2, AttemptsOfNone
  <2>4. TypeOK'
    BY <1>1, <1>6, <2>1 DEF TypeOK, agent, history
  <2>5. Continues(d.attempt, d'.attempt) /\ Later(goal, goal)
    BY <1>1, <2>1, Disarming DEF Continues
  <2>6. /\ nextTurn' = nextTurn /\ place' = place /\ batch' = batch /\ overtaken' = overtaken
        /\ goal' = goal
    BY <1>6 DEF agent, history
  <2>7. QED
    BY <1>2, <2>3, <2>4, <2>5, <2>6, Aside
<1>7. QED
  BY <1>3, <1>4, <1>5, <1>6 DEF Proceed

\* A pass that finds the agent at work, or itself outdated, only ends.
LEMMA IdlePassKeeps ==
  ASSUME Inv, ~failed, NEW s \in State, Done(s), s.attempt = d.attempt,
         s.checkpoint = d.checkpoint, s.view = d.view, s.run = d.run,
         failed' = failed, events' = events
  PROVE  Inv'
<1>1. /\ goal \in Goal /\ d \in State /\ Attempts(d, goal)
  BY DEF Inv, TypeOK, Config
<1>2. /\ Loop(s) \in State /\ Loop(s).attempt = s.attempt /\ Loop(s).checkpoint = s.checkpoint
      /\ Keeps(s, Loop(s))
  BY LoopTyped
<1>3. Keeps(d, Loop(s)) /\ Continues(d.attempt, Loop(s).attempt)
  BY <1>2 DEF Keeps, Continues
<1>4. Attempts(Loop(s), goal)
  BY <1>1, <1>2, <1>3, AttemptsBeside
<1>5. Continues(d.attempt, s.attempt)
  BY DEF Continues
<1>6. QED
  BY <1>4, <1>5, DoneKeeps

\* A drive that finds a goal to go on with queues one round of it.
LEMMA DriveKeeps ==
  ASSUME Inv, ~failed, Drive
  PROVE  Inv'
<1> DEFINE s == [d EXCEPT !.requested = FALSE]
<1>1. TypeOK /\ goal \in Goal /\ d \in State /\ Attempts(d, goal) /\ d.checkpoint \in BOOLEAN
  BY StateFields DEF Inv, TypeOK, Config
<1>2. /\ failed' = failed /\ events' = events /\ d.run \in {"due", "again"}
  BY DEF Drive
<1>3. /\ s \in State /\ s.attempt = d.attempt /\ s.checkpoint = d.checkpoint /\ s.view = d.view
      /\ s.run = d.run
  BY <1>1 DEF State
<1>4. IF d.stopping \/ ~Ready(d) THEN Done(s)
      ELSE IF d.checkpoint
      THEN /\ d' = [s EXCEPT !.checkpoint = FALSE, !.run = "flushing"]
           /\ UNCHANGED <<goal, agent, history>>
      ELSE Proceed(s)
  BY DEF Drive
<1> HIDE DEF s
<1>5. CASE Done(s)
  BY <1>2, <1>3, <1>5, IdlePassKeeps
<1>6. CASE Ready(d) /\ ~d.checkpoint /\ Proceed(s)
  <2>1. ~Running
    BY <1>6 DEF Ready
  <2>2. QED
    BY <1>2, <1>3, <1>6, <2>1, ProceedKeeps
<1>7. CASE /\ Ready(d) /\ d.checkpoint /\ UNCHANGED <<goal, agent, history>>
           /\ d' = [s EXCEPT !.checkpoint = FALSE, !.run = "flushing"]
  <2>1. /\ d' \in State /\ d'.attempt = d.attempt /\ d'.run = "flushing"
    BY <1>3, <1>7 DEF State
  <2>2. Attempts(d', goal)
    BY <1>1, <1>7, <2>1 DEF Attempts
  <2>3. TypeOK'
    BY <1>1, <1>2, <1>7, <2>1 DEF TypeOK, agent, history
  <2>4. Continues(d.attempt, d'.attempt) /\ Later(goal, goal)
    BY <1>1, <2>1, Disarming DEF Continues
  <2>5. /\ nextTurn' = nextTurn /\ place' = place /\ batch' = batch /\ overtaken' = overtaken
        /\ goal' = goal /\ place # "entering"
    BY <1>7 DEF agent, history, Ready, Running
  <2>6. QED
    BY <1>2, <2>2, <2>3, <2>4, <2>5, Aside
<1>8. QED
  BY <1>4, <1>5, <1>6, <1>7

\* Behind the flush the pass drives, or looks again.
LEMMA CheckpointedKeeps ==
  ASSUME Inv, ~failed, Checkpointed
  PROVE  Inv'
<1>1. d \in State
  BY DEF Inv, TypeOK
<1>2. failed' = failed /\ events' = events /\ d.run = "flushing"
  BY DEF Checkpointed
<1>3. CASE Ready(d) /\ ~d.checkpoint /\ Proceed(d)
  <2>1. ~Running
    BY <1>3 DEF Ready
  <2>2. QED
    BY <1>1, <1>2, <1>3, <2>1, ProceedKeeps
<1>4. CASE Done(d)
  BY <1>1, <1>2, <1>4, IdlePassKeeps
<1>5. QED
  BY <1>3, <1>4 DEF Checkpointed

\* So does the pass that joined another.
LEMMA JoinedKeeps ==
  ASSUME Inv, ~failed, Joined
  PROVE  Inv'
<1> DEFINE s == [d EXCEPT !.view = NoGoal]
<1>1. goal \in Goal /\ d \in State /\ Attempts(d, goal) /\ d.view \in Goal
  BY StateFields DEF Inv, TypeOK, Config
<1>2. failed' = failed /\ events' = events /\ d.run = "joining"
  BY DEF Joined
<1>3. d.attempt = NoAttempt /\ (~d.checkpoint => d.view = [goal EXCEPT !.armed = TRUE])
  BY <1>1, <1>2 DEF Attempts
<1>4. s \in State /\ s.attempt = NoAttempt /\ s.checkpoint = d.checkpoint
  BY <1>1, <1>3, NoGoalTyped DEF State
<1>5. IF Ready(d) /\ ~d.checkpoint THEN ReserveOrBlock(s, d.view) ELSE Done(s)
  BY DEF Joined
<1> HIDE DEF s
<1>6. CASE Ready(d) /\ ~d.checkpoint /\ ReserveOrBlock(s, d.view)
  <2>1. ~Running
    BY <1>6 DEF Ready
  <2>2. [d.view EXCEPT !.armed = TRUE] = [goal EXCEPT !.armed = TRUE]
    BY <1>1, <1>3, <1>6 DEF Goal
  <2>3. QED
    BY <1>1, <1>2, <1>4, <1>6, <2>1, <2>2, ReserveOrBlockKeeps
<1>7. CASE Done(s)
  <2>1. Loop(s) \in State /\ Loop(s).attempt = NoAttempt /\ Loop(s).run # "joining"
    BY <1>4, LoopTyped
  <2>2. Attempts(Loop(s), goal)
    BY <1>1, <2>1, AttemptsOfNone
  <2>3. Continues(d.attempt, s.attempt)
    BY <1>4 DEF Continues
  <2>4. s.attempt.phase = d.attempt.phase
    BY <1>3, <1>4
  <2>5. QED
    BY <1>2, <1>4, <1>7, <2>2, <2>3, <2>4, DoneKeeps
<1>8. QED
  BY <1>5, <1>6, <1>7

\* A checkpoint fails behind no round that is about to enter: the attempt's goal was
\* another when the checkpoint began.
LEMMA CheckpointFailsKeeps ==
  ASSUME Inv, ~failed, CheckpointFails
  PROVE  Inv'
<1>1. TypeOK /\ goal \in Goal /\ d \in State /\ Attempts(d, goal) /\ events \in 0..MaxEvents
  BY DEF Inv, TypeOK, Config
<1>2. /\ goal' = Disarmed(goal) /\ d' = Loop(d) /\ UNCHANGED <<failed, agent, history>>
      /\ d.run = "flushing" /\ events' = events + 1 /\ events < MaxEvents
  BY DEF CheckpointFails, Happens
<1>3. /\ d' \in State /\ d'.attempt = d.attempt /\ d'.checkpoint = d.checkpoint /\ Keeps(d, d')
  BY <1>1, <1>2, LoopTyped
<1>4. /\ goal' \in Goal /\ Later(goal, goal')
      /\ [goal' EXCEPT !.armed = TRUE] = [goal EXCEPT !.armed = TRUE]
  BY <1>1, <1>2, Disarming
<1>5. Continues(d.attempt, d'.attempt)
  BY <1>3 DEF Continues
<1>6. Attempts(d', goal')
  BY <1>1, <1>3, <1>4, <1>5, AttemptsLater
<1>7. TypeOK'
  <2>1. events' \in 0..MaxEvents
    BY <1>1, <1>2, EventsAssumption
  <2>2. QED
    BY <1>1, <1>2, <1>3, <1>4, <2>1 DEF TypeOK, agent, history
<1>8. ASSUME place = "entering", RoundClaimed
      PROVE  aborted \/ late
  <2>1. d.attempt.phase = "claimed" /\ (aborted \/ late \/ ~Spent(d.attempt, goal))
    BY <1>8 DEF Inv, Placed
  <2>2. ~Spent(d.attempt, goal) => d.attempt.ref = goal.ref
    BY DEF Spent
  <2>3. d.attempt.ref # goal.ref
    BY <1>1, <1>2, <2>1 DEF Attempts
  <2>4. QED
    BY <2>1, <2>2, <2>3
<1>9. /\ nextTurn' = nextTurn /\ place' = place /\ batch' = batch /\ overtaken' = overtaken
      /\ aborted' = aborted /\ late' = late /\ failed' = failed
  BY <1>2 DEF agent, history
<1>10. QED
  BY <1>3, <1>4, <1>5, <1>6, <1>7, <1>8, <1>9, Aside

-----------------------------------------------------------------------------
(* The theorems.                                                           *)

\* There is no goal, no turn and no attempt yet.
LEMMA InvInit == Init => Inv
<1> SUFFICES ASSUME Init PROVE Inv
  OBVIOUS
<1>1. TypeOK
  <2>1. batch \in [turn : Seq(Message), steer : BOOLEAN]
    BY DEF Init, NoBatch
  <2>2. nextTurn \in Seq(Message) /\ events \in 0..MaxEvents
    BY EventsAssumption DEF Init
  <2>3. QED
    BY <2>1, <2>2, NoGoalTyped, FreshTyped DEF Init, TypeOK
<1>2. d.attempt = NoAttempt /\ d.run = "off"
  BY DEF Init, Fresh
<1>3. Attempts(d, goal)
  BY <1>1, <1>2, AttemptsOfNone DEF TypeOK
<1>4. Config(d, nextTurn, goal, Copied(d.attempt))
  BY <1>3 DEF Init, Config, Queue, OneEach, Ahead
<1>5. Placed
  BY DEF Init, Placed, NoBatch, RoundClaimed, Queue
<1>6. QED
  BY <1>1, <1>4, <1>5 DEF Inv

\* Every action keeps the invariant.
LEMMA InvNext == Inv /\ [Next]_vars => Inv'
<1> SUFFICES ASSUME Inv, [Next]_vars PROVE Inv'
  OBVIOUS
<1>1. CASE UNCHANGED vars
  <2>1. TypeOK'
    BY <1>1 DEF Inv, TypeOK, vars, agent, history
  <2>2. Placed'
    BY <1>1 DEF Inv, Placed, RoundClaimed, vars, agent, history
  <2>3. Copied(d.attempt)' = Copied(d.attempt)
    BY <1>1 DEF Copied, RoundClaimed, vars, agent, history
  <2>4. nextTurn' = nextTurn /\ d' = d /\ goal' = goal
    BY <1>1 DEF vars, agent, history
  <2>5. QED
    BY <2>1, <2>2, <2>3, <2>4 DEF Inv
<1>2. CASE ~failed /\ Turn
  BY <1>2, ReplayKeeps, AbortedTurnKeeps, QuietTurnKeeps, OrdinaryKeeps, GateKeeps, AdmitKeeps,
     EndTurnKeeps, EndMaintenanceKeeps DEF Turn
<1>3. CASE ~failed /\ Pass
  BY <1>3, DriveKeeps, CheckpointedKeeps, JoinedKeeps DEF Pass
<1>4. CASE ~failed /\ Faults
  BY <1>4, FailedTurnKeeps, OrdinaryKeeps, RoundRejectedKeeps, CheckpointFailsKeeps, RestartKeeps,
     UnloadKeeps DEF Faults
<1>5. CASE ~failed /\ People
  BY <1>5, SendPromptKeeps, SteerKeeps, RemoveKeeps, ReplaceKeeps, CancelKeeps, HostChangesKeeps,
     ModelChangesKeeps, BeginMaintenanceKeeps DEF People
<1>6. QED
  BY <1>1, <1>2, <1>3, <1>4, <1>5 DEF Next

\* The driver, its queue and its batch always say of each other what the invariant says.
LEMMA RoundsInv == Spec => []Inv
  BY InvInit, InvNext, PTL DEF Spec

\* A round enters its step only as the next one of the armed goal, unless the goal was
\* changed behind the driver's last check; only such a change breaks the goal's fold.
THEOREM GoalRoundsFollow == Spec => []RoundsFollowGoal
<1>1. Inv => RoundsFollowGoal
  <2> SUFFICES ASSUME Inv PROVE RoundsFollowGoal
    OBVIOUS
  <2>1. TypeOK /\ goal \in Goal /\ batch.turn \in Seq(Message) /\ Queue(batch.turn, goal)
        /\ (failed => late)
    BY DEF Inv, TypeOK, Placed
  <2>2. ASSUME place = "entering", RoundClaimed, ~aborted, ~late
        PROVE  Drivable(goal) /\ Admits(goal, batch.turn[1])
    <3>1. /\ Same(batch.turn[1], d.attempt) /\ ~Spent(d.attempt, goal)
      BY <2>2 DEF Inv, Placed
    <3>2. 1 \in DOMAIN batch.turn
      BY <2>1, <2>2, LenProperties, EmptySeq DEF RoundClaimed
    <3>3. Fits(batch.turn[1], goal) /\ IsRound(batch.turn[1])
      BY <2>1, <2>2, <3>2 DEF Queue, RoundClaimed
    <3>4. QED
      BY <3>1, <3>3 DEF Same, Spent, Fits, Drivable, Admits
  <2>3. QED
    BY <2>1, <2>2 DEF RoundsFollowGoal
<1>2. QED
  BY <1>1, RoundsInv, PTL

\* A round never goes before the prompt that a person queued behind its reservation.
THEOREM GoalRoundsYield == Spec => []PromptsFirst
<1>1. Inv => PromptsFirst
  BY DEF Inv, Placed, PromptsFirst, Own, RoundClaimed
<1>2. QED
  BY <1>1, RoundsInv, PTL

\* A pass that joins the agent's subagents goes on, if it does, with the goal's own
\* revision, limit and rounds.
THEOREM GoalRoundsSeeTheGoal == Spec => []JoinedViewCurrent
<1>1. Inv => JoinedViewCurrent
  BY DEF Inv, Config, Attempts, JoinedViewCurrent
<1>2. QED
  BY <1>1, RoundsInv, PTL
=============================================================================
