-------------------------------- MODULE Goals --------------------------------
(***************************************************************************)
(* The goal of one session: the compare-and-set mutations of the service   *)
(* (packages/goal/goal/src/index.ts) and the strict fold of the log that   *)
(* admits rounds (packages/goal/goal/src/fold.ts).  `ref` stands for the   *)
(* pair of goal id and revision: every change takes a number not used yet. *)
(***************************************************************************)
EXTENDS Naturals

CONSTANT Caps   \* the round limits a goal may be given

ASSUME CapsAssumption == Caps \subseteq Nat \ {0}

Phases == {"none", "active", "paused", "blocked", "complete"}
Goal == [ref : Nat, phase : Phases, rounds : Nat, cap : Caps \cup {0}, armed : BOOLEAN]
NoGoal == [ref |-> 0, phase |-> "none", rounds |-> 0, cap |-> 0, armed |-> FALSE]

Revised(g, phase, armed) == [g EXCEPT !.ref = @ + 1, !.phase = phase, !.armed = armed]

\* create(), edit(), resume() and clear(), and transition() for the rest: what each
\* may make of g.
Created(g) ==
  IF g.phase \in {"none", "complete"}
  THEN {[ref |-> g.ref + 1, phase |-> "active", rounds |-> 0, cap |-> c, armed |-> TRUE] : c \in Caps}
  ELSE {}
Edited(g) ==
  IF g.phase # "none" THEN {[Revised(g, g.phase, g.armed) EXCEPT !.cap = c] : c \in Caps} ELSE {}
Resumed(g) ==
  IF /\ g.phase \in {"active", "paused", "blocked"} /\ ~(g.phase = "active" /\ g.armed)
     /\ g.rounds < g.cap
  THEN {Revised(g, "active", TRUE)} ELSE {}
Cleared(g) == IF g.phase # "none" THEN {[NoGoal EXCEPT !.ref = g.ref + 1]} ELSE {}
Transition(g, from, to) == IF g.phase \in from THEN {Revised(g, to, FALSE)} ELSE {}
Paused(g) == Transition(g, {"active"}, "paused")
Completed(g) == Transition(g, {"active", "paused", "blocked"}, "complete")
Blocked(g) == Transition(g, {"active"}, "blocked")

\* Only the process-local authority goes.
Disarmed(g) == [g EXCEPT !.armed = FALSE]

\* drivable(): automatic rounds may start.
Drivable(g) == g.phase = "active" /\ g.armed

\* applyGoalEvent(): a round's message is the next round of the active goal.
Admits(g, m) ==
  g.phase = "active" /\ m.ref = g.ref /\ m.round = g.rounds + 1 /\ m.round <= g.cap
=============================================================================
