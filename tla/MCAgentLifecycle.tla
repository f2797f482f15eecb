-------------------------- MODULE MCAgentLifecycle --------------------------
\* Two attempts, in one process or in two, for TLC.
EXTENDS AgentLifecycle, TLC
CONSTANTS a1, a2, p1, p2

MCHomes == {a1 :> p1 @@ a2 :> p1, a1 :> p1 @@ a2 :> p2}

\* What a1 began comes to its end (SettlesFor), and so does what a2 began: MCHomes
\* and the specification are the same when the attempts, and the processes of two
\* homes, change places.
Settles == SettlesFor(a1)
=============================================================================
