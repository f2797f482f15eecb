-------------------------- MODULE MCSessionRecovery --------------------------
(* Values for the model runs of SessionRecovery.                           *)
EXTENDS SessionRecovery

\* An answer without calls, or with two; their ids recur in every step.
MCRequests == {<<>>, <<"c1", "c2">>}
=============================================================================
