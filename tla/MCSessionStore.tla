--------------------------- MODULE MCSessionStore ---------------------------
EXTENDS SessionStore, TLC

CONSTANTS s1, s2, s3, i1, i2

\* Two of the sessions want the same id.
MCIdOf == (s1 :> i1) @@ (s2 :> i1) @@ (s3 :> i2)
=============================================================================
