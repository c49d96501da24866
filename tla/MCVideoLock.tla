---------------------------- MODULE MCVideoLock ----------------------------
EXTENDS VideoLock, TLC

CONSTANTS p1, p2, u1, u2, u3

\* Two threads of one process, one of another.
MCHome == (u1 :> p1) @@ (u2 :> p1) @@ (u3 :> p2)
=============================================================================
