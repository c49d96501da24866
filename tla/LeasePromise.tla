---------------------------- MODULE LeasePromise ----------------------------
(***************************************************************************)
(* What the GPU kernel lease promises its callers: at any time at most one *)
(* lease object has the GPU, it gets it when nobody has it, and it is not  *)
(* handed from one object to another without being free in between.        *)
(***************************************************************************)
CONSTANTS LeaseUsers, NoUser

VARIABLE owner

Take(u) == owner = NoUser /\ owner' = u
Give    == owner # NoUser /\ owner' = NoUser

Promise == owner = NoUser /\ [][Give \/ \E u \in LeaseUsers : Take(u)]_owner
=============================================================================
