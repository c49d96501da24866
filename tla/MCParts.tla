------------------------------ MODULE MCParts -------------------------------
(***************************************************************************)
(* Components that share no state, checked in one run: `part' picks one of *)
(* them for a behaviour, the others stay as they began.                    *)
(***************************************************************************)
EXTENDS GpuLease, ControlCommands, VideoLock, MikanEpisode, TLC

CONSTANTS pa, pb, l1, l2, l3, k1, k2, u1, u2, u3, s1, s2

MCLeaseHome == (l1 :> pa) @@ (l2 :> pa) @@ (l3 :> pb)
MCFiles     == {[key |-> k1, body |-> 1], [key |-> k1, body |-> 2], [key |-> k2, body |-> 1]}
\* Two threads of one process, one of another.
MCHome      == (u1 :> pa) @@ (u2 :> pa) @@ (u3 :> pb)

VARIABLE part

Init ==
  /\ part \in {"lease", "commands", "lock", "episode"}
  /\ LeaseInit /\ CommandInit /\ LockInit /\ EpisodeInit

Next ==
  \/ part = "lease" /\ LeaseNext /\ UNCHANGED <<part, commandVars, lockVars, episodeVars>>
  \/ part = "commands" /\ CommandNext /\ UNCHANGED <<part, leaseVars, lockVars, episodeVars>>
  \/ part = "lock" /\ LockNext /\ UNCHANGED <<part, leaseVars, commandVars, episodeVars>>
  \/ part = "episode" /\ EpisodeNext /\ UNCHANGED <<part, leaseVars, commandVars, lockVars>>

Spec == Init /\ [][Next]_<<part, leaseVars, commandVars, lockVars, episodeVars>>

\* CommandsAnswered where the commands are what runs, under their fairness.
CommandsAnsweredFairly == part = "commands" /\ CommandFairness => CommandsAnswered
\* DeadLockRemoved where the lock is what runs, under its fairness.
DeadLockRemovedFairly == part = "lock" /\ LockFairness => DeadLockRemoved
\* GoneTorrentIsGivenUp where the episode is what runs, under its fairness.
GoneTorrentFairly == part = "episode" /\ EpisodeFairness => GoneTorrentIsGivenUp
=============================================================================
