----------------------------- MODULE VideoLock -----------------------------
(***************************************************************************)
(* The lock file beside a video (lock.py): created exclusively, then       *)
(* filled with the owner's process identity, removed by its owner, and     *)
(* taken over by whoever finds it stale.  A user is one VideoLock object.  *)
(* A process identity is a pid and a start time, here the process and how  *)
(* often it was started.  An age matters only against stale_seconds.       *)
(***************************************************************************)
EXTENDS Naturals

CONSTANTS
  Processes,
  Users,      \* the VideoLock objects, of one video
  Home,       \* the process of each
  MaxLives    \* bound: how often a process is started

ASSUME LockAssumption ==
  /\ Home \in [Users -> Processes]
  /\ MaxLives \in Nat \ {0}

NoFile == [by |-> "nobody"]

VARIABLES
  file,     \* what the lock path names: whose file, written or not, old or not
  pc,       \* where a user is in acquire, or "held"
  seen,     \* whether the file a user looked at was older than stale_seconds
  life,     \* how often each process was started
  up,       \* the processes that run
  changed,  \* history: users in whose checks a lock was created or completed
  raced     \* history: a live owner's lock was removed for such a reason

lockVars == <<file, pc, seen, life, up, changed, raced>>

Alive(f) == Home[f.by] \in up /\ life[Home[f.by]] = f.life
Mine(u)  == file # NoFile /\ file.by = u /\ file.life = life[Home[u]]
Checking == {u \in Users : pc[u] \in {"read", "unlink"}}
Go(u, at) == pc' = [pc EXCEPT ![u] = at]

LockInit ==
  /\ file = NoFile
  /\ pc = [u \in Users |-> "idle"]
  /\ seen = [u \in Users |-> FALSE]
  /\ life = [p \in Processes |-> 1]
  /\ up = Processes
  /\ changed = {}
  /\ raced = FALSE

-----------------------------------------------------------------------------
(* acquire *)

\* The exclusive creation, by a caller who starts or tries again.
Create(u) ==
  /\ Home[u] \in up
  /\ pc[u] \in {"idle", "create"}
  /\ IF file = NoFile
       THEN /\ file' = [by |-> u, life |-> life[Home[u]], full |-> FALSE, old |-> FALSE]
            /\ Go(u, "writing")
            /\ changed' = changed \cup Checking
       ELSE Go(u, "stat") /\ UNCHANGED <<file, changed>>
  /\ UNCHANGED <<seen, life, up, raced>>

\* A lock that vanished in between counts as stale.
Stat(u) ==
  /\ pc[u] = "stat"
  /\ Go(u, IF file = NoFile THEN "unlink" ELSE "read")
  /\ seen' = [seen EXCEPT ![u] = file # NoFile /\ file.old]
  /\ changed' = changed \ {u}
  /\ UNCHANGED <<file, life, up, raced>>

\* A file without an identity is judged by its age, any other by its owner.
JudgedByAge(u) == seen[u]  \* mutant: a lock held for long is stale
JudgedKept(u) ==  \* mutant: a recorded owner is trusted, dead or alive
  seen[u] /\ (file = NoFile \/ ~file.full)
Judged(u) == IF file = NoFile \/ ~file.full THEN seen[u] ELSE ~Alive(file)

Read(u) ==
  /\ pc[u] = "read"
  /\ Go(u, IF Judged(u) THEN "unlink" ELSE "idle")
  /\ UNCHANGED <<file, seen, life, up, changed, raced>>

\* Removes whatever is there by now.
Unlink(u) ==
  /\ pc[u] = "unlink"
  /\ file' = NoFile
  /\ Go(u, "create")
  /\ raced' = (raced \/ (file # NoFile /\ Alive(file) /\ (u \in changed \/ ~file.full)))
  /\ UNCHANGED <<seen, life, up, changed>>

Write(u) ==
  /\ pc[u] = "writing"
  /\ Go(u, "held")
  /\ IF Mine(u) THEN /\ file' = [file EXCEPT !.full = TRUE, !.old = FALSE]
                     /\ changed' = changed \cup Checking
                ELSE UNCHANGED <<file, changed>>
  /\ UNCHANGED <<seen, life, up, raced>>

WriteFails(u) ==
  /\ pc[u] = "writing"
  /\ file' = NoFile
  /\ Go(u, "idle")
  /\ UNCHANGED <<seen, life, up, changed, raced>>

\* release
Release(u) ==
  /\ pc[u] = "held"
  /\ file' = NoFile
  /\ Go(u, "idle")
  /\ UNCHANGED <<seen, life, up, changed, raced>>

-----------------------------------------------------------------------------
Crash(p) ==
  /\ p \in up
  /\ life[p] < MaxLives
  /\ up' = up \ {p}
  /\ pc' = [u \in Users |-> IF Home[u] = p THEN "idle" ELSE pc[u]]
  /\ UNCHANGED <<file, seen, life, changed, raced>>

Boot(p) ==
  /\ p \notin up
  /\ life[p] < MaxLives
  /\ up' = up \cup {p}
  /\ life' = [life EXCEPT ![p] = @ + 1]
  /\ UNCHANGED <<file, pc, seen, changed, raced>>

\* stale_seconds pass; a process may have been frozen meanwhile.
GrowsOld ==
  /\ file # NoFile
  /\ ~file.old
  /\ file' = [file EXCEPT !.old = TRUE]
  /\ UNCHANGED <<pc, seen, life, up, changed, raced>>

LockNext == \/ \E u \in Users : \/ Create(u) \/ Stat(u) \/ Read(u) \/ Unlink(u)
                            \/ Write(u) \/ WriteFails(u) \/ Release(u)
        \/ \E p \in Processes : Crash(p) \/ Boot(p)
        \/ GrowsOld

LockSpec == LockInit /\ [][LockNext]_lockVars

\* Callers come back with the next cycle, time passes, processes restart.
LockFairness ==
  /\ WF_lockVars(GrowsOld)
  /\ \A p \in Processes : WF_lockVars(Boot(p))
  /\ \A u \in Users : WF_lockVars(Create(u) \/ Stat(u) \/ Read(u) \/ Unlink(u))

-----------------------------------------------------------------------------
LockFiles == [by : Users, life : 1..MaxLives, full : BOOLEAN, old : BOOLEAN]

\* Types of the lock file and of the processes' state.
LockTypeOK ==
  /\ file \in LockFiles \cup {NoFile}
  /\ pc \in [Users -> {"idle", "create", "stat", "read", "unlink", "writing", "held"}]
  /\ seen \in [Users -> BOOLEAN]
  /\ life \in [Processes -> 1..MaxLives]
  /\ up \subseteq Processes
  /\ changed \subseteq Users
  /\ raced \in BOOLEAN

\* A lock file that names a live process belongs to an object that is
\* acquiring or holding it: no exit path leaves a file that looks active for
\* ever although nobody will remove it.
NoOrphan ==
  file # NoFile /\ Alive(file) =>
    /\ pc[file.by] \in {"writing", "held"}
    /\ file.full <=> pc[file.by] = "held"

\* Unless a takeover removed a lock that appeared or was completed during its
\* own checks, or one never completed, two objects never hold the lock.
Exclusive ==
  ~raced => \A u, w \in Users : pc[u] = "held" /\ pc[w] = "held" => u = w

\* What makes it inductive: without such a takeover the file of whoever is
\* acquiring or holding is in place, a verdict stands as long as no lock was
\* created or completed since, and what runs belongs to a running process.
OwnerKeepsFile == ~raced => \A u \in Users : pc[u] \in {"writing", "held"} => Mine(u)
VerdictStands ==
  \A u \in Users \ changed :
    pc[u] = "unlink" => file = NoFile \/ ~Alive(file) \/ ~file.full
UsersRun == \A u \in Users : pc[u] # "idle" => Home[u] \in up
LivesOrdered == file # NoFile => file.life <= life[Home[file.by]]

LockInv == NoOrphan /\ OwnerKeepsFile /\ VerdictStands /\ UsersRun /\ LivesOrdered

\* A lock left by a dead process does not block the video for ever.
DeadLockRemoved == (file # NoFile /\ ~Alive(file)) ~> (file = NoFile \/ Alive(file))

\* What the comment in _is_stale_lock says: a valid live process identity
\* stays authoritative, so only its owner removes it.
LiveOwnerIsAuthoritative ==
  [][file # NoFile /\ file.full /\ Alive(file) /\ file' = NoFile
       => pc[file.by] = "held" /\ pc'[file.by] = "idle"]_lockVars
=============================================================================
