----------------------------- MODULE LockProofs -----------------------------
(***************************************************************************)
(* Theorems about the two locks: GpuLease, for any processes, objects,     *)
(* placement and number of open files, and VideoLock, for any processes,   *)
(* users and number of restarts.                                           *)
(***************************************************************************)
EXTENDS GpuLease, VideoLock, TLAPS

-----------------------------------------------------------------------------
(* GpuLease.  The inductive invariant is the model's LeaseInv with its     *)
(* types: a descriptor belongs to the process that opened it or got it by  *)
(* a fork, and a lock to the descriptor.                                   *)

LeaseSafe == LeaseTypeOK /\ LeaseInv

LEMMA NoUserIsNone == ASSUME NEW u \in LeaseUsers PROVE u # NoUser /\ LeaseHome[u] \in LeaseProcs
  BY LeaseAssumption

\* The state file's record has its type whatever a publication does.
LEMMA NoteTypes ==
  ASSUME LeaseTypeOK, NEW u \in LeaseUsers, NEW held \in BOOLEAN, PublishAs(u, held)
  PROVE  /\ note' \in [by : LeaseUsers \cup {NoUser}, held : BOOLEAN]
         /\ stateError' \in SUBSET LeaseUsers
<1>1. [by |-> u, held |-> held] \in [by : LeaseUsers \cup {NoUser}, held : BOOLEAN]
  OBVIOUS
<1> QED
  BY <1>1 DEF PublishAs, LeaseTypeOK

LEMMA LeaseTypeStep == LeaseTypeOK /\ [LeaseNext]_leaseVars => LeaseTypeOK'
<1> SUFFICES ASSUME LeaseTypeOK, [LeaseNext]_leaseVars PROVE LeaseTypeOK'
  OBVIOUS
<1> USE DEF LeaseTypeOK
<1>1. ASSUME NEW u \in LeaseUsers, Reserve(u) PROVE LeaseTypeOK'
  BY <1>1, NoUserIsNone DEF Reserve, At, Stages
<1>2. ASSUME NEW u \in LeaseUsers, OpenFile(u) PROVE LeaseTypeOK'
  <2>1. PICK o \in OpenFiles :
          /\ handle' = [handle EXCEPT ![u] = o]
          /\ desc' = [desc EXCEPT ![o] = {LeaseHome[u]}]
          /\ leaked' = leaked \ {o}
    BY <1>2 DEF OpenFile
  <2>2. {LeaseHome[u]} \in SUBSET LeaseProcs
    BY NoUserIsNone
  <2>3. desc' \in [OpenFiles -> SUBSET LeaseProcs]
    BY <2>1, <2>2
  <2> QED
    BY <1>2, <2>1, <2>3 DEF OpenFile, At, Stages
<1>3. ASSUME NEW u \in LeaseUsers, Register(u) PROVE LeaseTypeOK'
  BY <1>3 DEF Register, At, Stages
<1>4. ASSUME NEW u \in LeaseUsers, TryLock(u) PROVE LeaseTypeOK'
  BY <1>4 DEF TryLock, At, Stages
<1>5. ASSUME NEW u \in LeaseUsers, Publish(u) PROVE LeaseTypeOK'
  BY <1>5, NoteTypes DEF Publish, At, Stages
<1>6. ASSUME NEW u \in LeaseUsers, Tell(u) PROVE LeaseTypeOK'
  BY <1>6, NoteTypes DEF Tell, At, Stages
<1>7. ASSUME NEW u \in LeaseUsers, Unlock(u) PROVE LeaseTypeOK'
  BY <1>7 DEF Unlock, At, Stages
<1>8. ASSUME NEW u \in LeaseUsers, GiveUp(u) PROVE LeaseTypeOK'
  BY <1>8, NoUserIsNone DEF GiveUp, Closed, At, Stages
<1>9. ASSUME NEW u \in LeaseUsers, Close(u) PROVE LeaseTypeOK'
  BY <1>9, NoUserIsNone DEF Close, Closed, At, Stages
<1>10. ASSUME NEW u \in LeaseUsers, Forget(u) PROVE LeaseTypeOK'
  BY <1>10, NoUserIsNone DEF Forget, At, Stages
<1>11. ASSUME NEW p \in LeaseProcs, Die(p) PROVE LeaseTypeOK'
  BY <1>11 DEF Die, Gone, Stages
<1>12. ASSUME NEW p \in LeaseProcs, Start(p) PROVE LeaseTypeOK'
  BY <1>12 DEF Start
<1>13. ASSUME NEW p \in LeaseProcs, NEW q \in LeaseProcs, Fork(p, q) PROVE LeaseTypeOK'
  BY <1>13 DEF Fork
<1>14. CASE UNCHANGED leaseVars
  BY <1>14 DEF leaseVars
<1> QED
  BY <1>1, <1>2, <1>3, <1>4, <1>5, <1>6, <1>7, <1>8, <1>9, <1>10, <1>11, <1>12, <1>13, <1>14
     DEF LeaseNext

\* Every variable has its type.
THEOREM LeaseTypeCorrect == LeaseSpec => []LeaseTypeOK
<1>1. LeaseInit => LeaseTypeOK
  BY DEF LeaseInit, LeaseTypeOK, Stages
<1> QED
  BY <1>1, LeaseTypeStep, PTL DEF LeaseSpec

-----------------------------------------------------------------------------
(* The inductive invariant. *)

LEMMA InvExcludes == LeaseSafe => LeaseExclusive
  BY DEF LeaseSafe, LeaseInv, LeaseTypeOK, LeaseExclusive, HasLease

LEMMA LeaseInvStep == LeaseSafe /\ [LeaseNext]_leaseVars => LeaseInv'
<1> SUFFICES ASSUME LeaseSafe, [LeaseNext]_leaseVars PROVE LeaseInv'
  OBVIOUS
<1> USE DEF LeaseSafe
<1>1. ASSUME NEW u \in LeaseUsers, Reserve(u) PROVE LeaseInv'
  BY <1>1, NoUserIsNone DEF Reserve, At, LeaseInv, LeaseTypeOK, Live, HasLease
<1>2. ASSUME NEW u \in LeaseUsers, OpenFile(u) PROVE LeaseInv'
  BY <1>2, NoUserIsNone, LeaseAssumption DEF OpenFile, At, LeaseInv, LeaseTypeOK, Live, HasLease
<1>3. ASSUME NEW u \in LeaseUsers, Register(u) PROVE LeaseInv'
  BY <1>3, NoUserIsNone DEF Register, At, LeaseInv, LeaseTypeOK, Live, HasLease
<1>4. ASSUME NEW u \in LeaseUsers, TryLock(u) PROVE LeaseInv'
  <2>1. at' = [at EXCEPT ![u] = "locked"] /\ kernel' = handle[u] /\ at[u] = "waiting" /\ Live(u)
        /\ UNCHANGED <<handle, registry, desc, running>> /\ kernel = NoFileOpen
    BY <1>4 DEF TryLock, At
  <2>2. \A w \in LeaseUsers : w \notin HasLease
    BY <2>1 DEF LeaseInv, HasLease
  <2>3. \A w \in HasLease' : w = u
    BY <2>1, <2>2 DEF HasLease, LeaseTypeOK
  <2>4. LeaseHome[u] \in desc[handle[u]]
    BY <2>1 DEF LeaseInv
  <2>5. (\A w \in HasLease : kernel = handle[w])' /\ (kernel # NoFileOpen => desc[kernel] # {})'
    BY <2>1, <2>3, <2>4
  <2>6. /\ (\A w \in LeaseUsers : at[w] # "idle" => Live(w) /\ registry[LeaseHome[w]] = w)'
        /\ (\A p \in LeaseProcs : registry[p] # NoUser => LeaseHome[registry[p]] = p /\ at[registry[p]] # "idle")'
    BY <2>1, NoUserIsNone DEF LeaseInv, LeaseTypeOK, Live
  <2>7. /\ (\A w \in LeaseUsers : at[w] \in {"idle", "reserved"} <=> handle[w] = NoFileOpen)'
        /\ (\A w \in LeaseUsers : at[w] \notin {"idle", "reserved", "closed"} => LeaseHome[w] \in desc[handle[w]])'
        /\ (\A w, v \in LeaseUsers : handle[w] # NoFileOpen /\ handle[w] = handle[v] => w = v)'
    BY <2>1 DEF LeaseInv, LeaseTypeOK
  <2> QED
    BY <2>5, <2>6, <2>7 DEF LeaseInv
<1>5. ASSUME NEW u \in LeaseUsers, Publish(u) \/ Tell(u) \/ Unlock(u) PROVE LeaseInv'
  <2>1. CASE Publish(u)
    BY <2>1, NoUserIsNone DEF Publish, At, LeaseInv, LeaseTypeOK, Live, HasLease
  <2>2. CASE Tell(u)
    BY <2>2, NoUserIsNone DEF Tell, At, LeaseInv, LeaseTypeOK, Live, HasLease
  <2>3. CASE Unlock(u)
    BY <2>3, NoUserIsNone, InvExcludes
       DEF Unlock, At, LeaseInv, LeaseTypeOK, LeaseExclusive, Live, HasLease
  <2> QED
    BY <1>5, <2>1, <2>2, <2>3
<1>6. ASSUME NEW u \in LeaseUsers, GiveUp(u) PROVE LeaseInv'
  BY <1>6, NoUserIsNone DEF GiveUp, Closed, At, LeaseInv, LeaseTypeOK, Live, HasLease
<1>7. ASSUME NEW u \in LeaseUsers, Close(u) PROVE LeaseInv'
  BY <1>7, NoUserIsNone DEF Close, Closed, At, LeaseInv, LeaseTypeOK, Live, HasLease
<1>8. ASSUME NEW u \in LeaseUsers, Forget(u) PROVE LeaseInv'
  BY <1>8, NoUserIsNone DEF Forget, At, LeaseInv, LeaseTypeOK, Live, HasLease
<1>9. ASSUME NEW p \in LeaseProcs, Die(p) PROVE LeaseInv'
  BY <1>9, NoUserIsNone DEF Die, Gone, LeaseInv, LeaseTypeOK, Live, HasLease
<1>10. ASSUME NEW p \in LeaseProcs, Start(p) \/ \E q \in LeaseProcs : Fork(p, q) PROVE LeaseInv'
  BY <1>10, NoUserIsNone DEF Start, Fork, LeaseInv, LeaseTypeOK, Live, HasLease
<1>11. CASE UNCHANGED leaseVars
  BY <1>11 DEF leaseVars, LeaseInv, Live, HasLease
<1> QED
  BY <1>1, <1>2, <1>3, <1>4, <1>5, <1>6, <1>7, <1>8, <1>9, <1>10, <1>11 DEF LeaseNext

\* What makes the lease one, through contention, forks, deaths and failed
\* unlocks.
THEOREM LeaseCorrect == LeaseSpec => []LeaseInv
<1>1. LeaseInit => LeaseInv
  BY NoUserIsNone DEF LeaseInit, LeaseInv, HasLease
<1>2. LeaseTypeOK /\ LeaseInv /\ [LeaseNext]_leaseVars => LeaseInv'
  BY LeaseInvStep DEF LeaseSafe
<1> QED
  BY <1>1, <1>2, LeaseTypeCorrect, PTL DEF LeaseSpec

\* Two objects, of one process or of two, never both have the GPU.
THEOREM LeaseIsExclusive == LeaseSpec => []LeaseExclusive
  BY LeaseTypeCorrect, LeaseCorrect, InvExcludes, PTL DEF LeaseSafe

-----------------------------------------------------------------------------
(* Descriptors that outlive their owner. *)

LEMMA CopiesStep == LeaseSafe /\ CopiesAreLeaked /\ [LeaseNext]_leaseVars => CopiesAreLeaked'
<1> SUFFICES ASSUME LeaseSafe, CopiesAreLeaked, [LeaseNext]_leaseVars PROVE CopiesAreLeaked'
  OBVIOUS
<1> USE DEF LeaseSafe, CopiesAreLeaked, LeaseTypeOK
<1>1. ASSUME NEW u \in LeaseUsers,
             Reserve(u) \/ Register(u) \/ TryLock(u) \/ Publish(u) \/ Tell(u) \/ Unlock(u)
      PROVE  CopiesAreLeaked'
  BY <1>1 DEF Reserve, Register, TryLock, Publish, Tell, Unlock
<1>2. ASSUME NEW u \in LeaseUsers, OpenFile(u) PROVE CopiesAreLeaked'
  <2>1. PICK o \in OpenFiles :
          /\ o \notin {handle[v] : v \in LeaseUsers}
          /\ handle' = [handle EXCEPT ![u] = o]
          /\ desc' = [desc EXCEPT ![o] = {LeaseHome[u]}]
          /\ leaked' = leaked \ {o}
    BY <1>2 DEF OpenFile
  <2> QED
    BY <2>1
<1>3. ASSUME NEW u \in LeaseUsers, GiveUp(u) PROVE CopiesAreLeaked'
  BY <1>3 DEF GiveUp, Closed
<1>4. ASSUME NEW u \in LeaseUsers, Close(u) PROVE CopiesAreLeaked'
  BY <1>4 DEF Close, Closed
<1>5. ASSUME NEW u \in LeaseUsers, Forget(u) PROVE CopiesAreLeaked'
  BY <1>5 DEF Forget
<1>6. ASSUME NEW p \in LeaseProcs, Die(p) PROVE CopiesAreLeaked'
  BY <1>6 DEF Die
<1>7. ASSUME NEW p \in LeaseProcs, Start(p) PROVE CopiesAreLeaked'
  BY <1>7 DEF Start
<1>8. ASSUME NEW p \in LeaseProcs, NEW q \in LeaseProcs, Fork(p, q) PROVE CopiesAreLeaked'
  <2> SUFFICES ASSUME NEW v \in LeaseUsers, handle[v] # NoFileOpen, handle[v] \notin leaked'
               PROVE  desc'[handle[v]] \subseteq {LeaseHome[v]}
    BY <1>8 DEF Fork
  <2> DEFINE o == handle[v]
  <2>1. o \in OpenFiles /\ desc[o] \subseteq {LeaseHome[v]}
    BY <1>8 DEF Fork
  <2>2. registry[LeaseHome[v]] = v /\ at[v] # "reserved"
    BY DEF LeaseInv
  <2>3. p \in desc[o] => o \in KnownToChild(p)
    <3> SUFFICES ASSUME p \in desc[o], o \notin KnownToChild(p) PROVE FALSE
      OBVIOUS
    <3>1. registry[p] = v
      BY <2>1, <2>2
    <3>2. at[v] = "opened"
      BY <2>2, <3>1 DEF KnownToChild
    <3> QED
      BY <1>8, <2>1, <3>2 DEF Fork
  <2> QED
    BY <1>8, <2>1, <2>3 DEF Fork
<1>9. CASE UNCHANGED leaseVars
  BY <1>9 DEF leaseVars
<1> QED
  BY <1>1, <1>2, <1>3, <1>4, <1>5, <1>6, <1>7, <1>8, <1>9 DEF LeaseNext

\* An open file an object and another process share was copied by a fork
\* before it was registered.
THEOREM CopiesLeaked == LeaseSpec => []CopiesAreLeaked
<1>1. LeaseInit => CopiesAreLeaked
  BY DEF LeaseInit, CopiesAreLeaked
<1>2. LeaseTypeOK /\ LeaseInv /\ CopiesAreLeaked /\ [LeaseNext]_leaseVars => CopiesAreLeaked'
  BY CopiesStep DEF LeaseSafe
<1> QED
  BY <1>1, <1>2, LeaseTypeCorrect, LeaseCorrect, PTL DEF LeaseSpec

LEMMA LeaseOrphanStep ==
  LeaseSafe /\ CopiesAreLeaked /\ OrphanOnlyByFork /\ [LeaseNext]_leaseVars => OrphanOnlyByFork'
<1> SUFFICES ASSUME LeaseSafe, CopiesAreLeaked, OrphanOnlyByFork, [LeaseNext]_leaseVars,
                    kernel' # NoFileOpen, kernel' \notin leaked'
             PROVE  (\E w \in HasLease \cup {v \in LeaseUsers : at[v] = "unlocked"} : handle[w] = kernel)'
  BY DEF OrphanOnlyByFork
<1> USE DEF LeaseSafe, LeaseTypeOK, HasLease
<1>1. ASSUME NEW u \in LeaseUsers, TryLock(u) PROVE u \in HasLease' /\ handle'[u] = kernel'
  BY <1>1 DEF TryLock, At
\* No other action sets the lock.
<1>2. ASSUME \A u \in LeaseUsers : ~TryLock(u) PROVE kernel' = kernel
  <2>1. ASSUME NEW u \in LeaseUsers, Unlock(u) PROVE kernel' = kernel
    BY <2>1 DEF Unlock
  <2>2. ASSUME NEW u \in LeaseUsers, GiveUp(u) \/ Close(u) PROVE kernel' = kernel
    BY <2>2 DEF GiveUp, Close, Closed
  <2>3. ASSUME NEW p \in LeaseProcs, Die(p) PROVE kernel' = kernel
    BY <2>3 DEF Die
  <2> QED
    BY <1>2, <2>1, <2>2, <2>3
       DEF LeaseNext, leaseVars, Reserve, OpenFile, Register, Publish, Tell, Forget, Start, Fork
<1>3. ASSUME \A u \in LeaseUsers : ~TryLock(u), kernel \in leaked PROVE FALSE
  <2>1. kernel' = kernel
    BY <1>2, <1>3
  <2>2. \E u \in LeaseUsers : OpenFile(u)
    BY <1>3, <2>1
       DEF LeaseNext, leaseVars, Reserve, Register, Publish, Tell, Unlock, GiveUp, Close, Forget,
           Die, Start, Fork
  <2>3. PICK o \in OpenFiles : desc[o] = {} /\ leaked' = leaked \ {o}
    BY <2>2 DEF OpenFile
  <2> QED
    BY <1>3, <2>1, <2>3 DEF LeaseInv
<1>4. ASSUME \A u \in LeaseUsers : ~TryLock(u), kernel \notin leaked
      PROVE  (\E w \in HasLease \cup {v \in LeaseUsers : at[v] = "unlocked"} : handle[w] = kernel)'
  <2>1. kernel' = kernel /\ kernel # NoFileOpen
    BY <1>2, <1>4
  <2>2. PICK w \in LeaseUsers : at[w] \in {"locked", "held", "told", "unlocked"} /\ handle[w] = kernel
    BY <1>4, <2>1 DEF OrphanOnlyByFork
  <2>3. desc[kernel] \subseteq {LeaseHome[w]}
    BY <1>4, <2>1, <2>2 DEF CopiesAreLeaked
  <2>4. SUFFICES at'[w] \in {"locked", "held", "told", "unlocked"} /\ handle'[w] = handle[w]
    BY <2>1, <2>2
  <2>5. ASSUME NEW u \in LeaseUsers, Close(u) PROVE u # w
    BY <2>5, <2>1, <2>2, <2>3 DEF Close, Closed
  <2>6. ASSUME NEW p \in LeaseProcs, Die(p) PROVE LeaseHome[w] # p
    BY <2>6, <2>1, <2>2, <2>3 DEF Die
  <2>7. ASSUME NEW u \in LeaseUsers,
               \/ Reserve(u) \/ OpenFile(u) \/ Register(u) \/ Publish(u) \/ GiveUp(u)
               \/ Tell(u) \/ Unlock(u) \/ Close(u) \/ Forget(u)
        PROVE  at'[w] \in {"locked", "held", "told", "unlocked"} /\ handle'[w] = handle[w]
    BY <2>7, <2>2, <2>5
       DEF Reserve, OpenFile, Register, Publish, GiveUp, Tell, Unlock, Close, Forget, At
  <2>8. ASSUME NEW p \in LeaseProcs, Die(p)
        PROVE  at'[w] \in {"locked", "held", "told", "unlocked"} /\ handle'[w] = handle[w]
    BY <2>8, <2>2, <2>6 DEF Die, Gone
  <2>9. ASSUME NEW p \in LeaseProcs, Start(p) \/ \E q \in LeaseProcs : Fork(p, q)
        PROVE  at'[w] \in {"locked", "held", "told", "unlocked"} /\ handle'[w] = handle[w]
    BY <2>9, <2>2 DEF Start, Fork
  <2> QED
    BY <1>4, <2>2, <2>7, <2>8, <2>9 DEF LeaseNext, leaseVars
<1> QED
  BY <1>1, <1>3, <1>4

\* A lock nobody has or releases was copied by a fork between the opening
\* and the registration.
THEOREM OrphansAreLeaked == LeaseSpec => []OrphanOnlyByFork
<1>1. LeaseInit => OrphanOnlyByFork
  BY DEF LeaseInit, OrphanOnlyByFork
<1>2. /\ LeaseTypeOK /\ LeaseInv /\ CopiesAreLeaked /\ OrphanOnlyByFork /\ [LeaseNext]_leaseVars
      => OrphanOnlyByFork'
  BY LeaseOrphanStep DEF LeaseSafe
<1> QED
  BY <1>1, <1>2, LeaseTypeCorrect, LeaseCorrect, CopiesLeaked, PTL DEF LeaseSpec

-----------------------------------------------------------------------------
(* The lease implements the abstract one. *)

\* The objects with the lease only change by one that takes a free lock and
\* by some that go.
LEMMA HoldersStep ==
  ASSUME LeaseSafe, [LeaseNext]_leaseVars
  PROVE  HasLease' \subseteq HasLease \/ HasLease = {}
<1> USE DEF LeaseSafe, LeaseTypeOK, HasLease
<1>1. ASSUME NEW u \in LeaseUsers, TryLock(u) PROVE HasLease = {}
  BY <1>1 DEF TryLock, LeaseInv
<1>2. ASSUME NEW u \in LeaseUsers,
             \/ Reserve(u) \/ OpenFile(u) \/ Register(u) \/ Publish(u) \/ GiveUp(u)
             \/ Tell(u) \/ Unlock(u) \/ Close(u) \/ Forget(u)
      PROVE  HasLease' \subseteq HasLease
  BY <1>2 DEF Reserve, OpenFile, Register, Publish, GiveUp, Tell, Unlock, Close, Forget, At
<1>3. ASSUME NEW p \in LeaseProcs, Die(p) \/ Start(p) \/ \E q \in LeaseProcs : Fork(p, q)
      PROVE  HasLease' \subseteq HasLease
  BY <1>3 DEF Die, Gone, Start, Fork
<1>4. CASE UNCHANGED leaseVars
  BY <1>4 DEF leaseVars
<1> QED
  BY <1>1, <1>2, <1>3, <1>4 DEF LeaseNext

LEMMA StepKeepsLease ==
  ASSUME LeaseSafe, LeaseInv', LeaseTypeOK', [LeaseNext]_leaseVars
  PROVE  [Lease!Give \/ \E u \in LeaseUsers : Lease!Take(u)]_Owner
<1>1. LeaseExclusive /\ LeaseExclusive'
  BY InvExcludes DEF LeaseSafe, LeaseExclusive, LeaseInv, LeaseTypeOK, HasLease
<1>2. Owner \in HasLease \/ (HasLease = {} /\ Owner = NoUser)
  BY DEF Owner, HasLease
<1>3. Owner' \in HasLease' \/ (HasLease' = {} /\ Owner' = NoUser)
  BY DEF Owner, HasLease
<1>4. HasLease' \subseteq HasLease \/ HasLease = {}
  BY HoldersStep
<1>5. HasLease \subseteq LeaseUsers /\ HasLease' \subseteq LeaseUsers
  BY DEF HasLease
<1>6. CASE HasLease = {} /\ HasLease' = {}
  BY <1>2, <1>3, <1>6
<1>7. CASE HasLease = {} /\ HasLease' # {}
  BY <1>2, <1>3, <1>5, <1>7 DEF Lease!Take
<1>8. CASE HasLease # {} /\ HasLease' = {}
  BY <1>2, <1>3, <1>5, <1>8, LeaseAssumption DEF Lease!Give
<1>9. CASE HasLease # {} /\ HasLease' # {}
  BY <1>1, <1>2, <1>3, <1>4, <1>9 DEF LeaseExclusive
<1> QED
  BY <1>6, <1>7, <1>8, <1>9

\* The kernel lock, the registries and the release order implement the
\* abstract lease: one owner, taken when free, given up before the next.
THEOREM LeaseKeepsPromise == LeaseSpec => LeaseKept
<1>1. LeaseInit => Owner = NoUser
  BY DEF LeaseInit, Owner, HasLease
<1>2. /\ LeaseTypeOK /\ LeaseInv /\ LeaseTypeOK' /\ LeaseInv' /\ [LeaseNext]_leaseVars
      => [Lease!Give \/ \E u \in LeaseUsers : Lease!Take(u)]_Owner
  BY StepKeepsLease DEF LeaseSafe
<1> QED
  BY <1>1, <1>2, LeaseTypeCorrect, LeaseCorrect, PTL DEF LeaseSpec, LeaseKept, Lease!Promise

-----------------------------------------------------------------------------
(* VideoLock.  The inductive invariant is the model's LockInv.             *)

LEMMA FileTypes ==
  ASSUME LockTypeOK, file # NoFile
  PROVE  /\ file \in LockFiles /\ file.by \in Users
         /\ Home[file.by] \in Processes /\ life[Home[file.by]] \in Nat
         /\ file.life \in Nat
  BY LockAssumption DEF LockTypeOK, LockFiles

LEMMA LockTypeStep == LockTypeOK /\ [LockNext]_lockVars => LockTypeOK'
<1> SUFFICES ASSUME LockTypeOK, [LockNext]_lockVars PROVE LockTypeOK'
  OBVIOUS
<1> USE DEF LockTypeOK
<1>1. ASSUME NEW u \in Users, Create(u) PROVE LockTypeOK'
  <2>1. CASE file = NoFile
    <3>1. Home[u] \in Processes /\ life[Home[u]] \in 1..MaxLives
      BY LockAssumption
    <3>2. file' \in LockFiles
      <4>1. file' = [by |-> u, life |-> life[Home[u]], full |-> FALSE, old |-> FALSE]
        BY <1>1, <2>1 DEF Create
      <4> QED
        BY <3>1, <4>1 DEF LockFiles
    <3>3. changed' \subseteq Users /\ UNCHANGED <<seen, life, up, raced>>
      BY <1>1, <2>1 DEF Create, Checking
    <3>4. pc' = [pc EXCEPT ![u] = "writing"]
      BY <1>1, <2>1 DEF Create, Go
    <3> QED
      BY <3>2, <3>3, <3>4
  <2>2. CASE file # NoFile
    BY <1>1, <2>2 DEF Create, Go
  <2> QED
    BY <2>1, <2>2
<1>2. ASSUME NEW u \in Users, Stat(u) PROVE LockTypeOK'
  <2>1. (file # NoFile /\ file.old) \in BOOLEAN
    OBVIOUS
  <2> QED
    BY <1>2, <2>1 DEF Stat, Go
<1>3. ASSUME NEW u \in Users, Read(u) \/ Unlink(u) \/ WriteFails(u) \/ Release(u)
      PROVE  LockTypeOK'
  BY <1>3 DEF Read, Unlink, WriteFails, Release, Go
<1>4. ASSUME NEW u \in Users, Write(u) PROVE LockTypeOK'
  BY <1>4 DEF Write, Go, LockFiles, Mine, Checking
<1>5. ASSUME NEW p \in Processes, Crash(p) PROVE LockTypeOK'
  BY <1>5 DEF Crash
<1>6. ASSUME NEW p \in Processes, Boot(p) PROVE LockTypeOK'
  <2>1. life[p] + 1 \in 1..MaxLives
    BY <1>6, LockAssumption DEF Boot
  <2> QED
    BY <1>6, <2>1 DEF Boot
<1>7. CASE GrowsOld
  BY <1>7 DEF GrowsOld, LockFiles
<1>8. CASE UNCHANGED lockVars
  BY <1>8 DEF lockVars
<1> QED
  BY <1>1, <1>2, <1>3, <1>4, <1>5, <1>6, <1>7, <1>8 DEF LockNext

\* The tables of the model are typed.
THEOREM LockTypeCorrect == LockSpec => []LockTypeOK
<1>1. LockInit => LockTypeOK
  <2>1. 1 \in 1..MaxLives
    BY LockAssumption
  <2> QED
    BY <2>1 DEF LockInit, LockTypeOK
<1>2. LockTypeOK /\ [LockNext]_lockVars => LockTypeOK'
  BY LockTypeStep
<1> QED
  BY <1>1, <1>2, PTL DEF LockSpec

-----------------------------------------------------------------------------
(* The inductive invariant, one part at a time. *)

LEMMA LockOrphanStep ==
  ASSUME LockTypeOK, NoOrphan, UsersRun, LivesOrdered, [LockNext]_lockVars
  PROVE  NoOrphan' /\ LivesOrdered'
<1>1. ASSUME NEW u \in Users, Create(u) PROVE NoOrphan' /\ LivesOrdered'
  <2>1. CASE file = NoFile
    <3>1. file' = [by |-> u, life |-> life[Home[u]], full |-> FALSE, old |-> FALSE]
          /\ pc'[u] = "writing" /\ UNCHANGED <<life, up>>
      BY <1>1, <2>1 DEF Create, Go, LockTypeOK
    <3>2. life[Home[u]] \in Nat
      BY LockAssumption DEF LockTypeOK
    <3> QED
      BY <3>1, <3>2 DEF NoOrphan, LivesOrdered
  <2>2. CASE file # NoFile
    BY <1>1, <2>2, FileTypes DEF Create, Go, NoOrphan, LivesOrdered, Alive, LockTypeOK
  <2> QED
    BY <2>1, <2>2
<1>2. ASSUME NEW u \in Users, Stat(u) \/ Read(u) PROVE NoOrphan' /\ LivesOrdered'
  BY <1>2, FileTypes DEF Stat, Read, Go, NoOrphan, LivesOrdered, Alive, LockTypeOK
<1>3. ASSUME NEW u \in Users, Unlink(u) \/ WriteFails(u) \/ Release(u)
      PROVE  NoOrphan' /\ LivesOrdered'
  BY <1>3 DEF Unlink, WriteFails, Release, NoOrphan, LivesOrdered
<1>4. ASSUME NEW u \in Users, Write(u) PROVE NoOrphan' /\ LivesOrdered'
  <2>1. CASE Mine(u)
    <3>1. /\ file' = [file EXCEPT !.full = TRUE, !.old = FALSE] /\ UNCHANGED <<life, up>>
          /\ pc'[u] = "held" /\ file.by = u /\ file \in LockFiles /\ file # NoFile
      BY <1>4, <2>1, FileTypes DEF Write, Go, Mine, LockTypeOK
    <3>2. file'.by = u /\ file'.full /\ file'.life = file.life
      BY <3>1 DEF LockFiles
    <3> QED
      BY <3>1, <3>2 DEF NoOrphan, LivesOrdered
  <2>2. CASE ~Mine(u)
    <3>1. UNCHANGED <<file, life, up>> /\ pc' = [pc EXCEPT ![u] = "held"]
      BY <1>4, <2>2 DEF Write, Go
    <3>2. file # NoFile /\ Alive(file) => file.by # u
      BY <2>2 DEF Mine, Alive
    <3> QED
      BY <3>1, <3>2, FileTypes DEF NoOrphan, LivesOrdered, Alive, LockTypeOK
  <2> QED
    BY <2>1, <2>2
<1>5. ASSUME NEW p \in Processes, Crash(p) PROVE NoOrphan' /\ LivesOrdered'
  <2>1. file # NoFile /\ Alive(file)' => Alive(file) /\ Home[file.by] # p
    BY <1>5 DEF Crash, Alive
  <2> QED
    BY <1>5, <2>1, FileTypes DEF Crash, NoOrphan, LivesOrdered, LockTypeOK
<1>6. ASSUME NEW p \in Processes, Boot(p) PROVE NoOrphan' /\ LivesOrdered'
  <2>1. UNCHANGED <<file, pc>> /\ life' = [life EXCEPT ![p] = @ + 1] /\ up' = up \cup {p}
    BY <1>6 DEF Boot
  <2>2. ASSUME file # NoFile, Home[file.by] = p
        PROVE  file.life < life'[p]
    <3>1. life'[p] = life[p] + 1 /\ life[p] \in Nat
      BY <2>1 DEF LockTypeOK
    <3> QED
      BY <2>2, <3>1, FileTypes DEF LivesOrdered
  <2>3. ASSUME file # NoFile, Home[file.by] # p
        PROVE  life'[Home[file.by]] = life[Home[file.by]] /\ (Alive(file)' => Alive(file))
    BY <2>1, <2>3, FileTypes DEF Alive, LockTypeOK
  <2>4. file # NoFile /\ Alive(file)' => Alive(file)
    BY <2>1, <2>2, <2>3, FileTypes DEF Alive
  <2>5. LivesOrdered'
    BY <2>1, <2>2, <2>3, FileTypes DEF LivesOrdered, LockTypeOK
  <2> QED
    BY <2>1, <2>4, <2>5 DEF NoOrphan
<1>7. CASE GrowsOld
  <2>1. /\ file # NoFile /\ file' = [file EXCEPT !.old = TRUE] /\ UNCHANGED <<pc, life, up>>
        /\ file \in LockFiles
    BY <1>7, FileTypes DEF GrowsOld
  <2>2. file'.by = file.by /\ file'.life = file.life /\ file'.full = file.full
    BY <2>1 DEF LockFiles
  <2> QED
    BY <2>1, <2>2 DEF NoOrphan, LivesOrdered, Alive
<1>8. CASE UNCHANGED lockVars
  BY <1>8 DEF lockVars, NoOrphan, LivesOrdered, Alive
<1> QED
  BY <1>1, <1>2, <1>3, <1>4, <1>5, <1>6, <1>7, <1>8 DEF LockNext

\* Only running processes have users at work, and a lock's process does not
\* come back to life.
LEMMA RunStep ==
  ASSUME LockTypeOK, UsersRun, [LockNext]_lockVars
  PROVE  UsersRun'
<1>1. ASSUME NEW u \in Users, Create(u) \/ Stat(u) \/ Read(u) \/ Unlink(u)
                              \/ Write(u) \/ WriteFails(u) \/ Release(u)
      PROVE  UsersRun'
  BY <1>1 DEF Create, Stat, Read, Unlink, Write, WriteFails, Release, Go, UsersRun, LockTypeOK
<1>2. ASSUME NEW p \in Processes, Crash(p) \/ Boot(p) PROVE UsersRun'
  BY <1>2 DEF Crash, Boot, UsersRun, LockTypeOK
<1>3. CASE GrowsOld \/ UNCHANGED lockVars
  BY <1>3 DEF GrowsOld, lockVars, UsersRun
<1> QED
  BY <1>1, <1>2, <1>3 DEF LockNext

\* The verdict "stale" stands until a lock is created or completed.
LEMMA VerdictStep ==
  ASSUME LockTypeOK, NoOrphan, LivesOrdered, VerdictStands, [LockNext]_lockVars
  PROVE  VerdictStands'
<1> SUFFICES ASSUME NEW w \in Users, w \notin changed', pc'[w] = "unlink", file' # NoFile,
                    file'.full
             PROVE  ~Alive(file)'
  BY DEF VerdictStands
<1> DEFINE Before == w \notin changed /\ pc[w] = "unlink" =>
                       file = NoFile \/ ~Alive(file) \/ ~file.full
<1>0. Before
  BY DEF VerdictStands
<1>1. ASSUME NEW u \in Users, Create(u) PROVE ~Alive(file)'
  <2>1. CASE file = NoFile
    <3>1. changed' = changed \cup Checking /\ pc' = [pc EXCEPT ![u] = "writing"]
      BY <1>1, <2>1 DEF Create, Go
    <3> QED
      BY <3>1 DEF Checking, LockTypeOK
  <2>2. CASE file # NoFile
    BY <1>0, <1>1, <2>2 DEF Create, Go, Alive, LockTypeOK
  <2> QED
    BY <2>1, <2>2
<1>2. ASSUME NEW u \in Users, Stat(u) PROVE ~Alive(file)'
  <2>1. CASE w = u
    BY <1>2, <2>1 DEF Stat, Go, LockTypeOK
  <2>2. CASE w # u
    BY <1>0, <1>2, <2>2 DEF Stat, Go, Alive, LockTypeOK
  <2> QED
    BY <2>1, <2>2
<1>3. ASSUME NEW u \in Users, Read(u) PROVE ~Alive(file)'
  BY <1>0, <1>3 DEF Read, Judged, Go, Alive, LockTypeOK
<1>4. ASSUME NEW u \in Users, Unlink(u) \/ WriteFails(u) \/ Release(u) PROVE ~Alive(file)'
  BY <1>4 DEF Unlink, WriteFails, Release
<1>5. ASSUME NEW u \in Users, Write(u) PROVE ~Alive(file)'
  <2>1. CASE Mine(u)
    <3>1. changed' = changed \cup Checking /\ pc' = [pc EXCEPT ![u] = "held"]
      BY <1>5, <2>1 DEF Write, Go
    <3> QED
      BY <3>1 DEF Checking, LockTypeOK
  <2>2. CASE ~Mine(u)
    BY <1>0, <1>5, <2>2 DEF Write, Go, Alive, LockTypeOK
  <2> QED
    BY <2>1, <2>2
<1>6. ASSUME NEW p \in Processes, Crash(p) PROVE ~Alive(file)'
  BY <1>0, <1>6 DEF Crash, Alive, LockTypeOK
<1>7. ASSUME NEW p \in Processes, Boot(p) PROVE ~Alive(file)'
  <2>1. /\ UNCHANGED <<file, pc, changed>> /\ up' = up \cup {p}
        /\ life' = [life EXCEPT ![p] = @ + 1]
    BY <1>7 DEF Boot
  <2>2. CASE Home[file.by] = p
    <3>1. life'[p] = life[p] + 1 /\ life[p] \in Nat
      BY <2>1 DEF LockTypeOK
    <3>2. file.life # life'[p]
      BY <2>1, <2>2, <3>1, FileTypes DEF LivesOrdered
    <3> QED
      BY <2>1, <2>2, <3>2 DEF Alive
  <2>3. CASE Home[file.by] # p
    BY <1>0, <2>1, <2>3, FileTypes DEF Alive, LockTypeOK
  <2> QED
    BY <2>2, <2>3
<1>8. CASE GrowsOld
  <2>1. /\ file # NoFile /\ file' = [file EXCEPT !.old = TRUE] /\ file \in LockFiles
        /\ UNCHANGED <<pc, life, up, changed>>
    BY <1>8, FileTypes DEF GrowsOld
  <2>2. file'.by = file.by /\ file'.life = file.life /\ file'.full = file.full
    BY <2>1 DEF LockFiles
  <2> QED
    BY <1>0, <2>1, <2>2 DEF Alive
<1>9. CASE UNCHANGED lockVars
  BY <1>0, <1>9 DEF lockVars, Alive
<1> QED
  BY <1>1, <1>2, <1>3, <1>4, <1>5, <1>6, <1>7, <1>8, <1>9 DEF LockNext

\* Whoever holds the lock finds its file in place, unless a takeover raced.
LEMMA OwnerStep ==
  ASSUME LockTypeOK, UsersRun, VerdictStands, OwnerKeepsFile, [LockNext]_lockVars
  PROVE  OwnerKeepsFile'
<1> SUFFICES ASSUME ~raced', NEW w \in Users, pc'[w] \in {"writing", "held"}
             PROVE  Mine(w)'
  BY DEF OwnerKeepsFile
<1>1. ASSUME NEW u \in Users, Create(u) PROVE Mine(w)'
  <2>1. CASE file = NoFile
    <3>1. /\ file' = [by |-> u, life |-> life[Home[u]], full |-> FALSE, old |-> FALSE]
          /\ pc' = [pc EXCEPT ![u] = "writing"] /\ UNCHANGED <<life, raced>>
      BY <1>1, <2>1 DEF Create, Go
    <3>2. w = u
      BY <2>1, <3>1 DEF OwnerKeepsFile, Mine, LockTypeOK
    <3>3. file' # NoFile
      BY <3>1 DEF NoFile
    <3> QED
      BY <3>1, <3>2, <3>3 DEF Mine
  <2>2. CASE file # NoFile
    BY <1>1, <2>2 DEF Create, Go, OwnerKeepsFile, Mine, LockTypeOK
  <2> QED
    BY <2>1, <2>2
<1>2. ASSUME NEW u \in Users, Stat(u) \/ Read(u) PROVE Mine(w)'
  BY <1>2 DEF Stat, Read, Go, OwnerKeepsFile, Mine, LockTypeOK
<1>3. ASSUME NEW u \in Users, Unlink(u) PROVE Mine(w)'
  <2>1. pc[u] = "unlink" /\ ~raced /\ pc[w] \in {"writing", "held"}
        /\ ~(file # NoFile /\ Alive(file) /\ (u \in changed \/ ~file.full))
    BY <1>3 DEF Unlink, Go, LockTypeOK
  <2>2. file # NoFile /\ Alive(file)
    BY <2>1 DEF OwnerKeepsFile, Mine, UsersRun, Alive
  <2> QED
    BY <2>1, <2>2 DEF VerdictStands
<1>4. ASSUME NEW u \in Users, WriteFails(u) \/ Release(u) PROVE Mine(w)'
  <2>1. ~raced /\ pc[u] \in {"writing", "held"} /\ pc[w] \in {"writing", "held"} /\ w # u
    BY <1>4 DEF WriteFails, Release, Go, LockTypeOK
  <2> QED
    BY <2>1 DEF OwnerKeepsFile, Mine
<1>5. ASSUME NEW u \in Users, Write(u) PROVE Mine(w)'
  <2>1. pc[w] \in {"writing", "held"} /\ ~raced /\ Mine(u) /\ Mine(w)
    BY <1>5 DEF Write, Go, OwnerKeepsFile, LockTypeOK
  <2>2. file' = [file EXCEPT !.full = TRUE, !.old = FALSE] /\ UNCHANGED life /\ file \in LockFiles
    BY <1>5, <2>1, FileTypes DEF Write, Mine
  <2>3. file' \in LockFiles /\ file'.by = file.by /\ file'.life = file.life
    BY <2>2 DEF LockFiles
  <2>4. file' # NoFile
    BY <2>3 DEF LockFiles, NoFile
  <2> QED
    BY <2>1, <2>2, <2>3, <2>4 DEF Mine
<1>6. ASSUME NEW p \in Processes, Crash(p) PROVE Mine(w)'
  BY <1>6 DEF Crash, OwnerKeepsFile, Mine, LockTypeOK
<1>7. ASSUME NEW p \in Processes, Boot(p) PROVE Mine(w)'
  <2>1. pc[w] \in {"writing", "held"} /\ ~raced /\ UNCHANGED file
        /\ life' = [life EXCEPT ![p] = @ + 1]
    BY <1>7 DEF Boot
  <2>2. Home[w] # p /\ Home[w] \in Processes
    BY <1>7, <2>1, LockAssumption DEF Boot, UsersRun
  <2> QED
    BY <2>1, <2>2 DEF OwnerKeepsFile, Mine, LockTypeOK
<1>8. CASE GrowsOld
  <2>1. /\ file # NoFile /\ file' = [file EXCEPT !.old = TRUE] /\ file \in LockFiles
        /\ UNCHANGED <<pc, life, raced>>
    BY <1>8, FileTypes DEF GrowsOld
  <2>2. file' \in LockFiles /\ file'.by = file.by /\ file'.life = file.life
    BY <2>1 DEF LockFiles
  <2>3. file' # NoFile
    BY <2>2 DEF LockFiles, NoFile
  <2> QED
    BY <2>1, <2>2, <2>3 DEF OwnerKeepsFile, Mine
<1>9. CASE UNCHANGED lockVars
  BY <1>9 DEF lockVars, OwnerKeepsFile, Mine
<1> QED
  BY <1>1, <1>2, <1>3, <1>4, <1>5, <1>6, <1>7, <1>8, <1>9 DEF LockNext

\* No file of a live process is left behind, and its owner keeps it.
THEOREM LockCorrect == LockSpec => []LockInv
<1>1. LockInit => LockInv
  BY LockAssumption DEF LockInit, LockInv, NoOrphan, OwnerKeepsFile, VerdictStands, UsersRun,
                        LivesOrdered
<1>2. LockTypeOK /\ LockInv /\ [LockNext]_lockVars => LockInv'
  BY LockOrphanStep, RunStep, VerdictStep, OwnerStep DEF LockInv
<1> QED
  BY <1>1, <1>2, LockTypeCorrect, PTL DEF LockSpec

\* Two objects hold the lock at once only after a takeover removed the lock
\* of a live owner that appeared or was completed during its own checks.
THEOREM LockIsExclusive == LockSpec => []Exclusive
<1>1. LockInv => Exclusive
  BY DEF LockInv, OwnerKeepsFile, Mine, Exclusive
<1> QED
  BY <1>1, LockCorrect, PTL
=============================================================================
