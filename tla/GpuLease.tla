------------------------------ MODULE GpuLease ------------------------------
(***************************************************************************)
(* The lease on the one GPU (gpu_lease.py): a kernel lock on a persistent  *)
(* file is the authority; a registry in each process keeps two objects of  *)
(* it apart; a state file beside it only tells who has it.  The kernel     *)
(* locks an open file, which lives as long as some process has a           *)
(* descriptor of it: a fork copies descriptors, a handler in the child     *)
(* closes those the registry knows.                                        *)
(***************************************************************************)
EXTENDS Naturals, FiniteSets

CONSTANTS
  LeaseUsers,      \* the GpuKernelLease objects
  LeaseProcs,      \* the processes
  LeaseHome,       \* the process of each object
  OpenFiles,       \* the kernel's open files on the lock file
  NoUser, NoFileOpen

ASSUME LeaseAssumption ==
  /\ LeaseHome \in [LeaseUsers -> LeaseProcs]
  /\ NoUser \notin LeaseUsers
  /\ NoFileOpen \notin OpenFiles

VARIABLES
  at,        \* where an object is: see Stages
  handle,    \* the open file of an object
  registry,  \* per process, the object that reserved the lease
  desc,      \* per open file, the processes that have a descriptor of it
  kernel,    \* the open file that has the kernel lock
  running,   \* the processes that run
  note,      \* the state file: who wrote it last, and whether as "held"
  stateError,\* the objects whose last publication failed
  leaked     \* history: open files that a fork copied before they were registered

leaseVars == <<at, handle, registry, desc, kernel, running, note, stateError, leaked>>

Stages   == {"idle", "reserved", "opened", "waiting", "locked", "held", "told", "unlocked", "closed"}
HasLease == {u \in LeaseUsers : at[u] \in {"locked", "held", "told"}}
Live(u)  == LeaseHome[u] \in running
At(u, s) == at' = [at EXCEPT ![u] = s]

LeaseInit ==
  /\ at = [u \in LeaseUsers |-> "idle"]
  /\ handle = [u \in LeaseUsers |-> NoFileOpen]
  /\ registry = [p \in LeaseProcs |-> NoUser]
  /\ desc = [o \in OpenFiles |-> {}]
  /\ kernel = NoFileOpen
  /\ running = LeaseProcs
  /\ note = [by |-> NoUser, held |-> FALSE]
  /\ stateError = {}
  /\ leaked = {}

-----------------------------------------------------------------------------
(* acquire *)

\* Another object of the process that is in the registry refuses this one.
Reserve(u) ==
  /\ Live(u) /\ at[u] = "idle" /\ registry[LeaseHome[u]] = NoUser
  /\ registry' = [registry EXCEPT ![LeaseHome[u]] = u]
  /\ At(u, "reserved")
  /\ UNCHANGED <<handle, desc, kernel, running, note, stateError, leaked>>

OpenFile(u) ==
  /\ Live(u) /\ at[u] = "reserved"
  /\ \E o \in OpenFiles :
       /\ desc[o] = {} /\ o \notin {handle[v] : v \in LeaseUsers}
       /\ handle' = [handle EXCEPT ![u] = o]
       /\ desc' = [desc EXCEPT ![o] = {LeaseHome[u]}]
       /\ leaked' = leaked \ {o}
  /\ At(u, "opened")
  /\ UNCHANGED <<registry, kernel, running, note, stateError>>

Register(u) ==
  /\ Live(u) /\ at[u] = "opened"
  /\ At(u, "waiting")
  /\ UNCHANGED <<handle, registry, desc, kernel, running, note, stateError, leaked>>

TryLock(u) ==
  /\ Live(u) /\ at[u] = "waiting" /\ kernel = NoFileOpen
  /\ kernel' = handle[u]
  /\ At(u, "locked")
  /\ UNCHANGED <<handle, registry, desc, running, note, stateError, leaked>>

\* A publication is observational: its failure is kept in state_error.
PublishAs(u, held) ==
  \/ /\ note' = [by |-> u, held |-> held]
     /\ stateError' = stateError \ {u}
  \/ /\ UNCHANGED note
     /\ stateError' = stateError \cup {u}

\* The end of a successful acquire; later the owner's heartbeat.
Publish(u) ==
  /\ Live(u) /\ at[u] \in {"locked", "held"}
  /\ PublishAs(u, TRUE)
  /\ At(u, "held")
  /\ UNCHANGED <<handle, registry, desc, kernel, running, leaked>>

\* A descriptor is closed; with the last one of an open file its lock goes.
Closed(o, p) ==
  /\ desc' = [desc EXCEPT ![o] = @ \ {p}]
  /\ kernel' = IF kernel = o /\ desc[o] \subseteq {p} THEN NoFileOpen ELSE kernel

\* The bounded wait is over, or a step of acquire raised.
GiveUp(u) ==
  /\ Live(u) /\ at[u] \in {"reserved", "opened", "waiting"}
  /\ IF handle[u] = NoFileOpen THEN UNCHANGED <<desc, kernel>>
     ELSE Closed(handle[u], LeaseHome[u])
  /\ handle' = [handle EXCEPT ![u] = NoFileOpen]
  /\ registry' = [registry EXCEPT ![LeaseHome[u]] = NoUser]
  /\ At(u, "idle")
  /\ UNCHANGED <<running, note, stateError, leaked>>

-----------------------------------------------------------------------------
(* release: told, unlocked, closed, forgotten, in this order *)

\* The lock is freed before the release is published.
TellUnlocked(u) ==
  /\ Live(u) /\ at[u] = "held"
  /\ PublishAs(u, FALSE)
  /\ kernel' = NoFileOpen
  /\ At(u, "told")
  /\ UNCHANGED <<handle, registry, desc, running, leaked>>

Tell(u) ==
  /\ Live(u) /\ at[u] = "held"
  /\ PublishAs(u, FALSE)
  /\ At(u, "told")
  /\ UNCHANGED <<handle, registry, desc, kernel, running, leaked>>

\* LOCK_UN frees the lock whoever else has a descriptor; it may fail.
Unlock(u) ==
  /\ Live(u) /\ at[u] = "told"
  /\ kernel' \in {kernel, NoFileOpen}
  /\ At(u, "unlocked")
  /\ UNCHANGED <<handle, registry, desc, running, note, stateError, leaked>>

Close(u) ==
  /\ Live(u) /\ at[u] = "unlocked"
  /\ Closed(handle[u], LeaseHome[u])
  /\ At(u, "closed")
  /\ UNCHANGED <<handle, registry, running, note, stateError, leaked>>

Forget(u) ==
  /\ Live(u) /\ at[u] = "closed"
  /\ handle' = [handle EXCEPT ![u] = NoFileOpen]
  /\ registry' = [registry EXCEPT ![LeaseHome[u]] = NoUser]
  /\ At(u, "idle")
  /\ UNCHANGED <<desc, kernel, running, note, stateError, leaked>>

-----------------------------------------------------------------------------
(* processes *)

\* The handler in the child closes nothing.
KnownToNobody(p) == {}

\* The open files whose copies the handler in a forked child closes.
KnownToChild(p) ==
  {handle[u] : u \in {v \in LeaseUsers : registry[p] = v /\ at[v] \notin {"reserved", "opened"}}}

Fork(p, q) ==
  LET copied == {o \in OpenFiles : p \in desc[o] /\ o \notin KnownToChild(p)} IN
  /\ p \in running /\ q \notin running
  /\ running' = running \cup {q}
  /\ desc' = [o \in OpenFiles |-> IF o \in copied THEN desc[o] \cup {q} ELSE desc[o]]
  /\ leaked' = leaked \cup {o \in copied : \E u \in LeaseUsers : handle[u] = o /\ at[u] = "opened"}
  /\ UNCHANGED <<at, handle, registry, kernel, note, stateError>>

Gone(p) == {u \in LeaseUsers : LeaseHome[u] = p}

\* A process ends: the kernel closes its descriptors, its memory is gone.
Die(p) ==
  /\ p \in running
  /\ running' = running \ {p}
  /\ desc' = [o \in OpenFiles |-> desc[o] \ {p}]
  /\ kernel' = IF kernel # NoFileOpen /\ desc[kernel] \subseteq {p} THEN NoFileOpen ELSE kernel
  /\ registry' = [registry EXCEPT ![p] = NoUser]
  /\ at' = [u \in LeaseUsers |-> IF u \in Gone(p) THEN "idle" ELSE at[u]]
  /\ handle' = [u \in LeaseUsers |-> IF u \in Gone(p) THEN NoFileOpen ELSE handle[u]]
  /\ stateError' = stateError \ Gone(p)
  /\ UNCHANGED <<note, leaked>>

Start(p) ==
  /\ p \notin running
  /\ running' = running \cup {p}
  /\ UNCHANGED <<at, handle, registry, desc, kernel, note, stateError, leaked>>

LeaseNext ==
  \/ \E u \in LeaseUsers :
       \/ Reserve(u) \/ OpenFile(u) \/ Register(u) \/ TryLock(u) \/ Publish(u) \/ GiveUp(u)
       \/ Tell(u) \/ Unlock(u) \/ Close(u) \/ Forget(u)
  \/ \E p \in LeaseProcs : Die(p) \/ Start(p) \/ \E q \in LeaseProcs : Fork(p, q)

LeaseSpec == LeaseInit /\ [][LeaseNext]_leaseVars

-----------------------------------------------------------------------------
(* Properties *)

LeaseTypeOK ==
  /\ at \in [LeaseUsers -> Stages]
  /\ handle \in [LeaseUsers -> OpenFiles \cup {NoFileOpen}]
  /\ registry \in [LeaseProcs -> LeaseUsers \cup {NoUser}]
  /\ desc \in [OpenFiles -> SUBSET LeaseProcs]
  /\ kernel \in OpenFiles \cup {NoFileOpen}
  /\ running \in SUBSET LeaseProcs
  /\ note \in [by : LeaseUsers \cup {NoUser}, held : BOOLEAN]
  /\ stateError \in SUBSET LeaseUsers
  /\ leaked \in SUBSET OpenFiles

\* Two objects, of one process or of two, never both have the GPU, through
\* contention, failed unlocks, forks and deaths (gpu_lease.py:76 "One
\* non-reentrant, process- and kernel-scoped GPU lease").
LeaseExclusive == \A u, v \in HasLease : u = v

\* What makes it so: an object beyond "idle" is the one in its process's
\* registry and that process runs, an object past the opening has a
\* descriptor of a file no other object has, and one with the lease has the
\* kernel's lock on it.  It also says that no path leaves a reservation
\* behind.
LeaseInv ==
  /\ \A u \in LeaseUsers : at[u] # "idle" => Live(u) /\ registry[LeaseHome[u]] = u
  /\ \A p \in LeaseProcs : registry[p] # NoUser => LeaseHome[registry[p]] = p /\ at[registry[p]] # "idle"
  /\ \A u \in LeaseUsers : at[u] \in {"idle", "reserved"} <=> handle[u] = NoFileOpen
  /\ \A u \in LeaseUsers : at[u] \notin {"idle", "reserved", "closed"} => LeaseHome[u] \in desc[handle[u]]
  /\ \A u, v \in LeaseUsers : handle[u] # NoFileOpen /\ handle[u] = handle[v] => u = v
  /\ \A u \in HasLease : kernel = handle[u]
  /\ kernel # NoFileOpen => desc[kernel] # {}

\* A lock without an object that has or releases it is one that a fork
\* copied between the opening and the registration: no other path keeps a
\* dead owner's lock alive (gpu_lease.py:455 "so a grandchild cannot keep a
\* dead owner alive").
OrphanOnlyByFork ==
  kernel # NoFileOpen =>
    kernel \in leaked \/ \E u \in HasLease \cup {v \in LeaseUsers : at[v] = "unlocked"} : handle[u] = kernel

\* An open file that an object has and another process, too, is a leaked one.
CopiesAreLeaked ==
  \A u \in LeaseUsers : handle[u] # NoFileOpen =>
    desc[handle[u]] \subseteq {LeaseHome[u]} \/ handle[u] \in leaked

Owner == IF HasLease = {} THEN NoUser ELSE CHOOSE u \in LeaseUsers : u \in HasLease
Lease == INSTANCE LeasePromise WITH owner <- Owner

\* The lease implements the abstract one.
LeaseKept == Lease!Promise
=============================================================================
