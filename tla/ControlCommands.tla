--------------------------- MODULE ControlCommands ---------------------------
(***************************************************************************)
(* The operator's commands to the Worker (control_state.py, main.py):      *)
(* files dropped into an inbox, a durable table with an idempotency key,   *)
(* and one thread that takes in, claims, executes and answers, beside      *)
(* crashes, a database that is busy for a moment, and the deployment's     *)
(* hold.  What a command does is its own module's matter; here it counts   *)
(* how often it was started.                                               *)
(***************************************************************************)
EXTENDS Naturals, FiniteSets

CONSTANTS
  Keys,        \* idempotency keys
  Bodies,      \* action, target and parameters of a command
  Files,       \* the command files: a key and a body each
  SafeKeys,    \* the keys whose action is allowed under a hold
  MaxCrashes,  \* bound: deaths of the Worker
  MaxFaults    \* bound: operations on a database or a file that fail

ASSUME CommandAssumption ==
  /\ SafeKeys \subseteq Keys
  /\ Files \subseteq [key : Keys, body : Bodies]
  /\ MaxCrashes \in Nat /\ MaxFaults \in Nat

NoCommand == [status |-> "none"]
NoKey     == [key |-> "none"]

VARIABLES
  inbox,     \* the command files
  rejected,  \* those moved aside
  sent,      \* history: every file that was dropped
  command,   \* the table: status, body, worker's claim old enough to be stale
  step,      \* where the thread is
  current,   \* the file or command it handles
  holdSeen,  \* the hold as it read it before the claim
  hold,      \* the deployment's hold
  started,   \* history: how often each key's command was started
  crashes, faults

commandVars == <<inbox, rejected, sent, command, step, current, holdSeen, hold,
                 started, crashes, faults>>

Final        == {"completed", "failed"}
Steps        == {"down", "boot", "inbox", "unlink", "hold", "claim", "execute", "answer", "answerError"}
Queued       == {k \in Keys : command[k].status = "queued"}
StatusOf(k)  == command[k].status
Set(k, s)    == command' = [command EXCEPT ![k].status = s, ![k].stale = FALSE]
Step(s)      == step' = s
Fault        == faults < MaxFaults /\ faults' = faults + 1

CommandInit ==
  /\ inbox = {} /\ rejected = {} /\ sent = {}
  /\ command = [k \in Keys |-> NoCommand]
  /\ step = "boot" /\ current = NoKey
  /\ holdSeen = FALSE /\ hold = FALSE
  /\ started = [k \in Keys |-> 0]
  /\ crashes = 0 /\ faults = 0

-----------------------------------------------------------------------------
(* the surroundings: clients, the deployment, time *)

\* A client drops a file, perhaps the same one again, perhaps another one
\* under a key that was used.  It is named for its key.
Drop(f) ==
  /\ \A g \in inbox : g.key # f.key
  /\ f \in sent => f \in rejected \/ StatusOf(f.key) \in Final
  /\ inbox' = inbox \cup {f}
  /\ sent' = sent \cup {f}
  /\ UNCHANGED <<rejected, command, step, current, holdSeen, hold, started, crashes, faults>>

SwitchHold ==
  /\ hold' = ~hold
  /\ UNCHANGED <<inbox, rejected, sent, command, step, current, holdSeen, started, crashes, faults>>

GetStale(k) ==
  /\ StatusOf(k) = "running" /\ ~command[k].stale
  /\ command' = [command EXCEPT ![k].stale = TRUE]
  /\ UNCHANGED <<inbox, rejected, sent, step, current, holdSeen, hold, started, crashes, faults>>

-----------------------------------------------------------------------------
(* the thread *)

\* They are queued again.
ReconciledQueued == [k \in Keys |->
  IF StatusOf(k) = "running" /\ command[k].stale
    THEN [command[k] EXCEPT !.status = "queued", !.stale = FALSE] ELSE command[k]]

\* Commands of a Worker that disappeared are failed, never run again.
Reconciled == [k \in Keys |->
  IF StatusOf(k) = "running" /\ command[k].stale
    THEN [command[k] EXCEPT !.status = "failed", !.stale = FALSE] ELSE command[k]]

\* Only when the thread starts.
ReconcileAtBoot ==
  /\ step = "boot"
  /\ Step("inbox")
  /\ \/ command' = Reconciled /\ UNCHANGED faults
     \/ UNCHANGED command /\ Fault
  /\ UNCHANGED <<inbox, rejected, sent, current, holdSeen, hold, started, crashes>>

\* Once when the thread starts, later whenever the interval is over, before
\* the inbox is read; an error is logged.
Reconcile ==
  /\ step \in {"boot", "inbox"}
  /\ Step("inbox")
  /\ \/ command' = Reconciled /\ UNCHANGED faults
     \/ UNCHANGED command /\ Fault
  /\ UNCHANGED <<inbox, rejected, sent, current, holdSeen, hold, started, crashes>>

Accepts(f) == StatusOf(f.key) # "none" => command[f.key].body = f.body

\* A used key with the same payload is not an error and changes nothing.
Inserted(f) ==
  IF StatusOf(f.key) = "none"
    THEN [command EXCEPT ![f.key] = [status |-> "queued", body |-> f.body, stale |-> FALSE]]
    ELSE command

TakeIn(f) ==
  /\ step = "inbox" /\ f \in inbox
  /\ Accepts(f)
  /\ command' = Inserted(f)
  /\ current' = f
  /\ Step("unlink")
  /\ UNCHANGED <<inbox, rejected, sent, holdSeen, hold, started, crashes, faults>>

\* Any error, also of a database that is busy for a moment, moves the file
\* aside; that may fail too, and then it is read again.
Reject(f) ==
  /\ step = "inbox" /\ f \in inbox
  /\ IF Accepts(f) THEN Fault ELSE UNCHANGED faults
  /\ \/ inbox' = inbox \ {f} /\ rejected' = rejected \cup {f}
     \/ UNCHANGED <<inbox, rejected>> /\ Accepts(f)
  /\ UNCHANGED <<sent, command, step, current, holdSeen, hold, started, crashes>>

Remove ==
  /\ step = "unlink"
  /\ inbox' = inbox \ {current}
  /\ \/ UNCHANGED <<rejected, faults>>
     \/ Fault /\ rejected' = rejected \cup {current}
  /\ current' = NoKey
  /\ Step("inbox")
  /\ UNCHANGED <<sent, command, holdSeen, hold, started, crashes>>

\* The files listed are done; one that came since then waits.
ReadHold ==
  /\ step = "inbox"
  /\ holdSeen' = hold
  /\ Step("claim")
  /\ UNCHANGED <<inbox, rejected, sent, command, current, hold, started, crashes, faults>>

Claimable(k) == k \in Queued /\ (holdSeen => k \in SafeKeys)

\* The claim commits before anything is done; the oldest one is any one.
Claim(k) ==
  /\ step = "claim" /\ Claimable(k)
  /\ Set(k, "running")
  /\ current' = [key |-> k]
  /\ Step("execute")
  /\ UNCHANGED <<inbox, rejected, sent, holdSeen, hold, started, crashes, faults>>

\* Nothing to claim: the campaigns and autopilots have their turn, then a
\* second's pause.  An error while claiming ends the same way.
Idle ==
  /\ step = "claim"
  /\ \/ (\A k \in Keys : ~Claimable(k)) /\ UNCHANGED faults
     \/ Fault
  /\ Step("inbox")
  /\ UNCHANGED <<inbox, rejected, sent, command, current, holdSeen, hold, started, crashes>>

\* _execute_control_command: it has its effect, or part of it and raises.
Execute ==
  /\ step = "execute"
  /\ started' = [started EXCEPT ![current.key] = @ + 1]
  /\ step' \in {"answer", "answerError"}
  /\ UNCHANGED <<inbox, rejected, sent, command, current, holdSeen, hold, crashes, faults>>

Answered(status) ==
  IF StatusOf(current.key) = "running" THEN Set(current.key, status) ELSE UNCHANGED command

\* An answer that cannot be written is written as an error.
Answer ==
  /\ step = "answer"
  /\ \/ Answered("completed") /\ current' = NoKey /\ Step("inbox") /\ UNCHANGED faults
     \/ Fault /\ Step("answerError") /\ UNCHANGED <<command, current>>
  /\ UNCHANGED <<inbox, rejected, sent, holdSeen, hold, started, crashes>>

\* If that fails as well the command stays running until it is stale.
AnswerError ==
  /\ step = "answerError"
  /\ \/ Answered("failed") /\ UNCHANGED faults
     \/ Fault /\ UNCHANGED command
  /\ current' = NoKey /\ Step("inbox")
  /\ UNCHANGED <<inbox, rejected, sent, holdSeen, hold, started, crashes>>

\* The Worker dies, or is told to stop and takes its daemon thread with it.
WorkerDies ==
  /\ step # "down" /\ crashes < MaxCrashes
  /\ crashes' = crashes + 1
  /\ Step("down")
  /\ current' = NoKey
  /\ UNCHANGED <<inbox, rejected, sent, command, holdSeen, hold, started, faults>>

WorkerStarts ==
  /\ step = "down"
  /\ Step("boot")
  /\ UNCHANGED <<inbox, rejected, sent, command, current, holdSeen, hold, started, crashes, faults>>

Thread ==
  \/ Reconcile \/ Remove \/ ReadHold \/ Idle \/ Execute \/ Answer \/ AnswerError
  \/ \E f \in inbox : TakeIn(f) \/ Reject(f)
  \/ \E k \in Keys : Claim(k)

CommandNext ==
  \/ Thread \/ SwitchHold \/ WorkerDies \/ WorkerStarts
  \/ \E f \in Files : Drop(f)
  \/ \E k \in Keys : GetStale(k)

CommandSpec == CommandInit /\ [][CommandNext]_commandVars

\* The loop comes round, a claim gets old and the container is restarted.
\* Clients, the hold and failures are under no obligation.
CommandFairness ==
  /\ SF_commandVars(Reconcile) /\ WF_commandVars(Remove) /\ SF_commandVars(ReadHold)
  /\ WF_commandVars(Idle \/ \E k \in Keys : Claim(k))
  /\ WF_commandVars(Execute) /\ WF_commandVars(Answer) /\ WF_commandVars(AnswerError)
  /\ \A k \in Keys : WF_commandVars(GetStale(k))
  /\ WF_commandVars(WorkerStarts)

CommandFairSpec == CommandSpec /\ CommandFairness

-----------------------------------------------------------------------------
(* Properties *)

Rows == [status : {"queued", "running"} \cup Final, body : Bodies, stale : BOOLEAN]

CommandTypeOK ==
  /\ inbox \in SUBSET Files /\ rejected \in SUBSET Files /\ sent \in SUBSET Files
  /\ command \in [Keys -> {NoCommand} \cup Rows]
  /\ step \in Steps
  /\ current \in Files \cup [key : Keys] \cup {NoKey}
  /\ holdSeen \in BOOLEAN /\ hold \in BOOLEAN
  /\ started \in [Keys -> Nat]
  /\ crashes \in 0..MaxCrashes /\ faults \in 0..MaxFaults

\* However often a file is dropped, a database is busy or the Worker dies,
\* a key's command is started at most once (control_state.py:719 "Replaying
\* an arbitrary command is not exactly-once safe").
CommandOnce == \A k \in Keys : started[k] <= 1

\* Why: a queued command was not started, the thread starts only the running
\* one it claimed itself, and a completed one was started.
CommandInv ==
  /\ \A k \in Keys : StatusOf(k) \in {"none", "queued"} => started[k] = 0
  /\ \A k \in Keys : StatusOf(k) = "completed" => started[k] = 1
  /\ step = "unlink" => current \in Files
  /\ step \in {"execute", "answer", "answerError"} =>
       /\ current \in [key : Keys]
       /\ StatusOf(current.key) = "running"
       /\ started[current.key] = IF step = "execute" THEN 0 ELSE 1
  /\ CommandOnce

\* Every command in the table is answered in the end, also one whose Worker
\* died or whose answer could not be written, unless a hold stays
\* (main.py:1627 "used to remain running forever").
CommandsAnswered ==
  <>[]~hold => \A k \in Keys : [](StatusOf(k) \in {"queued", "running"} => <>(StatusOf(k) \in Final))
=============================================================================
