----------------------- MODULE ControlCommandsProofs -----------------------
(***************************************************************************)
(* Theorems about ControlCommands, for any keys, bodies, files, deaths and *)
(* failures.                                                               *)
(***************************************************************************)
EXTENDS ControlCommands, TLAPS

LEMMA RowTypes ==
  ASSUME CommandTypeOK, NEW k \in Keys, StatusOf(k) # "none"
  PROVE  command[k] \in Rows
  BY DEF CommandTypeOK, StatusOf, NoCommand

\* What Set writes into a row.
LEMMA SetStatus ==
  ASSUME CommandTypeOK, NEW k \in Keys, StatusOf(k) # "none",
         NEW s \in {"queued", "running"} \cup Final, Set(k, s)
  PROVE  /\ command' \in [Keys -> {NoCommand} \cup Rows]
         /\ StatusOf(k)' = s
         /\ \A j \in Keys : j # k => command'[j] = command[j]
<1>1. command[k] \in Rows
  BY RowTypes
<1>2. command' = [command EXCEPT ![k] = [command[k] EXCEPT !.status = s, !.stale = FALSE]]
  BY DEF Set
<1>3. /\ [command[k] EXCEPT !.status = s, !.stale = FALSE] \in Rows
      /\ [command[k] EXCEPT !.status = s, !.stale = FALSE].status = s
  BY <1>1 DEF Rows, Final
<1> QED
  BY <1>2, <1>3 DEF CommandTypeOK, StatusOf

\* The reconciliation fails running rows and touches no other.
LEMMA ReconciledStatus ==
  ASSUME CommandTypeOK
  PROVE  /\ Reconciled \in [Keys -> {NoCommand} \cup Rows]
         /\ \A k \in Keys : \/ Reconciled[k] = command[k]
                            \/ StatusOf(k) = "running" /\ Reconciled[k].status = "failed"
<1>1. ASSUME NEW k \in Keys
      PROVE  /\ Reconciled[k] \in {NoCommand} \cup Rows
             /\ \/ Reconciled[k] = command[k]
                \/ StatusOf(k) = "running" /\ Reconciled[k].status = "failed"
  <2>1. CASE StatusOf(k) = "running" /\ command[k].stale
    <3>1. command[k] \in Rows
      BY <2>1, RowTypes
    <3>2. Reconciled[k] = [command[k] EXCEPT !.status = "failed", !.stale = FALSE]
      BY <2>1 DEF Reconciled
    <3> QED
      BY <2>1, <3>1, <3>2 DEF Rows, Final
  <2>2. CASE ~(StatusOf(k) = "running" /\ command[k].stale)
    <3>1. Reconciled[k] = command[k]
      BY <2>2 DEF Reconciled
    <3> QED
      BY <3>1 DEF CommandTypeOK
  <2> QED
    BY <2>1, <2>2
<1>2. Reconciled = [k \in Keys |-> Reconciled[k]]
  BY DEF Reconciled
<1> QED
  BY <1>1, <1>2

LEMMA InsertedStatus ==
  ASSUME CommandTypeOK, NEW f \in Files
  PROVE  /\ Inserted(f) \in [Keys -> {NoCommand} \cup Rows]
         /\ \A k \in Keys : \/ Inserted(f)[k] = command[k]
                            \/ StatusOf(k) = "none" /\ Inserted(f)[k].status = "queued"
<1>1. f.key \in Keys /\ f.body \in Bodies
  BY CommandAssumption
<1>2. [status |-> "queued", body |-> f.body, stale |-> FALSE] \in Rows
  BY <1>1 DEF Rows, Final
<1> QED
  BY <1>1, <1>2 DEF Inserted, CommandTypeOK

-----------------------------------------------------------------------------
(* types and invariant, action by action *)

CommandSafe == CommandTypeOK /\ CommandInv

LEMMA SurroundingsStep ==
  ASSUME CommandSafe,
         SwitchHold \/ WorkerDies \/ WorkerStarts \/ (\E f \in Files : Drop(f)) \/ \E k \in Keys : GetStale(k)
  PROVE  CommandSafe'
<1> USE DEF CommandSafe
<1>1. ASSUME NEW f \in Files, Drop(f) PROVE CommandSafe'
  BY <1>1 DEF Drop, CommandTypeOK, CommandInv, CommandOnce, StatusOf
<1>2. CASE SwitchHold
  BY <1>2 DEF SwitchHold, CommandTypeOK, CommandInv, CommandOnce, StatusOf
<1>3. ASSUME NEW k \in Keys, GetStale(k) PROVE CommandSafe'
  <2>1. command[k] \in Rows
    BY <1>3, RowTypes DEF GetStale
  <2>2. command' = [command EXCEPT ![k] = [command[k] EXCEPT !.stale = TRUE]]
    BY <1>3 DEF GetStale
  <2>3. [command[k] EXCEPT !.stale = TRUE] \in Rows /\ [command[k] EXCEPT !.stale = TRUE].status = command[k].status
    BY <2>1 DEF Rows
  <2>4. command' \in [Keys -> {NoCommand} \cup Rows] /\ \A j \in Keys : StatusOf(j)' = StatusOf(j)
    BY <2>2, <2>3 DEF CommandTypeOK, StatusOf
  <2>5. UNCHANGED <<inbox, rejected, sent, step, current, holdSeen, hold, started, crashes, faults>>
    BY <1>3 DEF GetStale
  <2>6. current \in [key : Keys] => current.key \in Keys
    OBVIOUS
  <2> QED
    BY <2>4, <2>5, <2>6 DEF CommandTypeOK, CommandInv, CommandOnce
<1>4. CASE WorkerDies
  <2>1. crashes + 1 \in 0..MaxCrashes
    BY <1>4, CommandAssumption DEF WorkerDies, CommandTypeOK
  <2> QED
    BY <1>4, <2>1 DEF WorkerDies, Step, Steps, CommandTypeOK, CommandInv, CommandOnce, StatusOf
<1>5. CASE WorkerStarts
  BY <1>5 DEF WorkerStarts, Step, Steps, CommandTypeOK, CommandInv, CommandOnce, StatusOf
<1> QED
  BY <1>1, <1>2, <1>3, <1>4, <1>5

LEMMA FaultTypes == ASSUME CommandTypeOK, Fault PROVE faults' \in 0..MaxFaults
  BY CommandAssumption DEF CommandTypeOK, Fault

LEMMA InboxStep ==
  ASSUME CommandSafe,
         Reconcile \/ Remove \/ ReadHold \/ Idle \/ \E f \in inbox : TakeIn(f) \/ Reject(f)
  PROVE  CommandSafe'
<1> USE DEF CommandSafe
<1>1. CASE Reconcile
  <2>1. command' \in [Keys -> {NoCommand} \cup Rows] /\ faults' \in 0..MaxFaults
    BY <1>1, ReconciledStatus, FaultTypes DEF Reconcile, CommandTypeOK
  <2>2. \A k \in Keys : \/ StatusOf(k)' = StatusOf(k)
                        \/ StatusOf(k) = "running" /\ StatusOf(k)' = "failed"
    BY <1>1, ReconciledStatus DEF Reconcile, StatusOf
  <2>3. step' = "inbox" /\ UNCHANGED <<inbox, rejected, sent, current, holdSeen, hold, started, crashes>>
    BY <1>1 DEF Reconcile, Step
  <2> QED
    BY <2>1, <2>2, <2>3 DEF CommandTypeOK, CommandInv, CommandOnce, Steps
<1>2. CASE Remove
  <2>1. current \in Files
    BY <1>2 DEF Remove, CommandInv
  <2>2. faults' \in 0..MaxFaults
    BY <1>2, FaultTypes DEF Remove, CommandTypeOK
  <2> QED
    BY <1>2, <2>1, <2>2 DEF Remove, Step, CommandTypeOK, CommandInv, CommandOnce, Steps, StatusOf
<1>3. CASE ReadHold
  BY <1>3 DEF ReadHold, Step, CommandTypeOK, CommandInv, CommandOnce, Steps, StatusOf
<1>4. CASE Idle
  <2>1. faults' \in 0..MaxFaults
    BY <1>4, FaultTypes DEF Idle, CommandTypeOK
  <2> QED
    BY <1>4, <2>1 DEF Idle, Step, CommandTypeOK, CommandInv, CommandOnce, Steps, StatusOf
<1>5. ASSUME NEW f \in inbox, TakeIn(f) PROVE CommandSafe'
  <2>1. f \in Files
    BY DEF CommandTypeOK
  <2>2. command' \in [Keys -> {NoCommand} \cup Rows]
    BY <1>5, <2>1, InsertedStatus DEF TakeIn
  <2>3. \A k \in Keys : \/ StatusOf(k)' = StatusOf(k)
                        \/ StatusOf(k) = "none" /\ StatusOf(k)' = "queued"
    BY <1>5, <2>1, InsertedStatus DEF TakeIn, StatusOf
  <2>4. step' = "unlink" /\ current' = f
        /\ UNCHANGED <<inbox, rejected, sent, holdSeen, hold, started, crashes, faults>>
    BY <1>5 DEF TakeIn, Step
  <2> QED
    BY <2>1, <2>2, <2>3, <2>4 DEF CommandTypeOK, CommandInv, CommandOnce, Steps
<1>6. ASSUME NEW f \in inbox, Reject(f) PROVE CommandSafe'
  <2>1. f \in Files
    BY DEF CommandTypeOK
  <2>2. faults' \in 0..MaxFaults
    BY <1>6, FaultTypes DEF Reject, CommandTypeOK
  <2>3. inbox' \subseteq Files /\ rejected' \subseteq Files
    BY <1>6, <2>1 DEF Reject, CommandTypeOK
  <2>4. UNCHANGED <<sent, command, step, current, holdSeen, hold, started, crashes>>
    BY <1>6 DEF Reject
  <2> QED
    BY <2>2, <2>3, <2>4 DEF CommandTypeOK, CommandInv, CommandOnce, StatusOf
<1> QED
  BY <1>1, <1>2, <1>3, <1>4, <1>5, <1>6

LEMMA ExecutionStep ==
  ASSUME CommandSafe, Execute \/ Answer \/ AnswerError \/ \E k \in Keys : Claim(k)
  PROVE  CommandSafe'
<1> USE DEF CommandSafe
<1>1. ASSUME NEW k \in Keys, Claim(k) PROVE CommandSafe'
  <2>1. StatusOf(k) = "queued" /\ Set(k, "running")
    BY <1>1 DEF Claim, Claimable, Queued, StatusOf
  <2>2. /\ command' \in [Keys -> {NoCommand} \cup Rows] /\ StatusOf(k)' = "running"
        /\ \A j \in Keys : j # k => StatusOf(j)' = StatusOf(j)
    BY <2>1, SetStatus DEF StatusOf
  <2>3. started[k] = 0
    BY <2>1 DEF CommandInv
  <2>4. /\ step' = "execute" /\ current' = [key |-> k]
        /\ UNCHANGED <<inbox, rejected, sent, holdSeen, hold, started, crashes, faults>>
    BY <1>1 DEF Claim, Step
  <2>5. current' \in [key : Keys] /\ current'.key = k
    BY <2>4
  <2> QED
    BY <2>2, <2>3, <2>4, <2>5 DEF CommandTypeOK, CommandInv, CommandOnce, Steps
<1>2. CASE Execute
  <2>1. /\ current \in [key : Keys] /\ current.key \in Keys
        /\ StatusOf(current.key) = "running" /\ started[current.key] = 0
    BY <1>2 DEF Execute, CommandInv
  <2>2. /\ started' = [started EXCEPT ![current.key] = started[current.key] + 1]
        /\ step' \in {"answer", "answerError"}
        /\ UNCHANGED <<inbox, rejected, sent, command, current, holdSeen, hold, crashes, faults>>
    BY <1>2 DEF Execute
  <2>3. started' \in [Keys -> Nat] /\ started'[current.key] = 1
        /\ \A k \in Keys : k # current.key => started'[k] = started[k]
    BY <2>1, <2>2 DEF CommandTypeOK
  <2>4. UNCHANGED <<current>> /\ \A k \in Keys : StatusOf(k)' = StatusOf(k)
    BY <2>2 DEF StatusOf
  <2> QED
    BY <2>1, <2>2, <2>3, <2>4 DEF CommandTypeOK, CommandInv, CommandOnce, Steps
<1>3. ASSUME NEW s \in {"completed", "failed"}, step \in {"answer", "answerError"},
             Answered(s), current' = NoKey, step' = "inbox", faults' \in 0..MaxFaults,
             UNCHANGED <<inbox, rejected, sent, holdSeen, hold, started, crashes>>
      PROVE  CommandSafe'
  <2>1. current.key \in Keys /\ StatusOf(current.key) = "running" /\ started[current.key] = 1
    BY <1>3 DEF CommandInv
  <2>2. Set(current.key, s)
    BY <1>3, <2>1 DEF Answered
  <2>3. /\ command' \in [Keys -> {NoCommand} \cup Rows]
        /\ command'[current.key].status \in {"completed", "failed"}
        /\ \A j \in Keys : j # current.key => command'[j] = command[j]
    <3>1. PICK c \in Keys : c = current.key
      BY <2>1
    <3>2. StatusOf(c) = "running" /\ Set(c, s)
      BY <2>1, <2>2, <3>1
    <3>3. /\ command' \in [Keys -> {NoCommand} \cup Rows] /\ StatusOf(c)' = s
          /\ \A j \in Keys : j # c => command'[j] = command[j]
      BY <1>3, <3>2, SetStatus DEF Final
    <3> QED
      BY <1>3, <3>1, <3>3 DEF StatusOf
  <2> QED
    BY <1>3, <2>1, <2>3 DEF CommandTypeOK, CommandInv, CommandOnce, Steps, StatusOf
<1>4. CASE Answer
  <2>1. CASE Answered("completed") /\ current' = NoKey /\ Step("inbox") /\ UNCHANGED faults
    <3>1. faults' \in 0..MaxFaults
      BY <2>1 DEF CommandTypeOK
    <3> QED
      BY <1>3, <1>4, <2>1, <3>1 DEF Answer, Step
  <2>2. CASE Fault /\ Step("answerError") /\ UNCHANGED <<command, current>>
    <3>1. faults' \in 0..MaxFaults
      BY <2>2, FaultTypes
    <3> QED
      BY <1>4, <2>2, <3>1 DEF Answer, Step, CommandTypeOK, CommandInv, CommandOnce, Steps, StatusOf
  <2> QED
    BY <1>4, <2>1, <2>2 DEF Answer
<1>5. CASE AnswerError
  <2>1. CASE Answered("failed") /\ UNCHANGED faults
    <3>1. faults' \in 0..MaxFaults
      BY <2>1 DEF CommandTypeOK
    <3> QED
      BY <1>3, <1>5, <2>1, <3>1 DEF AnswerError, Step
  <2>2. CASE Fault /\ UNCHANGED command
    <3>1. faults' \in 0..MaxFaults
      BY <2>2, FaultTypes
    <3>2. step' = "inbox" /\ current' = NoKey
          /\ UNCHANGED <<inbox, rejected, sent, command, holdSeen, hold, started, crashes>>
      BY <1>5, <2>2 DEF AnswerError, Step
    <3> QED
      BY <3>1, <3>2 DEF CommandTypeOK, CommandInv, CommandOnce, Steps, StatusOf
  <2> QED
    BY <1>5, <2>1, <2>2 DEF AnswerError
<1> QED
  BY <1>1, <1>2, <1>4, <1>5

LEMMA StepKeepsCommands == CommandSafe /\ [CommandNext]_commandVars => CommandSafe'
<1> SUFFICES ASSUME CommandSafe, [CommandNext]_commandVars PROVE CommandSafe'
  OBVIOUS
<1>1. CASE CommandNext
  BY <1>1, SurroundingsStep, InboxStep, ExecutionStep DEF CommandNext, Thread
<1>2. CASE UNCHANGED commandVars
  BY <1>2 DEF commandVars, CommandSafe, CommandTypeOK, CommandInv, CommandOnce, StatusOf
<1> QED
  BY <1>1, <1>2

LEMMA CommandsBegin == CommandInit => CommandSafe
<1> SUFFICES ASSUME CommandInit PROVE CommandSafe
  OBVIOUS
<1>1. \A k \in Keys : StatusOf(k) = "none"
  BY DEF CommandInit, StatusOf, NoCommand
<1>2. 0 \in 0..MaxCrashes /\ 0 \in 0..MaxFaults
  BY CommandAssumption
<1>3. CommandTypeOK
  BY <1>2 DEF CommandInit, CommandTypeOK, Steps
<1>4. step = "boot" /\ \A k \in Keys : started[k] = 0
  BY DEF CommandInit
<1> QED
  BY <1>1, <1>3, <1>4 DEF CommandSafe, CommandInv, CommandOnce

\* The table, the files and the thread keep their types.
THEOREM TypeCorrect == CommandSpec => []CommandTypeOK
<1>1. CommandSafe => CommandTypeOK
  BY DEF CommandSafe
<1> QED
  BY <1>1, CommandsBegin, StepKeepsCommands, PTL DEF CommandSpec

\* Why no command runs twice: what is queued was not started, and the thread
\* starts only the running command it claimed itself, which nobody else
\* touches while it works.
THEOREM CommandsCorrect == CommandSpec => []CommandInv
<1>1. CommandSafe => CommandInv
  BY DEF CommandSafe
<1> QED
  BY <1>1, CommandsBegin, StepKeepsCommands, PTL DEF CommandSpec

\* A key's command is started at most once, whatever is dropped again, fails
\* or dies.
THEOREM CommandsRunOnce == CommandSpec => []CommandOnce
<1>1. CommandInv => CommandOnce
  BY DEF CommandInv
<1> QED
  BY <1>1, CommandsCorrect, PTL
=============================================================================
