--------------------------- MODULE AiQueueProofs ---------------------------
(***************************************************************************)
(* Theorems about AiQueue, for any set of videos and policies and any      *)
(* values of the bounds.                                                   *)
(***************************************************************************)
EXTENDS AiQueue, TLAPS

-----------------------------------------------------------------------------
(* Types of the operators the actions are built from. *)

LEMMA IdTypes ==
  ASSUME TypeOK, NEW v \in Videos
  PROVE  /\ Cur(v) \in Ids /\ AnyId \in Ids
         /\ NoLink \in [id : Ids, k : 0..MaxTries]
         /\ NoRow \in Row /\ NoJob \in Job /\ NoRepair \in Repair
<1>1. Cur(v) \in Ids
  BY DEF TypeOK, TypeFiles, Cur, Ids
<1>2. AnyId \in Ids
  BY <1>1 DEF AnyId
<1>3. 0 \in 0..MaxTries /\ 0 \in 0..MaxMedia /\ 0 \in 0..MaxAttempts
  BY ConstantsAssumption
<1>4. NoLink \in [id : Ids, k : 0..MaxTries]
  BY <1>2, <1>3 DEF NoLink
<1> QED
  BY <1>1, <1>2, <1>3, <1>4
  DEF NoRow, NoJob, NoRepair, Row, Job, Repair, QueueStatus, Outcomes

LEMMA LedgerTypes ==
  ASSUME TypeOK, NEW v \in Videos
  PROVE  /\ \A i \in Ids, late \in SUBSET Ids : Ensured(v, i, late) \in [Ids -> OblState]
         /\ \A keep, late \in SUBSET Ids :
              Superseded(obl[v], v, keep, late) \in [Ids -> OblState]
         /\ Unattempted(v) \subseteq Ids
         /\ Deferred(v) \in [Ids -> [Tries -> TryStatus]]
<1>1. obl[v] \in [Ids -> OblState] /\ att[v] \in [Ids -> [Tries -> TryStatus]]
  BY DEF TypeOK, TypeLedger
<1>2. \A i \in Ids : Opened(v, i) \in [Ids -> OblState]
  BY <1>1 DEF Opened, OblState
<1>3. \A o \in [Ids -> OblState], keep, late \in SUBSET Ids :
        Superseded(o, v, keep, late) \in [Ids -> OblState]
  BY DEF Superseded, OblState
<1>4. Deferred(v) \in [Ids -> [Tries -> TryStatus]]
  BY <1>1 DEF Deferred, TryStatus
<1> QED
  BY <1>1, <1>2, <1>3, <1>4 DEF Ensured, Unattempted

LEMMA EnsureTypes ==
  ASSUME TypeOK, NEW v \in Videos, NEW late \in SUBSET Unattempted(v)
  PROVE  /\ Ensured(v, Cur(v), late) \in [Ids -> OblState]
         /\ \A keep \in {{}, Ids} : Superseded(obl[v], v, keep, late) \in [Ids -> OblState]
  BY IdTypes, LedgerTypes

LEMMA RowTypes ==
  ASSUME TypeOK, NEW v \in Videos
  PROVE  /\ queue[v] \in Row /\ DoneRow(v) \in Row
         /\ Upserted(queue[v], disk[v]) \in Row
         /\ Requeued(queue[v]) \in Row /\ Paused(queue[v]) \in Row
         /\ RecoveredRow(v) \in Row /\ ManualRow(queue[v]) \in Row
         /\ Forced(v) \in Row /\ RemediatedRow(queue[v]) \in Row
<1>1. queue[v] \in Row /\ disk[v] \in 0..MaxMedia /\ NoRow \in Row
  BY IdTypes, ConstantsAssumption DEF TypeOK, TypeQueue, TypeFiles, Media
<1>2. NoLink \in [id : Ids, k : 0..MaxTries] /\ 0 \in 0..MaxAttempts
  BY IdTypes, ConstantsAssumption
<1>3. \A r \in Row : /\ Requeued(r) \in Row /\ Paused(r) \in Row
                     /\ [r EXCEPT !.src = "other"] \in Row
                     /\ ManualRow(r) \in Row /\ RemediatedRow(r) \in Row
  BY <1>2 DEF Requeued, Paused, ManualRow, RemediatedRow, Row, QueueStatus
<1>4. DoneRow(v) \in Row
  BY <1>1 DEF DoneRow, Row, QueueStatus
<1>5. Upserted(queue[v], disk[v]) \in Row
  BY <1>1, <1>2 DEF Upserted, Row, QueueStatus
<1>6. Forced(v) \in Row
  <2>1. \A r \in Row : [r EXCEPT !.force = TRUE, !.src = "other"] \in Row
    BY DEF Row
  <2>2. \A r \in Row : [r EXCEPT !.force = TRUE, !.media = disk[v]] \in Row
    BY <1>1 DEF Row
  <2> QED
    BY <1>1, <1>3, <2>1, <2>2 DEF Forced
<1> QED
  BY <1>1, <1>3, <1>4, <1>5, <1>6 DEF RecoveredRow

LEMMA FailedTypes ==
  ASSUME TypeOK, NEW v \in Videos
  PROVE  /\ job[v] \in Job /\ repair[v] \in Repair
         /\ FailedRow(queue[v], job[v]) \in Row
         /\ Verdict(job[v]) \in TryStatus
<1>1. job[v] \in Job /\ repair[v] \in Repair /\ queue[v] \in Row
  BY DEF TypeOK, TypeQueue, TypeWorker
<1>2. NoLink \in [id : Ids, k : 0..MaxTries]
  BY IdTypes
<1>3. queue[v].att \in 0..MaxAttempts
  BY <1>1 DEF Row
<1>4. (IF queue[v].att < MaxAttempts THEN queue[v].att + 1 ELSE queue[v].att) \in 0..MaxAttempts
  BY <1>3, ConstantsAssumption
<1>5. FailedRow(queue[v], job[v]) \in Row
  BY <1>1, <1>2, <1>4 DEF FailedRow, Row, Job, QueueStatus
<1>6. Verdict(job[v]) \in TryStatus
  BY DEF Verdict, TryStatus
<1> QED
  BY <1>1, <1>5, <1>6

LEMMA CommandTypes ==
  ASSUME TypeOK, NEW v \in Videos
  PROVE  \A r \in Row :
           /\ [Paused(r) EXCEPT !.st = "skipped", !.force = FALSE] \in Row
           /\ [Paused(r) EXCEPT !.src = "other"] \in Row
           /\ [Requeued(r) EXCEPT !.src = "other"] \in Row
           /\ [Requeued(r) EXCEPT !.att = 0, !.src = "other"] \in Row
<1>1. NoLink \in [id : Ids, k : 0..MaxTries] /\ 0 \in 0..MaxAttempts
  BY IdTypes, ConstantsAssumption
<1>2. \A r \in Row : /\ Paused(r) \in Row /\ Requeued(r) \in Row
                     /\ [r EXCEPT !.src = "other"] \in Row
  BY <1>1 DEF Paused, Requeued, Row, QueueStatus
<1>3. \A r \in Row : /\ [r EXCEPT !.st = "skipped", !.force = FALSE] \in Row
                     /\ [r EXCEPT !.att = 0, !.src = "other"] \in Row
  BY <1>1 DEF Row, QueueStatus
<1> QED
  BY <1>2, <1>3

LEMMA BeginTypes ==
  ASSUME TypeOK, NEW v \in Videos, NEW i \in Ids, Begin(v, i)
  PROVE  /\ tries' \in [Videos -> [Ids -> 0..MaxTries]]
         /\ att' \in [Videos -> [Ids -> [Tries -> TryStatus]]]
         /\ tries[v][i] + 1 \in 0..MaxTries
<1>1. tries[v] \in [Ids -> 0..MaxTries] /\ att[v] \in [Ids -> [Tries -> TryStatus]]
  BY DEF TypeOK, TypeLedger
<1>2. tries[v][i] + 1 \in 0..MaxTries
  BY <1>1, ConstantsAssumption DEF Begin
<1>3. tries' = [tries EXCEPT ![v] = [tries[v] EXCEPT ![i] = tries[v][i] + 1]]
  BY DEF Begin
<1>4. tries' \in [Videos -> [Ids -> 0..MaxTries]]
  BY <1>1, <1>2, <1>3 DEF TypeOK, TypeLedger
<1>5. att' \in [Videos -> [Ids -> [Tries -> TryStatus]]]
  BY <1>1 DEF Begin, TypeOK, TypeLedger, TryStatus
<1> QED
  BY <1>2, <1>4, <1>5

LEMMA ClaimTypes ==
  ASSUME TypeOK, NEW v \in Videos
  PROVE  /\ [queue[v] EXCEPT !.st = "running", !.own = FALSE, !.link = NoLink] \in Row
         /\ \A i \in Ids, k \in 0..MaxTries :
              [NoJob EXCEPT !.ph = "working", !.id = i, !.k = k] \in Job
<1>1. queue[v] \in Row /\ NoJob \in Job /\ NoLink \in [id : Ids, k : 0..MaxTries]
  BY RowTypes, IdTypes
<1>2. [queue[v] EXCEPT !.st = "running", !.own = FALSE, !.link = NoLink] \in Row
  BY <1>1 DEF Row, QueueStatus
<1>3. \A i \in Ids, k \in 0..MaxTries :
        [NoJob EXCEPT !.ph = "working", !.id = i, !.k = k] \in Job
  BY <1>1 DEF Job
<1> QED
  BY <1>2, <1>3

LEMMA AbortTypes ==
  ASSUME TypeOK, NEW v \in Videos, AbortCycle(v)
  PROVE  TypeWorker' \/ repair' # repair
  BY IdTypes DEF AbortCycle, TypeOK, TypeWorker, Job

LEMMA WrittenTypes ==
  ASSUME TypeOK, NEW v \in Videos, Written(v)
  PROVE  TypeFiles' \/ policy' # policy
<1>1. tries[v][Cur(v)] \in 0..MaxTries /\ Cur(v) \in Ids
  BY IdTypes DEF TypeOK, TypeLedger
<1>2. {Cur(v)} \X (1..tries[v][Cur(v)]) \subseteq Ids \X Tries
  BY <1>1, ConstantsAssumption DEF Tries
<1> QED
  BY <1>2 DEF Written, TypeOK, TypeFiles

LEMMA LineTypes ==
  ASSUME TypeOK, NEW v \in Videos
  PROVE  /\ [queue[v] EXCEPT !.st = "running", !.src = "line", !.own = TRUE] \in Row
         /\ [queue[v] EXCEPT !.st = "done", !.att = 0, !.err = FALSE,
                             !.force = FALSE, !.own = FALSE, !.link = NoLink] \in Row
         /\ repair[v] \in Repair /\ NoRepair \in Repair
         /\ [queue[v] EXCEPT !.st = repair[v].st, !.src = repair[v].src,
                             !.own = FALSE] \in Row
         /\ \A r \in Repair : [r EXCEPT !.ph = "published"] \in Repair
<1>1. queue[v] \in Row /\ repair[v] \in Repair
  BY DEF TypeOK, TypeQueue, TypeWorker
<1>2. NoLink \in [id : Ids, k : 0..MaxTries] /\ 0 \in 0..MaxAttempts /\ NoRepair \in Repair
  BY IdTypes, ConstantsAssumption
<1>3. [queue[v] EXCEPT !.st = "running", !.src = "line", !.own = TRUE] \in Row
  BY <1>1 DEF Row, QueueStatus
<1>4. [queue[v] EXCEPT !.st = "done", !.att = 0, !.err = FALSE,
                       !.force = FALSE, !.own = FALSE, !.link = NoLink] \in Row
  BY <1>1, <1>2 DEF Row, QueueStatus
<1>5. [queue[v] EXCEPT !.st = repair[v].st, !.src = repair[v].src, !.own = FALSE] \in Row
  BY <1>1 DEF Row, Repair, QueueStatus
<1>6. \A r \in Repair : [r EXCEPT !.ph = "published"] \in Repair
  BY DEF Repair
<1> QED
  BY <1>1, <1>2, <1>3, <1>4, <1>5, <1>6

LEMMA RestartTypes ==
  ASSUME TypeOK, NEW v \in Videos, NEW p \in Ids \X (0..MaxTries)
  PROVE  /\ RestartRow(v, p) \in Row
         /\ RestartObl(v, p) \in [Ids -> OblState]
         /\ RestartAtt(v, p) \in [Ids -> [Tries -> TryStatus]]
<1>1. obl[v] \in [Ids -> OblState] /\ att[v] \in [Ids -> [Tries -> TryStatus]]
  BY DEF TypeOK, TypeLedger
<1>2. RestartObl(v, p) \in [Ids -> OblState]
  BY <1>1 DEF RestartObl, OblState
<1>3. ReconciledAtt(v, p) \in [Ids -> [Tries -> TryStatus]]
  BY <1>1 DEF ReconciledAtt, TryStatus
<1>4. RestartAtt(v, p) \in [Ids -> [Tries -> TryStatus]]
  BY <1>3 DEF RestartAtt, TryStatus
<1>5. RestartRow(v, p) \in Row
  BY RowTypes DEF RestartRow
<1> QED
  BY <1>2, <1>4, <1>5

-----------------------------------------------------------------------------
LEMMA TypeInit == Init => TypeOK
<1> SUFFICES ASSUME Init PROVE TypeOK
  OBVIOUS
<1>0. AnyId \in Ids
  <2>1. PICK p \in Policies : TRUE
    BY ConstantsAssumption
  <2>2. <<1, p>> \in Ids
    BY <2>1, ConstantsAssumption DEF Ids, Media
  <2> QED
    BY <2>2 DEF AnyId
<1>1. NoLink \in [id : Ids, k : 0..MaxTries] /\ AnyId \in Ids
  BY <1>0, ConstantsAssumption DEF NoLink
<1>2. NoRow \in Row /\ NoJob \in Job /\ NoRepair \in Repair
  BY <1>1, ConstantsAssumption
  DEF NoRow, NoJob, NoRepair, Row, Job, Repair, QueueStatus, Outcomes
<1> QED
  BY <1>2, ConstantsAssumption
  DEF Init, TypeOK, TypeQueue, TypeLedger, TypeFiles, TypeWorker, OblState,
      TryStatus, Media

LEMMA TypeStep == TypeOK /\ [Next]_vars => TypeOK'
<1> SUFFICES ASSUME TypeOK, [Next]_vars PROVE TypeOK'
  OBVIOUS
<1>1. ASSUME NEW v \in Videos, MediaReplaced(v) PROVE TypeOK'
  BY <1>1, ConstantsAssumption
  DEF MediaReplaced, Media,
      ledger, files, worker, TypeOK, TypeQueue, TypeLedger, TypeFiles, TypeWorker
<1>2. ASSUME NEW v \in Videos, HeartbeatExpires(v) PROVE TypeOK'
  BY <1>2
  DEF HeartbeatExpires,
      ledger, files, worker, TypeOK, TypeQueue, TypeLedger, TypeFiles, TypeWorker
<1>3. ASSUME CliRequeueStale PROVE TypeOK'
  BY <1>3, RowTypes, LedgerTypes
  DEF CliRequeueStale, RequeueStale,
      ledger, files, worker, TypeOK, TypeQueue, TypeLedger, TypeFiles, TypeWorker
<1>4. ASSUME NEW v \in Videos, FsEvent(v) PROVE TypeOK'
  BY <1>4, RowTypes
  DEF FsEvent, SetRow,
      ledger, files, worker, TypeOK, TypeQueue, TypeLedger, TypeFiles, TypeWorker
<1>5. ASSUME NEW v \in Videos, ScanNeedsAi(v) PROVE TypeOK'
  BY <1>5, RowTypes, IdTypes, LedgerTypes
  DEF ScanNeedsAi, SetRow,
      ledger, files, worker, TypeOK, TypeQueue, TypeLedger, TypeFiles, TypeWorker
<1>6. ASSUME NEW v \in Videos, ScanCooldown(v) PROVE TypeOK'
  <2>1. TypeLedger'
    BY <1>6, EnsureTypes DEF ScanCooldown, TypeOK, TypeLedger
  <2> QED
    BY <1>6, <2>1 DEF ScanCooldown, files, worker, TypeOK, TypeQueue, TypeFiles, TypeWorker
<1>7. ASSUME NEW v \in Videos, ScanFinished(v) PROVE TypeOK'
  BY <1>7, RowTypes
  DEF ScanFinished, SetRow, Stage, Fresh,
      ledger, files, worker, TypeOK, TypeQueue, TypeLedger, TypeFiles, TypeWorker
<1>8. ASSUME NEW v \in Videos, ScanUnwanted(v) PROVE TypeOK'
  <2>1. PICK keep \in {{}, Ids}, late \in SUBSET Unattempted(v) :
          obl' = [obl EXCEPT ![v] = Superseded(obl[v], v, keep, late)]
    BY <1>8 DEF ScanUnwanted
  <2>3. TypeLedger'
    BY <1>8, <2>1, EnsureTypes DEF ScanUnwanted, TypeOK, TypeLedger
  <2>2. TypeQueue'
    BY <1>8, RowTypes, IdTypes DEF ScanUnwanted, SetRow, Stage, Fresh, TypeOK, TypeQueue
  <2> QED
    BY <1>8, <2>2, <2>3 DEF ScanUnwanted, files, worker, TypeOK, TypeFiles, TypeWorker
<1>9. ASSUME NEW v \in Videos, Backfill(v) PROVE TypeOK'
  BY <1>9, IdTypes, LedgerTypes
  DEF Backfill,
      ledger, files, worker, TypeOK, TypeQueue, TypeLedger, TypeFiles, TypeWorker
<1>10. ASSUME Drain PROVE TypeOK'
  BY <1>10, RowTypes, LedgerTypes
  DEF Drain, RequeueStale, NoOneWorks,
      ledger, files, worker, TypeOK, TypeQueue, TypeLedger, TypeFiles, TypeWorker
<1>11. ASSUME Select PROVE TypeOK'
  BY <1>11
  DEF Select,
      ledger, files, worker, TypeOK, TypeQueue, TypeLedger, TypeFiles, TypeWorker
<1>12. ASSUME NEW v \in Videos, Claim(v) PROVE TypeOK'
  <2>1. Cur(v) \in Ids /\ Begin(v, Cur(v))
    BY <1>12, IdTypes DEF Claim
  <2>2. TypeLedger'
    BY <1>12, <2>1, BeginTypes, EnsureTypes DEF Claim, TypeOK, TypeLedger
  <2>3. TypeQueue'
    BY <1>12, ClaimTypes, RowTypes DEF Claim, SetRow, Stage, Fresh, TypeOK, TypeQueue
  <2>4. TypeWorker'
    BY <1>12, <2>1, ClaimTypes, BeginTypes DEF Claim, TypeOK, TypeWorker
  <2> QED
    BY <1>12, <2>2, <2>3, <2>4 DEF Claim, files, TypeOK, TypeFiles
<1>13. ASSUME NEW v \in Videos, ClaimRefused(v) PROVE TypeOK'
  BY <1>13, AbortTypes
  DEF ClaimRefused,
      ledger, files, worker, TypeOK, TypeQueue, TypeLedger, TypeFiles, TypeWorker
<1>14. ASSUME EndCycle PROVE TypeOK'
  BY <1>14
  DEF EndCycle,
      ledger, files, worker, TypeOK, TypeQueue, TypeLedger, TypeFiles, TypeWorker
<1>15. ASSUME NEW v \in Videos, ChildBeats(v) PROVE TypeOK'
  BY <1>15
  DEF ChildBeats, Stage, Fresh,
      ledger, files, worker, TypeOK, TypeQueue, TypeLedger, TypeFiles, TypeWorker
<1>16. ASSUME NEW v \in Videos, ChildPublishes(v) PROVE TypeOK'
  BY <1>16, WrittenTypes
  DEF ChildPublishes,
      ledger, files, worker, TypeOK, TypeQueue, TypeLedger, TypeFiles, TypeWorker
<1>17. ASSUME NEW v \in Videos, ChildCompletes(v) PROVE TypeOK'
  BY <1>17
  DEF ChildCompletes, Stage, Fresh,
      ledger, files, worker, TypeOK, TypeQueue, TypeLedger, TypeFiles, TypeWorker
<1>18. ASSUME NEW v \in Videos, Decide(v) PROVE TypeOK'
  <2>1. PICK out \in Outcomes, full \in BOOLEAN :
          job' = [job EXCEPT ![v].ph = "decided", ![v].out = out, ![v].full = full]
    BY <1>18 DEF Decide, Exhausted
  <2>2. [job[v] EXCEPT !.ph = "decided", !.out = out, !.full = full] \in Job
    BY DEF TypeOK, TypeWorker, Job
  <2>3. job' \in [Videos -> Job]
    BY <2>1, <2>2 DEF TypeOK, TypeWorker
  <2> QED
    BY <1>18, <2>3 DEF Decide, ledger, files, TypeOK, TypeQueue, TypeLedger, TypeFiles, TypeWorker
<1>19. ASSUME NEW v \in Videos, Settle(v) PROVE TypeOK'
  <2>1. job[v].id \in Ids /\ job[v].k \in 0..MaxTries /\ Verdict(job[v]) \in TryStatus
    BY FailedTypes DEF Job
  <2>2. att' \in [Videos -> [Ids -> [Tries -> TryStatus]]]
    BY <1>19, <2>1 DEF Settle, TypeOK, TypeLedger
  <2>3. obl' \in [Videos -> [Ids -> OblState]]
    <3>1. CASE job[v].out = "evidence"
      <4>1. obl' = [obl EXCEPT ![v] = [obl[v] EXCEPT ![job[v].id] = "succeeded"]]
        BY <1>19, <3>1 DEF Settle
      <4> QED
        BY <4>1, <2>1 DEF OblState, TypeOK, TypeLedger
    <3>2. CASE job[v].out # "evidence"
      BY <1>19, <3>2 DEF Settle, TypeOK, TypeLedger
    <3> QED
      BY <3>1, <3>2
  <2>4. TypeQueue'
    BY <1>19, RowTypes, FailedTypes DEF Settle, SetRow, Stage, Fresh, TypeOK, TypeQueue
  <2>5. job' \in [Videos -> Job]
    BY <1>19, IdTypes DEF Settle, TypeOK, TypeWorker
  <2> QED
    BY <1>19, <2>2, <2>3, <2>4, <2>5 DEF Settle, files, TypeOK, TypeLedger, TypeFiles, TypeWorker
<1>20. ASSUME NEW v \in Videos, SettleRefused(v) PROVE TypeOK'
  BY <1>20, AbortTypes
  DEF SettleRefused,
      ledger, files, worker, TypeOK, TypeQueue, TypeLedger, TypeFiles, TypeWorker
<1>21. ASSUME NEW v \in Videos, ResultLost(v) PROVE TypeOK'
  BY <1>21, IdTypes
  DEF ResultLost,
      ledger, files, worker, TypeOK, TypeQueue, TypeLedger, TypeFiles, TypeWorker
<1>22. ASSUME Crash PROVE TypeOK'
  BY <1>22, IdTypes
  DEF Crash,
      ledger, files, worker, TypeOK, TypeQueue, TypeLedger, TypeFiles, TypeWorker
<1>23. ASSUME Restart PROVE TypeOK'
  BY <1>23, RestartTypes
  DEF Restart,
      ledger, files, worker, TypeOK, TypeQueue, TypeLedger, TypeFiles, TypeWorker
<1>24. ASSUME NEW v \in Videos, Retry(v) PROVE TypeOK'
  BY <1>24, RowTypes
  DEF Retry, Control, SetRow, Stage, Fresh,
      ledger, files, worker, TypeOK, TypeQueue, TypeLedger, TypeFiles, TypeWorker
<1>25. ASSUME NEW v \in Videos, ForceAi(v) PROVE TypeOK'
  BY <1>25, RowTypes
  DEF ForceAi, SetRow, Stage, Fresh,
      ledger, files, worker, TypeOK, TypeQueue, TypeLedger, TypeFiles, TypeWorker
<1>26. ASSUME NEW v \in Videos, Pause(v) PROVE TypeOK'
  BY <1>26, RowTypes
  DEF Pause, Control, SetRow, Stage, Fresh,
      ledger, files, worker, TypeOK, TypeQueue, TypeLedger, TypeFiles, TypeWorker
<1>27. ASSUME NEW v \in Videos, Skip(v) PROVE TypeOK'
  BY <1>27, RowTypes, CommandTypes
  DEF Skip, Control, SetRow, Stage, Fresh,
      ledger, files, worker, TypeOK, TypeQueue, TypeLedger, TypeFiles, TypeWorker
<1>28. ASSUME NEW v \in Videos, Prioritize(v) PROVE TypeOK'
  BY <1>28, RowTypes, CommandTypes
  DEF Prioritize, Control, SetRow, Stage, Fresh,
      ledger, files, worker, TypeOK, TypeQueue, TypeLedger, TypeFiles, TypeWorker
<1>29. ASSUME NEW v \in Videos, Recover(v) PROVE TypeOK'
  BY <1>29, RowTypes, LedgerTypes, CommandTypes
  DEF Recover, SetRow, Stage, Fresh,
      ledger, files, worker, TypeOK, TypeQueue, TypeLedger, TypeFiles, TypeWorker
<1>30. ASSUME RetryAllFailed PROVE TypeOK'
  BY <1>30, RowTypes
  DEF RetryAllFailed,
      ledger, files, worker, TypeOK, TypeQueue, TypeLedger, TypeFiles, TypeWorker
<1>31. ASSUME NEW v \in Videos, SweepQueue(v) PROVE TypeOK'
  BY <1>31, CommandTypes
  DEF SweepQueue, Control, SetRow, Stage, Fresh,
      ledger, files, worker, TypeOK, TypeQueue, TypeLedger, TypeFiles, TypeWorker
<1>32. ASSUME NEW v \in Videos, SweepPause(v) PROVE TypeOK'
  BY <1>32, CommandTypes
  DEF SweepPause, Control, SetRow, Stage, Fresh,
      ledger, files, worker, TypeOK, TypeQueue, TypeLedger, TypeFiles, TypeWorker
<1>33. ASSUME NEW v \in Videos, RemediateReview(v) PROVE TypeOK'
  BY <1>33, RowTypes
  DEF RemediateReview, Control, SetRow, Stage, Fresh,
      ledger, files, worker, TypeOK, TypeQueue, TypeLedger, TypeFiles, TypeWorker
<1>34. ASSUME NEW v \in Videos, Reprocess(v) PROVE TypeOK'
  BY <1>34, RowTypes
  DEF Reprocess, SetRow, Stage, Fresh,
      ledger, files, worker, TypeOK, TypeQueue, TypeLedger, TypeFiles, TypeWorker
<1>35. ASSUME NEW v \in Videos, LineClaim(v) PROVE TypeOK'
  <2>1. Cur(v) \in Ids /\ Begin(v, Cur(v))
    BY <1>35, IdTypes DEF LineClaim
  <2>2. TypeLedger'
    BY <1>35, <2>1, BeginTypes, EnsureTypes DEF LineClaim, TypeOK, TypeLedger
  <2>3. TypeQueue'
    BY <1>35, LineTypes DEF LineClaim, SetRow, Stage, Fresh, TypeOK, TypeQueue
  <2>4. [ph |-> "claimed", id |-> Cur(v), k |-> tries[v][Cur(v)] + 1,
         st |-> queue[v].st, src |-> queue[v].src] \in Repair
    BY <1>35, <2>1, BeginTypes, RowTypes DEF LineClaim, Repair, Row
  <2>5. repair' \in [Videos -> Repair]
    BY <1>35, <2>4 DEF LineClaim, TypeOK, TypeWorker
  <2> QED
    BY <1>35, <2>2, <2>3, <2>5 DEF LineClaim, files, worker, TypeOK, TypeFiles, TypeWorker
<1>36. ASSUME NEW v \in Videos, LinePublishes(v) PROVE TypeOK'
  BY <1>36, WrittenTypes, LineTypes
  DEF LinePublishes,
      ledger, files, worker, TypeOK, TypeQueue, TypeLedger, TypeFiles, TypeWorker
<1>37. ASSUME NEW v \in Videos, LineDone(v) PROVE TypeOK'
  <2>1. repair[v].id \in Ids /\ repair[v].k \in 0..MaxTries
    BY LineTypes DEF Repair
  <2>2. TypeLedger'
    BY <1>37, <2>1 DEF LineDone, OblState, TryStatus, TypeOK, TypeLedger
  <2>3. TypeQueue'
    BY <1>37, LineTypes DEF LineDone, SetRow, Stage, Fresh, TypeOK, TypeQueue
  <2>4. repair' \in [Videos -> Repair]
    BY <1>37, LineTypes DEF LineDone, LineEnds, TypeOK, TypeWorker
  <2> QED
    BY <1>37, <2>2, <2>3, <2>4 DEF LineDone, files, worker, TypeOK, TypeFiles, TypeWorker
<1>38. ASSUME NEW v \in Videos, LineFailed(v) PROVE TypeOK'
  <2>1. repair[v].id \in Ids /\ repair[v].k \in 0..MaxTries
    BY LineTypes DEF Repair
  <2>2. TypeLedger'
    BY <1>38, <2>1 DEF LineFailed, OblState, TryStatus, TypeOK, TypeLedger
  <2>3. TypeQueue'
    BY <1>38, LineTypes DEF LineFailed, SetRow, Stage, Fresh, TypeOK, TypeQueue
  <2>4. repair' \in [Videos -> Repair]
    BY <1>38, LineTypes DEF LineFailed, LineEnds, TypeOK, TypeWorker
  <2> QED
    BY <1>38, <2>2, <2>3, <2>4 DEF LineFailed, files, worker, TypeOK, TypeFiles, TypeWorker
<1>39. ASSUME NEW v \in Videos, LineRefused(v) PROVE TypeOK'
  BY <1>39, IdTypes
  DEF LineRefused, LineEnds,
      ledger, files, worker, TypeOK, TypeQueue, TypeLedger, TypeFiles, TypeWorker
<1>40. CASE UNCHANGED vars
  BY <1>40 DEF vars, ledger, files, worker, TypeOK, TypeQueue, TypeLedger, TypeFiles, TypeWorker
<1> QED
  BY <1>1, <1>2, <1>3, <1>4, <1>5, <1>6, <1>7, <1>8, <1>9, <1>10, <1>11,
     <1>12, <1>13, <1>14, <1>15, <1>16, <1>17, <1>18, <1>19, <1>20,
     <1>21, <1>22, <1>23, <1>24, <1>25, <1>26, <1>27, <1>28, <1>29,
     <1>30, <1>31, <1>32, <1>33, <1>34, <1>35, <1>36, <1>37, <1>38,
     <1>39, <1>40
  DEF Next, World, Discovery, Working, Command, Campaign, LineRepair

\* Every table, file and process variable keeps its type, whatever the
\* interleaving of the Worker, the scanner, the operator and the crashes.
THEOREM TypeCorrect == Spec => []TypeOK
<1>1. Init => TypeOK
  BY TypeInit
<1>2. TypeOK /\ [Next]_vars => TypeOK'
  BY TypeStep
<1> QED
  BY <1>1, <1>2, PTL DEF Spec

-----------------------------------------------------------------------------
(* The ledger under every action: each step keeps the promise. *)

LEMMA EnsuredAdmits ==
  ASSUME TypeOK, NEW v \in Videos, NEW i \in Ids, NEW late \in SUBSET Ids, NEW j \in Ids
  PROVE  \/ Ensured(v, i, late)[j] = obl[v][j]
         \/ obl[v][j] \in {"none", "excluded"} /\ j = i /\ Ensured(v, i, late)[j] = "open"
         \/ /\ obl[v][j] = "open" /\ tries[v][j] = 0 /\ j # i
            /\ Ensured(v, i, late)[j] = "excluded"
<1>1. obl[v] \in [Ids -> OblState]
  BY DEF TypeOK, TypeLedger
<1>2. Opened(v, i)[j] = IF j = i /\ (obl[v][i] = "none" \/ (obl[v][i] = "excluded" /\ tries[v][i] = 0))
                          THEN "open" ELSE obl[v][j]
  BY <1>1 DEF Opened
<1>3. CASE Opened(v, i)[i] # "open"
  BY <1>2, <1>3 DEF Ensured
<1>4. CASE Opened(v, i)[i] = "open"
  <2>1. Ensured(v, i, late)[j] =
          IF Opened(v, i)[j] = "open" /\ tries[v][j] = 0 /\ j \notin {i} \cup late
            THEN "excluded" ELSE Opened(v, i)[j]
    BY <1>4 DEF Ensured, Superseded
  <2> QED
    BY <1>2, <2>1
<1> QED
  BY <1>3, <1>4

\* A step that only admits or excludes obligations of one video.
LEMMA AdmissionStep ==
  ASSUME TypeOK, NEW v \in Videos, NEW X \in [Ids -> OblState],
         obl' = [obl EXCEPT ![v] = X], UNCHANGED <<tries, att, proven>>,
         \A j \in Ids : \/ X[j] = obl[v][j]
                        \/ obl[v][j] \in {"none", "excluded"} /\ X[j] = "open"
                        \/ obl[v][j] = "open" /\ tries[v][j] = 0 /\ X[j] = "excluded"
  PROVE  Promise!Next
<1>1. \A w \in Videos, j \in Ids : Promise!Admission(w, j)
  BY DEF Promise!Admission, TypeOK, TypeLedger
<1> QED
  BY <1>1 DEF Promise!Next, Promise!Counted, Promise!Attempt

\* A claim: the obligation is open afterwards and its next attempt runs.
LEMMA ClaimStep ==
  ASSUME TypeOK, Numbered, ExcludedWasNeverAttempted, NEW v \in Videos,
         NEW late \in SUBSET Ids, Begin(v, Cur(v)), UNCHANGED proven,
         Ensured(v, Cur(v), late)[Cur(v)] = "open",
         obl' = [obl EXCEPT ![v] = Ensured(v, Cur(v), late)]
  PROVE  Promise!Next
<1> DEFINE c == Cur(v)
           n == tries[v][c] + 1
<1>1. c \in Ids /\ n \in Tries /\ tries[v][c] \in Nat
  <2>1. c \in Ids /\ tries[v][c] \in 0..MaxTries
    BY IdTypes DEF TypeOK, TypeLedger
  <2> QED
    BY <2>1, ConstantsAssumption DEF Begin, Tries
<1>2. att[v][c][n] = "none"
  BY <1>1 DEF Numbered
<1>3. \A w \in Videos, j \in Ids, k \in Tries :
        att'[w][j][k] = IF w = v /\ j = c /\ k = n THEN "running" ELSE att[w][j][k]
  BY <1>1 DEF Begin, TypeOK, TypeLedger
<1>4. \A w \in Videos, j \in Ids :
        tries'[w][j] = IF w = v /\ j = c THEN n ELSE tries[w][j]
  BY <1>1 DEF Begin, TypeOK, TypeLedger
<1>5. obl'[v][c] = "open"
  BY DEF TypeOK, TypeLedger
<1>6. ASSUME NEW w \in Videos, NEW j \in Ids
      PROVE  Promise!Admission(w, j)
  <2>1. CASE w # v
    BY <2>1 DEF Promise!Admission, TypeOK, TypeLedger
  <2>2. CASE w = v
    <3>1. obl'[w][j] = Ensured(v, c, late)[j]
      BY <2>2 DEF TypeOK, TypeLedger
    <3>2. j # c => tries'[w][j] = tries[w][j]
      BY <1>4
    <3> QED
      BY <1>1, <2>2, <3>1, <3>2, EnsuredAdmits DEF Promise!Admission
  <2> QED
    BY <2>1, <2>2
<1>7. \A w \in Videos, j \in Ids : Promise!Counted(w, j)
  BY <1>1, <1>3, <1>4 DEF Promise!Counted
<1>8. \A w \in Videos, j \in Ids, k \in Tries : Promise!Attempt(w, j, k)
  BY <1>1, <1>2, <1>3, <1>4, <1>5 DEF Promise!Attempt
<1> QED
  BY <1>6, <1>7, <1>8 DEF Promise!Next, Promise!Tries, Tries

\* A recovery: some videos' running attempts of open obligations end.
LEMMA DeferStep ==
  ASSUME TypeOK, NEW S \in SUBSET Videos, UNCHANGED <<obl, tries, proven>>,
         att' = [v \in Videos |-> IF v \in S THEN Deferred(v) ELSE att[v]]
  PROVE  Promise!Next
<1>1. \A v \in Videos, i \in Ids, k \in Tries :
        \/ att'[v][i][k] = att[v][i][k]
        \/ att[v][i][k] = "running" /\ att'[v][i][k] = "deferred"
  BY DEF Deferred, RunningTry
<1>2. \A v \in Videos, i \in Ids, k \in Tries : Promise!Attempt(v, i, k)
  BY <1>1 DEF Promise!Attempt, Promise!Ended
<1> QED
  BY <1>2 DEF Promise!Next, Promise!Counted, Promise!Admission, Promise!Tries, Tries

\* One attempt ends without delivering anything, unless it ended that way before.
LEMMA EndStep ==
  ASSUME TypeOK, NEW v \in Videos, NEW i \in Ids, NEW k \in Tries,
         NEW verdict \in {"retryable_failure", "review_required", "failed"},
         Finishable(v, i, k, verdict), UNCHANGED <<obl, tries, proven>>,
         att' = [att EXCEPT ![v][i][k] = verdict]
  PROVE  Promise!Next
<1>1. \A w \in Videos, j \in Ids, n \in Tries :
        att'[w][j][n] = IF w = v /\ j = i /\ n = k THEN verdict ELSE att[w][j][n]
  BY DEF TypeOK, TypeLedger
<1>2. \A w \in Videos, j \in Ids, n \in Tries : Promise!Attempt(w, j, n)
  BY <1>1 DEF Promise!Attempt, Promise!Ended, Finishable
<1> QED
  BY <1>2 DEF Promise!Next, Promise!Counted, Promise!Admission, Promise!Tries, Tries

\* One proven attempt ends as the delivery of its obligation.
LEMMA DeliverStep ==
  ASSUME TypeOK, Numbered, ExcludedWasNeverAttempted, DeliveredIsProven,
         NEW v \in Videos, NEW i \in Ids, NEW k \in Tries, <<i, k>> \in proven[v],
         Finishable(v, i, k, "succeeded"), UNCHANGED <<tries, proven>>,
         att' = [att EXCEPT ![v][i][k] = "succeeded"],
         obl' = [obl EXCEPT ![v][i] = "succeeded"]
  PROVE  Promise!Next
<1>1. \A w \in Videos, j \in Ids, n \in Tries :
        att'[w][j][n] = IF w = v /\ j = i /\ n = k THEN "succeeded" ELSE att[w][j][n]
  BY DEF TypeOK, TypeLedger
<1>2. \A w \in Videos, j \in Ids :
        obl'[w][j] = IF w = v /\ j = i THEN "succeeded" ELSE obl[w][j]
  BY DEF TypeOK, TypeLedger
<1>3. obl[v][i] = "succeeded" \/ (obl[v][i] = "open" /\ att[v][i][k] = "running")
  <2>1. CASE att[v][i][k] = "succeeded"
    BY <2>1 DEF DeliveredIsProven
  <2>2. CASE att[v][i][k] = "running"
    <3>1. ~(k > tries[v][i])
      BY <2>2 DEF Numbered
    <3>2. tries[v][i] # 0
      BY <3>1, ConstantsAssumption DEF Tries
    <3> QED
      BY <2>2, <3>2 DEF ExcludedWasNeverAttempted, TypeOK, TypeLedger, OblState
  <2> QED
    BY <2>1, <2>2 DEF Finishable
<1>4. \A w \in Videos, j \in Ids : Promise!Admission(w, j) \/ Promise!Delivery(w, j)
  BY <1>1, <1>2, <1>3 DEF Promise!Admission, Promise!Delivery, Promise!Tries, Tries
<1>5. \A w \in Videos, j \in Ids, n \in Tries : Promise!Attempt(w, j, n)
  BY <1>1, <1>2 DEF Promise!Attempt, Promise!Ended, Finishable
<1> QED
  BY <1>4, <1>5 DEF Promise!Next, Promise!Counted, Promise!Tries, Tries

\* A restart: per video at most one delivery, every other running attempt of
\* an open obligation of a running row ends.
LEMMA RestartStep ==
  ASSUME TypeOK, EvidenceKept, Restart
  PROVE  Promise!Next
<1>1. PICK p \in [Videos -> Ids \X (0..MaxTries)] :
        /\ obl' = [v \in Videos |-> RestartObl(v, p[v])]
        /\ att' = [v \in Videos |-> RestartAtt(v, p[v])]
  BY DEF Restart
<1>2. UNCHANGED <<tries, proven>>
  BY DEF Restart, files
<1>3. ASSUME NEW v \in Videos, NEW i \in Ids
      PROVE  /\ Promise!Admission(v, i) \/ Promise!Delivery(v, i)
             /\ \A k \in Tries : Promise!Attempt(v, i, k)
  <2> DEFINE a == p[v][1]
             n == p[v][2]
  <2>1. obl[v] \in [Ids -> OblState] /\ att[v] \in [Ids -> [Tries -> TryStatus]]
    BY DEF TypeOK, TypeLedger
  <2>2. p[v] = <<a, n>> /\ a \in Ids
    OBVIOUS
  <2>3. CASE Reconcilable(v, p[v])
    <3>1. n \in Tries /\ obl[v][a] = "open" /\ att[v][a][n] = "running"
      BY <2>3 DEF Reconcilable, RunningPairs, RunningTry
    <3>2. <<a, n>> \in proven[v]
      BY <2>3 DEF Reconcilable, Evidence, EvidenceKept
    <3>3. obl'[v][i] = IF i = a THEN "succeeded" ELSE obl[v][i]
      BY <1>1, <2>1, <2>3 DEF RestartObl
    <3>4. \A k \in Tries : ReconciledAtt(v, p[v])[i][k] =
                             IF i = a /\ k = n THEN "succeeded" ELSE att[v][i][k]
      BY <2>1, <2>2, <2>3, <3>1 DEF ReconciledAtt
    <3>5. ASSUME NEW k \in Tries
          PROVE  att'[v][i][k] = IF i = a /\ k = n THEN "succeeded"
                                 ELSE IF Interrupted(v, p[v], i, k) THEN "deferred"
                                 ELSE att[v][i][k]
      <4>1. att'[v][i][k] = IF Interrupted(v, p[v], i, k) THEN "deferred"
                            ELSE ReconciledAtt(v, p[v])[i][k]
        BY <1>1 DEF RestartAtt
      <4>2. Interrupted(v, p[v], i, k) => ReconciledAtt(v, p[v])[i][k] = "running"
        BY DEF Interrupted
      <4> QED
        BY <3>4, <4>1, <4>2
    <3>6. \A k \in Tries : Interrupted(v, p[v], i, k) => i # a /\ att[v][i][k] = "running"
      <4>1. RestartObl(v, p[v])[a] = "succeeded"
        BY <2>1, <2>2, <2>3 DEF RestartObl
      <4> QED
        BY <3>4, <4>1 DEF Interrupted
    <3>7. Promise!Admission(v, i) \/ Promise!Delivery(v, i)
      BY <3>1, <3>3, <3>5 DEF Promise!Admission, Promise!Delivery, Promise!Tries, Tries
    <3>8. \A k \in Tries : Promise!Attempt(v, i, k)
      BY <3>1, <3>2, <3>3, <3>5, <3>6 DEF Promise!Attempt, Promise!Ended
    <3> QED
      BY <3>7, <3>8
  <2>4. CASE ~Reconcilable(v, p[v])
    <3>1. obl'[v][i] = obl[v][i]
      BY <1>1, <2>4 DEF RestartObl
    <3>2. \A k \in Tries : \/ att'[v][i][k] = att[v][i][k]
                           \/ att[v][i][k] = "running" /\ att'[v][i][k] = "deferred"
      BY <1>1, <2>4 DEF RestartAtt, ReconciledAtt, Interrupted
    <3> QED
      BY <3>1, <3>2 DEF Promise!Admission, Promise!Attempt, Promise!Ended
  <2> QED
    BY <2>3, <2>4
<1> QED
  BY <1>2, <1>3 DEF Promise!Next, Promise!Counted, Promise!Tries, Tries

LEMMA SettleStep ==
  ASSUME TypeOK, LedgerInv, NEW v \in Videos, Settle(v)
  PROVE  Promise!Next
<1> DEFINE j == job[v]
<1>1. j \in Job /\ tries[v][j.id] \in 0..MaxTries /\ UNCHANGED <<tries, proven>>
  BY FailedTypes DEF Settle, files, TypeOK, TypeLedger, Job
<1>2. j.id \in Ids /\ j.k \in Tries
  <2>1. j.k \in 1..tries[v][j.id]
    BY DEF Settle, LedgerInv, ClaimsNumbered
  <2> QED
    BY <1>1, <2>1, ConstantsAssumption DEF Tries, Job
<1>3. CASE j.out = "evidence"
  <2>1. Verdict(j) = "succeeded"
    BY <1>3 DEF Verdict
  <2>2. <<j.id, j.k>> \in proven[v]
    BY <1>3 DEF Settle, LedgerInv, DecidedIsProven
  <2>3. /\ Finishable(v, j.id, j.k, "succeeded")
        /\ att' = [att EXCEPT ![v][j.id][j.k] = "succeeded"]
        /\ obl' = [obl EXCEPT ![v][j.id] = "succeeded"]
    BY <1>3, <2>1 DEF Settle
  <2> QED
    BY <1>1, <1>2, <2>2, <2>3, DeliverStep DEF LedgerInv
<1>4. CASE j.out # "evidence"
  <2>1. Verdict(j) \in {"retryable_failure", "review_required", "failed"}
    BY <1>4 DEF Verdict
  <2>2. /\ Finishable(v, j.id, j.k, Verdict(j)) /\ UNCHANGED obl
        /\ att' = [att EXCEPT ![v][j.id][j.k] = Verdict(j)]
    BY <1>4 DEF Settle
  <2> QED
    BY <1>1, <1>2, <2>1, <2>2, EndStep
<1> QED
  BY <1>3, <1>4

LEMMA LineStep ==
  ASSUME TypeOK, LedgerInv, NEW v \in Videos, LineDone(v) \/ LineFailed(v)
  PROVE  Promise!Next
<1> DEFINE p == repair[v]
<1>1. p \in Repair /\ tries[v][p.id] \in 0..MaxTries
  <2>1. p \in Repair
    BY LineTypes
  <2> QED
    BY <2>1 DEF TypeOK, TypeLedger, Repair
<1>2. p.id \in Ids /\ p.k \in Tries
  <2>1. p.k \in 1..tries[v][p.id]
    BY DEF LineDone, LineProven, LineFailed, LedgerInv, ClaimsNumbered
  <2> QED
    BY <1>1, <2>1, ConstantsAssumption DEF Tries, Repair
<1>3. CASE LineDone(v)
  <2>1. <<p.id, p.k>> \in proven[v]
    BY <1>3 DEF LineDone, LineProven, Evidence, LedgerInv, EvidenceKept
  <2> QED
    BY <1>2, <1>3, <2>1, DeliverStep DEF LineDone, files, LedgerInv
<1>4. CASE LineFailed(v)
  BY <1>2, <1>4, EndStep DEF LineFailed, files
<1> QED
  BY <1>3, <1>4

LEMMA EnsureStep ==
  ASSUME TypeOK, NEW v \in Videos,
         ScanNeedsAi(v) \/ ScanCooldown(v) \/ ScanUnwanted(v) \/ Backfill(v)
  PROVE  Promise!Next
<1>1. UNCHANGED <<tries, att, proven>>
  BY DEF ScanNeedsAi, ScanCooldown, ScanUnwanted, Backfill, files
<1>2. CASE ScanNeedsAi(v) \/ ScanCooldown(v) \/ Backfill(v)
  <2>1. PICK late \in SUBSET Unattempted(v) :
          obl' = [obl EXCEPT ![v] = Ensured(v, Cur(v), late)]
    BY <1>2 DEF ScanNeedsAi, ScanCooldown, Backfill
  <2>2. late \in SUBSET Ids /\ Cur(v) \in Ids
    BY IdTypes DEF Unattempted
  <2>3. Ensured(v, Cur(v), late) \in [Ids -> OblState]
    BY EnsureTypes
  <2>4. \A j \in Ids :
          LET X == Ensured(v, Cur(v), late) IN
          \/ X[j] = obl[v][j]
          \/ obl[v][j] \in {"none", "excluded"} /\ X[j] = "open"
          \/ obl[v][j] = "open" /\ tries[v][j] = 0 /\ X[j] = "excluded"
    BY <2>2, EnsuredAdmits
  <2> QED
    BY <1>1, <2>1, <2>3, <2>4, AdmissionStep
<1>3. CASE ScanUnwanted(v)
  <2>1. PICK keep \in {{}, Ids}, late \in SUBSET Unattempted(v) :
          obl' = [obl EXCEPT ![v] = Superseded(obl[v], v, keep, late)]
    BY <1>3 DEF ScanUnwanted
  <2>2. late \in SUBSET Ids /\ keep \in SUBSET Ids
    BY DEF Unattempted
  <2>3. Superseded(obl[v], v, keep, late) \in [Ids -> OblState]
    BY EnsureTypes
  <2>4. \A j \in Ids :
          LET X == Superseded(obl[v], v, keep, late) IN
          \/ X[j] = obl[v][j]
          \/ obl[v][j] = "open" /\ tries[v][j] = 0 /\ X[j] = "excluded"
    BY DEF Superseded
  <2> QED
    BY <1>1, <2>1, <2>3, <2>4, AdmissionStep
<1> QED
  BY <1>2, <1>3

LEMMA StutterStep ==
  ASSUME UNCHANGED <<obl, tries, att>>, \A v \in Videos : proven[v] \subseteq proven'[v]
  PROVE  Promise!Next
  BY DEF Promise!Next, Promise!Admission, Promise!Counted, Promise!Attempt

LEMMA StepKeepsPromise == TypeOK /\ LedgerInv /\ [Next]_vars => Promise!Next
<1> SUFFICES ASSUME TypeOK, LedgerInv, [Next]_vars PROVE Promise!Next
  OBVIOUS
<1>1. ASSUME NEW v \in Videos, World(v) \/ FsEvent(v) \/ ScanFinished(v)
      PROVE  Promise!Next
  BY <1>1, StutterStep
  DEF World, MediaReplaced, HeartbeatExpires, FsEvent, ScanFinished, ledger, files
<1>2. ASSUME NEW v \in Videos,
             ScanNeedsAi(v) \/ ScanCooldown(v) \/ ScanUnwanted(v) \/ Backfill(v)
      PROVE  Promise!Next
  BY <1>2, EnsureStep
<1>3. CASE CliRequeueStale \/ Drain
  BY <1>3, DeferStep DEF CliRequeueStale, Drain, RequeueStale, files
<1>4. ASSUME NEW v \in Videos, Claim(v) \/ LineClaim(v)
      PROVE  Promise!Next
  <2>1. PICK late \in SUBSET Unattempted(v) :
          /\ Ensured(v, Cur(v), late)[Cur(v)] = "open"
          /\ obl' = [obl EXCEPT ![v] = Ensured(v, Cur(v), late)]
    BY <1>4 DEF Claim, LineClaim
  <2>2. late \in SUBSET Ids
    BY DEF Unattempted
  <2>3. Begin(v, Cur(v)) /\ UNCHANGED proven
    BY <1>4 DEF Claim, LineClaim, files
  <2> QED
    BY <2>1, <2>2, <2>3, ClaimStep DEF LedgerInv
<1>5. ASSUME NEW v \in Videos,
             \/ ClaimRefused(v) \/ ChildBeats(v) \/ ChildCompletes(v) \/ Decide(v)
             \/ SettleRefused(v) \/ ResultLost(v) \/ LineRefused(v)
      PROVE  Promise!Next
  BY <1>5, StutterStep
  DEF ClaimRefused, ChildBeats, ChildCompletes, Decide, SettleRefused, ResultLost,
      LineRefused, ledger, files
<1>6. ASSUME NEW v \in Videos, ChildPublishes(v) \/ LinePublishes(v)
      PROVE  Promise!Next
  BY <1>6, StutterStep
  DEF ChildPublishes, LinePublishes, Written, ledger, TypeOK, TypeFiles
<1>7. ASSUME NEW v \in Videos, Settle(v) PROVE Promise!Next
  BY <1>7, SettleStep
<1>8. ASSUME NEW v \in Videos, LineDone(v) \/ LineFailed(v) PROVE Promise!Next
  BY <1>8, LineStep
<1>9. ASSUME NEW v \in Videos,
             \/ Retry(v) \/ ForceAi(v) \/ Pause(v) \/ Skip(v) \/ Prioritize(v)
             \/ Reprocess(v) \/ Campaign(v)
      PROVE  Promise!Next
  BY <1>9, StutterStep
  DEF Retry, ForceAi, Pause, Skip, Prioritize, Reprocess, Campaign, SweepQueue,
      SweepPause, RemediateReview, Control, ledger, files
<1>10. ASSUME NEW v \in Videos, Recover(v) PROVE Promise!Next
  <2>1. UNCHANGED <<obl, tries, proven>>
    BY <1>10 DEF Recover, files
  <2>2. CASE LineRunning(v)
    <3>1. att' = [w \in Videos |-> IF w \in {v} THEN Deferred(w) ELSE att[w]]
      BY <1>10, <2>2 DEF Recover, TypeOK, TypeLedger
    <3> QED
      BY <2>1, <3>1, DeferStep
  <2>3. CASE ~LineRunning(v)
    BY <1>10, <2>1, <2>3, StutterStep DEF Recover
  <2> QED
    BY <2>2, <2>3
<1>11. CASE Select \/ EndCycle \/ RetryAllFailed \/ Crash \/ UNCHANGED vars
  BY <1>11, StutterStep DEF Select, EndCycle, RetryAllFailed, Crash, vars, ledger, files
<1>12. CASE Restart
  BY <1>12, RestartStep DEF LedgerInv
<1> QED
  BY <1>1, <1>2, <1>3, <1>4, <1>5, <1>6, <1>7, <1>8, <1>9, <1>10, <1>11, <1>12
  DEF Next, World, Discovery, Working, Command, Campaign, LineRepair

-----------------------------------------------------------------------------
(* The ledger's inductive invariant. *)

LEMMA TriesGrow ==
  ASSUME TypeOK, Promise!Next, NEW v \in Videos, NEW i \in Ids
  PROVE  tries[v][i] \in Nat /\ tries'[v][i] \in Nat /\ tries[v][i] <= tries'[v][i]
<1>1. tries[v][i] \in 0..MaxTries
  BY DEF TypeOK, TypeLedger
<1>2. Promise!Counted(v, i)
  BY DEF Promise!Next
<1> QED
  BY <1>1, <1>2, ConstantsAssumption DEF Promise!Counted

\* Numbering, exclusion and proof follow from the promise alone.
LEMMA PromiseKeepsLedger ==
  ASSUME TypeOK, TypeOK', Promise!Next,
         Numbered, ExcludedWasNeverAttempted, DeliveredIsProven
  PROVE  Numbered' /\ ExcludedWasNeverAttempted' /\ DeliveredIsProven'
<1> SUFFICES ASSUME NEW v \in Videos, NEW i \in Ids
             PROVE  /\ \A k \in Tries : att'[v][i][k] = "none" <=> k > tries'[v][i]
                    /\ obl'[v][i] \in {"none", "excluded"} => tries'[v][i] = 0
                    /\ obl'[v][i] = "succeeded" =>
                         \E k \in Tries : att'[v][i][k] = "succeeded"
                    /\ \A k \in Tries : att'[v][i][k] = "succeeded" =>
                         obl'[v][i] = "succeeded" /\ <<i, k>> \in proven'[v]
  BY DEF Numbered, ExcludedWasNeverAttempted, DeliveredIsProven
<1>1. /\ Promise!Admission(v, i) \/ Promise!Delivery(v, i)
      /\ Promise!Counted(v, i) /\ proven[v] \subseteq proven'[v]
      /\ \A k \in Tries : Promise!Attempt(v, i, k)
  BY DEF Promise!Next, Promise!Tries, Tries
<1>2. tries[v][i] \in 0..MaxTries /\ tries'[v][i] \in 0..MaxTries
  BY DEF TypeOK, TypeLedger
<1>3. \A k \in Tries : k \in Nat /\ k > 0
  BY ConstantsAssumption DEF Tries
<1>4. \A k \in Tries : att[v][i][k] = "none" <=> k > tries[v][i]
  BY DEF Numbered
<1>5. ASSUME NEW k \in Tries PROVE att'[v][i][k] = "none" <=> k > tries'[v][i]
  <2>0. /\ k \in Nat /\ tries[v][i] \in Nat /\ tries'[v][i] \in Nat
        /\ att[v][i][k] = "none" <=> k > tries[v][i]
        /\ Promise!Attempt(v, i, k)
    BY <1>1, <1>2, <1>3, <1>4
  <2>1. CASE tries'[v][i] = tries[v][i]
    <3>1. att'[v][i][k] = "none" <=> att[v][i][k] = "none"
      BY <2>0, <2>1 DEF Promise!Attempt, Promise!Ended
    <3> QED
      BY <2>0, <2>1, <3>1
  <2>2. CASE tries'[v][i] = tries[v][i] + 1 /\ att'[v][i][tries'[v][i]] = "running"
    <3>1. CASE k = tries'[v][i]
      BY <2>0, <2>2, <3>1
    <3>2. CASE k # tries'[v][i]
      <4>1. att'[v][i][k] = "none" <=> att[v][i][k] = "none"
        BY <2>0, <2>2, <3>2 DEF Promise!Attempt, Promise!Ended
      <4> QED
        BY <2>0, <2>2, <3>2, <4>1
    <3> QED
      BY <3>1, <3>2
  <2> QED
    BY <1>1, <2>1, <2>2 DEF Promise!Counted
<1>6. obl'[v][i] \in {"none", "excluded"} => tries'[v][i] = 0
  <2> SUFFICES ASSUME obl'[v][i] \in {"none", "excluded"}, tries'[v][i] # 0 PROVE FALSE
    OBVIOUS
  <2>1. obl'[v][i] = obl[v][i]
    BY <1>1 DEF Promise!Admission, Promise!Delivery
  <2>2. tries[v][i] = 0
    BY <2>1 DEF ExcludedWasNeverAttempted
  <2>3. tries'[v][i] = 1 /\ 1 \in Tries /\ att'[v][i][1] = "running"
    BY <1>1, <1>2, <2>2, ConstantsAssumption DEF Promise!Counted, Tries
  <2>4. att[v][i][1] = "none"
    BY <1>4, <2>2, <2>3
  <2> QED
    BY <1>1, <2>3, <2>4 DEF Promise!Attempt
<1>7. obl'[v][i] = "succeeded" => \E k \in Tries : att'[v][i][k] = "succeeded"
  <2>1. CASE obl[v][i] = "succeeded"
    <3>1. PICK k \in Tries : att[v][i][k] = "succeeded"
      BY <2>1 DEF DeliveredIsProven
    <3>2. att'[v][i][k] = "succeeded"
      BY <1>1, <3>1 DEF Promise!Attempt
    <3> QED
      BY <3>2
  <2>2. CASE obl[v][i] # "succeeded"
    BY <1>1, <2>2 DEF Promise!Admission, Promise!Delivery, Promise!Tries, Tries
  <2> QED
    BY <2>1, <2>2
<1>8. ASSUME NEW k \in Tries, att'[v][i][k] = "succeeded"
      PROVE  obl'[v][i] = "succeeded" /\ <<i, k>> \in proven'[v]
  <2>1. CASE att[v][i][k] = "succeeded"
    <3>1. obl[v][i] = "succeeded" /\ <<i, k>> \in proven[v]
      BY <2>1 DEF DeliveredIsProven
    <3> QED
      BY <1>1, <3>1 DEF Promise!Admission, Promise!Delivery
  <2>2. CASE att[v][i][k] # "succeeded"
    BY <1>1, <1>8, <2>2 DEF Promise!Attempt
  <2> QED
    BY <2>1, <2>2
<1> QED
  BY <1>5, <1>6, <1>7, <1>8

\* The part of the invariant about the child and the repair at work.
Writers == EvidenceKept /\ ClaimsNumbered /\ DecidedIsProven

LEMMA WritersKeep ==
  ASSUME TypeOK, TypeOK', Promise!Next, Writers, UNCHANGED <<evid, job, repair>>
  PROVE  Writers'
<1>1. \A v \in Videos : proven[v] \subseteq proven'[v]
  BY DEF Promise!Next
<1>2. \A v \in Videos : /\ job[v].id \in Ids /\ repair[v].id \in Ids
                        /\ job[v].k \in Nat /\ repair[v].k \in Nat
  BY FailedTypes, ConstantsAssumption DEF Job, Repair
<1>3. \A v \in Videos, i \in Ids : /\ tries[v][i] \in Nat /\ tries'[v][i] \in Nat
                                   /\ tries[v][i] <= tries'[v][i]
  BY TriesGrow
<1>4. ClaimsNumbered'
  BY <1>2, <1>3 DEF Writers, ClaimsNumbered
<1> QED
  BY <1>1, <1>4 DEF Writers, EvidenceKept, DecidedIsProven

\* Jobs that go on keep what they are about, or are over.
LEMMA JobsDropped ==
  ASSUME TypeOK, Writers, UNCHANGED <<evid, proven, tries, repair>>,
         \A v \in Videos : \/ job'[v].ph = "none"
                           \/ job'[v] = job[v]
                           \/ /\ job'[v].ph = "dropped" /\ job[v].ph # "none"
                              /\ job'[v].id = job[v].id /\ job'[v].k = job[v].k
  PROVE  Writers'
  BY DEF Writers, EvidenceKept, ClaimsNumbered, DecidedIsProven

LEMMA RepairEnds ==
  ASSUME TypeOK, Writers, NEW v \in Videos, LineEnds(v),
         UNCHANGED <<evid, proven, tries, job>>
  PROVE  Writers'
<1>1. \A w \in Videos : repair'[w] = IF w = v THEN NoRepair ELSE repair[w]
  BY DEF LineEnds, TypeOK, TypeWorker
<1> QED
  BY <1>1 DEF NoRepair, Writers, EvidenceKept, ClaimsNumbered, DecidedIsProven

LEMMA BeganTries ==
  ASSUME TypeOK, NEW v \in Videos, Begin(v, Cur(v))
  PROVE  /\ \A w \in Videos, i \in Ids : tries'[w][i] =
              IF w = v /\ i = Cur(v) THEN tries[v][Cur(v)] + 1 ELSE tries[w][i]
         /\ \A w \in Videos, i \in Ids : tries[w][i] \in Nat
  BY IdTypes, ConstantsAssumption DEF Begin, TypeOK, TypeLedger

LEMMA WritersClaim ==
  ASSUME TypeOK, Writers, NEW v \in Videos, Claim(v)
  PROVE  Writers'
<1> DEFINE c == Cur(v)
<1>1. c \in Ids /\ Begin(v, c) /\ UNCHANGED <<evid, proven, repair>>
  BY IdTypes DEF Claim, files
<1>2. \A w \in Videos : job'[w] =
        IF w = v THEN [NoJob EXCEPT !.ph = "working", !.id = c, !.k = tries[v][c] + 1]
        ELSE job[w]
  BY DEF Claim, TypeOK, TypeWorker
<1>3. job'[v].ph = "working" /\ job'[v].id = c /\ job'[v].k = tries[v][c] + 1
  BY <1>2 DEF NoJob
<1>4. \A w \in Videos : /\ job[w].id \in Ids /\ repair[w].id \in Ids
                        /\ job[w].k \in Nat /\ repair[w].k \in Nat
  BY FailedTypes, ConstantsAssumption DEF Job, Repair
<1>5. ClaimsNumbered'
  <2> SUFFICES ASSUME NEW w \in Videos
               PROVE /\ job'[w].ph # "none" => job'[w].k \in 1..tries'[w][job'[w].id]
                     /\ repair'[w].ph # "none" => repair'[w].k \in 1..tries'[w][repair'[w].id]
    BY DEF ClaimsNumbered
  <2>1. repair'[w].ph # "none" => repair'[w].k \in 1..tries'[w][repair'[w].id]
    BY <1>1, <1>4, BeganTries DEF Writers, ClaimsNumbered
  <2>2. CASE w = v
    BY <1>1, <1>3, <2>1, <2>2, BeganTries
  <2>3. CASE w # v
    BY <1>1, <1>2, <1>4, <2>1, <2>3, BeganTries DEF Writers, ClaimsNumbered
  <2> QED
    BY <2>2, <2>3
<1> QED
  BY <1>1, <1>2, <1>3, <1>5 DEF Writers, EvidenceKept, DecidedIsProven

LEMMA WritersLineClaim ==
  ASSUME TypeOK, Writers, NEW v \in Videos, LineClaim(v)
  PROVE  Writers'
<1> DEFINE c == Cur(v)
<1>1. c \in Ids /\ Begin(v, c) /\ UNCHANGED <<evid, proven, job>>
  BY IdTypes DEF LineClaim, files, worker
<1>2. \A w \in Videos : repair'[w] =
        IF w = v THEN [ph |-> "claimed", id |-> c, k |-> tries[v][c] + 1,
                       st |-> queue[v].st, src |-> queue[v].src]
        ELSE repair[w]
  BY DEF LineClaim, TypeOK, TypeWorker
<1>3. \A w \in Videos : /\ job[w].id \in Ids /\ repair[w].id \in Ids
                        /\ job[w].k \in Nat /\ repair[w].k \in Nat
  BY FailedTypes, ConstantsAssumption DEF Job, Repair
<1>4. ClaimsNumbered'
  <2> SUFFICES ASSUME NEW w \in Videos
               PROVE /\ job'[w].ph # "none" => job'[w].k \in 1..tries'[w][job'[w].id]
                     /\ repair'[w].ph # "none" => repair'[w].k \in 1..tries'[w][repair'[w].id]
    BY DEF ClaimsNumbered
  <2>1. job'[w].ph # "none" => job'[w].k \in 1..tries'[w][job'[w].id]
    BY <1>1, <1>3, BeganTries DEF Writers, ClaimsNumbered
  <2>2. CASE w = v
    BY <1>1, <1>2, <2>1, <2>2, BeganTries
  <2>3. CASE w # v
    BY <1>1, <1>2, <1>3, <2>1, <2>3, BeganTries DEF Writers, ClaimsNumbered
  <2> QED
    BY <2>2, <2>3
<1> QED
  BY <1>1, <1>4 DEF Writers, EvidenceKept, DecidedIsProven

LEMMA WritersPublish ==
  ASSUME TypeOK, Writers, NEW v \in Videos, ChildPublishes(v) \/ LinePublishes(v)
  PROVE  Writers'
<1>1. Written(v) /\ UNCHANGED <<tries, job>>
  BY DEF ChildPublishes, LinePublishes, ledger, worker
<1>2. EvidenceKept'
  BY <1>1 DEF Written, Writers, EvidenceKept, TypeOK, TypeFiles
<1>3. \A w \in Videos : proven[w] \subseteq proven'[w]
  BY <1>1 DEF Written, TypeOK, TypeFiles
<1>4. \A w \in Videos : /\ repair'[w].id = repair[w].id /\ repair'[w].k = repair[w].k
                        /\ repair'[w].ph # "none" => repair[w].ph # "none"
  <2>1. CASE ChildPublishes(v)
    BY <2>1 DEF ChildPublishes
  <2>2. CASE LinePublishes(v)
    <3>1. \A w \in Videos : repair'[w] =
            IF w = v THEN [repair[v] EXCEPT !.ph = "published"] ELSE repair[w]
      BY <2>2 DEF LinePublishes, TypeOK, TypeWorker
    <3>2. repair[v] \in Repair /\ repair[v].ph # "none"
      BY <2>2, FailedTypes DEF LinePublishes
    <3> QED
      BY <3>1, <3>2 DEF Repair
  <2> QED
    BY <2>1, <2>2
<1> QED
  BY <1>1, <1>2, <1>3, <1>4 DEF Writers, ClaimsNumbered, DecidedIsProven

LEMMA WritersDecide ==
  ASSUME TypeOK, Writers, NEW v \in Videos, Decide(v)
  PROVE  Writers'
<1>1. UNCHANGED <<evid, proven, tries, repair>>
  BY DEF Decide, files, ledger
<1> DEFINE full(out) == out \notin {"evidence", "review"} /\ Exhausted(v)
<1>2. PICK out \in Outcomes :
        /\ out = "evidence" => Evidence(v, job[v].id, job[v].k)
        /\ job' = [job EXCEPT ![v].ph = "decided", ![v].out = out, ![v].full = full(out)]
  BY DEF Decide
<1>3. \A w \in Videos : job'[w] =
        IF w = v THEN [job[v] EXCEPT !.ph = "decided", !.out = out, !.full = full(out)]
        ELSE job[w]
  BY <1>2 DEF TypeOK, TypeWorker
<1>4. /\ job'[v].id = job[v].id /\ job'[v].k = job[v].k /\ job'[v].out = out
      /\ job[v].ph # "none"
  BY <1>3, FailedTypes DEF Job, Decide
<1>5. out = "evidence" => <<job[v].id, job[v].k>> \in proven[v]
  BY <1>2 DEF Evidence, Writers, EvidenceKept
<1> QED
  BY <1>1, <1>3, <1>4, <1>5 DEF Writers, EvidenceKept, ClaimsNumbered, DecidedIsProven

LEMMA WritersStep == TypeOK /\ TypeOK' /\ Promise!Next /\ Writers /\ [Next]_vars => Writers'
<1> SUFFICES ASSUME TypeOK, TypeOK', Promise!Next, Writers, [Next]_vars PROVE Writers'
  OBVIOUS
<1>1. ASSUME NEW v \in Videos,
             World(v) \/ Discovery(v) \/ ChildBeats(v) \/ ChildCompletes(v)
      PROVE  Writers'
  BY <1>1, WritersKeep
  DEF World, MediaReplaced, HeartbeatExpires, Discovery, FsEvent, ScanNeedsAi,
      ScanCooldown, ScanFinished, ScanUnwanted, Backfill, ChildBeats, ChildCompletes,
      files, worker
<1>2. ASSUME NEW v \in Videos, Claim(v) PROVE Writers'
  BY <1>2, WritersClaim
<1>3. ASSUME NEW v \in Videos, ClaimRefused(v) \/ SettleRefused(v) PROVE Writers'
  <2>1. AbortCycle(v) /\ UNCHANGED <<evid, proven, tries, repair>>
    BY <1>3 DEF ClaimRefused, SettleRefused, files, ledger
  <2>2. ASSUME NEW w \in Videos
        PROVE  \/ job'[w].ph = "none"
               \/ job'[w] = job[w]
               \/ /\ job'[w].ph = "dropped" /\ job[w].ph # "none"
                  /\ job'[w].id = job[w].id /\ job'[w].k = job[w].k
    <3>1. job'[w] = IF w = v THEN NoJob
                    ELSE IF job[w].ph = "none" THEN job[w]
                    ELSE [job[w] EXCEPT !.ph = "dropped"]
      BY <2>1 DEF AbortCycle
    <3>2. job[w] \in Job
      BY FailedTypes
    <3> QED
      BY <3>1, <3>2 DEF NoJob, Job
  <2> QED
    BY <2>1, <2>2, JobsDropped
<1>4. ASSUME NEW v \in Videos, ChildPublishes(v) \/ LinePublishes(v) PROVE Writers'
  BY <1>4, WritersPublish
<1>5. ASSUME NEW v \in Videos, Decide(v) PROVE Writers'
  BY <1>5, WritersDecide
<1>6. ASSUME NEW v \in Videos, Settle(v) \/ ResultLost(v) PROVE Writers'
  <2>1. job' = [job EXCEPT ![v] = NoJob] /\ UNCHANGED <<evid, proven, tries, repair>>
    BY <1>6 DEF Settle, ResultLost, files, ledger
  <2>2. \A w \in Videos : job'[w].ph = "none" \/ job'[w] = job[w]
    BY <2>1 DEF NoJob, TypeOK, TypeWorker
  <2> QED
    BY <2>1, <2>2, JobsDropped
<1>7. ASSUME NEW v \in Videos, Command(v) \/ Campaign(v) PROVE Writers'
  <2>1. CASE Reprocess(v)
    <3>1. UNCHANGED <<proven, tries, job, repair>>
      BY <2>1 DEF Reprocess, ledger, worker
    <3>2. EvidenceKept'
      BY <2>1, <3>1 DEF Reprocess, Writers, EvidenceKept, TypeOK, TypeFiles
    <3> QED
      BY <3>1, <3>2 DEF Writers, ClaimsNumbered, DecidedIsProven
  <2>2. CASE ~Reprocess(v)
    BY <1>7, <2>2, WritersKeep
    DEF Command, Campaign, Retry, ForceAi, Pause, Skip, Prioritize, Recover,
        SweepQueue, SweepPause, RemediateReview, Control, files, worker
  <2> QED
    BY <2>1, <2>2
<1>8. ASSUME NEW v \in Videos, LineClaim(v) PROVE Writers'
  BY <1>8, WritersLineClaim
<1>9. ASSUME NEW v \in Videos, LineDone(v) \/ LineFailed(v) \/ LineRefused(v)
      PROVE  Writers'
  BY <1>9, RepairEnds DEF LineDone, LineFailed, LineRefused, files, worker, ledger
<1>10. CASE Crash
  BY <1>10 DEF Crash, ledger, files, NoJob, NoRepair, Writers, EvidenceKept,
               ClaimsNumbered, DecidedIsProven
<1>11. CASE Drain \/ Select \/ EndCycle \/ CliRequeueStale \/ RetryAllFailed \/ Restart
  BY <1>11, WritersKeep
  DEF Drain, Select, EndCycle, CliRequeueStale, RetryAllFailed, Restart, files, worker
<1>12. CASE UNCHANGED vars
  BY <1>12, WritersKeep DEF vars, files, worker
<1> QED
  BY <1>1, <1>2, <1>3, <1>4, <1>5, <1>6, <1>7, <1>8, <1>9, <1>10, <1>11, <1>12
  DEF Next, Working, LineRepair

LEMMA LedgerInit == Init => LedgerInv
  BY ConstantsAssumption
  DEF Init, LedgerInv, Numbered, ExcludedWasNeverAttempted, DeliveredIsProven,
      EvidenceKept, ClaimsNumbered, DecidedIsProven, NoJob, NoRepair, Tries

LEMMA LedgerStep == TypeOK /\ LedgerInv /\ [Next]_vars => LedgerInv'
<1> SUFFICES ASSUME TypeOK, LedgerInv, [Next]_vars PROVE LedgerInv'
  OBVIOUS
<1>1. TypeOK' /\ Promise!Next
  BY TypeStep, StepKeepsPromise
<1>2. Numbered' /\ ExcludedWasNeverAttempted' /\ DeliveredIsProven'
  BY <1>1, PromiseKeepsLedger DEF LedgerInv
<1>3. Writers'
  BY <1>1, WritersStep DEF LedgerInv, Writers
<1> QED
  BY <1>2, <1>3 DEF LedgerInv, Writers

\* The ledger's invariant holds for any videos, policies, bounds and lanes.
THEOREM LedgerCorrect == Spec => []LedgerInv
<1>1. Init => TypeOK /\ LedgerInv
  BY TypeInit, LedgerInit
<1>2. TypeOK /\ LedgerInv /\ [Next]_vars => (TypeOK /\ LedgerInv)'
  BY TypeStep, LedgerStep
<1> QED
  BY <1>1, <1>2, PTL DEF Spec

\* Every recorded delivery was proved by a manifest of its own attempt.
THEOREM DeliveryIsProven == Spec => []DeliveredIsProven
<1>1. LedgerInv => DeliveredIsProven
  BY DEF LedgerInv
<1> QED
  BY <1>1, LedgerCorrect, PTL

\* No attempted obligation ever leaves the denominator.
THEOREM ExclusionIsPreAttempt == Spec => []ExcludedWasNeverAttempted
<1>1. LedgerInv => ExcludedWasNeverAttempted
  BY DEF LedgerInv
<1> QED
  BY <1>1, LedgerCorrect, PTL

\* The tables, under all their writers, implement the abstract ledger.
THEOREM LedgerKeepsPromise == Spec => KeepsPromise
<1>1. Init => Promise!Init
  BY DEF Init, Promise!Init, Promise!Tries, Tries
<1>2. TypeOK /\ LedgerInv /\ [Next]_vars => [Promise!Next]_(Promise!vars)
  BY StepKeepsPromise
<1> QED
  BY <1>1, <1>2, TypeCorrect, LedgerCorrect, PTL DEF Spec, KeepsPromise, Promise!Spec

\* Once an attempt has ended, no writer changes how it ended.
THEOREM OutcomesFinal == Spec => OutcomesAreFinal
<1> DEFINE Step == \A v \in Videos, i \in Ids, k \in Tries :
                     att[v][i][k] \notin {"none", "running"} => att'[v][i][k] = att[v][i][k]
<1>1. TypeOK /\ LedgerInv /\ [Next]_vars => [Step]_vars
  <2> SUFFICES ASSUME TypeOK, LedgerInv, [Next]_vars PROVE Step
    OBVIOUS
  <2>1. Promise!Next
    BY StepKeepsPromise
  <2>2. \A v \in Videos, i \in Ids, k \in Tries : Promise!Attempt(v, i, k)
    BY <2>1 DEF Promise!Next, Promise!Tries, Tries
  <2> QED
    BY <2>2 DEF Promise!Attempt
<1> QED
  BY <1>1, TypeCorrect, LedgerCorrect, PTL DEF Spec, OutcomesAreFinal

-----------------------------------------------------------------------------
(* Claimed rows and running attempts. *)

\* No row becomes running but by a claim.
LEMMA RowStatus ==
  ASSUME TypeOK, NEW v \in Videos
  PROVE  /\ Upserted(queue[v], disk[v]).st = "running" => queue[v].st = "running"
         /\ Forced(v).st = "running" => queue[v].st = "running"
         /\ DoneRow(v).st = "done" /\ NoRow.st = "absent"
         /\ Requeued(queue[v]).st = "queued" /\ Paused(queue[v]).st = "paused"
         /\ ManualRow(queue[v]).st = "queued" /\ RemediatedRow(queue[v]).st = "queued"
         /\ RecoveredRow(v).st \in {"queued", "paused"}
<1>1. queue[v] \in Row
  BY RowTypes
<1>2. /\ Requeued(queue[v]).st = "queued" /\ Paused(queue[v]).st = "paused"
      /\ ManualRow(queue[v]).st = "queued" /\ RemediatedRow(queue[v]).st = "queued"
  BY <1>1 DEF Row, Requeued, Paused, ManualRow, RemediatedRow
<1>3. Paused(queue[v]) \in Row
  BY RowTypes
<1>4. RecoveredRow(v).st \in {"queued", "paused"}
  BY <1>2, <1>3 DEF RecoveredRow, Row
<1>5. DoneRow(v).st = "done" /\ NoRow.st = "absent"
  BY DEF DoneRow, NoRow
<1>6. Upserted(queue[v], disk[v]).st = "running" => queue[v].st = "running"
  BY <1>1 DEF Upserted, NoRow, Row
<1>7. ManualRow(queue[v]) \in Row
  BY RowTypes
<1>8. Forced(v).st = "running" => queue[v].st = "running"
  BY <1>1, <1>2, <1>7 DEF Forced, Row
<1> QED
  BY <1>2, <1>4, <1>5, <1>6, <1>8

\* A running attempt of an open obligation stays one as long as it runs: the
\* ledger neither excludes an attempted obligation nor delivers without it.
LEMMA AccountKept ==
  ASSUME TypeOK, Numbered, Promise!Next, NEW v \in Videos, HasRunningTry(v),
         \A i \in Ids, k \in Tries : att[v][i][k] = "running" => att'[v][i][k] = "running",
         \A i \in Ids, k \in Tries : att'[v][i][k] = "succeeded" => att[v][i][k] = "succeeded"
  PROVE  HasRunningTry(v)'
<1>1. PICK i \in Ids, k \in Tries : obl[v][i] = "open" /\ att[v][i][k] = "running"
  BY DEF HasRunningTry, RunningTry
<1>2. k \in Nat /\ k > 0
  BY ConstantsAssumption DEF Tries
<1>3. tries'[v][i] # 0
  BY <1>1, <1>2, TriesGrow DEF Numbered
<1>4. obl'[v][i] = "open"
  <2>1. Promise!Admission(v, i) \/ Promise!Delivery(v, i)
    BY DEF Promise!Next
  <2>2. ~Promise!Delivery(v, i)
    BY DEF Promise!Delivery, Promise!Tries, Tries
  <2> QED
    BY <1>1, <1>3, <2>1, <2>2 DEF Promise!Admission
<1> QED
  BY <1>1, <1>4 DEF HasRunningTry, RunningTry

LEMMA BegunIsAccounted ==
  ASSUME TypeOK, NEW v \in Videos, NEW late \in SUBSET Unattempted(v),
         Begin(v, Cur(v)), Ensured(v, Cur(v), late)[Cur(v)] = "open",
         obl' = [obl EXCEPT ![v] = Ensured(v, Cur(v), late)]
  PROVE  HasRunningTry(v)'
<1> DEFINE c == Cur(v)
           n == tries[v][c] + 1
<1>1. c \in Ids /\ n \in Tries
  <2>1. c \in Ids /\ tries[v][c] \in 0..MaxTries
    BY IdTypes DEF TypeOK, TypeLedger
  <2> QED
    BY <2>1, ConstantsAssumption DEF Begin, Tries
<1>2. att'[v][c][n] = "running" /\ obl'[v][c] = "open"
  BY <1>1 DEF Begin, TypeOK, TypeLedger
<1> QED
  BY <1>1, <1>2 DEF HasRunningTry, RunningTry

\* A claim begins an attempt of its own video and touches no other.
LEMMA ClaimAccounts ==
  ASSUME TypeOK, RunningRowIsAccounted, Numbered, Promise!Next,
         NEW v \in Videos, Claim(v) \/ LineClaim(v),
         NEW w \in Videos, queue'[w].st = "running"
  PROVE  HasRunningTry(w)'
<1>1. PICK late \in SUBSET Unattempted(v) :
        /\ Ensured(v, Cur(v), late)[Cur(v)] = "open"
        /\ obl' = [obl EXCEPT ![v] = Ensured(v, Cur(v), late)]
  BY DEF Claim, LineClaim
<1>2. Begin(v, Cur(v))
  BY DEF Claim, LineClaim
<1>3. CASE w = v
  BY <1>1, <1>2, <1>3, BegunIsAccounted
<1>4. CASE w # v
  <2>1. queue'[w] = queue[w]
    BY <1>4 DEF Claim, LineClaim, SetRow, TypeOK, TypeQueue
  <2>2. att'[w] = att[w]
    BY <1>2, <1>4 DEF Begin, TypeOK, TypeLedger
  <2>3. HasRunningTry(w)
    BY <2>1 DEF RunningRowIsAccounted
  <2> QED
    BY <2>2, <2>3, AccountKept
<1> QED
  BY <1>3, <1>4

LEMMA SettleAccounts ==
  ASSUME TypeOK, RunningRowIsAccounted, Numbered, Promise!Next,
         NEW v \in Videos, Settle(v), NEW w \in Videos, queue'[w].st = "running"
  PROVE  HasRunningTry(w)'
<1> DEFINE j == job[v]
<1>1. job[v] \in Job /\ j.id \in Ids
  BY FailedTypes DEF Job
<1>2. att' = [att EXCEPT ![v][j.id][j.k] = Verdict(j)]
  BY DEF Settle
<1>3. CASE w # v
  <2>1. queue'[w] = queue[w]
    BY <1>3 DEF Settle, SetRow, TypeOK, TypeQueue
  <2>2. att'[w] = att[w]
    BY <1>2, <1>3 DEF TypeOK, TypeLedger
  <2>3. HasRunningTry(w)
    BY <2>1 DEF RunningRowIsAccounted
  <2> QED
    BY <2>2, <2>3, AccountKept
<1>4. CASE w = v /\ j.out = "evidence" /\ StillClaimed(v, j.id)
  <2>1. PICK i \in Ids \ {j.id}, n \in Tries : obl[v][i] = "open" /\ att[v][i][n] = "running"
    BY <1>4 DEF StillClaimed, RunningTry
  <2>2. obl' = [obl EXCEPT ![v][j.id] = "succeeded"]
    BY <1>4 DEF Settle
  <2>3. obl'[v][i] = "open" /\ att'[v][i][n] = "running"
    BY <1>1, <1>2, <2>1, <2>2 DEF TypeOK, TypeLedger
  <2> QED
    BY <1>4, <2>1, <2>3 DEF HasRunningTry, RunningTry
<1>5. CASE w = v /\ ~(j.out = "evidence" /\ StillClaimed(v, j.id))
  <2>1. queue'[v] \in {DoneRow(v), FailedRow(queue[v], j), queue[v]}
        /\ (queue'[v] = queue[v] => ~Present(v) \/ queue[v].st # "running"
                                    \/ queue[v] \in {DoneRow(v), FailedRow(queue[v], j)})
    BY <1>5 DEF Settle, SetRow, TypeOK, TypeQueue
  <2>2. queue[v] \in Row /\ DoneRow(v).st # "running"
    BY RowTypes, RowStatus
  <2>3. FailedRow(queue[v], j).st # "running"
    BY <2>2 DEF FailedRow, Row
  <2> QED
    BY <1>5, <2>1, <2>2, <2>3 DEF Present
<1> QED
  BY <1>3, <1>4, <1>5

\* A step that leaves the attempts alone and claims no row.
LEMMA UnclaimedStep ==
  ASSUME TypeOK, RunningRowIsAccounted, Numbered, Promise!Next, UNCHANGED att,
         NEW w \in Videos, queue'[w].st = "running" => queue[w].st = "running"
  PROVE  queue'[w].st = "running" => HasRunningTry(w)'
  BY AccountKept DEF RunningRowIsAccounted

LEMMA AccountStep ==
  TypeOK /\ LedgerInv /\ RunningRowIsAccounted /\ [Next]_vars => RunningRowIsAccounted'
<1> SUFFICES ASSUME TypeOK, LedgerInv, RunningRowIsAccounted, [Next]_vars,
                    NEW w \in Videos, queue'[w].st = "running"
             PROVE  HasRunningTry(w)'
  BY DEF RunningRowIsAccounted
<1> USE DEF LedgerInv
<1>0. Promise!Next
  BY StepKeepsPromise
<1>1. ASSUME NEW v \in Videos,
             \/ World(v) \/ ScanCooldown(v) \/ Backfill(v) \/ ClaimRefused(v)
             \/ ChildBeats(v) \/ ChildPublishes(v) \/ ChildCompletes(v) \/ Decide(v)
             \/ SettleRefused(v) \/ ResultLost(v) \/ LinePublishes(v) \/ LineRefused(v)
      PROVE  HasRunningTry(w)'
  <2>1. UNCHANGED <<queue, att>>
    BY <1>1 DEF World, MediaReplaced, HeartbeatExpires, ScanCooldown, Backfill,
                ClaimRefused, ChildBeats, ChildPublishes, ChildCompletes, Decide,
                SettleRefused, ResultLost, LinePublishes, LineRefused, ledger
  <2> QED
    BY <1>0, <2>1, UnclaimedStep
<1>2. ASSUME NEW v \in Videos,
             \/ FsEvent(v) \/ ScanNeedsAi(v) \/ ScanFinished(v) \/ ScanUnwanted(v)
             \/ Reprocess(v) \/ ForceAi(v)
      PROVE  HasRunningTry(w)'
  <2>1. PICK r \in {Upserted(queue[v], disk[v]), DoneRow(v), NoRow,
                    RemediatedRow(queue[v]), Forced(v)} : SetRow(v, r)
    BY <1>2 DEF FsEvent, ScanNeedsAi, ScanFinished, ScanUnwanted, Reprocess, ForceAi
  <2>2. UNCHANGED att
    BY <1>2 DEF FsEvent, ScanNeedsAi, ScanFinished, ScanUnwanted, Reprocess, ForceAi, ledger
  <2>3. queue'[w] = IF w = v THEN r ELSE queue[w]
    BY <2>1 DEF SetRow, TypeOK, TypeQueue
  <2>4. r.st = "running" => queue[v].st = "running"
    BY <2>1, RowStatus
  <2> QED
    BY <1>0, <2>2, <2>3, <2>4, UnclaimedStep
<1>3. ASSUME NEW v \in Videos,
             \/ Retry(v) \/ Pause(v) \/ Skip(v) \/ Prioritize(v)
             \/ SweepQueue(v) \/ SweepPause(v) \/ RemediateReview(v)
      PROVE  HasRunningTry(w)'
  <2>1. PICK r \in {ManualRow(queue[v]), Paused(queue[v]),
                    [Paused(queue[v]) EXCEPT !.st = "skipped", !.force = FALSE],
                    [Requeued(queue[v]) EXCEPT !.src = "other"],
                    [Paused(queue[v]) EXCEPT !.src = "other"],
                    RemediatedRow(queue[v])} : Control(v, r)
    BY <1>3 DEF Retry, Pause, Skip, Prioritize, SweepQueue, SweepPause, RemediateReview
  <2>2. UNCHANGED att /\ SetRow(v, r)
    BY <2>1 DEF Control, ledger
  <2>3. queue'[w] = IF w = v THEN r ELSE queue[w]
    BY <2>2 DEF SetRow, TypeOK, TypeQueue
  <2>4. Requeued(queue[v]) \in Row /\ Paused(queue[v]) \in Row
    BY RowTypes
  <2>5. r.st # "running"
    BY <2>1, <2>4, RowStatus DEF Row
  <2> QED
    BY <1>0, <2>2, <2>3, <2>5, UnclaimedStep
<1>4. CASE Select \/ EndCycle \/ Crash \/ UNCHANGED vars
  <2>1. UNCHANGED <<queue, att>>
    BY <1>4 DEF Select, EndCycle, Crash, vars, ledger
  <2> QED
    BY <1>0, <2>1, UnclaimedStep
<1>5. CASE RetryAllFailed
  <2>1. queue'[w] = IF queue[w].st = "failed_retry" THEN ManualRow(queue[w]) ELSE queue[w]
    BY <1>5 DEF RetryAllFailed
  <2>2. UNCHANGED att
    BY <1>5 DEF RetryAllFailed, ledger
  <2> QED
    BY <1>0, <2>1, <2>2, RowStatus, UnclaimedStep
<1>6. CASE Drain \/ CliRequeueStale
  <2>1. RequeueStale
    BY <1>6 DEF Drain, CliRequeueStale
  <2>2. queue'[w] = queue[w] /\ att'[w] = att[w]
    BY <2>1, RowStatus DEF RequeueStale
  <2>3. HasRunningTry(w)
    BY <2>2 DEF RunningRowIsAccounted
  <2> QED
    BY <1>0, <2>2, <2>3, AccountKept
<1>7. ASSUME NEW v \in Videos, Recover(v) PROVE HasRunningTry(w)'
  <2>1. Requeued(queue[v]) \in Row
    BY RowTypes
  <2>2. w # v
    BY <1>7, <2>1, RowStatus DEF Recover, SetRow, TypeOK, TypeQueue, Row
  <2>3. queue'[w] = queue[w] /\ att'[w] = att[w]
    BY <1>7, <2>2 DEF Recover, SetRow, TypeOK, TypeQueue, TypeLedger
  <2>4. HasRunningTry(w)
    BY <2>3 DEF RunningRowIsAccounted
  <2> QED
    BY <1>0, <2>3, <2>4, AccountKept
<1>8. ASSUME NEW v \in Videos, Claim(v) \/ LineClaim(v) PROVE HasRunningTry(w)'
  BY <1>0, <1>8, ClaimAccounts
<1>9. ASSUME NEW v \in Videos, Settle(v) PROVE HasRunningTry(w)'
  BY <1>0, <1>9, SettleAccounts
<1>10. ASSUME NEW v \in Videos, LineDone(v) \/ LineFailed(v) PROVE HasRunningTry(w)'
  <2>1. repair[v] \in Repair /\ queue[v] \in Row
    BY FailedTypes, RowTypes
  <2>0. ASSUME LineDone(v) PROVE queue'[v].st # "running"
    BY <2>0, <2>1 DEF LineDone, SetRow, TypeOK, TypeQueue, Row
  <2>5. ASSUME LineFailed(v) PROVE queue'[v].st # "running"
    <3>1. queue'[v] = [queue[v] EXCEPT !.st = repair[v].st, !.src = repair[v].src,
                                       !.own = FALSE]
      BY <2>5 DEF LineFailed, SetRow, TypeOK, TypeQueue
    <3>2. queue'[v].st = repair[v].st
      BY <2>1, <3>1 DEF Row
    <3> QED
      BY <2>1, <3>2 DEF Repair
  <2>2. w # v
    BY <1>10, <2>0, <2>5
  <2>3. queue'[w] = queue[w] /\ att'[w] = att[w]
    BY <1>10, <2>2 DEF LineDone, LineFailed, SetRow, TypeOK, TypeQueue, TypeLedger
  <2>4. HasRunningTry(w)
    BY <2>3 DEF RunningRowIsAccounted
  <2> QED
    BY <1>0, <2>3, <2>4, AccountKept
<1>11. CASE Restart
  <2>1. PICK p \in [Videos -> Ids \X (0..MaxTries)] :
          queue' = [v \in Videos |-> RestartRow(v, p[v])]
    BY <1>11 DEF Restart
  <2>2. RestartRow(w, p[w]).st # "running"
    BY RowStatus DEF RestartRow
  <2> QED
    BY <2>1, <2>2
<1> QED
  BY <1>1, <1>2, <1>3, <1>4, <1>5, <1>6, <1>7, <1>8, <1>9, <1>10, <1>11
  DEF Next, Discovery, Working, Command, Campaign, LineRepair

\* Every claimed row is backed by a running attempt of an open obligation.
THEOREM ClaimsAccounted == Spec => []RunningRowIsAccounted
<1>1. Init => RunningRowIsAccounted
  BY DEF Init, NoRow, RunningRowIsAccounted
<1>2. TypeOK /\ LedgerInv /\ RunningRowIsAccounted /\ [Next]_vars => RunningRowIsAccounted'
  BY AccountStep
<1> QED
  BY <1>1, <1>2, TypeCorrect, LedgerCorrect, PTL DEF Spec

-----------------------------------------------------------------------------
(* The retry budget.  What makes it inductive: a verdict that was decided    *)
(* under the budget stays under it until it is settled, and so does the row  *)
(* that a line repair will restore.                                          *)

RowBudget(r) == r.st = "failed_retry" => r.att < MaxAttempts
JobBudget(r, j) == j.ph = "decided" /\ j.out \notin {"evidence", "review"} /\ ~j.full
                     => r.att + 1 < MaxAttempts
RepairBudget(r, p) == p.ph # "none" /\ p.st = "failed_retry"
                        /\ r.own /\ r.st = "running" => r.att < MaxAttempts
Budgeted(r, j, p) == RowBudget(r) /\ JobBudget(r, j) /\ RepairBudget(r, p)

BudgetInv == MaxAttempts > 0 => \A v \in Videos : Budgeted(queue[v], job[v], repair[v])

\* A row written without spending budget and without a claim of its own.
Tame(new, r) == /\ new.att <= r.att
                /\ new.st = "failed_retry" => r.st = "failed_retry"
                /\ new.own /\ new.st = "running" => r.own /\ r.st = "running"

LEMMA TameRows ==
  ASSUME TypeOK, NEW v \in Videos
  PROVE  /\ Tame(Upserted(queue[v], disk[v]), queue[v])
         /\ Tame(DoneRow(v), queue[v]) /\ Tame(NoRow, queue[v])
         /\ Tame(queue[v], queue[v])
         /\ Tame(Forced(v), queue[v]) /\ Tame(RecoveredRow(v), queue[v])
         /\ \A r \in {ManualRow(queue[v]), Paused(queue[v]), Requeued(queue[v]),
                      RemediatedRow(queue[v])} : Tame(r, queue[v])
<1>1. /\ queue[v] \in Row /\ queue[v].att \in Nat
      /\ Requeued(queue[v]) \in Row /\ Paused(queue[v]) \in Row
      /\ ManualRow(queue[v]) \in Row
  <2>1. queue[v] \in Row
    BY RowTypes
  <2> QED
    BY <2>1, RowTypes, ConstantsAssumption DEF Row
<1>2. Tame(queue[v], queue[v]) /\ Tame(NoRow, queue[v]) /\ Tame(DoneRow(v), queue[v])
  BY <1>1 DEF Tame, NoRow, DoneRow
<1>3. Tame(Requeued(queue[v]), queue[v]) /\ Tame(Paused(queue[v]), queue[v])
  BY <1>1 DEF Tame, Requeued, Paused, Row
<1>4. Tame(ManualRow(queue[v]), queue[v]) /\ Tame(RemediatedRow(queue[v]), queue[v])
  BY <1>1 DEF Tame, ManualRow, RemediatedRow, Requeued, Row
<1>5. Tame(RecoveredRow(v), queue[v])
  <2>1. Tame([Paused(queue[v]) EXCEPT !.src = "other"], queue[v])
    BY <1>1 DEF Tame, Paused, Row
  <2> QED
    BY <1>3, <2>1 DEF RecoveredRow
<1>6. Tame(Upserted(queue[v], disk[v]), queue[v])
  <2>1. Tame([NoRow EXCEPT !.st = "queued", !.media = disk[v]], queue[v])
    BY <1>1 DEF Tame, NoRow
  <2>2. Tame([queue[v] EXCEPT !.media = disk[v]], queue[v])
    BY <1>1 DEF Tame, Row
  <2>3. Tame([queue[v] EXCEPT !.st = "queued", !.media = disk[v], !.src = "other",
                              !.link = NoLink], queue[v])
    BY <1>1 DEF Tame, Row
  <2> QED
    BY <1>2, <2>1, <2>2, <2>3 DEF Upserted
<1>7. Tame(Forced(v), queue[v])
  <2>1. Tame([queue[v] EXCEPT !.force = TRUE, !.src = "other"], queue[v])
    BY <1>1 DEF Tame, Row
  <2>2. Tame([ManualRow(queue[v]) EXCEPT !.force = TRUE, !.media = disk[v]], queue[v])
    BY <1>1, <1>4 DEF Tame, Row
  <2> QED
    BY <2>1, <2>2 DEF Forced
<1> QED
  BY <1>2, <1>3, <1>4, <1>5, <1>6, <1>7

\* Tame writes keep the budget while no verdict and no repair is added.
LEMMA TameStep ==
  ASSUME TypeOK, TypeOK', NEW v \in Videos, Budgeted(queue[v], job[v], repair[v]),
         Tame(queue'[v], queue[v]),
         job'[v] = job[v] \/ job'[v].ph # "decided",
         \/ repair'[v].ph = "none"
         \/ repair[v].ph # "none" /\ repair'[v].st = repair[v].st
  PROVE  Budgeted(queue'[v], job'[v], repair'[v])
<1>1. queue[v] \in Row /\ queue'[v] \in Row
  BY DEF TypeOK, TypeQueue
<1>2. queue[v].att \in Nat /\ queue'[v].att \in Nat
  BY <1>1, ConstantsAssumption DEF Row
<1>3. RowBudget(queue'[v])
  BY <1>2, ConstantsAssumption DEF Tame, Budgeted, RowBudget
<1>4. JobBudget(queue'[v], job'[v])
  BY <1>2, ConstantsAssumption DEF Tame, Budgeted, JobBudget
<1>5. RepairBudget(queue'[v], repair'[v])
  <2> SUFFICES ASSUME repair'[v].ph # "none", repair'[v].st = "failed_retry",
                      queue'[v].own, queue'[v].st = "running"
               PROVE  queue'[v].att < MaxAttempts
    BY DEF RepairBudget
  <2>1. repair[v].ph # "none" /\ repair[v].st = "failed_retry"
    OBVIOUS
  <2>2. queue[v].own /\ queue[v].st = "running"
    BY DEF Tame
  <2>3. queue[v].att < MaxAttempts
    BY <2>1, <2>2 DEF Budgeted, RepairBudget
  <2> QED
    BY <1>2, <2>3, ConstantsAssumption DEF Tame
<1> QED
  BY <1>3, <1>4, <1>5 DEF Budgeted

\* The row a failed attempt leaves behind, when the verdict kept the budget.
LEMMA FailedBudget ==
  ASSUME TypeOK, MaxAttempts > 0, NEW v \in Videos, JobBudget(queue[v], job[v]),
         job[v].ph = "decided", job[v].out # "evidence"
  PROVE  /\ RowBudget(FailedRow(queue[v], job[v]))
         /\ ~FailedRow(queue[v], job[v]).own
<1>1. queue[v] \in Row /\ job[v] \in Job
  BY RowTypes, FailedTypes
<1>2. queue[v].att \in Nat /\ job[v].full \in BOOLEAN
  BY <1>1, ConstantsAssumption DEF Row, Job
<1>3. FailedRow(queue[v], job[v]).own = FALSE
  BY <1>1 DEF FailedRow, Row
<1>4. /\ FailedRow(queue[v], job[v]).st =
           IF job[v].out = "review" \/ job[v].full THEN "paused" ELSE "failed_retry"
      /\ FailedRow(queue[v], job[v]).att =
           IF queue[v].att < MaxAttempts THEN queue[v].att + 1 ELSE queue[v].att
  BY <1>1 DEF FailedRow, Row
<1>5. CASE job[v].out = "review" \/ job[v].full
  <2>1. FailedRow(queue[v], job[v]).st = "paused"
    BY <1>2, <1>4, <1>5
  <2> QED
    BY <1>3, <2>1 DEF RowBudget
<1>6. CASE ~(job[v].out = "review" \/ job[v].full)
  <2>1. queue[v].att + 1 < MaxAttempts
    BY <1>6 DEF JobBudget
  <2>2. FailedRow(queue[v], job[v]).att < MaxAttempts
    BY <1>2, <1>4, <2>1, ConstantsAssumption
  <2> QED
    BY <1>3, <2>2 DEF RowBudget
<1> QED
  BY <1>3, <1>5, <1>6

LEMMA SettleBudget ==
  ASSUME TypeOK, TypeOK', MaxAttempts > 0, NEW v \in Videos, Settle(v),
         Budgeted(queue[v], job[v], repair[v])
  PROVE  Budgeted(queue'[v], job'[v], repair'[v])
<1>1. job'[v].ph = "none" /\ repair'[v] = repair[v] /\ job[v].ph = "decided"
  BY DEF Settle, NoJob, TypeOK, TypeWorker
<1>2. queue'[v] \in {queue[v], DoneRow(v)} \/
      (job[v].out # "evidence" /\ queue'[v] = FailedRow(queue[v], job[v]))
  BY DEF Settle, SetRow, TypeOK, TypeQueue
<1>3. CASE queue'[v] \in {queue[v], DoneRow(v)}
  BY <1>1, <1>3, TameRows, TameStep
<1>4. CASE job[v].out # "evidence" /\ queue'[v] = FailedRow(queue[v], job[v])
  <2>1. RowBudget(queue'[v]) /\ ~queue'[v].own
    BY <1>1, <1>4, FailedBudget DEF Budgeted
  <2> QED
    BY <1>1, <2>1 DEF Budgeted, JobBudget, RepairBudget
<1> QED
  BY <1>2, <1>3, <1>4

LEMMA DecideBudget ==
  ASSUME TypeOK, MaxAttempts > 0, NEW v \in Videos, Decide(v),
         Budgeted(queue[v], job[v], repair[v])
  PROVE  Budgeted(queue'[v], job'[v], repair'[v])
<1>1. PICK out \in Outcomes :
        job' = [job EXCEPT ![v].ph = "decided", ![v].out = out,
                           ![v].full = out \notin {"evidence", "review"} /\ Exhausted(v)]
  BY DEF Decide
<1>2. queue' = queue /\ repair' = repair
  BY DEF Decide
<1>3. job'[v].out = out /\ job'[v].full = (out \notin {"evidence", "review"} /\ Exhausted(v))
  <2>1. job'[v] = [job[v] EXCEPT !.ph = "decided", !.out = out,
                     !.full = out \notin {"evidence", "review"} /\ Exhausted(v)]
    BY <1>1 DEF TypeOK, TypeWorker
  <2>2. job[v] \in Job
    BY FailedTypes
  <2> QED
    BY <2>1, <2>2 DEF Job
<1>4. ASSUME job'[v].out \notin {"evidence", "review"}, ~job'[v].full
      PROVE  queue[v].att + 1 < MaxAttempts
  <2>1. ~Exhausted(v)
    BY <1>3, <1>4
  <2>2. queue[v].att \in Nat
    BY RowTypes, ConstantsAssumption DEF Row
  <2> QED
    BY <2>1, <2>2, ConstantsAssumption DEF Exhausted
<1> QED
  BY <1>2, <1>4 DEF Budgeted, JobBudget

LEMMA LineBudget ==
  ASSUME TypeOK, TypeOK', MaxAttempts > 0, NEW v \in Videos,
         LineClaim(v) \/ LineDone(v) \/ LineFailed(v),
         Budgeted(queue[v], job[v], repair[v])
  PROVE  Budgeted(queue'[v], job'[v], repair'[v])
<1>1. queue[v] \in Row /\ queue[v].att \in Nat /\ repair[v] \in Repair
  BY RowTypes, FailedTypes, ConstantsAssumption DEF Row
<1>2. CASE LineClaim(v)
  <2>1. queue'[v] = [queue[v] EXCEPT !.st = "running", !.src = "line", !.own = TRUE]
    BY <1>2 DEF LineClaim, SetRow, TypeOK, TypeQueue
  <2>2. queue'[v].st = "running" /\ queue'[v].att = queue[v].att
    BY <1>1, <2>1 DEF Row
  <2>3. job'[v] = job[v] /\ repair'[v].st = queue[v].st
    BY <1>2 DEF LineClaim, worker, TypeOK, TypeWorker
  <2> QED
    BY <2>2, <2>3 DEF Budgeted, RowBudget, JobBudget, RepairBudget
<1>3. CASE LineDone(v)
  <2>1. queue'[v] = [queue[v] EXCEPT !.st = "done", !.att = 0, !.err = FALSE,
                                     !.force = FALSE, !.own = FALSE, !.link = NoLink]
    BY <1>3 DEF LineDone, SetRow, TypeOK, TypeQueue
  <2>2. Tame(queue'[v], queue[v])
    BY <1>1, <2>1 DEF Tame, Row
  <2>3. job'[v] = job[v] /\ repair'[v].ph = "none"
    BY <1>3 DEF LineDone, LineEnds, NoRepair, worker, TypeOK, TypeWorker
  <2> QED
    BY <2>2, <2>3, TameStep
<1>4. CASE LineFailed(v)
  <2>1. queue'[v] = [queue[v] EXCEPT !.st = repair[v].st, !.src = repair[v].src,
                                     !.own = FALSE]
    BY <1>4 DEF LineFailed, SetRow, TypeOK, TypeQueue
  <2>2. queue'[v].st = repair[v].st /\ queue'[v].att = queue[v].att /\ ~queue'[v].own
    BY <1>1, <2>1 DEF Row
  <2>3. job'[v] = job[v] /\ repair'[v].ph = "none"
    BY <1>4 DEF LineFailed, LineEnds, NoRepair, worker, TypeOK, TypeWorker
  <2>4. repair[v].ph # "none" /\ queue[v].own /\ queue[v].st = "running"
    BY <1>4 DEF LineFailed, LineOwned
  <2> QED
    BY <2>2, <2>3, <2>4 DEF Budgeted, RowBudget, JobBudget, RepairBudget
<1> QED
  BY <1>2, <1>3, <1>4

\* A step that writes one row tamely and touches neither verdicts nor repairs.
LEMMA TameWrite ==
  ASSUME TypeOK, TypeOK', BudgetInv, MaxAttempts > 0, NEW v \in Videos,
         NEW r, SetRow(v, r), Tame(r, queue[v]), UNCHANGED repair,
         \A u \in Videos : job'[u] = job[u] \/ job'[u].ph # "decided"
  PROVE  BudgetInv'
<1>1. ASSUME NEW w \in Videos PROVE Tame(queue'[w], queue[w])
  BY <1>1, TameRows DEF SetRow, TypeOK, TypeQueue
<1>2. ASSUME NEW w \in Videos PROVE Budgeted(queue'[w], job'[w], repair'[w])
  BY <1>1, TameStep DEF BudgetInv
<1> QED
  BY <1>2 DEF BudgetInv

\* A step of one video: the others keep their row, verdict and repair.
LEMMA OwnStep ==
  ASSUME BudgetInv, MaxAttempts > 0, NEW v \in Videos,
         \A u \in Videos \ {v} : /\ queue'[u] = queue[u] /\ job'[u] = job[u]
                                 /\ repair'[u] = repair[u],
         Budgeted(queue[v], job[v], repair[v]) => Budgeted(queue'[v], job'[v], repair'[v])
  PROVE  BudgetInv'
  BY DEF BudgetInv

\* A step that writes every row tamely, and adds no verdict and no repair.
LEMMA TameWrites ==
  ASSUME TypeOK, TypeOK', BudgetInv, MaxAttempts > 0,
         \A u \in Videos : /\ Tame(queue'[u], queue[u])
                           /\ job'[u] = job[u] \/ job'[u].ph # "decided"
                           /\ repair'[u] = repair[u] \/ repair'[u].ph = "none"
  PROVE  BudgetInv'
<1>1. ASSUME NEW w \in Videos PROVE Budgeted(queue'[w], job'[w], repair'[w])
  BY TameStep DEF BudgetInv
<1> QED
  BY <1>1 DEF BudgetInv

LEMMA BudgetStep == TypeOK /\ BudgetInv /\ [Next]_vars => BudgetInv'
<1> SUFFICES ASSUME TypeOK, BudgetInv, [Next]_vars, MaxAttempts > 0 PROVE BudgetInv'
  BY DEF BudgetInv
<1>0. TypeOK'
  BY TypeStep
<1>1. ASSUME NEW v \in Videos,
             \/ World(v) \/ ScanCooldown(v) \/ Backfill(v) \/ ChildBeats(v)
             \/ ChildPublishes(v) \/ ChildCompletes(v)
      PROVE  BudgetInv'
  <2>1. UNCHANGED <<queue, job, repair>>
    BY <1>1 DEF World, MediaReplaced, HeartbeatExpires, ScanCooldown, Backfill,
                ChildBeats, ChildPublishes, ChildCompletes, worker
  <2> QED
    BY <2>1 DEF BudgetInv
<1>2. ASSUME NEW v \in Videos,
             \/ FsEvent(v) \/ ScanNeedsAi(v) \/ ScanFinished(v) \/ ScanUnwanted(v)
             \/ Reprocess(v) \/ ForceAi(v)
      PROVE  BudgetInv'
  <2>1. PICK r \in {Upserted(queue[v], disk[v]), DoneRow(v), NoRow,
                    RemediatedRow(queue[v]), Forced(v)} : SetRow(v, r)
    BY <1>2 DEF FsEvent, ScanNeedsAi, ScanFinished, ScanUnwanted, Reprocess, ForceAi
  <2>2. UNCHANGED <<job, repair>>
    BY <1>2 DEF FsEvent, ScanNeedsAi, ScanFinished, ScanUnwanted, Reprocess, ForceAi, worker
  <2> QED
    BY <1>0, <2>1, <2>2, TameRows, TameWrite
<1>3. ASSUME NEW v \in Videos,
             \/ Retry(v) \/ Pause(v) \/ Skip(v) \/ Prioritize(v) \/ Recover(v)
             \/ SweepQueue(v) \/ SweepPause(v) \/ RemediateReview(v)
      PROVE  BudgetInv'
  <2>1. PICK r \in {ManualRow(queue[v]), Paused(queue[v]), RecoveredRow(v),
                    [Paused(queue[v]) EXCEPT !.st = "skipped", !.force = FALSE],
                    [Requeued(queue[v]) EXCEPT !.src = "other"],
                    [Requeued(queue[v]) EXCEPT !.att = 0, !.src = "other"],
                    [Paused(queue[v]) EXCEPT !.src = "other"],
                    RemediatedRow(queue[v])} : SetRow(v, r)
    BY <1>3 DEF Retry, Pause, Skip, Prioritize, Recover, SweepQueue, SweepPause,
                RemediateReview, Control
  <2>2. UNCHANGED <<job, repair>>
    BY <1>3 DEF Retry, Pause, Skip, Prioritize, Recover, SweepQueue, SweepPause,
                RemediateReview, Control, worker
  <2>3. Tame(r, queue[v])
    <3>1. /\ Requeued(queue[v]) \in Row /\ Paused(queue[v]) \in Row /\ queue[v] \in Row
          /\ queue[v].att \in Nat
      BY RowTypes, ConstantsAssumption DEF Row
    <3>2. Tame(Requeued(queue[v]), queue[v]) /\ Tame(Paused(queue[v]), queue[v])
      BY TameRows
    <3>3. /\ Tame([Paused(queue[v]) EXCEPT !.st = "skipped", !.force = FALSE], queue[v])
          /\ Tame([Requeued(queue[v]) EXCEPT !.src = "other"], queue[v])
          /\ Tame([Paused(queue[v]) EXCEPT !.src = "other"], queue[v])
      BY <3>1, <3>2 DEF Tame, Row
    <3>4. Tame([Requeued(queue[v]) EXCEPT !.att = 0, !.src = "other"], queue[v])
      BY <3>1, <3>2 DEF Tame, Row
    <3> QED
      BY <2>1, <3>3, <3>4, TameRows
  <2> QED
    BY <1>0, <2>1, <2>2, <2>3, TameWrite
<1>4. ASSUME NEW v \in Videos, Claim(v) PROVE BudgetInv'
  <2>1. PICK r : /\ SetRow(v, r)
                 /\ r \in {queue[v], [queue[v] EXCEPT !.st = "running", !.own = FALSE,
                                                      !.link = NoLink]}
    BY <1>4 DEF Claim
  <2>2. queue[v] \in Row /\ queue[v].att \in Nat
    BY RowTypes, ConstantsAssumption DEF Row
  <2>3. Tame(r, queue[v])
    BY <2>1, <2>2, TameRows DEF Tame, Row
  <2>4. \A u \in Videos : job'[u] = job[u] \/ job'[u].ph # "decided"
    BY <1>4 DEF Claim, NoJob, TypeOK, TypeWorker
  <2> QED
    BY <1>0, <1>4, <2>1, <2>3, <2>4, TameWrite DEF Claim
<1>5. ASSUME NEW v \in Videos, ClaimRefused(v) \/ SettleRefused(v) PROVE BudgetInv'
  <2>1. AbortCycle(v) /\ UNCHANGED <<queue, repair>>
    BY <1>5 DEF ClaimRefused, SettleRefused
  <2>2. ASSUME NEW u \in Videos PROVE job'[u] = job[u] \/ job'[u].ph # "decided"
    <3>1. job[u] \in Job
      BY FailedTypes
    <3> QED
      BY <2>1, <3>1 DEF AbortCycle, NoJob, Job
  <2> QED
    BY <1>0, <2>1, <2>2, TameRows, TameWrites
<1>6. ASSUME NEW v \in Videos, ResultLost(v) \/ LinePublishes(v) \/ LineRefused(v)
      PROVE  BudgetInv'
  <2>1. \A u \in Videos \ {v} : /\ queue'[u] = queue[u] /\ job'[u] = job[u]
                                /\ repair'[u] = repair[u]
    BY <1>6 DEF ResultLost, LinePublishes, LineRefused, LineEnds, worker, TypeOK, TypeWorker
  <2>2. queue' = queue /\ (job'[v] = job[v] \/ job'[v].ph # "decided")
    BY <1>6 DEF ResultLost, LinePublishes, LineRefused, worker, NoJob, TypeOK, TypeWorker
  <2>3. \/ repair'[v].ph = "none"
        \/ repair[v].ph # "none" /\ repair'[v].st = repair[v].st
        \/ repair' = repair
    <3>1. repair[v] \in Repair
      BY FailedTypes
    <3> QED
      BY <1>6, <3>1 DEF ResultLost, LinePublishes, LineRefused, LineEnds, NoRepair,
                        Repair, TypeOK, TypeWorker
  <2> QED
    BY <1>0, <2>1, <2>2, <2>3, TameRows, TameStep, OwnStep
<1>7. ASSUME NEW v \in Videos, Decide(v) PROVE BudgetInv'
  <2>1. \A u \in Videos \ {v} : /\ queue'[u] = queue[u] /\ job'[u] = job[u]
                                /\ repair'[u] = repair[u]
    BY <1>7 DEF Decide, TypeOK, TypeWorker
  <2> QED
    BY <1>7, <2>1, DecideBudget, OwnStep
<1>8. ASSUME NEW v \in Videos, Settle(v) PROVE BudgetInv'
  <2>1. \A u \in Videos \ {v} : /\ queue'[u] = queue[u] /\ job'[u] = job[u]
                                /\ repair'[u] = repair[u]
    BY <1>8 DEF Settle, SetRow, TypeOK, TypeWorker, TypeQueue
  <2> QED
    BY <1>0, <1>8, <2>1, SettleBudget, OwnStep
<1>9. ASSUME NEW v \in Videos, LineClaim(v) \/ LineDone(v) \/ LineFailed(v)
      PROVE  BudgetInv'
  <2>1. \A u \in Videos \ {v} : /\ queue'[u] = queue[u] /\ job'[u] = job[u]
                                /\ repair'[u] = repair[u]
    BY <1>9 DEF LineClaim, LineDone, LineFailed, LineEnds, SetRow, worker,
                TypeOK, TypeWorker, TypeQueue
  <2> QED
    BY <1>0, <1>9, <2>1, LineBudget, OwnStep
<1>10. CASE Select \/ EndCycle \/ UNCHANGED vars
  BY <1>10 DEF Select, EndCycle, vars, worker, BudgetInv
<1>11. CASE Drain \/ CliRequeueStale \/ RetryAllFailed \/ Restart
  <2>1. UNCHANGED <<job, repair>>
    BY <1>11 DEF Drain, CliRequeueStale, RetryAllFailed, Restart, worker
  <2>2. ASSUME NEW u \in Videos
        PROVE  queue'[u] \in {queue[u], RecoveredRow(u), DoneRow(u),
                              ManualRow(queue[u]), Requeued(queue[u])}
    BY <1>11 DEF Drain, CliRequeueStale, RequeueStale, RetryAllFailed, Restart, RestartRow
  <2> QED
    BY <1>0, <2>1, <2>2, TameRows, TameWrites
<1>12. CASE Crash
  <2>1. queue' = queue /\ \A u \in Videos : job'[u].ph = "none" /\ repair'[u].ph = "none"
    BY <1>12 DEF Crash, NoJob, NoRepair
  <2> QED
    BY <1>0, <2>1, TameRows, TameWrites
<1> QED
  BY <1>1, <1>2, <1>3, <1>4, <1>5, <1>6, <1>7, <1>8, <1>9, <1>10, <1>11, <1>12
  DEF Next, Discovery, Working, Command, Campaign, LineRepair

\* A row waiting for an automatic retry has not used up its attempts.
THEOREM RetriesHaveBudget == Spec => []RetryHasBudget
<1>1. Init => BudgetInv
  BY DEF Init, NoRow, NoJob, NoRepair, BudgetInv, Budgeted, RowBudget, JobBudget, RepairBudget
<1>2. TypeOK /\ BudgetInv /\ [Next]_vars => BudgetInv'
  BY BudgetStep
<1>3. BudgetInv => RetryHasBudget
  BY DEF BudgetInv, Budgeted, RowBudget, RetryHasBudget
<1> QED
  BY <1>1, <1>2, <1>3, TypeCorrect, PTL DEF Spec

-----------------------------------------------------------------------------
(* Completion under a claim.  The attempt of a line repair at work has not   *)
(* succeeded yet, because nobody else works for the same attempt.            *)

RepairOpen(v) == repair[v].ph # "none" =>
                   att[v][repair[v].id][repair[v].k] \in {"running", "deferred"}
Apart(v) == job[v].ph # "none" /\ repair[v].ph # "none" =>
              <<job[v].id, job[v].k>> # <<repair[v].id, repair[v].k>>

RepairInv == /\ pc = "down" => \A v \in Videos : repair[v].ph = "none"
             /\ \A v \in Videos : RepairOpen(v) /\ Apart(v)

\* What a repair's attempt and a job's attempt are numbered by.
LEMMA ClaimNumbers ==
  ASSUME TypeOK, ClaimsNumbered, NEW v \in Videos
  PROVE  /\ job[v].id \in Ids /\ repair[v].id \in Ids
         /\ job[v].ph # "none" => /\ job[v].k \in Tries
                                  /\ job[v].k # tries[v][job[v].id] + 1
         /\ repair[v].ph # "none" => /\ repair[v].k \in Tries
                                     /\ repair[v].k # tries[v][repair[v].id] + 1
<1>1. job[v].id \in Ids /\ repair[v].id \in Ids
  BY FailedTypes DEF Job, Repair
<1>2. \A i \in Ids : tries[v][i] \in 0..MaxTries
  BY DEF TypeOK, TypeLedger
<1> QED
  BY <1>1, <1>2, ConstantsAssumption DEF ClaimsNumbered, Tries

\* Steps that keep the claims at work, or end them, and only defer attempts.
LEMMA RepairKept ==
  ASSUME TypeOK, ClaimsNumbered, RepairInv,
         pc' = "down" => pc = "down" \/ \A v \in Videos : repair'[v].ph = "none",
         \A v \in Videos :
           /\ \/ repair'[v].ph = "none"
              \/ /\ repair[v].ph # "none"
                 /\ repair'[v].id = repair[v].id /\ repair'[v].k = repair[v].k
           /\ \/ job'[v].ph = "none"
              \/ job[v].ph # "none" /\ job'[v].id = job[v].id /\ job'[v].k = job[v].k
           /\ \A i \in Ids, k \in Tries :
                \/ att'[v][i][k] = att[v][i][k]
                \/ att'[v][i][k] = "deferred"
                \/ repair'[v].ph # "none" => <<i, k>> # <<repair[v].id, repair[v].k>>
  PROVE  RepairInv'
<1>1. ASSUME NEW v \in Videos PROVE RepairOpen(v)'
  <2> SUFFICES ASSUME repair'[v].ph # "none"
               PROVE  att'[v][repair'[v].id][repair'[v].k] \in {"running", "deferred"}
    BY DEF RepairOpen
  <2>1. /\ repair[v].ph # "none"
        /\ repair'[v].id = repair[v].id /\ repair'[v].k = repair[v].k
    OBVIOUS
  <2>2. repair[v].id \in Ids /\ repair[v].k \in Tries
    BY <2>1, ClaimNumbers
  <2>3. att[v][repair[v].id][repair[v].k] \in {"running", "deferred"}
    BY <2>1 DEF RepairInv, RepairOpen
  <2> QED
    BY <2>1, <2>2, <2>3
<1>2. ASSUME NEW v \in Videos PROVE Apart(v)'
  BY DEF RepairInv, Apart
<1> QED
  BY <1>1, <1>2 DEF RepairInv

\* The deferrals of a recovery.
LEMMA DeferredOnly ==
  ASSUME NEW v \in Videos, NEW i \in Ids, NEW k \in Tries
  PROVE  Deferred(v)[i][k] \in {att[v][i][k], "deferred"}
  BY DEF Deferred

LEMMA RepairClaims ==
  ASSUME TypeOK, TypeOK', ClaimsNumbered, RepairInv,
         NEW v \in Videos, Claim(v) \/ LineClaim(v)
  PROVE  RepairInv'
<1> DEFINE c == Cur(v)
           n == tries[v][c] + 1
<1>1. c \in Ids /\ n \in Tries /\ Begin(v, c) /\ pc' # "down"
  <2>1. c \in Ids /\ tries[v][c] \in 0..MaxTries
    BY IdTypes DEF TypeOK, TypeLedger
  <2> QED
    BY <2>1, ConstantsAssumption DEF Claim, LineClaim, Begin, Tries, ControlFree, worker
<1>2. \A w \in Videos, i \in Ids, k \in Tries :
        att'[w][i][k] = IF w = v /\ i = c /\ k = n THEN "running" ELSE att[w][i][k]
  BY <1>1 DEF Begin, TypeOK, TypeLedger
<1>3. \A w \in Videos \ {v} : job'[w] = job[w] /\ repair'[w] = repair[w]
  BY DEF Claim, LineClaim, worker, TypeOK, TypeWorker
<1>4. CASE Claim(v)
  <2>1. job'[v].id = c /\ job'[v].k = n /\ repair' = repair
    BY <1>4 DEF Claim, NoJob, TypeOK, TypeWorker
  <2>2. \A w \in Videos : RepairOpen(w)'
    BY <1>2, <2>1, ClaimNumbers DEF RepairInv, RepairOpen
  <2>3. Apart(v)'
    BY <2>1, ClaimNumbers DEF Apart
  <2>4. \A w \in Videos : Apart(w)'
    BY <1>3, <2>3 DEF RepairInv, Apart
  <2> QED
    BY <1>1, <2>2, <2>4 DEF RepairInv
<1>5. CASE LineClaim(v)
  <2>1. repair'[v].id = c /\ repair'[v].k = n /\ job' = job
    BY <1>5 DEF LineClaim, worker, TypeOK, TypeWorker
  <2>2. RepairOpen(v)'
    BY <1>1, <1>2, <2>1 DEF RepairOpen
  <2>3. \A w \in Videos : RepairOpen(w)'
    BY <1>2, <1>3, <2>2, ClaimNumbers DEF RepairInv, RepairOpen
  <2>4. Apart(v)'
    BY <2>1, ClaimNumbers DEF Apart
  <2>5. \A w \in Videos : Apart(w)'
    BY <1>3, <2>4 DEF RepairInv, Apart
  <2> QED
    BY <1>1, <2>3, <2>5 DEF RepairInv
<1> QED
  BY <1>4, <1>5

LEMMA RepairStep == TypeOK /\ TypeOK' /\ LedgerInv /\ RepairInv /\ [Next]_vars => RepairInv'
<1> SUFFICES ASSUME TypeOK, TypeOK', LedgerInv, RepairInv, [Next]_vars PROVE RepairInv'
  OBVIOUS
<1>0. ClaimsNumbered
  BY DEF LedgerInv
<1>1. ASSUME NEW v \in Videos,
             World(v) \/ Discovery(v) \/ ChildBeats(v) \/ ChildPublishes(v) \/ ChildCompletes(v)
      PROVE  RepairInv'
  <2>1. UNCHANGED <<att, pc, job, repair>>
    BY <1>1 DEF World, MediaReplaced, HeartbeatExpires, Discovery, FsEvent, ScanNeedsAi,
                ScanCooldown, ScanFinished, ScanUnwanted, Backfill, ChildBeats,
                ChildPublishes, ChildCompletes, ledger, worker
  <2> QED
    BY <1>0, <2>1, RepairKept
<1>2. ASSUME NEW v \in Videos, Claim(v) \/ LineClaim(v) PROVE RepairInv'
  BY <1>0, <1>2, RepairClaims
<1>3. ASSUME NEW v \in Videos, ClaimRefused(v) \/ SettleRefused(v) PROVE RepairInv'
  <2>1. AbortCycle(v) /\ UNCHANGED <<att, repair>>
    BY <1>3 DEF ClaimRefused, SettleRefused, ledger
  <2>2. ASSUME NEW w \in Videos
        PROVE  \/ job'[w].ph = "none"
               \/ job[w].ph # "none" /\ job'[w].id = job[w].id /\ job'[w].k = job[w].k
    <3>1. job'[w] = IF w = v THEN NoJob
                    ELSE IF job[w].ph = "none" THEN job[w]
                    ELSE [job[w] EXCEPT !.ph = "dropped"]
      BY <2>1 DEF AbortCycle
    <3>2. job[w] \in Job
      BY FailedTypes
    <3> QED
      BY <3>1, <3>2 DEF NoJob, Job
  <2>3. pc' # "down"
    BY <2>1 DEF AbortCycle
  <2> QED
    BY <1>0, <2>1, <2>2, <2>3, RepairKept
<1>4. ASSUME NEW v \in Videos, Decide(v) PROVE RepairInv'
  <2>1. UNCHANGED <<att, pc, repair>> /\ job[v].ph # "none"
    BY <1>4 DEF Decide, ledger
  <2>2. ASSUME NEW w \in Videos
        PROVE  \/ job'[w].ph = "none"
               \/ job[w].ph # "none" /\ job'[w].id = job[w].id /\ job'[w].k = job[w].k
    <3>1. job[w] \in Job
      BY FailedTypes
    <3> QED
      BY <1>4, <2>1, <3>1 DEF Decide, Job, TypeOK, TypeWorker
  <2> QED
    BY <1>0, <2>1, <2>2, RepairKept
<1>5. ASSUME NEW v \in Videos, ResultLost(v) PROVE RepairInv'
  <2>1. job' = [job EXCEPT ![v] = NoJob] /\ UNCHANGED <<att, pc, repair>>
    BY <1>5 DEF ResultLost, ledger
  <2>2. \A w \in Videos : job'[w].ph = "none" \/ job'[w] = job[w]
    BY <2>1 DEF NoJob, TypeOK, TypeWorker
  <2> QED
    BY <1>0, <2>1, <2>2, RepairKept
<1>6. ASSUME NEW v \in Videos, Settle(v) PROVE RepairInv'
  <2>1. /\ job' = [job EXCEPT ![v] = NoJob] /\ UNCHANGED <<pc, repair>>
        /\ att' = [att EXCEPT ![v][job[v].id][job[v].k] = Verdict(job[v])]
        /\ job[v].ph # "none"
    BY <1>6 DEF Settle
  <2>2. \A w \in Videos : job'[w].ph = "none" \/ job'[w] = job[w]
    BY <2>1 DEF NoJob, TypeOK, TypeWorker
  <2>3. job[v].id \in Ids /\ job[v].k \in Tries
    BY <1>0, <2>1, ClaimNumbers
  <2>4. ASSUME NEW w \in Videos, NEW i \in Ids, NEW k \in Tries, repair'[w].ph # "none",
               att'[w][i][k] # att[w][i][k]
        PROVE  <<i, k>> # <<repair[w].id, repair[w].k>>
    <3>1. w = v /\ i = job[v].id /\ k = job[v].k
      BY <2>1, <2>3, <2>4 DEF TypeOK, TypeLedger
    <3>2. Apart(v)
      BY DEF RepairInv
    <3> QED
      BY <2>1, <2>4, <3>1, <3>2 DEF Apart
  <2> QED
    BY <1>0, <2>1, <2>2, <2>4, RepairKept
<1>7. ASSUME NEW v \in Videos, Command(v) \/ Campaign(v) PROVE RepairInv'
  <2>1. UNCHANGED <<pc, job, repair>>
    BY <1>7 DEF Command, Campaign, Retry, ForceAi, Pause, Skip, Prioritize, Recover, Reprocess,
                SweepQueue, SweepPause, RemediateReview, Control, worker
  <2>2. CASE Recover(v)
    <3>1. att' = att \/ att' = [att EXCEPT ![v] = Deferred(v)]
      BY <2>2 DEF Recover
    <3>2. \A w \in Videos : att'[w] = att[w] \/ att'[w] = Deferred(w)
      BY <3>1 DEF TypeOK, TypeLedger
    <3>3. \A w \in Videos, i \in Ids, k \in Tries :
            att'[w][i][k] = att[w][i][k] \/ att'[w][i][k] = "deferred"
      BY <3>2, DeferredOnly
    <3> QED
      BY <1>0, <2>1, <3>3, RepairKept
  <2>3. CASE ~Recover(v)
    <3>1. UNCHANGED att
      BY <1>7, <2>3
      DEF Command, Campaign, Retry, ForceAi, Pause, Skip, Prioritize, Reprocess,
          SweepQueue, SweepPause, RemediateReview, Control, ledger
    <3> QED
      BY <1>0, <2>1, <3>1, RepairKept
  <2> QED
    BY <2>2, <2>3
<1>8. ASSUME NEW v \in Videos, LinePublishes(v) PROVE RepairInv'
  <2>1. UNCHANGED <<att, pc, job>> /\ repair[v].ph # "none"
    BY <1>8 DEF LinePublishes, ledger, worker
  <2>2. ASSUME NEW w \in Videos
        PROVE  \/ repair'[w].ph = "none"
               \/ /\ repair[w].ph # "none"
                  /\ repair'[w].id = repair[w].id /\ repair'[w].k = repair[w].k
    <3>1. repair[w] \in Repair
      BY FailedTypes
    <3> QED
      BY <1>8, <2>1, <3>1 DEF LinePublishes, Repair, TypeOK, TypeWorker
  <2> QED
    BY <1>0, <2>1, <2>2, RepairKept
<1>9. ASSUME NEW v \in Videos, LineDone(v) \/ LineFailed(v) \/ LineRefused(v)
      PROVE  RepairInv'
  <2> DEFINE p == repair[v]
  <2>1. repair' = [repair EXCEPT ![v] = NoRepair] /\ UNCHANGED <<pc, job>>
    BY <1>9 DEF LineDone, LineFailed, LineRefused, LineEnds, worker
  <2>2. repair'[v].ph = "none" /\ \A w \in Videos \ {v} : repair'[w] = repair[w]
    BY <2>1 DEF NoRepair, TypeOK, TypeWorker
  <2>3. \/ att' = att
        \/ att' = [att EXCEPT ![v][p.id][p.k] = "succeeded"]
        \/ att' = [att EXCEPT ![v][p.id][p.k] = "failed"]
    BY <1>9 DEF LineDone, LineFailed, LineRefused, ledger
  <2>4. \A w \in Videos \ {v} : att'[w] = att[w]
    BY <2>3 DEF TypeOK, TypeLedger
  <2> QED
    BY <1>0, <2>1, <2>2, <2>4, RepairKept
<1>10. CASE Crash
  BY <1>10 DEF Crash, NoRepair, RepairInv, RepairOpen, Apart
<1>11. CASE Select \/ EndCycle \/ RetryAllFailed \/ UNCHANGED vars
  <2>1. UNCHANGED <<att, job, repair>> /\ (pc' = "down" => pc = "down")
    BY <1>11 DEF Select, EndCycle, RetryAllFailed, vars, ledger, worker
  <2> QED
    BY <1>0, <2>1, RepairKept
<1>12. CASE Drain \/ CliRequeueStale
  <2>1. RequeueStale /\ UNCHANGED <<job, repair>> /\ (pc' = "down" => pc = "down")
    BY <1>12 DEF Drain, CliRequeueStale, worker
  <2>2. \A w \in Videos, i \in Ids, k \in Tries :
          att'[w][i][k] = att[w][i][k] \/ att'[w][i][k] = "deferred"
    BY <2>1, DeferredOnly DEF RequeueStale
  <2> QED
    BY <1>0, <2>1, <2>2, RepairKept
<1>13. CASE Restart
  BY <1>13 DEF Restart, RepairInv, RepairOpen, Apart
<1> QED
  BY <1>1, <1>2, <1>3, <1>4, <1>5, <1>6, <1>7, <1>8, <1>9, <1>10, <1>11, <1>12, <1>13
  DEF Next, Working, LineRepair

\* The restart completes a claimed row only with its newest running attempt.
LEMMA RestartCompletes ==
  ASSUME TypeOK, Restart, NEW v \in Videos, queue[v].st = "running", queue'[v].st = "done"
  PROVE  \E i \in Ids, k \in Tries :
           /\ att[v][i][k] = "running" /\ att'[v][i][k] = "succeeded"
           /\ obl'[v][i] = "succeeded"
<1>1. PICK p \in [Videos -> Ids \X (0..MaxTries)] :
        /\ queue' = [w \in Videos |-> RestartRow(w, p[w])]
        /\ obl' = [w \in Videos |-> RestartObl(w, p[w])]
        /\ att' = [w \in Videos |-> RestartAtt(w, p[w])]
  BY DEF Restart
<1> DEFINE a == p[v][1]
           n == p[v][2]
<1>2. Reconcilable(v, p[v])
  <2>1. RestartRow(v, p[v]).st = "done"
    BY <1>1
  <2> QED
    BY <2>1, RowStatus DEF RestartRow
<1>3. a \in Ids /\ n \in Tries /\ att[v][a][n] = "running"
  BY <1>2 DEF Reconcilable, RunningPairs, RunningTry
<1>4. RestartObl(v, p[v])[a] = "succeeded" /\ ReconciledAtt(v, p[v])[a][n] = "succeeded"
  BY <1>2, <1>3 DEF RestartObl, ReconciledAtt, TypeOK, TypeLedger
<1>5. obl'[v][a] = "succeeded" /\ att'[v][a][n] = "succeeded"
  BY <1>1, <1>3, <1>4 DEF RestartAtt, Interrupted
<1> QED
  BY <1>3, <1>5

\* The settlement completes a claimed row only if the row is claimed for its
\* own delivery, whose obligation is then open and whose attempt still runs.
LEMMA SettleCompletes ==
  ASSUME TypeOK, LedgerInv, RunningRowIsAccounted, NEW v \in Videos, Settle(v),
         queue[v].st = "running", queue'[v].st = "done"
  PROVE  \E i \in Ids, k \in Tries :
           /\ att[v][i][k] = "running" /\ att'[v][i][k] = "succeeded"
           /\ obl'[v][i] = "succeeded"
<1> DEFINE j == job[v]
<1>1. j.id \in Ids /\ j.k \in Tries
  BY ClaimNumbers DEF LedgerInv, Settle
<1>2. j.out = "evidence" /\ ~StillClaimed(v, j.id)
  <2>1. queue[v] \in Row
    BY RowTypes
  <2>2. FailedRow(queue[v], j).st # "done"
    BY <2>1 DEF FailedRow, Row
  <2>3. CASE j.out # "evidence"
    BY <2>2, <2>3 DEF Settle, SetRow, TypeOK, TypeQueue
  <2>4. CASE j.out = "evidence" /\ StillClaimed(v, j.id)
    BY <2>4 DEF Settle
  <2> QED
    BY <2>3, <2>4
<1>3. /\ att' = [att EXCEPT ![v][j.id][j.k] = "succeeded"]
      /\ obl' = [obl EXCEPT ![v][j.id] = "succeeded"]
      /\ Finishable(v, j.id, j.k, "succeeded")
  BY <1>2 DEF Settle, Verdict
<1>4. PICK i \in Ids, k \in Tries : RunningTry(v, i, k)
  BY DEF RunningRowIsAccounted, HasRunningTry
<1>5. obl[v][j.id] = "open"
  BY <1>2, <1>4 DEF StillClaimed, RunningTry
<1>6. att[v][j.id][j.k] = "running"
  BY <1>1, <1>3, <1>5 DEF Finishable, LedgerInv, DeliveredIsProven
<1>7. att'[v][j.id][j.k] = "succeeded" /\ obl'[v][j.id] = "succeeded"
  BY <1>1, <1>3 DEF TypeOK, TypeLedger
<1> QED
  BY <1>1, <1>6, <1>7

LEMMA LineCompletes ==
  ASSUME TypeOK, LedgerInv, RepairInv, NEW v \in Videos, LineDone(v)
  PROVE  \E i \in Ids, k \in Tries :
           /\ att[v][i][k] = "running" /\ att'[v][i][k] = "succeeded"
           /\ obl'[v][i] = "succeeded"
<1> DEFINE p == repair[v]
<1>1. p.ph # "none"
  BY DEF LineDone, LineProven
<1>2. p.id \in Ids /\ p.k \in Tries
  BY <1>1, ClaimNumbers DEF LedgerInv
<1>3. att[v][p.id][p.k] = "running"
  BY <1>1 DEF RepairInv, RepairOpen, LineDone, Finishable
<1>4. att'[v][p.id][p.k] = "succeeded" /\ obl'[v][p.id] = "succeeded"
  BY <1>2 DEF LineDone, TypeOK, TypeLedger
<1> QED
  BY <1>2, <1>3, <1>4

LEMMA CompletionStep ==
  ASSUME TypeOK, LedgerInv, RunningRowIsAccounted, RepairInv, [Next]_vars,
         NEW w \in Videos, queue[w].st = "running", queue'[w].st = "done"
  PROVE  \E i \in Ids, k \in Tries :
           /\ att[w][i][k] = "running" /\ att'[w][i][k] = "succeeded"
           /\ obl'[w][i] = "succeeded"
<1> DEFINE Settled == \E i \in Ids, k \in Tries :
                        /\ att[w][i][k] = "running" /\ att'[w][i][k] = "succeeded"
                        /\ obl'[w][i] = "succeeded"
<1>0. queue'[w] # queue[w] /\ queue[w] \in Row
  BY RowTypes
<1>1. ASSUME NEW v \in Videos,
             \/ World(v) \/ ScanCooldown(v) \/ Backfill(v) \/ ClaimRefused(v)
             \/ ChildBeats(v) \/ ChildPublishes(v) \/ ChildCompletes(v) \/ Decide(v)
             \/ SettleRefused(v) \/ ResultLost(v) \/ LinePublishes(v) \/ LineRefused(v)
      PROVE  FALSE
  BY <1>0, <1>1
  DEF World, MediaReplaced, HeartbeatExpires, ScanCooldown, Backfill,
      ClaimRefused, ChildBeats, ChildPublishes, ChildCompletes, Decide,
      SettleRefused, ResultLost, LinePublishes, LineRefused
<1>2. ASSUME NEW v \in Videos, NEW r, SetRow(v, r) PROVE w = v /\ queue'[w] = r
  BY <1>0, <1>2 DEF SetRow, TypeOK, TypeQueue
<1>3. ASSUME NEW v \in Videos, FsEvent(v) \/ ScanNeedsAi(v) \/ ScanUnwanted(v)
      PROVE  FALSE
  <2>1. PICK r \in {Upserted(queue[v], disk[v]), NoRow} : SetRow(v, r)
    BY <1>3 DEF FsEvent, ScanNeedsAi, ScanUnwanted
  <2>2. w = v /\ queue'[w] = r
    BY <1>2, <2>1
  <2>3. Upserted(queue[w], disk[w]).st # "done"
    BY <1>0 DEF Upserted, Row
  <2> QED
    BY <2>1, <2>2, <2>3, RowStatus
<1>4. ASSUME NEW v \in Videos, ScanFinished(v) PROVE FALSE
  <2>1. w = v
    BY <1>2, <1>4 DEF ScanFinished
  <2> QED
    BY <1>4, <2>1 DEF ScanFinished, RunningRowIsAccounted
<1>5. ASSUME NEW v \in Videos,
             \/ Retry(v) \/ Pause(v) \/ Skip(v) \/ Prioritize(v) \/ ForceAi(v)
             \/ SweepQueue(v) \/ SweepPause(v) \/ RemediateReview(v) \/ Reprocess(v)
      PROVE  FALSE
  <2>1. PICK r \in {ManualRow(queue[v]), Paused(queue[v]),
                    [Paused(queue[v]) EXCEPT !.st = "skipped", !.force = FALSE],
                    [Requeued(queue[v]) EXCEPT !.src = "other"],
                    [Paused(queue[v]) EXCEPT !.src = "other"],
                    RemediatedRow(queue[v]), Forced(v)} : SetRow(v, r)
    BY <1>5 DEF Retry, Pause, Skip, Prioritize, ForceAi, SweepQueue, SweepPause,
                RemediateReview, Reprocess, Control
  <2>2. w = v /\ queue'[w] = r
    BY <1>2, <2>1
  <2>3. /\ Requeued(queue[w]) \in Row /\ Paused(queue[w]) \in Row
        /\ ManualRow(queue[w]) \in Row
    BY RowTypes
  <2>4. Forced(w).st # "done"
    BY <1>0, <2>3, RowStatus DEF Forced, Row
  <2> QED
    BY <2>1, <2>2, <2>3, <2>4, RowStatus DEF Row
<1>6. CASE Select \/ EndCycle \/ Crash \/ RetryAllFailed \/ UNCHANGED vars
  <2>1. CASE RetryAllFailed
    BY <1>0, <2>1 DEF RetryAllFailed
  <2>2. CASE Select \/ EndCycle \/ Crash \/ UNCHANGED vars
    BY <1>0, <2>2 DEF Select, EndCycle, Crash, vars
  <2> QED
    BY <1>6, <2>1, <2>2
<1>7. CASE Drain \/ CliRequeueStale
  <2>1. RequeueStale
    BY <1>7 DEF Drain, CliRequeueStale
  <2>2. queue'[w] \in {queue[w], RecoveredRow(w)}
    BY <2>1 DEF RequeueStale
  <2> QED
    BY <1>0, <2>2, RowStatus
<1>8. ASSUME NEW v \in Videos, Recover(v) PROVE FALSE
  <2>1. PICK r \in {RecoveredRow(v), [Requeued(queue[v]) EXCEPT !.att = 0, !.src = "other"]} :
               SetRow(v, r)
    BY <1>8 DEF Recover
  <2>2. w = v /\ queue'[w] = r
    BY <1>2, <2>1
  <2>3. Requeued(queue[w]) \in Row
    BY RowTypes
  <2> QED
    BY <2>1, <2>2, <2>3, RowStatus DEF Row
<1>9. ASSUME NEW v \in Videos, Claim(v) \/ LineClaim(v) PROVE FALSE
  <2>1. CASE LineClaim(v)
    BY <1>0, <1>2, <2>1 DEF LineClaim
  <2>2. CASE Claim(v)
    <3>1. queue[v] \in Row
      BY RowTypes
    <3> QED
      BY <1>2, <2>2, <3>1 DEF Claim, SetRow, Row, TypeOK, TypeQueue
  <2> QED
    BY <1>9, <2>1, <2>2
<1>10. ASSUME NEW v \in Videos, Settle(v) PROVE Settled
  <2>1. w = v
    BY <1>0, <1>10 DEF Settle, SetRow, TypeOK, TypeQueue
  <2> QED
    BY <1>10, <2>1, SettleCompletes
<1>11. ASSUME NEW v \in Videos, LineDone(v) PROVE Settled
  <2>1. w = v
    BY <1>2, <1>11 DEF LineDone
  <2> QED
    BY <1>11, <2>1, LineCompletes
<1>12. ASSUME NEW v \in Videos, LineFailed(v) PROVE FALSE
  <2>1. w = v /\ queue'[w] = [queue[w] EXCEPT !.st = repair[w].st, !.src = repair[w].src,
                                              !.own = FALSE]
    BY <1>2, <1>12 DEF LineFailed
  <2>2. queue'[w].st = repair[w].st /\ repair[w] \in Repair
    BY <1>0, <2>1, FailedTypes DEF Row
  <2> QED
    BY <2>2 DEF Repair
<1>13. CASE Restart
  BY <1>13, RestartCompletes
<1> QED
  BY <1>1, <1>3, <1>4, <1>5, <1>6, <1>7, <1>8, <1>9, <1>10, <1>11, <1>12, <1>13
  DEF Next, Discovery, Working, Command, Campaign, LineRepair

\* A claimed row is completed only together with the attempt it was claimed
\* for: no writer closes it without recording the success in the same step.
THEOREM CompletionsSettled == Spec => CompletionIsSettled
<1> DEFINE Step == \A v \in Videos : queue[v].st = "running" /\ queue'[v].st = "done" =>
                     \E i \in Ids, k \in Tries :
                       /\ att[v][i][k] = "running" /\ att'[v][i][k] = "succeeded"
                       /\ obl'[v][i] = "succeeded"
<1>1. Init => RepairInv
  BY DEF Init, NoRepair, NoJob, RepairInv, RepairOpen, Apart
<1>2. TypeOK /\ TypeOK' /\ LedgerInv /\ RepairInv /\ [Next]_vars => RepairInv'
  BY RepairStep
<1>3. TypeOK /\ LedgerInv /\ RunningRowIsAccounted /\ RepairInv /\ [Next]_vars => [Step]_vars
  BY CompletionStep
<1> QED
  BY <1>1, <1>2, <1>3, TypeCorrect, LedgerCorrect, ClaimsAccounted, PTL
  DEF Spec, CompletionIsSettled
=============================================================================
