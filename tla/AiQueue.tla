------------------------------ MODULE AiQueue ------------------------------
(***************************************************************************)
(* The durable AI queue and its delivery ledger: the tables                *)
(* ai_candidate_queue, ai_job_state, ai_delivery_obligations and           *)
(* ai_delivery_attempts of scan_state.py, and every transaction that       *)
(* main.py, scanner.py, event_watcher.py and the targeted line repair run  *)
(* against them.  One action is one SQLite transaction, or one step of a   *)
(* process between two transactions.                                       *)
(*                                                                         *)
(* Abstractions.  A media identity is a revision number of the file; a     *)
(* delivery identity is a media revision and a processing policy.  Times   *)
(* are replaced by what they decide: a heartbeat is stale or not, a cool-  *)
(* down is over or not, a manifest was published after an attempt started  *)
(* or not, an exclusion arrives before the 72-hour deadline or not.        *)
(***************************************************************************)
EXTENDS Naturals, FiniteSets

CONSTANTS
  Videos,       \* canonical paths in the queue
  Policies,     \* processing policy revisions a configuration may select
  MaxMedia,     \* bound: how often a media file is replaced, plus one
  MaxTries,     \* bound: attempts recorded for one delivery identity
  MaxTotal,     \* bound: attempts recorded for one video
  MaxAttempts,  \* auto_ai_max_attempts, 0 for no limit
  Lanes         \* max_concurrent_videos

ASSUME ConstantsAssumption ==
  /\ Policies # {}
  /\ MaxMedia \in Nat \ {0}
  /\ MaxTries \in Nat
  /\ MaxTotal \in Nat
  /\ MaxAttempts \in Nat
  /\ Lanes \in Nat \ {0}

Media == 1..MaxMedia
Tries == 1..MaxTries
Ids   == Media \X Policies
AnyId == CHOOSE i \in Ids : TRUE

QueueStatus == {"absent", "queued", "running", "done", "failed_retry",
                "paused", "skipped"}
TryStatus   == {"none", "running", "succeeded", "retryable_failure",
                "review_required", "deferred", "failed"}
OblState    == {"none", "open", "succeeded", "excluded"}
Outcomes    == {"evidence", "noevidence", "review", "retry", "manual"}

\* A queue row links its last failure to the attempt it settled with: the
\* code compares error codes and finish times, k = 0 is no such attempt.  It
\* is read only while the row is failed_retry, and forgotten here when the
\* row leaves that status.  own: running_at is what the line repair wrote.
NoLink == [id |-> AnyId, k |-> 0]
NoRow  == [st |-> "absent", media |-> 0, att |-> 0, src |-> "other",
           force |-> FALSE, err |-> FALSE, own |-> FALSE, link |-> NoLink]
NoJob  == [ph |-> "none", id |-> AnyId, k |-> 0, out |-> "retry", full |-> FALSE]
NoRepair == [ph |-> "none", id |-> AnyId, k |-> 0, st |-> "paused", src |-> "other"]

VARIABLES
  queue,     \* ai_candidate_queue, one row per video
  beat,      \* ai_job_state: "complete", "line" or anything else ("other")
  stale,     \* videos whose last heartbeat is older than the cutoff
  obl,       \* state of each obligation
  tries,     \* attempt_count of each obligation
  att,       \* status of each attempt, by number
  disk,      \* current media revision of each file
  policy,    \* the processing policy of the running configuration
  outputs,   \* whether AI subtitle files are on disk
  evid,      \* the attempts the manifest on disk is strict evidence for
  proven,    \* history: every attempt a manifest was evidence for
  pc,        \* the Worker's main thread
  batch,     \* candidates of this cycle it has not claimed yet
  job,       \* the claim it is working on, per video
  repair     \* the targeted line repair of the control thread, per video

ledger == <<obl, tries, att>>
files  == <<disk, outputs, evid, proven>>
worker == <<pc, batch, job>>
vars   == <<queue, beat, stale, ledger, files, policy, worker, repair>>

-----------------------------------------------------------------------------
Cur(v) == <<disk[v], policy>>

Unattempted(v) == {i \in Ids : obl[v][i] \in {"none", "open"} /\ tries[v][i] = 0}

\* ensure_ai_delivery_obligation: create the obligation or reopen one that
\* was excluded before any attempt, and supersede the other identities of
\* the path that no attempt was made for, unless their deadline has passed.
OpenedAgain(v, i) == [obl[v] EXCEPT ![i] = "open"]  \* mutant: reopens anything
Opened(v, i) == [obl[v] EXCEPT ![i] =
                   IF @ = "none" \/ (@ = "excluded" /\ tries[v][i] = 0)
                     THEN "open" ELSE @]
Superseded(o, v, keep, late) ==
  [j \in Ids |-> IF o[j] = "open" /\ tries[v][j] = 0 /\ j \notin keep \cup late
                   THEN "excluded" ELSE o[j]]
Ensured(v, i, late) == IF Opened(v, i)[i] = "open"
                         THEN Superseded(Opened(v, i), v, {i}, late)
                         ELSE Opened(v, i)

RunningTry(v, i, k) == obl[v][i] = "open" /\ att[v][i][k] = "running"
HasRunningTry(v)    == \E i \in Ids, k \in Tries : RunningTry(v, i, k)

\* Every running attempt of the video's open obligations ends as deferred.
Deferred(v) == [i \in Ids |-> [k \in Tries |->
                  IF RunningTry(v, i, k) THEN "deferred" ELSE att[v][i][k]]]

\* _verified_ai_delivery_evidence: the manifest matches the file and policy
\* of now, and was verified after the attempt started.
EvidenceUndated(v, i, k) == i = Cur(v) /\ outputs[v]  \* mutant: any manifest
Evidence(v, i, k) == i = Cur(v) /\ <<i, k>> \in evid[v]

\* upsert_ai_queue_candidate
Upserted(r, m) ==
  IF r.st = "absent" THEN [NoRow EXCEPT !.st = "queued", !.media = m]
  ELSE IF r.media = m THEN r
  ELSE IF r.st \in {"running", "paused", "skipped"} THEN [r EXCEPT !.media = m]
  ELSE [r EXCEPT !.st = "queued", !.media = m, !.src = "other", !.link = NoLink]

\* mark_ai_queue_done, its columns and its refusal to close a claimed row
DoneRow(v) == [NoRow EXCEPT !.st = "done", !.media = disk[v],
                            !.src = queue[v].src]
RequeuedUnset(r) == [r EXCEPT !.own = FALSE, !.link = NoLink]  \* mutant: not requeued
Requeued(r) == [r EXCEPT !.st = "queued", !.own = FALSE, !.link = NoLink]
Paused(r)   == [r EXCEPT !.st = "paused", !.own = FALSE, !.link = NoLink]

Present(v)      == queue[v].st # "absent"
StaleRunning(v) == queue[v].st = "running" /\ v \in stale
LineRunning(v)  == queue[v].src = "line" /\ HasRunningTry(v)

\* requeue_stale_running and the line repairs it pauses, for one row
RecoveredRow(v) == IF LineRunning(v)
                     THEN [Paused(queue[v]) EXCEPT !.src = "other"]
                     ELSE Requeued(queue[v])

Fresh(v) == stale' = stale \ {v}
Stage(v, s) == beat' = [beat EXCEPT ![v] = s] /\ Fresh(v)
SetRow(v, r) == queue' = [queue EXCEPT ![v] = r]

NoOneWorks == \A v \in Videos : job[v].ph = "none"
Deciding   == \E v \in Videos : job[v].ph = "decided"
ControlFree == pc # "down" /\ \A v \in Videos : repair[v].ph = "none"

Begin(v, i) ==
  /\ tries[v][i] < MaxTries
  /\ Cardinality({p \in Ids \X Tries : att[v][p[1]][p[2]] # "none"}) < MaxTotal
  /\ tries' = [tries EXCEPT ![v][i] = @ + 1]
  /\ att' = [att EXCEPT ![v][i][tries[v][i] + 1] = "running"]

\* A refused write rolls back and aborts the whole cycle: the executor
\* waits for the other children, whose results nobody records.
AbortCycle(v) ==
  /\ pc' = "idle" /\ batch' = {}
  /\ job' = [w \in Videos |->
               IF w = v THEN NoJob
               ELSE IF job[w].ph = "none" THEN job[w]
               ELSE [job[w] EXCEPT !.ph = "dropped"]]

Init ==
  /\ queue = [v \in Videos |-> NoRow]
  /\ beat = [v \in Videos |-> "other"]
  /\ stale = {}
  /\ obl = [v \in Videos |-> [i \in Ids |-> "none"]]
  /\ tries = [v \in Videos |-> [i \in Ids |-> 0]]
  /\ att = [v \in Videos |-> [i \in Ids |-> [k \in Tries |-> "none"]]]
  /\ disk = [v \in Videos |-> 1]
  /\ policy \in Policies
  /\ outputs = [v \in Videos |-> FALSE]
  /\ evid = [v \in Videos |-> {}]
  /\ proven = [v \in Videos |-> {}]
  /\ pc = "idle"
  /\ batch = {}
  /\ job = [v \in Videos |-> NoJob]
  /\ repair = [v \in Videos |-> NoRepair]

-----------------------------------------------------------------------------
(***************************************************************************)
(* The world outside: the library, the clock, the operator's shell.        *)
(***************************************************************************)
MediaReplaced(v) ==
  /\ disk[v] < MaxMedia
  /\ disk' = [disk EXCEPT ![v] = @ + 1]
  /\ UNCHANGED <<queue, beat, stale, ledger, outputs, evid, proven, policy,
                 worker, repair>>

HeartbeatExpires(v) ==
  /\ queue[v].st = "running"
  /\ v \notin stale
  /\ stale' = stale \cup {v}
  /\ UNCHANGED <<queue, beat, ledger, files, policy, worker, repair>>

\* requeue_stale_running, run by the Worker's own cycle and by the separate
\* process started with --requeue-stale-ai-running.
RequeueStaleNone == UNCHANGED <<queue, att, beat, stale>>  \* mutant: forgets the rows
RequeueStale ==
  LET S == {v \in Videos : StaleRunning(v)}
  IN /\ queue' = [v \in Videos |-> IF v \in S THEN RecoveredRow(v) ELSE queue[v]]
     /\ att' = [v \in Videos |-> IF v \in S THEN Deferred(v) ELSE att[v]]
     /\ beat' = [v \in Videos |-> IF v \in S THEN "other" ELSE beat[v]]
     /\ stale' = stale \ S

CliRequeueStale ==
  /\ \E v \in Videos : StaleRunning(v)
  /\ RequeueStale
  /\ UNCHANGED <<obl, tries, files, policy, worker, repair>>

-----------------------------------------------------------------------------
(***************************************************************************)
(* Discovery: filesystem events and the scanner's classification of a      *)
(* media file, both in background threads of the Worker.                   *)
(***************************************************************************)
FsEvent(v) ==
  /\ pc # "down"
  /\ Upserted(queue[v], disk[v]) # queue[v]
  /\ SetRow(v, Upserted(queue[v], disk[v]))
  /\ UNCHANGED <<beat, stale, ledger, files, policy, worker, repair>>

\* needs_ai, or a forced row without finished AI output
ScanNeedsAi(v) ==
  /\ pc # "down"
  /\ ~(queue[v].force /\ (outputs[v] \/ queue[v].st = "running"))
  /\ SetRow(v, Upserted(queue[v], disk[v]))
  /\ \E late \in SUBSET Unattempted(v) :
       obl' = [obl EXCEPT ![v] = Ensured(v, Cur(v), late)]
  /\ UNCHANGED <<beat, stale, tries, att, files, policy, worker, repair>>

\* failure_cooldown: the row is kept, the ledger admits the obligation
ScanCooldown(v) ==
  /\ pc # "down"
  /\ ~queue[v].force
  /\ \E late \in SUBSET Unattempted(v) :
       obl' = [obl EXCEPT ![v] = Ensured(v, Cur(v), late)]
  /\ UNCHANGED <<queue, beat, stale, tries, att, files, policy, worker, repair>>

\* finished AI output found on disk: done, unless a claim is being worked on
ScanFinishedUnguarded(v) ==  \* mutant: closes a claimed row too
  /\ pc # "down" /\ outputs[v]
  /\ SetRow(v, DoneRow(v)) /\ Stage(v, "other")
  /\ UNCHANGED <<ledger, files, policy, worker, repair>>
ScanFinished(v) ==
  /\ pc # "down"
  /\ outputs[v]
  /\ ~(queue[v].st = "running" /\ HasRunningTry(v))
  /\ SetRow(v, DoneRow(v))
  /\ Stage(v, "other") \/ UNCHANGED <<beat, stale>>
  /\ UNCHANGED <<ledger, files, policy, worker, repair>>

\* official, local or embedded Chinese subtitles, excluded or missing media
ScanUnwanted(v) ==
  /\ pc # "down"
  /\ ~queue[v].force
  /\ \E keep \in {{}, Ids} : \E late \in SUBSET Unattempted(v) :
       obl' = [obl EXCEPT ![v] = Superseded(obl[v], v, keep, late)]
  /\ SetRow(v, NoRow)
  /\ Stage(v, "other") \/ UNCHANGED <<beat, stale>>
  /\ UNCHANGED <<tries, att, files, policy, worker, repair>>

\* backfill_active_queue_obligations: give an active row of the current
\* media its obligation, and roll back if that obligation is not open.
Backfill(v) ==
  /\ pc # "down"
  /\ queue[v].st \in {"queued", "failed_retry", "paused"}
  /\ queue[v].media = disk[v]
  /\ obl[v][Cur(v)] # "open"
  /\ \E late \in SUBSET Unattempted(v) :
       /\ Ensured(v, Cur(v), late)[Cur(v)] = "open"
       /\ obl' = [obl EXCEPT ![v] = Ensured(v, Cur(v), late)]
  /\ UNCHANGED <<queue, beat, stale, tries, att, files, policy, worker, repair>>

-----------------------------------------------------------------------------
(***************************************************************************)
(* The Worker's cycle: requeue stale rows, select candidates, claim each,  *)
(* run its child process, settle the result.                               *)
(***************************************************************************)
Drain ==
  /\ pc = "idle"
  /\ NoOneWorks
  /\ RequeueStale
  /\ pc' = "drained"
  /\ UNCHANGED <<obl, tries, files, policy, batch, job, repair>>

\* iter_ai_queue_candidates: queued rows, and failed rows whose failure is
\* that of the latest attempt of an open obligation and may be retried.
Claimable(v) ==
  \/ queue[v].st = "queued"
  \/ LET l == queue[v].link
     IN /\ queue[v].st = "failed_retry"
        /\ l.k > 0
        /\ l.k = tries[v][l.id]
        /\ obl[v][l.id] = "open"
        /\ att[v][l.id][l.k] = "retryable_failure"

Select ==
  /\ pc = "drained"
  /\ \E S \in SUBSET {v \in Videos : Claimable(v)} :
       /\ batch' = S
       /\ pc' = IF S = {} THEN "idle" ELSE "batch"
  /\ UNCHANGED <<queue, beat, stale, ledger, files, policy, job, repair>>

\* _mark_queue_running: claim the row, admit the obligation and begin the
\* attempt in one transaction.  The claim does not look at the row's status.
Claim(v) ==
  /\ pc = "batch" /\ v \in batch /\ ~Deciding
  /\ job[v].ph = "none"
  /\ Cardinality({w \in Videos : job[w].ph # "none"}) < Lanes
  /\ \E late \in SUBSET Unattempted(v) :
       /\ Ensured(v, Cur(v), late)[Cur(v)] = "open"
       /\ obl' = [obl EXCEPT ![v] = Ensured(v, Cur(v), late)]
  /\ Begin(v, Cur(v))
  /\ SetRow(v, IF Present(v)
                 THEN [queue[v] EXCEPT !.st = "running", !.own = FALSE,
                                       !.link = NoLink]
                 ELSE queue[v])
  /\ Stage(v, "other")
  /\ job' = [job EXCEPT ![v] = [NoJob EXCEPT !.ph = "working", !.id = Cur(v),
                                             !.k = tries[v][Cur(v)] + 1]]
  /\ batch' = batch \ {v}
  /\ UNCHANGED <<files, policy, pc, repair>>

\* begin_ai_delivery_attempt raises on a delivered identity
ClaimRefused(v) ==
  /\ pc = "batch" /\ v \in batch /\ ~Deciding
  /\ job[v].ph = "none"
  /\ Opened(v, Cur(v))[Cur(v)] # "open"
  /\ AbortCycle(v)
  /\ UNCHANGED <<queue, beat, stale, ledger, files, policy, repair>>

\* A pause, a shutdown, a canary or pressure may end the cycle early.
EndCycle ==
  /\ pc = "batch"
  /\ NoOneWorks
  /\ pc' = "idle" /\ batch' = {}
  /\ UNCHANGED <<queue, beat, stale, ledger, files, policy, job, repair>>

Alive(v) == job[v].ph \in {"working", "dropped"}

ChildBeats(v) ==
  /\ Alive(v)
  /\ v \in stale
  /\ Stage(v, "other")
  /\ UNCHANGED <<queue, ledger, files, policy, worker, repair>>

\* The manifest is bound to the identity at the time of publication.
Written(v) ==
  LET shown == {Cur(v)} \X (1..tries[v][Cur(v)])
  IN /\ outputs' = [outputs EXCEPT ![v] = TRUE]
     /\ evid' = [evid EXCEPT ![v] = shown]
     /\ proven' = [proven EXCEPT ![v] = @ \cup shown]
     /\ UNCHANGED disk

ChildPublishes(v) ==
  /\ Alive(v)
  /\ Written(v)
  /\ UNCHANGED <<queue, beat, stale, ledger, policy, worker, repair>>

\* the "complete" heartbeat, or another child's early return
ChildCompletes(v) ==
  /\ Alive(v)
  /\ beat[v] # "complete"
  /\ Stage(v, "complete")
  /\ UNCHANGED <<queue, ledger, files, policy, worker, repair>>

\* The failure about to be recorded is the last the budget allows.
ExhaustedLate(v) == MaxAttempts > 0 /\ queue[v].att >= MaxAttempts  \* mutant: off by one
Exhausted(v) == MaxAttempts > 0 /\ queue[v].att + 1 >= MaxAttempts

\* The child has exited: the parent reads the evidence, the failure and the
\* retry budget, before the transaction that records them.
Decide(v) ==
  /\ job[v].ph = "working"
  /\ ~Deciding
  /\ \E out \in Outcomes :
       /\ out = "evidence" => Evidence(v, job[v].id, job[v].k)
       /\ out = "noevidence" => ~Evidence(v, job[v].id, job[v].k)
       /\ job' = [job EXCEPT ![v].ph = "decided", ![v].out = out,
                    ![v].full = out \notin {"evidence", "review"} /\ Exhausted(v)]
  /\ UNCHANGED <<queue, beat, stale, ledger, files, policy, pc, batch, repair>>

Verdict(j) == IF j.out = "evidence" THEN "succeeded"
              ELSE IF j.out = "review" \/ j.full THEN "review_required"
              ELSE "retryable_failure"

\* mark_ai_queue_failed and mark_ai_queue_review_required; nothing tells
\* attempts above the limit apart, so the counter stops there
FailedRow(r, j) ==
  [r EXCEPT !.st   = IF j.out = "review" \/ j.full THEN "paused" ELSE "failed_retry",
            !.src  = IF j.out = "review" \/ j.full THEN "other" ELSE @,
            !.own  = FALSE,
            !.att  = IF @ < MaxAttempts THEN @ + 1 ELSE @,
            !.err  = TRUE,
            !.link = IF j.out \in {"noevidence", "retry"} /\ ~j.full
                       THEN [id |-> j.id, k |-> j.k] ELSE NoLink]

\* finish_ai_delivery_attempt accepts an attempt that is still running, or
\* one that already ended the way it is told to end.
Finishable(v, i, k, verdict) == att[v][i][k] \in {"running", verdict}

\* mark_ai_queue_done refuses a row still claimed for another identity
StillClaimed(v, i) ==
  queue[v].st = "running" /\ \E j \in Ids \ {i}, n \in Tries : RunningTry(v, j, n)

Settle(v) ==
  LET j == job[v] IN
  /\ j.ph = "decided"
  /\ Finishable(v, j.id, j.k, Verdict(j))
  /\ att' = [att EXCEPT ![v][j.id][j.k] = Verdict(j)]
  /\ IF j.out = "evidence"
       THEN /\ obl' = [obl EXCEPT ![v][j.id] = "succeeded"]
            /\ IF StillClaimed(v, j.id)
                 THEN UNCHANGED <<queue, beat, stale>>
                 ELSE SetRow(v, DoneRow(v)) /\ Stage(v, "complete")
       ELSE /\ UNCHANGED obl
            /\ SetRow(v, IF Present(v) THEN FailedRow(queue[v], j) ELSE queue[v])
            /\ Stage(v, "other") \/ UNCHANGED <<beat, stale>>
  /\ job' = [job EXCEPT ![v] = NoJob]
  /\ UNCHANGED <<tries, files, policy, pc, batch, repair>>

\* Somebody else ended the attempt: the transaction rolls back as a whole.
SettleRefused(v) ==
  /\ job[v].ph = "decided"
  /\ ~Finishable(v, job[v].id, job[v].k, Verdict(job[v]))
  /\ AbortCycle(v)
  /\ UNCHANGED <<queue, beat, stale, ledger, files, policy, repair>>

ResultLost(v) ==
  /\ job[v].ph = "dropped"
  /\ job' = [job EXCEPT ![v] = NoJob]
  /\ UNCHANGED <<queue, beat, stale, ledger, files, policy, pc, batch, repair>>

-----------------------------------------------------------------------------
(***************************************************************************)
(* Crash and restart of the Worker process, its control thread included.   *)
(***************************************************************************)
Crash ==
  /\ pc # "down"
  /\ pc' = "down" /\ batch' = {}
  /\ job' = [v \in Videos |-> NoJob]
  /\ repair' = [v \in Videos |-> NoRepair]
  /\ policy' \in Policies
  /\ UNCHANGED <<queue, beat, stale, ledger, files>>

\* reconcile_completed_running: the newest running attempt of a row whose
\* last heartbeat says complete, if strict evidence backs it.
RunningPairs(v) == {p \in Ids \X Tries : RunningTry(v, p[1], p[2])}
Newest(v) == {p \in RunningPairs(v) : \A q \in RunningPairs(v) : q[2] <= p[2]}
Reconcilable(v, p) ==
  /\ queue[v].st = "running"
  /\ beat[v] = "complete" \/ (queue[v].src = "line" /\ beat[v] = "line")
  /\ p \in RunningPairs(v)
  /\ Evidence(v, p[1], p[2])

\* What the restart leaves of a row, its obligations and its attempts, when
\* p is its newest running attempt.
RestartObl(v, p) == IF Reconcilable(v, p)
                      THEN [obl[v] EXCEPT ![p[1]] = "succeeded"] ELSE obl[v]
ReconciledAtt(v, p) == IF Reconcilable(v, p)
                         THEN [att[v] EXCEPT ![p[1]][p[2]] = "succeeded"]
                         ELSE att[v]
Interrupted(v, p, i, k) == /\ queue[v].st = "running"
                           /\ RestartObl(v, p)[i] = "open"
                           /\ ReconciledAtt(v, p)[i][k] = "running"
RestartAtt(v, p) == [i \in Ids |-> [k \in Tries |->
                       IF Interrupted(v, p, i, k) THEN "deferred"
                       ELSE ReconciledAtt(v, p)[i][k]]]
RestartRow(v, p) ==
  LET blocked == \E i \in Ids, k \in Tries : Interrupted(v, p, i, k)
  IN CASE queue[v].st # "running"            -> queue[v]
       [] queue[v].st = "running" /\ blocked -> RecoveredRow(v)
       [] OTHER -> IF Reconcilable(v, p) THEN DoneRow(v) ELSE Requeued(queue[v])

\* requeue_running_from_previous_worker, one transaction; which of two
\* running attempts with the same number is the newest is up to SQLite.
Restart ==
  /\ pc = "down"
  /\ pc' = "idle"
  /\ \E p \in [Videos -> Ids \X (0..MaxTries)] :
       /\ \A v \in Videos : IF RunningPairs(v) = {} THEN p[v] = <<AnyId, 0>>
                           ELSE p[v] \in Newest(v)
       /\ queue' = [v \in Videos |-> RestartRow(v, p[v])]
       /\ obl' = [v \in Videos |-> RestartObl(v, p[v])]
       /\ att' = [v \in Videos |-> RestartAtt(v, p[v])]
       /\ beat' = [v \in Videos |->
                     IF queue[v].st # "running" THEN beat[v]
                     ELSE IF RestartRow(v, p[v]).st = "done" THEN "complete"
                     ELSE "other"]
  /\ stale' = {v \in stale : queue[v].st # "running"}
  /\ UNCHANGED <<tries, files, policy, batch, job, repair>>

-----------------------------------------------------------------------------
(***************************************************************************)
(* Control commands and remediation campaigns: one control thread executes *)
(* them one at a time, so none runs during a targeted line repair.  None   *)
(* of the per-video commands looks at the row's status first.              *)
(***************************************************************************)
Control(v, r) ==
  /\ ControlFree
  /\ Present(v)
  /\ SetRow(v, r)
  /\ Stage(v, "other")
  /\ UNCHANGED <<ledger, policy, worker, repair>>

ManualRow(r) == [Requeued(r) EXCEPT !.att = 0, !.src = "other", !.err = FALSE]

Retry(v) == Control(v, ManualRow(queue[v])) /\ UNCHANGED files

Forced(v) == IF queue[v].st = "running"
               THEN [queue[v] EXCEPT !.force = TRUE, !.src = "other"]
               ELSE [ManualRow(queue[v]) EXCEPT !.force = TRUE, !.media = disk[v]]

ForceAi(v) ==
  /\ ControlFree
  /\ SetRow(v, Forced(v))
  /\ Stage(v, "other")
  /\ UNCHANGED <<ledger, files, policy, worker, repair>>

Pause(v) == /\ Control(v, Paused(queue[v]))
            /\ UNCHANGED files
Skip(v)  == /\ Control(v, [Paused(queue[v]) EXCEPT !.st = "skipped",
                                                   !.force = FALSE])
            /\ UNCHANGED files

Prioritize(v) ==
  /\ queue[v].st \notin {"running", "done"}
  /\ Control(v, [Requeued(queue[v]) EXCEPT !.src = "other"])
  /\ UNCHANGED files

\* ai.recover: like the stale recovery, but an ordinary row is requeued
\* with a fresh budget and its running attempt is left as it is.
Recover(v) ==
  /\ ControlFree
  /\ StaleRunning(v)
  /\ SetRow(v, IF LineRunning(v) THEN RecoveredRow(v)
               ELSE [Requeued(queue[v]) EXCEPT !.att = 0, !.src = "other"])
  /\ att' = IF LineRunning(v) THEN [att EXCEPT ![v] = Deferred(v)] ELSE att
  /\ Stage(v, "other")
  /\ UNCHANGED <<obl, tries, files, policy, worker, repair>>

RetryAllFailed ==
  /\ ControlFree
  /\ \E v \in Videos : queue[v].st = "failed_retry"
  /\ queue' = [v \in Videos |-> IF queue[v].st = "failed_retry"
                                  THEN ManualRow(queue[v]) ELSE queue[v]]
  /\ UNCHANGED <<beat, stale, ledger, files, policy, worker, repair>>

\* queue_failed_retry_preserving_budget and pause_failed_retry_for_review
SweepQueue(v) ==
  /\ queue[v].st = "failed_retry"
  /\ queue[v].media = disk[v]
  /\ Control(v, [Requeued(queue[v]) EXCEPT !.src = "other"])
  /\ UNCHANGED files

SweepPause(v) ==
  /\ queue[v].st = "failed_retry"
  /\ Control(v, [Paused(queue[v]) EXCEPT !.src = "other"])
  /\ UNCHANGED files

\* queue_paused_review_remediation: the budget already spent is kept.
RemediatedRow(r) == [Requeued(r) EXCEPT !.src = "other", !.force = TRUE]

RemediateReview(v) ==
  /\ queue[v].st = "paused" /\ queue[v].err
  /\ ~Alive(v)
  /\ Control(v, RemediatedRow(queue[v]))
  /\ UNCHANGED files

\* reprocess_ai_video: archive the outputs and queue the video again, unless
\* the current identity was already delivered.
Reprocess(v) ==
  /\ ControlFree
  /\ ~Alive(v)
  /\ outputs[v]
  /\ obl[v][Cur(v)] # "succeeded"
  /\ \/ queue[v].st = "paused" /\ queue[v].err /\ SetRow(v, RemediatedRow(queue[v]))
     \/ SetRow(v, Forced(v))
  /\ Stage(v, "other")
  /\ outputs' = [outputs EXCEPT ![v] = FALSE]
  /\ evid' = [evid EXCEPT ![v] = {}]
  /\ UNCHANGED <<ledger, disk, proven, policy, worker, repair>>

-----------------------------------------------------------------------------
(***************************************************************************)
(* Targeted line repair: claim one failed row, retranslate some lines of   *)
(* its subtitles in a subprocess, settle or restore the row.               *)
(***************************************************************************)
LineClaim(v) ==
  /\ ControlFree
  /\ queue[v].st \in {"paused", "failed_retry"}
  /\ queue[v].err
  /\ queue[v].media = disk[v]
  /\ \E late \in SUBSET Unattempted(v) :
       /\ Ensured(v, Cur(v), late)[Cur(v)] = "open"
       /\ obl' = [obl EXCEPT ![v] = Ensured(v, Cur(v), late)]
  /\ Begin(v, Cur(v))
  /\ SetRow(v, [queue[v] EXCEPT !.st = "running", !.src = "line", !.own = TRUE])
  /\ Stage(v, "line")
  /\ repair' = [repair EXCEPT ![v] =
       [ph |-> "claimed", id |-> Cur(v), k |-> tries[v][Cur(v)] + 1,
        st |-> queue[v].st, src |-> queue[v].src]]
  /\ UNCHANGED <<files, policy, worker>>

\* The subprocess needs the video's lock, which a working child holds.
LinePublishes(v) ==
  /\ repair[v].ph = "claimed"
  /\ ~Alive(v)
  /\ Written(v)
  /\ repair' = [repair EXCEPT ![v].ph = "published"]
  /\ UNCHANGED <<queue, beat, stale, ledger, policy, worker>>

\* The claim is still this repair's: the row and the file are unchanged.
LineOwned(v) ==
  /\ queue[v].st = "running" /\ queue[v].src = "line" /\ queue[v].own
  /\ queue[v].media = repair[v].id[1] /\ disk[v] = repair[v].id[1]

LineProven(v) == /\ repair[v].ph = "published"
                 /\ Evidence(v, repair[v].id, repair[v].k)

LineEnds(v) == repair' = [repair EXCEPT ![v] = NoRepair]

LineDone(v) ==
  LET p == repair[v] IN
  /\ LineProven(v)
  /\ LineOwned(v)
  /\ Finishable(v, p.id, p.k, "succeeded")
  /\ att' = [att EXCEPT ![v][p.id][p.k] = "succeeded"]
  /\ obl' = [obl EXCEPT ![v][p.id] = "succeeded"]
  /\ SetRow(v, [queue[v] EXCEPT !.st = "done", !.att = 0, !.err = FALSE,
                                !.force = FALSE, !.own = FALSE, !.link = NoLink])
  /\ Stage(v, "complete")
  /\ LineEnds(v)
  /\ UNCHANGED <<tries, files, policy, worker>>

LineFailed(v) ==
  LET p == repair[v] IN
  /\ p.ph # "none"
  /\ LineOwned(v)
  /\ Finishable(v, p.id, p.k, "failed")
  /\ att' = [att EXCEPT ![v][p.id][p.k] = "failed"]
  /\ SetRow(v, [queue[v] EXCEPT !.st = p.st, !.src = p.src, !.own = FALSE])
  /\ Stage(v, "other")
  /\ LineEnds(v)
  /\ UNCHANGED <<obl, tries, files, policy, worker>>

\* The claim changed hands: the settlement rolls back as a whole.
LineRefused(v) ==
  LET p == repair[v] IN
  /\ p.ph # "none"
  /\ \/ ~LineOwned(v)
     \/ ~Finishable(v, p.id, p.k, "failed")
     \/ LineProven(v) /\ ~Finishable(v, p.id, p.k, "succeeded")
  /\ LineEnds(v)
  /\ UNCHANGED <<queue, beat, stale, ledger, files, policy, worker>>

-----------------------------------------------------------------------------
World(v)     == MediaReplaced(v) \/ HeartbeatExpires(v)
Discovery(v) == \/ FsEvent(v) \/ ScanNeedsAi(v) \/ ScanCooldown(v)
                \/ ScanFinished(v) \/ ScanUnwanted(v) \/ Backfill(v)
Working(v)   == \/ Claim(v) \/ ClaimRefused(v) \/ ChildBeats(v)
                \/ ChildPublishes(v) \/ ChildCompletes(v) \/ Decide(v)
                \/ Settle(v) \/ SettleRefused(v) \/ ResultLost(v)
Command(v)   == \/ Retry(v) \/ ForceAi(v) \/ Pause(v) \/ Skip(v) \/ Prioritize(v)
                \/ Recover(v) \/ Reprocess(v)
Campaign(v)  == SweepQueue(v) \/ SweepPause(v) \/ RemediateReview(v)
LineRepair(v) == \/ LineClaim(v) \/ LinePublishes(v) \/ LineDone(v)
                 \/ LineFailed(v) \/ LineRefused(v)

Next ==
  \/ \E v \in Videos : \/ World(v) \/ Discovery(v) \/ Working(v) \/ Command(v)
                       \/ Campaign(v) \/ LineRepair(v)
  \/ Drain \/ Select \/ EndCycle \/ CliRequeueStale \/ RetryAllFailed
  \/ Crash \/ Restart

Spec == Init /\ [][Next]_vars

\* The main loop keeps cycling, a child process is ended by its deadline, the
\* parent records what it decided, the repair's subprocess has a timeout, a
\* heartbeat nobody renews expires, and the container restarts the Worker.
Fairness ==
  /\ WF_vars(Restart) /\ WF_vars(Drain) /\ WF_vars(Select) /\ WF_vars(EndCycle)
  /\ \A v \in Videos :
       /\ WF_vars(HeartbeatExpires(v))
       /\ WF_vars(Decide(v))
       /\ WF_vars(Settle(v) \/ SettleRefused(v))
       /\ WF_vars(ResultLost(v))
       /\ WF_vars(LineDone(v) \/ LineFailed(v) \/ LineRefused(v))

FairSpec == Spec /\ Fairness

\* The abstract ledger, over the same tables.
Promise == INSTANCE DeliveryPromise WITH obl <- obl, tries <- tries, att <- att, proven <- proven

-----------------------------------------------------------------------------
Row == [st : QueueStatus, media : 0..MaxMedia, att : 0..MaxAttempts,
        src : {"line", "other"}, force : BOOLEAN, err : BOOLEAN, own : BOOLEAN,
        link : [id : Ids, k : 0..MaxTries]]
Job == [ph : {"none", "working", "decided", "dropped"}, id : Ids,
        k : 0..MaxTries, out : Outcomes, full : BOOLEAN]
Repair == [ph : {"none", "claimed", "published"}, id : Ids, k : 0..MaxTries,
           st : {"paused", "failed_retry"}, src : {"line", "other"}]

TypeQueue  == /\ queue \in [Videos -> Row]
              /\ beat \in [Videos -> {"complete", "line", "other"}]
              /\ stale \subseteq Videos
TypeLedger == /\ obl \in [Videos -> [Ids -> OblState]]
              /\ tries \in [Videos -> [Ids -> 0..MaxTries]]
              /\ att \in [Videos -> [Ids -> [Tries -> TryStatus]]]
TypeFiles  == /\ disk \in [Videos -> Media]
              /\ policy \in Policies
              /\ outputs \in [Videos -> BOOLEAN]
              /\ evid \in [Videos -> SUBSET (Ids \X Tries)]
              /\ proven \in [Videos -> SUBSET (Ids \X Tries)]
TypeWorker == /\ pc \in {"down", "idle", "drained", "batch"}
              /\ batch \subseteq Videos
              /\ job \in [Videos -> Job]
              /\ repair \in [Videos -> Repair]

\* Types of the tables, the files and the processes' local state.
TypeOK == TypeQueue /\ TypeLedger /\ TypeFiles /\ TypeWorker

\* A claimed row is always backed by a running attempt of an open
\* obligation: without it neither the scanner's refusal to close the row nor
\* the two recoveries' settlement of the ledger would see that it is claimed.
RunningRowIsAccounted ==
  \A v \in Videos : queue[v].st = "running" => HasRunningTry(v)

\* An obligation counts as delivered only through an attempt that a manifest
\* of the same media and policy, published after the attempt began, proved;
\* and no attempt is recorded as successful for an obligation that is not.
DeliveredIsProven ==
  \A v \in Videos, i \in Ids :
    /\ obl[v][i] = "succeeded" => \E k \in Tries : att[v][i][k] = "succeeded"
    /\ \A k \in Tries : att[v][i][k] = "succeeded" =>
         obl[v][i] = "succeeded" /\ <<i, k>> \in proven[v]

\* What leaves the denominator was never attempted.
ExcludedWasNeverAttempted ==
  \A v \in Videos, i \in Ids : obl[v][i] \in {"none", "excluded"} => tries[v][i] = 0

\* What makes the two inductive: attempts are numbered without gaps, what is
\* evidence now stays known as proof, and the attempt a child or a repair
\* works for exists, proven once its delivery is decided.
Numbered == \A v \in Videos, i \in Ids, k \in Tries :
              att[v][i][k] = "none" <=> k > tries[v][i]
EvidenceKept == \A v \in Videos : evid[v] \subseteq proven[v]
ClaimsNumbered ==
  \A v \in Videos :
    /\ job[v].ph # "none" => job[v].k \in 1..tries[v][job[v].id]
    /\ repair[v].ph # "none" => repair[v].k \in 1..tries[v][repair[v].id]
DecidedIsProven ==
  \A v \in Videos : job[v].ph = "decided" /\ job[v].out = "evidence" =>
                    <<job[v].id, job[v].k>> \in proven[v]

\* The inductive invariant of the delivery ledger and of its writers.
LedgerInv == /\ Numbered /\ ExcludedWasNeverAttempted /\ DeliveredIsProven
             /\ EvidenceKept /\ ClaimsNumbered /\ DecidedIsProven

\* An automatic retry still has budget: failed rows never reach the limit.
RetryHasBudget ==
  MaxAttempts > 0 =>
    \A v \in Videos : queue[v].st = "failed_retry" => queue[v].att < MaxAttempts

\* A claimed row becomes done only in the step that records the success of
\* a running attempt: queue and ledger are settled in one transaction.
CompletionIsSettled ==
  [][\A v \in Videos : queue[v].st = "running" /\ queue'[v].st = "done" =>
       \E i \in Ids, k \in Tries :
         /\ att[v][i][k] = "running" /\ att'[v][i][k] = "succeeded"
         /\ obl'[v][i] = "succeeded"]_vars

\* A recorded outcome is never rewritten, whoever settles last.
OutcomesAreFinal ==
  [][\A v \in Videos, i \in Ids, k \in Tries :
       att[v][i][k] \notin {"none", "running"} => att'[v][i][k] = att[v][i][k]]_vars

\* The ledger keeps its promise to every obligation, under all writers.
KeepsPromise == Promise!Spec

\* A claimed row does not stay claimed: its child ends, or its heartbeat
\* expires and the next cycle requeues it, or a restart does.  A force of a
\* running row renews its heartbeat, so they must stop at some point.
ClaimsEnd ==
  <>[][\A v \in Videos : ~ForceAi(v)]_vars =>
    \A v \in Videos : (queue[v].st = "running") ~> (queue[v].st # "running")

\* What the comment on update_ai_job_stage says of completion: the queue row
\* is settled together with the obligation.
SettledTogether ==
  [][\A v \in Videos, i \in Ids :
       obl[v][i] = "open" /\ obl'[v][i] = "succeeded" => queue'[v].st = "done"]_vars

\* What the test of the restart says: it orphans no attempt of a line repair,
\* the last stage reported for the video.
RestartOrphansNoAttempt ==
  [][pc = "down" /\ pc' = "idle" =>
       \A v \in Videos, i \in Ids, k \in Tries :
         beat[v] = "line" /\ obl'[v][i] = "open" => att'[v][i][k] # "running"]_vars
=============================================================================
