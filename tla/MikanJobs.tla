------------------------------ MODULE MikanJobs ------------------------------
(***************************************************************************)
(* Extraction of the subtitles of one episode's downloaded releases        *)
(* (mikan_worker.py): a table of jobs that a poll fills from an old list of *)
(* torrents, claims with a lease and a heartbeat, results that are recorded *)
(* in the table and then, under the operation lock or through a file, in   *)
(* the episode's entry, and an operator who cancels and queues again.      *)
(* What is read out of a container is chosen; a thread that outlives its   *)
(* deadline is left out, for its result goes nowhere.                      *)
(***************************************************************************)
EXTENDS Naturals, FiniteSets, SequencesExt

CONSTANTS
  Releases,      \* releases of the episode, a torrent and a job each
  NoRelease,
  Slots,         \* extractions at a time
  MaxClaims,     \* bound: claims
  MaxSlips,      \* bound: operations that fail, and deaths of the Worker
  MaxRequests    \* bound: the operator's cancellations and requeues

ASSUME MikanJobsAssumption ==
  /\ NoRelease \notin Releases
  /\ {Slots, MaxClaims, MaxSlips, MaxRequests} \subseteq Nat

VARIABLES
  jobs,       \* the table: status, by (the claim), due (available, or its lease over), kind
  runs,       \* a claim's slot: its job, where it is, what came out, heartbeat, cancel event
  entry,      \* the episode: active release, failed ones, last failure, deferred, done
  completed,  \* the torrents that are downloaded
  tagged,     \* those with the processed tag
  outputs,    \* the library has the episode's subtitles
  poll,       \* what the poll read: torrents, those tagged, the entry
  records,    \* the file of results that waited for the operation lock, and its consumer
  operation,  \* where that consumer is
  loaded,     \* what it read from the file
  cancel,     \* the cancel file
  asked,      \* history: the claims it was written for
  slips, requests

jobVars == <<jobs, runs, entry, completed, tagged, outputs, poll, records, operation, loaded,
             cancel, asked, slips, requests>>

Claims     == 1..MaxClaims
Retryable  == {"later"}
Replaces   == {"replace"}
\* no usable source; an exception or ffmpeg; no or several targets; the operator
Failures   == {"replace", "error", "review", "cancelled"}
Results    == {"success", "later", "defer"} \cup Failures
FinishedAs == {"success", "failed", "replaced", "terminal"}
Busy       == {"working", "result", "update", "append"}
NoRun      == [job |-> NoRelease, at |-> "unused"]
NoPoll     == [at |-> "rest"]
Running(r, c) == jobs[r].status = "running" /\ jobs[r].by = c
Queued(by, due) == [status |-> "queued", by |-> by, due |-> due, kind |-> "none", safe |-> TRUE]
Slip       == slips < MaxSlips /\ slips' = slips + 1
Request    == requests < MaxRequests /\ requests' = requests + 1
Put(r, j)  == jobs' = [jobs EXCEPT ![r] = j]
Over(c)    == [job |-> runs[c].job, at |-> "done"]

JobsInit ==
  /\ jobs = [r \in Releases |-> [Queued(0, FALSE) EXCEPT !.status = "none"]]
  /\ runs = [c \in Claims |-> NoRun]
  /\ entry = [active |-> NoRelease, failed |-> {}, last |-> "none", deferred |-> FALSE, done |-> FALSE]
  /\ completed = {} /\ tagged = {} /\ outputs = FALSE
  /\ poll = NoPoll
  /\ records = <<>> /\ operation = "free" /\ loaded = <<>>
  /\ cancel = 0 /\ asked = {}
  /\ slips = 0 /\ requests = 0

-----------------------------------------------------------------------------
(* downloads *)

\* Which failed releases the choice leaves out: after an error none.
Excluded == IF entry.last = "error" THEN {} ELSE entry.failed

\* A release is chosen, queued in qBittorrent and made the active one.
Activate(r) ==
  /\ entry.active = NoRelease /\ ~entry.done
  /\ r \notin Excluded
  /\ operation = "free"
  /\ entry' = [entry EXCEPT !.active = r, !.last = "none", !.deferred = FALSE]
  /\ UNCHANGED <<jobs, runs, completed, tagged, outputs, poll, records, operation, loaded,
                 cancel, asked, slips, requests>>

Download(r) ==
  /\ entry.active = r /\ r \notin completed
  /\ completed' = completed \cup {r}
  /\ UNCHANGED <<jobs, runs, entry, tagged, outputs, poll, records, operation, loaded,
                 cancel, asked, slips, requests>>

LoseOutputs ==
  /\ outputs /\ Slip
  /\ outputs' = FALSE
  /\ UNCHANGED <<jobs, runs, entry, completed, tagged, poll, records, operation, loaded,
                 cancel, asked, requests>>

-----------------------------------------------------------------------------
(* the poll fills the table *)

PollTorrents ==
  /\ poll.at = "rest"
  /\ poll' = [at |-> "torrents", torrents |-> completed, tagged |-> tagged]
  /\ UNCHANGED <<jobs, runs, entry, completed, tagged, outputs, records, operation, loaded,
                 cancel, asked, slips, requests>>

PollEntry ==
  /\ poll.at = "torrents"
  /\ poll' = [poll EXCEPT !.at = IF entry.active = NoRelease THEN "rest" ELSE "entry"]
  /\ UNCHANGED <<jobs, runs, entry, completed, tagged, outputs, records, operation, loaded,
                 cancel, asked, slips, requests>>

UpsertedRevived(r, force, safe) ==
  LET j == jobs[r] new == [Queued(0, TRUE) EXCEPT !.safe = safe] IN
  CASE j.status \in {"none", "failed", "replaced", "terminal"} -> new
    [] j.status = "success"             -> IF force THEN new ELSE j
    [] j.status = "running" /\ ~j.due   -> j
    [] OTHER                            -> [j EXCEPT !.status = "queued", !.safe = safe]

\* One row of the upsert.  A replaced or finally failed job stays that, a
\* live claim and a success the torrent's tag confirms stay too.
Upserted(r, force, safe) ==
  LET j == jobs[r] new == [Queued(0, TRUE) EXCEPT !.safe = safe] IN
  CASE j.status \in {"replaced", "terminal"} -> j
    [] j.status = "failed"              -> IF j.kind \in Retryable THEN new ELSE j
    [] j.status = "none"                -> new
    [] j.status = "success"             -> IF force THEN new ELSE j
    [] j.status = "running" /\ ~j.due   -> j
    [] OTHER                            -> [j EXCEPT !.status = "queued", !.safe = safe]

\* Every completed torrent of the episode belongs to its entry.  A tagged one
\* whose outputs are gone loses the tag and runs again; a job of a recovered
\* torrent may be one whose mapping is not to be trusted.
PollUpsert ==
  /\ poll.at = "entry"
  /\ \E safe \in BOOLEAN :
       LET again == IF outputs THEN {} ELSE poll.tagged
           rows  == poll.torrents \ (poll.tagged \ again)
       IN /\ jobs' = [r \in Releases |-> IF r \in rows THEN Upserted(r, TRUE, safe) ELSE jobs[r]]
          /\ tagged' = tagged \ again
  /\ poll' = NoPoll
  /\ UNCHANGED <<runs, entry, completed, outputs, records, operation, loaded,
                 cancel, asked, slips, requests>>

-----------------------------------------------------------------------------
(* a slot *)

Occupied == Cardinality({c \in Claims : runs[c].at \in Busy})
Leased   == Cardinality({r \in Releases : jobs[r].status = "running" /\ ~jobs[r].due})

QueuedOnly(r) == jobs[r].status = "queued" /\ jobs[r].due

Due(r) == jobs[r].status \in {"queued", "running"} /\ jobs[r].due

\* Dispatched while slots are free; a queued job or one whose lease is over.
Claim(r, c) ==
  /\ Occupied < Slots /\ Leased < Slots
  /\ Due(r)
  /\ runs[c] = NoRun /\ \A d \in 1..c-1 : runs[d] # NoRun
  /\ IF jobs[r].safe
       THEN /\ Put(r, [jobs[r] EXCEPT !.status = "running", !.by = c, !.due = FALSE])
            /\ runs' = [runs EXCEPT ![c] = [job |-> r, at |-> "working", result |-> "none",
                                            beat |-> TRUE, told |-> FALSE, seen |-> FALSE,
                                            copy |-> <<>>]]
       ELSE /\ Put(r, [jobs[r] EXCEPT !.status = "terminal", !.by = 0, !.due = FALSE, !.kind = "unsafe"])
            /\ UNCHANGED runs
  /\ UNCHANGED <<entry, completed, tagged, outputs, poll, records, operation, loaded,
                 cancel, asked, slips, requests>>

CancelForJob(c) == cancel # 0 /\ runs[cancel].job = runs[c].job

\* The file names a job and the claim that had it.
CancelFor(c) == cancel = c

Acknowledge(c) == cancel' = IF CancelFor(c) THEN 0 ELSE cancel

\* The heartbeat: a cancel request ends it and tells the extraction, a lease
\* that is not its own any more or a database error ends it silently.
Beat(c) ==
  /\ runs[c].at = "working" /\ runs[c].beat
  /\ IF CancelFor(c)
       THEN /\ runs' = [runs EXCEPT ![c].beat = FALSE, ![c].told = TRUE, ![c].seen = TRUE]
            /\ UNCHANGED <<jobs, slips>>
       ELSE LET r == runs[c].job IN
            \/ /\ ~Running(r, c)
               /\ runs' = [runs EXCEPT ![c].beat = FALSE]
               /\ UNCHANGED <<jobs, slips>>
            \/ Slip /\ runs' = [runs EXCEPT ![c].beat = FALSE] /\ UNCHANGED jobs
  /\ UNCHANGED <<entry, completed, tagged, outputs, poll, records, operation, loaded,
                 cancel, asked, requests>>

\* The waiting slot looks at the file as well.
Tell(c) ==
  /\ runs[c].at = "working" /\ ~runs[c].told /\ CancelFor(c)
  /\ runs' = [runs EXCEPT ![c].told = TRUE]
  /\ UNCHANGED <<jobs, entry, completed, tagged, outputs, poll, records, operation, loaded,
                 cancel, asked, slips, requests>>

\* A lease no heartbeat renews runs out; so does the delay of a queued job.
LeaseEnds(r) ==
  /\ jobs[r].status \in {"queued", "running"} /\ ~jobs[r].due
  /\ jobs[r].status = "running" =>
       \A c \in Claims : Running(r, c) /\ runs[c].at = "working" => ~runs[c].beat
  /\ Put(r, [jobs[r] EXCEPT !.due = TRUE])
  /\ UNCHANGED <<runs, entry, completed, tagged, outputs, poll, records, operation, loaded,
                 cancel, asked, slips, requests>>

\* What the thread returns: any result; once told, perhaps that it paused,
\* and then it was the operator if the heartbeat saw the request.
Extract(c) ==
  /\ runs[c].at = "working"
  /\ \E result \in (Results \ {"cancelled"}) \cup {"paused"} :
       /\ result = "paused" => runs[c].told
       /\ runs' = [runs EXCEPT ![c].at = "result", ![c].beat = FALSE, ![c].told = FALSE, ![c].seen = FALSE,
                     ![c].result = IF result = "paused" /\ runs[c].seen THEN "cancelled" ELSE result]
       /\ outputs' = (outputs \/ result = "success")
  /\ IF runs[c].seen THEN Acknowledge(c) ELSE UNCHANGED cancel
  /\ UNCHANGED <<jobs, entry, completed, tagged, poll, records, operation, loaded,
                 asked, slips, requests>>

\* The slot waits no longer than the deadline.
Expire(c) ==
  /\ runs[c].at = "working"
  /\ runs' = [runs EXCEPT ![c].at = "result", ![c].beat = FALSE, ![c].told = FALSE, ![c].seen = FALSE,
                ![c].result = IF CancelFor(c) THEN "cancelled" ELSE "defer"]
  /\ UNCHANGED <<jobs, entry, completed, tagged, outputs, poll, records, operation, loaded,
                 cancel, asked, slips, requests>>

FinalStatus(kind) ==
  CASE kind = "success"      -> "success"
    [] kind \in Replaces     -> "replaced"
    [] kind \in Retryable    -> "failed"
    [] OTHER                 -> "terminal"

Requeued(r, c) == IF Running(r, c) THEN [jobs[r] EXCEPT !.status = "queued", !.by = 0, !.due = FALSE] ELSE jobs[r]

FinishedAnyway(r, c, kind) ==
  [jobs[r] EXCEPT !.status = FinalStatus(kind), !.by = 0, !.due = FALSE, !.kind = kind]

\* A claim that was lost meanwhile finishes nothing.
Finished(r, c, kind) ==
  IF Running(r, c) THEN [jobs[r] EXCEPT !.status = FinalStatus(kind), !.by = 0, !.due = FALSE, !.kind = kind]
                   ELSE jobs[r]

\* A deferred one goes back into the queue.  Otherwise the tag is written
\* first, then the table; if that fails the job is queued again, or left
\* to its lease.
Record(c) ==
  /\ runs[c].at = "result"
  /\ LET r    == runs[c].job
         kind == IF runs[c].result # "paused" THEN runs[c].result
                 ELSE IF CancelFor(c) THEN "cancelled" ELSE "defer"
         keep == runs' = [runs EXCEPT ![c].at = "update", ![c].result = kind]
         drop == runs' = [runs EXCEPT ![c].at = "update", ![c].result = "none"]
     IN /\ IF runs[c].result = "paused" THEN Acknowledge(c) ELSE UNCHANGED cancel
        /\ tagged' = IF kind = "success" THEN tagged \cup {r} ELSE tagged
        /\ IF kind = "defer"
             THEN /\ Put(r, Requeued(r, c)) /\ drop /\ UNCHANGED slips
             ELSE \/ /\ Put(r, Finished(r, c, kind))
                     /\ IF Running(r, c) THEN keep ELSE drop
                     /\ UNCHANGED slips
                  \/ /\ Slip /\ jobs' \in {jobs, [jobs EXCEPT ![r] = Requeued(r, c)]}
                     /\ drop
  /\ UNCHANGED <<entry, completed, outputs, poll, records, operation, loaded, asked, requests>>

-----------------------------------------------------------------------------
(* the entry *)

\* What a result of any torrent of the episode does to its active entry.
Applied(e, kind) ==
  IF e.active = NoRelease \/ kind = "none" THEN e
  ELSE CASE kind = "success" -> [e EXCEPT !.active = NoRelease, !.last = "none", !.deferred = FALSE, !.done = TRUE]
         [] kind \in Retryable -> [e EXCEPT !.deferred = TRUE, !.last = "none"]
         [] OTHER -> [e EXCEPT !.active = NoRelease, !.failed = @ \cup {e.active}, !.last = kind, !.deferred = FALSE]

\* Under the operation lock, or if that is taken, by the consumer of the
\* file or by another operation, through the file.
Update(c) ==
  /\ runs[c].at = "update"
  /\ \/ /\ operation = "free"
        /\ entry' = Applied(entry, runs[c].result)
        /\ runs' = [runs EXCEPT ![c] = Over(c)]
     \/ /\ runs' = [runs EXCEPT ![c].at = "append", ![c].copy = records]
        /\ UNCHANGED entry
  /\ UNCHANGED <<jobs, completed, tagged, outputs, poll, records, operation, loaded,
                 cancel, asked, slips, requests>>

\* The file is read and replaced without a lock.
Defer(c) ==
  /\ runs[c].at = "append"
  /\ records' = IF runs[c].result = "none" THEN runs[c].copy
                ELSE Append(runs[c].copy, [job |-> runs[c].job, kind |-> runs[c].result])
  /\ runs' = [runs EXCEPT ![c] = Over(c)]
  /\ UNCHANGED <<jobs, entry, completed, tagged, outputs, poll, operation, loaded,
                 cancel, asked, slips, requests>>

Consume ==
  /\ records # <<>> /\ operation = "free"
  /\ operation' = "loaded" /\ loaded' = records
  /\ UNCHANGED <<jobs, runs, entry, completed, tagged, outputs, poll, records, cancel, asked, slips, requests>>

\* The entry is written if a record released or deferred it, or failed with
\* a replacement to look for; that a release waits for a review is not kept.
Changes(record) == record.kind \notin {"review", "cancelled"}

AppliedAll ==
  FoldLeft(LAMBDA a, record : [entry |-> Applied(a.entry, record.kind),
                               save  |-> a.save \/ (a.entry.active # NoRelease /\ Changes(record))],
           [entry |-> entry, save |-> FALSE], loaded)

ConsumeSave ==
  /\ operation = "loaded"
  /\ entry' = IF AppliedAll.save THEN AppliedAll.entry ELSE entry
  /\ operation' = "saved"
  /\ UNCHANGED <<jobs, runs, completed, tagged, outputs, poll, records, loaded, cancel, asked, slips, requests>>

\* What was appended since the file was read goes with it.
ConsumeUnlink ==
  /\ operation = "saved"
  /\ records' = <<>> /\ loaded' = <<>> /\ operation' = "free"
  /\ UNCHANGED <<jobs, runs, entry, completed, tagged, outputs, poll, cancel, asked, slips, requests>>

-----------------------------------------------------------------------------
(* the operator, and the end of the Worker *)

AskCancel(r) ==
  /\ jobs[r].status = "running" /\ Request
  /\ cancel' = jobs[r].by
  /\ asked' = asked \cup {jobs[r].by}
  /\ UNCHANGED <<jobs, runs, entry, completed, tagged, outputs, poll, records, operation, loaded, slips>>

RequeueOne(r) ==
  /\ jobs[r].status \in {"failed", "terminal"} /\ Request
  /\ Put(r, [Queued(0, TRUE) EXCEPT !.safe = jobs[r].safe])
  /\ UNCHANGED <<runs, entry, completed, tagged, outputs, poll, records, operation, loaded,
                 cancel, asked, slips>>

\* The retryable failures, and running ones whose lease is over.
RequeueFailed ==
  /\ Request
  /\ jobs' = [r \in Releases |->
       IF \/ jobs[r].status = "failed" /\ jobs[r].kind \in Retryable
          \/ jobs[r].status = "running" /\ jobs[r].due
         THEN [Queued(0, TRUE) EXCEPT !.safe = jobs[r].safe] ELSE jobs[r]]
  /\ UNCHANGED <<runs, entry, completed, tagged, outputs, poll, records, operation, loaded,
                 cancel, asked, slips>>

\* All threads are gone; what they had claimed is queued before new ones start.
WorkerRestarts ==
  /\ Slip
  /\ runs' = [c \in Claims |-> IF runs[c] = NoRun THEN NoRun ELSE Over(c)]
  /\ jobs' = [r \in Releases |->
       IF jobs[r].status = "running" THEN [jobs[r] EXCEPT !.status = "queued", !.by = 0, !.due = TRUE]
                                     ELSE jobs[r]]
  /\ poll' = NoPoll /\ operation' = "free" /\ loaded' = <<>>
  /\ UNCHANGED <<entry, completed, tagged, outputs, records, cancel, asked, requests>>

Slot(c) ==
  \/ Beat(c) \/ Tell(c) \/ Extract(c) \/ Expire(c) \/ Record(c) \/ Update(c) \/ Defer(c)
  \/ \E r \in Releases : Claim(r, c)

JobsNext ==
  \/ \E c \in Claims : Slot(c)
  \/ \E r \in Releases : Activate(r) \/ Download(r) \/ LeaseEnds(r) \/ AskCancel(r) \/ RequeueOne(r)
  \/ LoseOutputs \/ PollTorrents \/ PollEntry \/ PollUpsert
  \/ Consume \/ ConsumeSave \/ ConsumeUnlink
  \/ RequeueFailed \/ WorkerRestarts

JobsSpec == JobsInit /\ [][JobsNext]_jobVars

\* Slots run to their end, time passes, and the dispatcher comes round.
JobsFairness ==
  /\ \A c \in Claims :
       /\ WF_jobVars(Extract(c) \/ Expire(c)) /\ WF_jobVars(Record(c))
       /\ WF_jobVars(Update(c)) /\ WF_jobVars(Defer(c))
  /\ \A r \in Releases :
       /\ WF_jobVars(LeaseEnds(r))
       /\ SF_jobVars(\E c \in Claims : Claim(r, c))

-----------------------------------------------------------------------------
(* Properties *)

JobsTypeOK ==
  /\ jobs \in [Releases -> [status : {"none", "queued", "running"} \cup FinishedAs, by : 0..MaxClaims,
                            due : BOOLEAN, safe : BOOLEAN, kind : Results \cup {"none", "unsafe"}]]
  /\ \A c \in Claims : runs[c].at \in Busy \cup {"unused", "done"}
  /\ entry \in [active : Releases \cup {NoRelease}, failed : SUBSET Releases,
                last : Results \cup {"none"}, deferred : BOOLEAN, done : BOOLEAN]
  /\ tagged \subseteq completed /\ completed \subseteq Releases
  /\ operation \in {"free", "loaded", "saved"}
  /\ cancel \in 0..MaxClaims /\ asked \subseteq Claims

\* A claim that was overtaken, by a lease that ran out under it, a requeue or
\* a restart, records no result: only a job's latest claim finishes it.
LatestClaimRecords ==
  [][\A c \in Claims :
       runs[c].at = "result" /\ runs'[c].at # "result" /\ jobs'[runs[c].job].status \in FinishedAs
         => \/ jobs'[runs[c].job] = jobs[runs[c].job]
            \/ \A d \in Claims : runs[d].job = runs[c].job => d <= c]_jobVars

\* A cancellation ends no other claim than the one that ran when it was
\* asked for, not a later one of the same job either (mikan_worker.py:114
\* "so a stale marker can never cancel a later retry").
CancelHitsItsClaim ==
  \A c \in Claims : runs[c].at \in Busy /\ runs[c].result = "cancelled" => c \in asked

\* A release that was given up is not read again because a poll still sees
\* its torrent; only the operator takes a final failure back.
GivenUpStaysSo ==
  [][\A r \in Releases :
       /\ jobs[r].status = "replaced" => jobs'[r] = jobs[r]
       /\ jobs[r].status = "terminal" /\ requests' = requests => jobs'[r] = jobs[r]]_jobVars

\* A claimed job does not stay so, whatever became of its slot, while there
\* are claims left.
ClaimsAreLeft == runs[MaxClaims] = NoRun
JobsEnd ==
  JobsFairness =>
    \A r \in Releases : [](jobs[r].status = "running" => <>(jobs[r].status # "running" \/ ~ClaimsAreLeft))

\* Once the waiting results are applied no release stays active that one of
\* them finished (mikan_worker.py:2972 "Save
\* that state even when the replacement list is empty").
WaitingResultsApplied ==
  [][/\ operation = "loaded" /\ operation' = "saved"
     /\ \E i \in DOMAIN loaded : loaded[i].kind # "later"
     => entry'.active = NoRelease]_jobVars
=============================================================================
