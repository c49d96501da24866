# A verification project for the anime subtitle worker

This directory holds TLA+ models of the Worker that produces Chinese subtitles
for a library of anime: what is modelled, which instances TLC checks, and which
theorems TLAPS proves for every instance. Paths are relative to `src/`.

## 1. The system

One container runs the **Worker** (`main.py`). Its main thread repeats a cycle:
requeue stale rows, select candidates, claim each, run a child process per
video, settle the result. Background threads of the same process scan the
library, watch the filesystem, backfill the ledger, execute control commands,
drive remediation campaigns and run the Mikan downloader. Operator tools are
separate processes on the same files and databases. Everything durable is in
SQLite databases (WAL, one writer at a time), in JSON files and in files beside
the videos.

| component | code | state | operations | modelled in |
|---|---|---|---|---|
| AI queue and delivery ledger | `scan_state.py` | `ai_candidate_queue`, `ai_job_state`, `ai_delivery_obligations`, `ai_delivery_attempts` | upsert, claim, done, failed, review, stage heartbeat, requeue stale, restart recovery and reconciliation, manual commands, admit, begin, finish, verify, exclude | `AiQueue` |
| Worker cycle and children | `main.py`, `worker.py` | batch, futures, child processes | drain, select, claim, run, settle, abort, shut down | `AiQueue` |
| Discovery | `scanner.py`, `event_watcher.py` | scan cache, pending events | classify and update the queue, backfill, upsert | `AiQueue`, `InventoryEpochs` |
| Files of one video | `worker.py`, `output_manifest.py` | transcript, translation, sidecars, marks, published files, manifest | reuse, repair, commit, publish, recover, archive | `SubtitleCache`; as evidence in `AiQueue` |
| Transcription | `worker.py`, `transcriber.py` | one transcript with diagnostics and mark | attempts, gates, fallbacks, rollback, cleanup | `Transcription` |
| Translation | `translator.py` | one run, its checkpoint | batches, retries, splits, repairs, omissions, resume | `TranslationRun` |
| Translation memory, outbox | `translation_memory*.py`, `worker.py` | lessons, intents | look up, record, replay, learn | `MemoryOutbox` |
| Line repair, reprocessing | `retranslate_ai_lines.py`, `reprocess_ai_video.py`, `main.py` | subprocess, archive | claim, publish, settle, restore; archive and requeue | `AiQueue`, the slot in `ReviewAutopilot`; files in `CompletedDelivery` |
| Control commands | `control_state.py`, `main.py` | inbox, `control_commands` | take in, claim, execute, answer, reconcile | `ControlCommands` |
| Campaigns | `control_state.py`, `main.py` | `auto_remediation_*` | start, pause, resume, cancel, advance; claim guard | `RetryCampaign` |
| Reviews and autopilot | `main.py`, `control_state.py` | reviews, their commands, the reserved slot | open, propose, execute, settle, resolve | `ReviewAutopilot` |
| Inventory epochs | `scanner.py`, `scan_state.py` | epoch and media inventory tables | begin, observe, finalize, fail, resume, summarize | `InventoryEpochs` |
| Delivery statistics | `scan_state.py` | the ledger's times, the chain of epochs | judge what the chain covers | `DeliveryStatistics` |
| GPU lease | `gpu_lease.py` | kernel lock, registry, state file | acquire, release, fork | `GpuLease` |
| Video lock | `lock.py` | lock file | acquire, take over, release | `VideoLock` |
| Resource admission | `resource_*.py` | JSON state file | probe, decide, plan, check, record failure | `ResourceAdmission` |
| Mikan downloads | `mikan_worker.py`, `qbit_client.py` | pending entries, seen file, torrents | enqueue, poll, restore, expire | `MikanEpisode` |
| Mikan extraction | `mikan_worker.py` | job table, results file, cancel file | claim, extract, record, apply, cancel, requeue | `MikanJobs` |
| Completed delivery | `completed_delivery.py`, `reprocess_ai_video.py`, `worker.py`, `main.py` | completed MKV, receipt, marker, staged file, archive | mux, link, commit, accept; archive, restore, roll back | `CompletedDelivery` |
| Backup, maintenance, tools | `backup_state.py`, `database_maintenance.py`, `repair_*.py` | snapshots | | not modelled |

**What is hard.** Six kinds of writers touch one row and its obligations
without a common lock, each in a transaction of its own; what they read before
the transaction may be stale in it. Children outlive the claims that started
them, write a dozen files per video in an order that has to survive a death
between any two, and find on disk what the last one left. The Worker may die
anywhere and restart with another configuration. Media files are replaced under
a running child, under a walk of the library, under a review. The Mikan side
decides by lists of torrents that are seconds old and may find every lock
taken. JSON files are read, changed and replaced without a lock. `PROJECT.json`
lists each hazard at its line and the properties that would catch it.

**What makes it correct.**

* Ledger: a claimed row is backed by a running attempt; a row is closed under a
  claim only by the delivery itself; an obligation counts as delivered only if a
  manifest of its own media and policy, published after the attempt began,
  proves it; it leaves the denominator only before its first attempt; an outcome
  is written once; a claim does not last for ever.
* Files: what stands as delivered was made of an accepted transcript, complete,
  and both texts belong together; every publication with a lineage is recorded
  for learning. A transcript only goes on if the gates of its own attempt passed
  it. A committed translation was made from its own transcript, and every line
  left out is told. The memory never feeds on itself.
* Locks: at most one object has the GPU, and only a fork inside a window of two
  system calls keeps a dead owner's lock alive. No exit path leaves a lock file
  that names a live process nobody will remove it for, a dead owner's file goes,
  and two objects hold it together only after a takeover that overlapped another
  acquisition.
* Commands: each is started at most once and answered in the end. A campaign
  excludes every other and follows every item, a canary claims nothing but its
  target and succeeds only by delivering it, and a campaign comes to an end. No
  failure is remedied twice by one policy.
* Inventory: when the summary says complete, it is; no clock starts too late;
  what a summary has judged stays judged that way. Nothing is launched on a plan
  better than the evidence on file allows.
* Mikan: a claim that was overtaken records nothing, a cancellation ends the
  claim it was asked for, what was given up stays so, a finished episode has no
  active release again, a torrent that disappears is given up, and a job does
  not stay claimed.

How the parts meet. Discovery, the main thread, the control thread and the
operator tools share the queue and ledger tables; the control thread also owns
the campaign and review tables, and the Worker reads those under the claim guard
before it claims. Children report through job stages and manifest files. A child
holds the video lock and, for GPU work, the lease and a plan of the resource
admission. The Mikan threads meet the rest only through the files they put
beside the videos.

## 2. Modules

| module | what it is |
|---|---|
| `DeliveryPromise` | the abstract ledger of one obligation: opened, attempted, delivered or excluded, with outcomes that are final; nothing of rows, children or restarts |
| `AiQueue` | the detailed system: four tables, files and processes. `Promise == INSTANCE DeliveryPromise` reads its ledger variables as they are, and `KeepsPromise` says that it implements the abstract ledger |
| `LeasePromise`, `GpuLease` | one owner of the GPU, taken when free; and the registry, open files and kernel lock that implement it (`LeaseKept`, with the owner computed from where the objects are) |
| `VideoLock` | the lock file, one step per system call, for any objects of any processes |
| `ControlCommands` | inbox, table and thread |
| `RetryCampaign` | the campaign loop with the claim isolation of a canary, over a coarser view of the queue |
| `ReviewAutopilot` | failures, reviews, policies, commands and the line repair's slot |
| `SubtitleCache`, `Transcription`, `TranslationRun`, `MemoryOutbox` | what a child does with the files of a video, at four scales |
| `InventoryEpochs`, `DeliveryStatistics` | the walk with its interleavings, and the chain of walks with a clock |
| `ResourceAdmission` | the decision with its hysteresis and the file it lives in |
| `CompletedDelivery` | the completed MKV of one video between the child, the parent, a reprocess and a restore |
| `MikanEpisode`, `MikanJobs` | the entry of an episode between its threads, and the extraction jobs |
| `AiQueueProofs`, `RetryCampaignProofs`, `ControlCommandsProofs` | the theorems of one module each |
| `LockProofs` | the theorems of `GpuLease` and `VideoLock` |
| `PublicationProofs` | those of `SubtitleCache` and `MemoryOutbox` |
| `PipelineProofs` | those of `Transcription`, `TranslationRun` and `ReviewAutopilot` |
| `LibraryProofs` | those of `InventoryEpochs`, `DeliveryStatistics`, `ResourceAdmission` and `CompletedDelivery` |
| `MikanProofs` | those of `MikanEpisode` and `MikanJobs` |
| `MCAiQueue`, `MCVideoLock`, `MCRetryCampaign`, `MCMikanJobs` | instances |
| `MCParts`, `MCSafety` | sums of components that share no variable: `part`, chosen once, says which of them moves in a behaviour, so that one run checks each of them alone. `MCSafety` sums those with safety properties only |

Components that share state through a file or a row are not composed into one
state space; each takes what the other does as possible at any time, which is
more than the code does. `AiQueue` takes what a campaign or an autopilot does to
a row as one of its commands; `RetryCampaign` and `ReviewAutopilot` take every
step that `AiQueue` allows a row as a step of their surroundings.
`SubtitleCache` takes any outcome of `Transcription` and `TranslationRun`;
`MemoryOutbox` sees of `SubtitleCache` the marker, the manifest and the intent;
`MikanEpisode` takes any result of `MikanJobs`; `CompletedDelivery` takes the
publication of a child as one step, which `SubtitleCache` takes apart.

### AiQueue

* A row of `queue` is a row of `ai_candidate_queue`; `"absent"` is no row. Its
  fields are the columns that decide something: `media` for
  `media_mtime_ns`, `att` for `attempts`, `src` for `source` (the line repair's
  or any other), `force` for `force_ai`, `err` for a line-repairable
  `last_error_code`, `own` for "`running_at` is what the line repair wrote",
  `link` for the attempt that `iter_ai_queue_candidates` joins a failed row to
  by error code and finish time.
* `beat` and `stale` are what `ai_job_state` decides: the last reported stage
  and whether the last heartbeat is older than the cutoff.
* `obl`, `tries`, `att` are `ai_delivery_obligations.state`, its
  `attempt_count` and the statuses of `ai_delivery_attempts`. A delivery
  identity is a pair of a media revision and a policy.
* `disk`, `outputs`, `evid` are the media file, the subtitle files and what the
  manifest on disk is strict evidence for: its identity is that of the file and
  policy when it was published, and it serves every attempt begun before.
  `proven` is a history variable that remembers all such evidence.
* `pc`, `batch`, `job`, `repair` are the local state of the main thread, its
  children and the control thread; a crash loses them.

One action is one transaction (`_commit_ai_queue_state_write` and its callers)
or one step between two. Reading the evidence and the retry budget (`Decide`)
and recording the result (`Settle`) are two actions, because the code reads
files and rows before the write transaction begins. An exception inside a
transaction rolls it back and aborts the whole cycle (`AbortCycle`): the
executor waits for the other children, whose results nobody records
(`ResultLost`).

Abstracted: times (a heartbeat is stale or not, a cool-down over or not, a
deadline passed or not, each nondeterministic), the order of candidates (a
batch is any set of claimable rows), error texts and codes beyond what queries
compare, the contents of subtitles. Left out: the acceptance lane, exact canary
claims, the deployment hold and pause file (they only keep `Select` from
running, which it may do anyway).

### Locks: GpuLease and VideoLock

`GpuLease`: `at` is where an object is in `acquire` or `release`; `registry` is
the process-local table, `desc` says which processes have a descriptor of an
open file, `kernel` which open file has the `flock`. The lock goes with the last
descriptor, so a copy made by a fork keeps it; the handler in the child closes
the files the registry knows by then, and `leaked` remembers those it could not
know. A write of the state file may fail without consequence, `LOCK_UN` may fail,
a process may die anywhere.

`VideoLock`: `file` is what the lock path names: created exclusively and empty
(`full` is FALSE), then filled with pid and start time; `pc` is where an object
is in `acquire`, between two system calls: create, stat, read, unlink, write. A
pid is an element of `Processes` and a start time is `life`, so a process
started again does not look like its predecessor. The age of a file is beyond
`stale_seconds` or not. Left out: the one-second tolerance when start times are
compared, and lock files of older versions without a start time.

### Control: ControlCommands, RetryCampaign, ReviewAutopilot

`ControlCommands` has the single thread's place in its loop as `step`, the file
or row in its hands as `current`, the table as `command` and, as history, how
often each key's command was started. Everything that talks to a database or to
a file may fail, also only because it was busy; the Worker may die between any
two steps.

In `RetryCampaign`, `camp` is `auto_remediation_campaigns`: state, current item,
the counters `processed` (`done`) and `failed` plus `blocked_review` (`bad`), and
the target of a canary (`goal`). `items` is `auto_remediation_items`, whose
semantic key is unique; `old` stands for the delivery evidence a canary's item
records before it starts. `todo` is the control thread's program counter inside
`_advance_ai_failed_retry_sweep`: the branch taken and what is still to be
written to it. A `Look...` action reads and decides; `Bind`, `Apply`, `Contain`,
`WriteItem`, `WriteCamp` are its transactions, each in one of the two databases;
`Abort` is an exception between them, caught by the loop, or the death of the
Worker. `mode` and `batch` are the main thread's batch and what it was selected
for; `Allowed` is the check under `auto_remediation_claim_guard`, made again for
every claim. `spent` is a history variable: how often a failure was queued
again. Cool-downs, attempt ceilings and failure codes make a failed row eligible
or not, nondeterministically; a row may fail with the same revision again,
because `_failure_revision` hashes only path, code and message. Left out: a
second Worker process on the same databases, and the parallel lanes (a canary
refuses them).

`ReviewAutopilot` follows one video through its failures: the child that opens
reviews, the parent that pauses the row, the five policies in the order the
thread asks them (`omission`, `lines`, `timing`, `selective`, `full`), the
command with its compare-and-set on the row, the remedy, the answer, and the
restart that closes what was interrupted. A second video is there to keep the
Worker busy, for the slot of the line repair. Intervals and cool-downs may be
over at any time; what a remedy does to files is `SubtitleCache`'s.

### The child: SubtitleCache, Transcription, TranslationRun, MemoryOutbox

`SubtitleCache` is one video's directory as a job finds and leaves it. Texts are
numbered transcripts; a sidecar fits the files beside it, an older state of them,
or is missing. `job.at` names the step; a step ends where a death makes a
difference, and `Crash` may follow each. The next job starts with what the last
one left. Publications are numbered, so that one of three published files from
another publication than the others can be told. `Pace` shortens lines too long to be
read, twice at most; `Retime` and `Correct` are the remediation before a
publication: times that collide are moved in all texts alike under the mark of a
transcript, so that a death among the files loses them all, and words are
corrected in place, after which the lineage is bound to them only beside the
manifest. A retimed transcript keeps its number, and so do its diagnostics, which
accept it before and after. Line repairs by the operator, which write the same
files when no job runs, are left out here.

`Transcription` opens up the making of one transcript: the attempts write in
place under one mark, each judged by gates, the next chosen by why the last was
refused. `srt.sound` is the verdict of the gates of the very attempt that wrote
the text; `verdict` is what the diagnostics file says and of which text.
Segments, scores, timing and loudness are reduced to these verdicts. Any file
operation may fail, as `Closed` says for the cleanup.

`TranslationRun` opens up the translation: `parts` is what the current batch was
split into, `attempt` and `plain` how the first part is asked, `fix` the repair
of one line, `saved` the checkpoint, `output` what was committed with its events.
The options are at their defaults. Branches that cannot be reached from them are
left out: kana that is left after all attempts, and the fallback to the source
text. Model choice, parsing of answers and the lines the memory supplies are
left out.

`MemoryOutbox` reduces a text to one line that every episode of the series has.
An intent is named for its obligation and publication; the outbox never has two
under one name. Its text is one of a few wordings, hashes are equality.

### CompletedDelivery

A file is what was written into it: `onDisk["film"]` is the medium and the
subtitle text it was muxed from, the receipt what it was written for with the
digest of the film, `mark` the marker with the transaction it names, `staged`
the file that marker names. `mux` is the holder of the lock of the video: a
delivery (`publication` to `unmark`), of a job or of a line repair (`by`), the
parent's look at the evidence (`verdict`), or a reprocess or restore with its
moves (`archive`, `backup`, `restore`, and `undo`, `unrestore` for the rollback).

A line repair is the second deliverer (`retranslate_ai_lines.py:187`). It copies
the publication (`StartRepair`), publishes the new text (`RetranslateLines`), goes
through the very steps of a delivery, and records its result (`FinishRepair`).
Whatever is raised on the way leads to `CopyBack` instead of to the end
(`Raises`): the old publication comes back, or one of its files if the copying
fails too, while marker, film and receipt stay as the delivery left them. A
repair ordered through the queue claims its identity, so it is refused once that
is accepted, and the parent looks at its evidence; one that is run by hand has
neither (`by = "hand"`).

Media are replaced at any time, subtitles edited except in the middle of a move,
the policy changes between two starts, and a death may follow every step: of the
child alone (`FailJob`), or of all, after which the parent looks for what the
attempt committed (`DieDelivering`); of a repair that is killed, after which
nothing is copied back, and a restart looks at its evidence only while the row
says that it was repairing (`DieRepairing`); or among the moves, where a rollback
may also fail without one (`FailUndo`). The order in which an archive moves the
files is any, because it sorts paths whose roots are configured. `aside` is what
was moved away or copied so far, `store` the last complete archive; a restore
takes no other. `disowned` remembers the two ways in which the code gives a film
up.

### Inventory: InventoryEpochs and DeliveryStatistics

`InventoryEpochs` has one step per file system call or transaction of the walk:
listing a directory, classifying a file outside of any transaction, recording
row, obligation and observation in one. Files change between any two, the watcher
writes its events late or loses them at a restart, other scans, backfill and the
Worker write the same tables. Times are counted in completed epochs. One policy,
one root.

`DeliveryStatistics` makes a walk one step and adds the clock: eligibility,
deadline, the time a publication was made and the time it was recorded. `Chain`
is the unbroken sequence of walks: a failed walk, one whose obligations no longer
recount to what it attested, or a gap that is too long breaks it. The cohort is
every obligation whose deadline lies between the first one the chain watched in
full and its last walk. Left out: the rolling window, the confidence bounds
computed from the counts, a change of policy or root.

### ResourceAdmission

`admission` is the state file, `launch` what a launcher or its child is doing.
Two launchers are the daemon and an operator's `--auto-once` or `--scan-once`
process: no lock keeps them apart. A sample is reduced to what the thresholds
make of it: calm, pressed or critical, and which of the two model routes fits.
Time is two events: a plan is older than its minute, the six hours after an
out-of-memory end are over. `raced` remembers that a writer replaced a state it
had not read. Left out: batch sizes, the pause of extraction under I/O pressure,
the dashboard's view.

### Mikan: MikanEpisode and MikanJobs

In `MikanEpisode` each section under the operation lock is one step of the
enqueue thread or of the poll; between two sections they hold what they read. If
a lock is taken, the section is skipped. `torrent` is what qBittorrent has, which
others may delete.

In `MikanJobs` a claim is numbered, and `runs` is its slot with its own thread,
heartbeat and cancel event; a lease may run out under it. A result goes into the
table and then into the entry, under the operation lock or through the file of
waiting results, which its consumer reads and replaces. Left out of both: the
redownload of whole series, target reviews and the choice of a target; feeds and
names are data. A thread that outlives its deadline is left out, for its result
goes nowhere.

## 3. Runs

All with `CHECK_DEADLOCK FALSE`: the bounds stop the counters, and a real Worker
may have nothing to do.

| run | instance | checks |
|---|---|---|
| `media` | 1 video, 2 media revisions, 2 attempts per identity, 3 in all, budget 2 | `DeliveredIsProven`, `RetryHasBudget`, `CompletionIsSettled`, and the refinement `KeepsPromise`; 1.3 million states |
| `lanes` | 2 videos in 2 lanes, 1 attempt each, symmetric | `RunningRowIsAccounted`, also after the aborted cycle and the lost result of another child |
| `live` | 1 video, 2 policies, 2 attempts, budget 2, `FairSpec` | `ClaimsEnd` |
| `settled` | 2 media revisions | violated: `SettledTogether`, see below |
| `orphan` | 1 video, 2 attempts | violated: `RestartOrphansNoAttempt`, see below |
| `owner` | 3 objects in 2 processes, 2 lives each | violated: `LiveOwnerIsAuthoritative`, see below |
| `campaigns` | 1 video with 2 media revisions, an operator's sweep and a canary, 1 interruption | `OneActive`, `ItemsFollowed`, `OneAttemptUninterrupted`, `CanaryProven`, `CanaryIsolated` |
| `settles` | 1 video, a sweep of 1 item, 1 interruption, `FairSpec` | `CampaignSettles` |
| `parts` | lease: 3 objects in 2 processes, 2 open files; commands: 2 keys, 3 files, 1 death, 1 failure; video lock: 3 objects, 2 processes, 2 lives; episode: 2 releases, 1 trouble | `LeaseKept`, `OrphanOnlyByFork`; `CommandOnce`, `CommandsAnsweredFairly`; `Exclusive`, `DeadLockRemovedFairly`; `FinishedStaysDetached`, `GoneTorrentFairly` |
| `jobs` | 2 releases, 2 slots, 2 claims, 1 slip, 1 request of the operator, with fairness | `CancelHitsItsClaim`, `LatestClaimRecords`, `GivenUpStaysSo`, `JobsEnd` |
| `waiting` | the same | violated: `WaitingResultsApplied`, see below |
| `safety` | the nine parts below; 4.8 million states | see below |

| part of `safety` | instance | checks |
|---|---|---|
| texts | 2 transcripts, 2 publications, 1 death, 1 change of policy | `DeliveredIsSound`, `DeliveredTogether`, `LessonsKept` |
| memory | 2 episodes, 2 wordings, 2 lanes, 3 publications, 1 medium replaced, 1 mishap | `SuppliedIsIndependent`, `RetryFindsItsIntent` |
| reviews | 3 failures of 5 revisions, 1 full transcription, 1 command by hand or death | `RemedyOnce`, `RepairAloneUnlessOvertaken` |
| epochs | 1 path, 2 media, 2 changes, 2 epochs, 1 error or restart | `Attested`, `EligibleInTime` |
| lines | 3 lines in batches of 2, 2 retries, 2 transcripts | `CommittedFits`, `OmissionsTold` |
| speech | 2 jobs | `GoesOnSound`, `PromptNotRepeated` |
| resources | 2 launchers, 4 decisions, 2 samples to recover, 1 out-of-memory end | `LaunchIsCautious` |
| statistics | 2 releases, 3 ticks, deadline 1, gap 1, 1 claim each | `VerdictsLast` |
| films | 2 media, 2 policies, 2 texts, 3 jobs or line repairs, 2 deaths or failures, 1 archive and its restore | `FilmAccounted` |

`media` to `live` show that every writer, crash and restart keeps rows and
ledger consistent; `campaigns` that a sweep and a canary exclude each other and
that only an interruption queues the same failure twice; `parts` and `safety`
what their properties say of each component alone.

**Why the bounds are enough.** A superseded identity needs a second media
revision, a second claim of the same identity a second attempt, an orphaned
attempt of an older identity a third one, a lost result a second child, a
delivery for another policy a restart. Two videos share only the cycle, so one
is enough for everything except the lanes. For the locks, three objects are the
fewest with a waiter whose verdict is overtaken by a second acquisition, and two
of them in one process show that the process identity alone cannot tell them
apart. Two campaigns are enough for a conflict and a succession, one
interruption for every pair of transactions. Two keys with two bodies show a
conflict beside an innocent command. Two transcripts and two publications are
the fewest that can be mixed up; three publications let a lesson come from two
episodes and be used in a third. Three lines in batches of two have a batch that
splits and one that does not. A file that changes twice can change before and
behind a walk and come back; two epochs let a walk compare with the last one.
Two jobs are the fewest where one finds what the other left (three were checked
once, with the same result). Two launchers are the fewest that race. Three ticks
let an obligation begin, be due, be judged, and be judged again. Two claims of
one job are the fewest to be confused. Two media, policies and texts make every
kind of difference between a marker and the present, three jobs let one find
what a failed one left of what another had left (three texts were checked once,
with the same result). A second failure or death would mostly repeat the first.
Every property of a passing run has a mutant of the code that breaks it within
these bounds; the mutated definitions stand before the ones they mutate.

Where the state space of a sum would be needlessly large, a part's constants are
smaller than its own behaviour would allow (one path in `epochs`, one death in
`texts`); the sum itself adds nothing, since only one part moves. `lanes` has a
symmetry set, the videos of `AiQueue`. `MCSafety` names three interchangeable
things by hand instead: the first text that a model made, the first of the two
failed transcripts, and the policy a film starts with. That is sound because
every definition and every property treats these values alike.

**Fairness.** `live`: the main loop keeps cycling and the container restarts the
Worker; a child is ended by its deadline (`ai_subprocess_timeout_seconds`), so it
is decided or its result is lost; the repair subprocess has a timeout; and a
heartbeat that nobody renews expires by the passing of time. No fairness is
assumed of the operator, of the library or of a child's success. `ClaimsEnd`
needs one assumption on the operator: forcing a running row renews its
heartbeat, so this must stop at some point.

`settles` assumes that the control thread finishes a round within the cool-down
of a failed row (the cool-down is minutes, a round is a few transactions), that
the Worker keeps taking candidates, that a child ends by its deadline and that
the operator does not hold the queue for ever. `CampaignSettles` itself requires
that scans and the operator eventually leave the rows alone, and exempts a row
that was queued again after its delivery: the ledger refuses every attempt at it
(`scan_state.py:2825`), and the campaign waits for it as long as nobody
intervenes.

`parts`: each liveness property has its component's fairness as its hypothesis,
for the part that moves. `CommandFairness`: the loop comes round, a claim gets
old, the container is restarted; an answer is promised unless a hold stays.
`LockFairness`: callers come back with the next cycle, time passes, processes
restart; a caller that holds the lock owes nothing. `EpisodeFairness`: both loops
of the scheduler run again and again, whatever they skipped.

`jobs`: slots run to their end or their lease does, time passes, the dispatcher
comes round. Nothing is assumed of the operator or of a success.

### Findings

* `settled`: `mark_ai_queue_done` refuses a row that still has a running attempt
  of another identity, and its caller ignores the refusal
  (`scan_state.py:1044`, `main.py:6941`), although the comment at
  `scan_state.py:1999` says that row and obligation are settled together. It
  takes a manual retry of a claimed row, a crash, a restart and a replaced file.
* `orphan`: a row removed by a scan under a running line repair leaves the
  repair's attempt running across a restart (`scan_state.py:2252`), which the
  test at `test_scan_state.py:1905` says a restart cannot do.
* `owner`: a waiter that finds the lock vanished counts it as stale and unlinks
  whatever the path names by then (`lock.py:91`, `lock.py:28`), also the lock the
  next owner has just completed, against the comment at `lock.py:107`.
* `waiting`: a result that had to wait for the operation lock and failed for a
  review is applied to the entry in memory only: the consumer of the file saves
  the entry for other results, not for this one, and removes the record
  (`mikan_worker.py:4232-4247`), although the path that needs no waiting says why
  it has to be saved (`mikan_worker.py:2970`).

### What the models show besides

No doc speaks of these, so they are no findings; a property allows each by an
exception that names it (in parentheses), or a history variable does.

* Files: a crash between the removal of a transcript and that of its translation
  leaves the translation for the next transcript (`apart`); a manual job that
  finishes another job's publication loses its lesson (`handed`). After an
  escalation whose promotion, rollback and cleanup all fail, because no file can
  be written, the mark goes all the same (`worker.py:3267`), and the translation
  of the old text can be published with the new transcript (`helpless`). A
  rejected text may stand beside diagnostics that say accepted; a text blanked
  without diagnostics and mark fails every later job. The "one permitted
  selective attempt" of `claim_asr_repair_attempt` lives in the diagnostics file
  that each new transcription removes first. The Japanese route does not clear
  the model when only the backend changes (`worker.py:6225`), the other one does
  (`worker.py:2175`).
* Translation: the event of a provisional omission stays when a later attempt
  translates the line, which only blocks a publication too often; a checkpoint is
  used only if the model writes the same episode context again, and an error
  while it is written fails the run.
* Memory: a video published again with another text is refused by the memory for
  ever; the batch of 32 intents at a start can be filled by some that are never
  ready.
* Control: an identical failure can be queued twice by a sweep that was
  interrupted between its two databases (`main.py:4680`, `main.py:4732`). The
  autopilot's attempts are counted per review, so a failure with two reviews can
  get its line repair twice; the full transcription a line repair escalates to
  is not counted in the budget of full ones. The docstring "Atomically reserve
  the next idle GPU slot" (`main.py:3379`) holds for new batches only: a batch
  under way goes on claiming (`overtook`). The reconciliation of reviews at a
  start skips those whose interrupted command still counts as running
  (`main.py:187`).
* Completed films: a death between receipt and marker leaves both; the next
  attempt accepts the receipt, whose `committed_at` is older than that attempt,
  and the parent refuses it (`main.py:6845-6860`), so a finished film is
  reported as a failure. After a death between link and receipt the film is
  finished by the next job only if medium, policy and publication are the same
  (`README.md:55` promises it for every interruption): otherwise the marker
  goes, the film is a collision for ever (`completed_delivery.py:218`), and the
  hard link of the staged file may stay behind. A replaced medium after a
  committed delivery, or a restore after the medium changed, is a dead end too:
  the child refuses to overwrite and a reprocess refuses to move. A death among
  the moves of an archive can leave film without receipt, which both refuse.
* Line repairs and completed films: a repair delivers what it published
  (`retranslate_ai_lines.py:187`). Beside a film of the publication before it,
  which is where an operator would want it, that delivery is a collision
  (`completed_delivery.py:192-197`) and the repair puts the old publication back
  (lines 210-219): it cannot succeed as long as that film stands. Without a film
  it delivers one itself, by hand also for an identity that is accepted already;
  a marker of another delivery is dropped on the way, and the film it had linked
  is a collision from then on. What fails after the receipt, a `result.json` that
  cannot be written, puts the old publication back too, but film and receipt of
  the new text stay: every later job of that publication meets a collision, and
  the receipt proves nothing. A repair that is killed puts nothing back. In none
  of these ways does a film lose the receipt or marker it was made for, which is
  what `FilmAccounted` says; that film and publication agree is promised only at
  the moment of acceptance (`AcceptedIsCurrent`).
* Inventory: a file that comes back with the `mtime` its row has is not reported,
  changes of subtitles raise no event, and a scan outside of the epoch compares
  with the last completed one; so a summary can stay complete over a file that
  changed after the walk, which `Attested` exempts where no table was told. New
  obligations count from the end of the last epoch, not from its begin, against
  which `scan_state.py:3647` may be read.
* Statistics: a supersession or an exclusion before the first attempt of an
  obligation that an earlier walk attested makes the recount of every such walk
  fail, so the chain, and with it the cumulative cohort, begins again after it
  (`scan_state.py:3476-3525`, `3908-3935`), and misses counted before leave the
  cohort. A miss can become a delivery in time while its proof lies on disk
  unrecorded. An obligation that inherits a deadline can be born overdue, and one
  that is overdue and untried stays open when it is superseded, so a video whose
  file is replaced then counts twice.
* Resources: two processes that both read the file before either wrote it can
  admit what the other has just refused, or lose the time of an out-of-memory end
  (`raced`): nothing in the code excludes it, so `LaunchIsCautious` holds only up
  to the first such write and says nothing of what follows it; the stale write of
  `record_resource_oom` can bring an older plan back. A record that cannot be
  written forgets the out-of-memory end. A second probe after Ollama gave memory
  back can never admit what the first refused, because recovery needs several
  equal samples (`main.py:845-857`).

## 4. Proofs

TLAPS proves these for every value of the constants that the assumption of the
module allows, and without any bound on the number of videos, users, processes,
keys, lines, releases or campaigns. The bounds on media revisions, attempts,
lives and interruptions are constants too: the theorems hold for each of them.
The assumptions say that bounds are numbers and that a named empty value is none
of the things it stands beside (`InventoryAssumption`: the path of the empty
item is no video).

Every safety property that a passing run checks is stated by a theorem: the
runs show it on an instance and try it against a mutant of the code, the theorem
says it for all instances. Each inductive invariant below was checked by TLC on
the instance of its run before it was proved. All theorems have one form: a
lemma per action, or per group of actions that disturb the same part, shows that
the step keeps the invariant; one lemma collects the disjuncts of the next-state
relation, and the theorem adds `PTL`.

| module | invariant proved | what it says beyond the properties |
|---|---|---|
| `AiQueue` | `LedgerInv`, `BudgetInv`, `RepairInv` | what processes remember of the ledger |
| `VideoLock`, `GpuLease` | `LockInv`, `LeaseInv` | where owners, files and verdicts are |
| `ControlCommands` | `CommandInv` | why a command starts once |
| `RetryCampaign` | `CampaignInv`, `OnceInv` | that late writes fit |
| `SubtitleCache` | `CacheInv` | which files each stage of a job leaves |
| `MemoryOutbox` | `OutboxInv` | who made what the memory knows |
| `Transcription` | `TranscriptInv` | when the mark is set |
| `TranslationRun` | `RunInv` | which lines are told |
| `ReviewAutopilot` | `AutopilotInv` | which commands exist |
| `InventoryEpochs` | `InventoryInv` | what a walk saw |
| `DeliveryStatistics` | `StatisticsInv` | what an obligation still allows |
| `ResourceAdmission` | `ResourceInv` | what a plan is backed by |
| `CompletedDelivery` | `CompletedInv` | what film and receipt name |
| `MikanEpisode`, `MikanJobs` | `EpisodeInv`, `JobsInv` | whose claim a slot has |

**AiQueue** (from `ConstantsAssumption`: positive numbers of lanes and media
revisions, a policy). `TypeCorrect` comes first. The ledger's properties need
what the processes remember: `LedgerInv` adds to `DeliveredIsProven` and
`ExcludedWasNeverAttempted` that attempts are numbered without gaps, that the
evidence on disk was remembered, that every claim names an attempt that was
made, and that a settlement decided as a success had evidence. The argument
goes through the abstract module: `StepKeepsPromise` shows that each step is a
step of `DeliveryPromise` or none, `PromiseKeepsLedger` that such steps keep the
ledger part, `WritersStep` that the rest is kept. `LedgerKeepsPromise` (the
refinement), `DeliveryIsProven`, `ExclusionIsPreAttempt` and `OutcomesFinal`
follow. `ClaimsAccounted` is inductive together with the types.
`RetriesHaveBudget` needs `BudgetInv`, which follows the attempt counter from the
claim through the verdict read before the transaction to the row.
`CompletionsSettled` needs `RepairInv`: a line repair and a job never share an
attempt, and none survives a crash as a local state.
`ExcludedWasNeverAttempted` and `OutcomesAreFinal` are no longer checked by a run
of their own: `KeepsPromise` implies them.

**VideoLock** (`LockProofs`, from `LockAssumption`). `LockInv` is `NoOrphan` with three facts
about who is where: without a raced takeover an acquirer's own file is in
place, a verdict of staleness stands unless a lock was created or completed
since, and lives are ordered. `LockCorrect` proves it, `LockIsExclusive` reads
`Exclusive` off it.

**GpuLease** (`LockProofs`, from `LeaseAssumption`: every object has a process). `LeaseInv`
ties the three places together that `acquire` and `release` write one after the
other: an object beyond "idle" is the one its process's registry names, an open
file belongs to one object, and who has the lease has the kernel's lock on its
file. `LeaseIsExclusive` follows from the last two. `LeaseKeepsPromise` is the
refinement: `HoldersStep` shows that holders only leave, or that there was none,
so that the computed owner is taken when free and given before the next.
`OrphansAreLeaked` needs `CopiesAreLeaked`: an open file that an object and
another process share was copied before it was registered, because from then on
the handler in the child closes it.

**ControlCommands** (from `CommandAssumption`). `CommandInv` says why a command
starts once: a queued one was not started, the thread starts only the running one
it claimed, and a reconciliation makes a running one final. `CommandsRunOnce`
reads `CommandOnce` off it, for any number of deaths and failures.

**CompletedDelivery** (`LibraryProofs`, from `DeliveryAssumption`: numbers, and 0 is no policy).
`FilmAccounted` says of each film that it is what its receipt or marker names.
`CompletedInv` adds why. `ReadIsDelivered`: what a delivery read at its start lies
between nothing and the present, because under its lock media and texts only get
newer (an older text comes back in a rollback or restore, which hold the lock
themselves); what it muxed lies between what it read and the present; so if the
present is what it read, as `AssertUnchanged` finds, the film is of that too, although medium and
subtitles may have changed and `Make` read them later. `ReceiptTrue`: a receipt
names the film that its own job would have made, also where a repair put the
publication of that receipt back. `MovesPaired`: film and receipt
are together in what was moved and what was not (`Joined`), so that a rollback
and a complete archive keep them paired. `FilmsAccounted` reads the property off
it, `AcceptedIsCurrent` says that the parent accepts only the film of the medium
and subtitles as they are at that moment.

**RetryCampaign** (from `CampaignAssumption`). The inductive invariant is
`TypeOK`, `CampaignInv`, `OneActive`, `ItemsFollowed` and `CanaryProven`
together. `CampaignInv` says what the separate transactions rely on: an item
belongs to a campaign that exists, the current item of a campaign is its own,
and what the control thread is about to write fits the tables although rows,
files and deliveries may have changed since it looked. `WritesFit` is the part
that makes it inductive: the campaign in `todo` is still running, because
commands run in the same thread. `LookFits` proves it for what is prepared,
`WriteStep` for each transaction, `Tables` for everyone else's steps.
`CanaryIsAlone` follows: a batch for a canary holds only its target, and the
guard admits only the one active campaign.

`OneAttempt` needs a second invariant, `OnceInv`, which speaks only of rounds
that no interruption ended: a failure that was never selected was never queued
again, an item is in preparation only between the two transactions that bind
and apply it, and what is about to be applied was not applied before. An
interruption between these two makes all of it false, which is the exception the
property names.

**SubtitleCache** (`PublicationProofs`, from `CacheAssumption`). `CacheInv`
describes the directory of a video from wherever a child may be in its job, since
it may die there. `RejectedIsTold`: a rejected transcript stands beside the
diagnostics that reject it, in the cache and in what a repair would put back.
`Marked`: a text with lines left out has their sidecar and no finished mark, and
the Traditional form is made before the publication. `Heard`, `Belongs`: there is
a transcript where one is needed, and the translation is of it unless the next
step takes it away or a death came between. `Underway`, `Lessons`, `Replacing`:
while files are replaced the marker stands, and a lineage not yet recorded is
still beside the files. The stages are grouped by what they touch (opening,
hearing, texting, reading, clearing, closing), and each group has a lemma.

**MemoryOutbox** (from `OutboxAssumption`). `OutboxInv`: whatever the memory, an
intent or a draft calls original was made by a run for that medium
(`Originals`); what is supplied was made in two episodes (`Supplies`); an intent
that is neither damaged nor disturbed, of the medium as it is, stands for the
manifest that is shown (`IntentsStand`). Independence is a count of two episodes;
as they only grow (`made` never shrinks, and the makers of a wording are finite),
what was independent stays so.

**Transcription** (`PipelineProofs`, from `TranscriptionAssumption`). `TranscriptInv`:
while an attempt or a swap is under way its mark is set (`MarkHeld`); a text
without a mark was passed by its gates or is told to be bad
(`MarkedOrPassable`); so a death anywhere leaves a text that the next job
recognizes. `TextPassed` and `ToldOf` carry this through an escalation, its
promotion, rollback and cleanup, and `Prompts` through the history of attempts.

**TranslationRun** (from `TranslationAssumption`). A line is *told* when it is
translated from the run's own transcript or named among the omitted. `RunInv`
says that every line of the batches behind the run is (`BatchesDone`), that
every line of the current one is unless a part waits for it (`PartsLeft`), and
what a checkpoint and a commit say of theirs (`Checkpoint`, `OutputTold`). That
the batches are disjoint (`ChunksFit`) and that halving a part loses no line are
lemmas on arithmetic and sequences.

**ReviewAutopilot** (from `AutopilotAssumption`). `AutopilotInv`: a command is
known by its failure and policy (`Unique`), reached its action at most once and
not while queued (`Untouched`), within its budget (`Budget`), and the reserved
slot excludes every job but the ones of a cycle that had begun (`Executing`,
`Reserved`).

**InventoryEpochs** (`LibraryProofs`, from `InventoryAssumption`).
`InventoryInv` says what the walk has seen of the videos that did not change
behind it (`WalkSaw`), that of a video that did nobody heard unless the epoch is
dirty (`Told`), that observations are of media that were there
(`Present`), what the last epoch's proof says until an event dirties it
(`ProofFits`), and that an obligation is missing only until the walk comes by
(`Begins`), with a beginning no later than `EligibleInTime` allows.

**DeliveryStatistics** (from `StatisticsAssumption`). `StatisticsInv`: proofs are
of claims, walks are past (`WalksPast`), and what was counted is what the
obligation and its proof still allow (`Judgements`, with `Overdue` for what was
counted as missed or excluded). The chain chooses least and greatest ticks of a
set: `LeastNatural` proves from the well-foundedness of the numbers that there
is a least one, `LastIs` that the last walk is one of them.

**ResourceAdmission** (from `AdmissionAssumption`). `ResourceInv` is the types and,
as long as no launcher has replaced a state it had not read, `Unraced`: the file
knows the out-of-memory ends, its tier is backed by as many samples as the
hysteresis asks for, and whatever is launched is careful. The race is the
exception `LaunchIsCautious` names.

**MikanJobs** (`MikanProofs`, from `MikanJobsAssumption`). `JobsInv`: only a claim
that was asked to stop is stopping (`AskedFor`); claims are numbered as they are
made and a job runs for its last one (`Latest`). `CancellationsHit` follows from
the first, the action property `OnlyTheLatestRecords` from the second.
`GivenUpReleasesStay` needs the types only: it goes through every writer of the
job table.

**MikanEpisode** (from `EpisodeAssumption`). `FinishedStaysDetached` is inductive
with the types, which are not simple: where a thread is says which record it
has, and the lists of torrents it holds may be old.

**Only model-checked:** the six liveness properties `ClaimsEnd`,
`CampaignSettles`, `CommandsAnsweredFairly`, `DeadLockRemovedFairly`,
`GoneTorrentFairly` and `JobsEnd`, as fairness and ENABLED are beyond the prover;
and the four violations, which are counterexamples. The type invariants are
proved and not run: a run checks properties that say more.

## 5. Not modelled

* In the modelled parts: the acceptance lane, the order in which candidates are
  taken, error texts; start-time tolerance and old lock files; a second Worker
  for campaigns; what the section on each module names.
* Of line repairs: the choice of the lines, and the caches a repair works on
  before it publishes. Of the remediation before a publication: which words and
  times it changes, and a disk that fails while the texts are put back.
* Of completed delivery: streams, titles and time limits of ffmpeg;
  `completed_delivery_canary.py`, which delivers one video by hand and takes no
  lock of the video (only a video whose row is finished, but it resumes a marker
  it finds, so that it and a job started meanwhile can work on one staged file);
  a medium that is replaced and comes back with the same bytes and times within
  one mux.
* A pause or skip given after a batch was selected, or while the child runs, is
  overwritten by the claim or by the failed result (`scan_state.py:809`, `1177`):
  the last writer wins by design, no property speaks of it.
* Mikan's redownload of whole series, target reviews and selection: large, with
  few states of their own beside the entry that `MikanEpisode` has.
* The AI scheduler's status files, configuration, logging, notifications,
  deployment scripts: pure I/O.
* Language detection, audio extraction, subtitle parsing, feed parsing and
  matching, series metadata: numerical or textual, without a protocol; every
  outcome of theirs is possible in the modules that use them.
* Backup, database maintenance, repair and cleanup tools: run by hand, most with
  the Worker stopped.
* The acceptance harness: a test of the Worker, not a part of it.

## 6. Plan

What is left, in this order:

1. Safety halves of the liveness properties: for each of the six, that the state
   it starts from stays until the step that ends it (for `JobsEnd`, that only its
   slot, its lease or a restart takes a claim away).
2. Dispatch (`scanner.py`, `scan_state.py`): the order of candidates; whether
   every claimable row is claimed eventually, in particular beside a row whose
   delivered identity makes the claim raise (`scan_state.py:2825`).
3. `SubtitleCache` with `Transcription` in the place of its transcript, so that
   the exceptions of both meet; a refinement between the two.
4. Mikan's redownload of a series over several episodes.
5. Backup and restore of an older database against newer files.
