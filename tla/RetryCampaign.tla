--------------------------- MODULE RetryCampaign ---------------------------
(***************************************************************************)
(* The safety-gated retry campaigns of main.py and control_state.py: the   *)
(* control thread selects one failed row at a time, records an item for    *)
(* it, queues the row again and follows it to its end; a canary campaign   *)
(* does so for one exact failure and keeps the Worker from claiming        *)
(* anything else.  Campaigns and items are in the control database, rows   *)
(* in the scanner database, and no transaction spans both.                 *)
(*                                                                         *)
(* What the Worker, discovery and the operator do to a row is taken from   *)
(* AiQueue in a coarser form.  A failure revision is a hash of path, error *)
(* code and message: one of a few values.  Cool-downs and attempt ceilings *)
(* make a failed row eligible or not, nondeterministically.                *)
(***************************************************************************)
EXTENDS Naturals, FiniteSets

CONSTANTS
  Videos,
  Revs,       \* failure revisions
  Campaigns,  \* campaign identities
  Kind,       \* "sweep" by an operator, "configured" or "canary"
  MaxItems,   \* max_items of each
  MaxMedia,   \* bound: how often a media file is replaced, plus one
  MaxAborts   \* bound: exceptions and deaths of the control thread

ASSUME CampaignAssumption ==
  /\ Kind \in [Campaigns -> {"sweep", "configured", "canary"}]
  /\ MaxItems \in [Campaigns -> Nat \ {0}]
  /\ Campaigns \cap {"none", "all", "nobody"} = {}
  /\ MaxMedia \in Nat \ {0}
  /\ MaxAborts \in Nat

Nobody == "nobody"
NoRev  == "cleared"
Keys   == [v : Videos, rev : Revs, how : {"retry", "pause"}]
NoKey  == [v |-> Nobody, rev |-> NoRev, how |-> "none"]

NoRow  == [st |-> "absent", rev |-> NoRev, media |-> 0]
NoItem == [st |-> "absent", by |-> Nobody, media |-> 0, old |-> FALSE]
NoGoal == [v |-> Nobody, rev |-> NoRev, media |-> 0]
NoCamp == [st |-> "absent", cur |-> NoKey, done |-> 0, bad |-> 0, goal |-> NoGoal]
NoTodo == [at |-> "idle"]

VARIABLES
  camp,       \* auto_remediation_campaigns
  latest,     \* the campaign created last
  items,      \* auto_remediation_items, by semantic key
  todo,       \* what the control thread is about to write
  aborts,     \* how often it was interrupted
  queue,      \* ai_candidate_queue
  disk,       \* media revision of each file
  delivered,  \* the media revisions with a strictly verified delivery
  reviews,    \* videos with an open AI quality review
  hold,       \* the operator's queue pause file
  mode,       \* the Worker's batch: "none", "all" or the canary it is for
  batch,
  spent       \* history: how often each failure was queued again

rows    == <<queue, disk, delivered, reviews>>
worker  == <<mode, batch>>
control == <<camp, latest, items, todo, aborts, spent>>
vars    == <<control, rows, hold, worker>>

Init ==
  /\ camp = [c \in Campaigns |-> NoCamp]
  /\ latest = Nobody
  /\ items = [k \in Keys |-> NoItem]
  /\ todo = NoTodo
  /\ aborts = 0
  /\ queue = [v \in Videos |-> NoRow]
  /\ disk = [v \in Videos |-> 1]
  /\ delivered = [v \in Videos |-> {}]
  /\ reviews = {}
  /\ hold = FALSE
  /\ mode = "none"
  /\ batch = {}
  /\ spent = [k \in Keys |-> 0]

-----------------------------------------------------------------------------
Active   == {c \in Campaigns : camp[c].st \in {"running", "paused"}}
Canaries == {c \in Campaigns : Kind[c] = "canary"}
Idle     == todo.at = "idle"
Alone(c) == Active \subseteq {c}
Failed(v, r) == queue[v].st = "failed_retry" /\ queue[v].rev = r
Processed(v, r, how) == items[[v |-> v, rev |-> r, how |-> how]].st # "absent"

\* A row is the exact failure a canary is for.
Exact(v, g) == queue[v].rev = g.rev /\ queue[v].media = g.media

(* Commands of the operator, run by the control thread between two steps *)

Create(c, goal) ==
  /\ Idle
  /\ camp[c].st = "absent"
  /\ camp' = [camp EXCEPT ![c] = [NoCamp EXCEPT !.st = "running", !.goal = goal]]
  /\ latest' = c
  /\ UNCHANGED <<items, todo, aborts, spent, rows, worker>>

StartSweepUnchecked(c) ==  \* mutant: the conflicting campaign is not looked for
  /\ Kind[c] = "sweep"
  /\ Create(c, NoGoal)
  /\ UNCHANGED hold
StartSweep(c) ==
  /\ Kind[c] = "sweep"
  /\ Alone(c)
  /\ Create(c, NoGoal)
  /\ UNCHANGED hold

\* ai.canary_once: the target must be failed, unprocessed and not in review;
\* the campaign pauses the queue for everything else.
StartCanary(c, v) ==
  /\ Kind[c] = "canary"
  /\ Alone(c)
  /\ queue[v].st = "failed_retry"
  /\ queue[v].media = disk[v]
  /\ v \notin reviews
  /\ ~Processed(v, queue[v].rev, "retry")
  /\ LET goal == [v |-> v, rev |-> queue[v].rev, media |-> queue[v].media]
     IN  /\ \A d \in Canaries : camp[d].goal # goal
         /\ Create(c, goal)
  /\ hold' = TRUE

PauseCampaign(c) ==
  /\ Idle
  /\ c \in Active
  /\ camp' = [camp EXCEPT ![c].st = "paused"]
  /\ UNCHANGED <<latest, items, todo, aborts, spent, rows, hold, worker>>

ResumeCampaign(c) ==
  /\ Idle
  /\ camp[c].st = "paused"
  /\ Alone(c)
  /\ camp' = [camp EXCEPT ![c].st = "running"]
  /\ UNCHANGED <<latest, items, todo, aborts, spent, rows, hold, worker>>

\* Whatever its state; the current item stays as it is.
CancelCampaign(c) ==
  /\ Idle
  /\ camp[c].st # "absent"
  /\ camp' = [camp EXCEPT ![c].st = "cancelled"]
  /\ UNCHANGED <<latest, items, todo, aborts, spent, rows, hold, worker>>

\* The configured campaign follows when the last one has settled.
StartConfigured(c) ==
  /\ Kind[c] = "configured"
  /\ latest # Nobody => camp[latest].st \in {"completed", "failed"}
  /\ Alone(c)
  /\ Create(c, NoGoal)
  /\ UNCHANGED hold

-----------------------------------------------------------------------------
(* One advance of the running campaign.  Every write is a transaction of   *)
(* its own, prepared in todo.                                               *)

Due(c)     == Idle /\ camp[c].st = "running"
Follows(c) == Due(c) /\ camp[c].cur # NoKey
Free(c)    == Due(c) /\ camp[c].cur = NoKey

Stopped(c) == IF Kind[c] = "configured" THEN "failed" ELSE "paused"
Onward(c)  == IF camp[c].done + 1 >= MaxItems[c] THEN "completed" ELSE "running"
Ended(c, to, st) ==
  LET bad == IF to = "succeeded" THEN 0 ELSE 1
  IN  [st |-> st, cur |-> NoKey, done |-> camp[c].done + 1, bad |-> camp[c].bad + bad,
       goal |-> camp[c].goal]

Prepare(at, c, k, to, next) ==
  todo' = [at |-> at, c |-> c, k |-> k, to |-> to, next |-> next]
Finish(c, k, to, st) == Prepare("item", c, k, to, Ended(c, to, st))
Reads == UNCHANGED <<camp, latest, items, aborts, spent, rows, hold, worker>>

\* The canary's target changed before or under its claim.
Drifted(c, v) == ~Exact(v, camp[c].goal) \/ disk[v] # camp[c].goal.media
Waits(v) == queue[v].st \in {"queued", "running"}

LookGone(c) ==
  /\ Follows(c)
  /\ LET k == camp[c].cur IN
       /\ queue[k.v].st = "absent"
       /\ Finish(c, k, "failed", Stopped(c))
  /\ Reads

LookDrifted(c) ==
  /\ Follows(c)
  /\ c \in Canaries
  /\ LET k == camp[c].cur IN
       /\ Waits(k.v)
       /\ Drifted(c, k.v)
       /\ Prepare("contain", c, k, "failed", Ended(c, "failed", "failed"))
  /\ Reads

LookPreparing(c) ==
  /\ Follows(c)
  /\ LET k == camp[c].cur IN
       /\ queue[k.v].st = "failed_retry"
       /\ items[k].st = "preparing"
       /\ Prepare("apply", c, k, "running", camp[c])
  /\ Reads

LookWaiting(c) ==
  /\ Follows(c)
  /\ LET k == camp[c].cur IN
       /\ Waits(k.v)
       /\ ~(c \in Canaries /\ Drifted(c, k.v))
       /\ Prepare("item", c, k, "running", camp[c])
  /\ Reads

\* A canary succeeds only with a delivery made since its item was created.
StrictAny(c, k) == TRUE  \* mutant: a finished row is enough
Strict(c, k) == /\ disk[k.v] = camp[c].goal.media
                /\ disk[k.v] \in delivered[k.v]
                /\ ~items[k].old
LookDone(c) ==
  /\ Follows(c)
  /\ LET k == camp[c].cur IN
       /\ queue[k.v].st = "done"
       /\ IF c \in Canaries /\ ~Strict(c, k)
            THEN Finish(c, k, "failed", "failed")
            ELSE Finish(c, k, "succeeded", Onward(c))
  /\ Reads

LookStoppedInReview(c) ==  \* mutant: a row that failed again is not noticed
  /\ Follows(c)
  /\ LET k == camp[c].cur IN
       /\ queue[k.v].st = "paused"
       /\ Finish(c, k, "blocked_review", Stopped(c))
  /\ Reads
LookStopped(c) ==
  /\ Follows(c)
  /\ LET k == camp[c].cur IN
       /\ queue[k.v].st = "paused" \/ (queue[k.v].st = "failed_retry" /\ items[k].st # "preparing")
       /\ Finish(c, k, IF queue[k.v].st = "paused" /\ k.v \in reviews
                         THEN "blocked_review" ELSE "failed", Stopped(c))
  /\ Reads

Exhausted(c) ==
  /\ Free(c)
  /\ camp[c].done >= MaxItems[c]
  /\ Prepare("camp", c, NoKey, "failed",
       [camp[c] EXCEPT !.st = IF camp[c].bad > 0 THEN "failed" ELSE "completed"])
  /\ Reads

\* A failed row in review is to be paused, any other to be queued again,
\* each for one failure once; a canary sees its target only.
EligibleAgain(c) ==  \* mutant: processed failures are selected again
  {k \in Keys : /\ Failed(k.v, k.rev)
                /\ k.how = IF k.v \in reviews THEN "pause" ELSE "retry"
                /\ items[k].st # "preparing"
                /\ c \in Canaries => k.v = camp[c].goal.v /\ Exact(k.v, camp[c].goal)}
Eligible(c) ==
  {k \in Keys : /\ Failed(k.v, k.rev)
                /\ k.how = IF k.v \in reviews THEN "pause" ELSE "retry"
                /\ items[k].st = "absent"
                /\ c \in Canaries => k.v = camp[c].goal.v /\ Exact(k.v, camp[c].goal)}

Preview(c) ==
  /\ Free(c)
  /\ camp[c].done < MaxItems[c]
  /\ \/ \E k \in Eligible(c) : Prepare("bind", c, k, "preparing", camp[c])
     \/ /\ \A k \in Eligible(c) : k.how = "retry"  \* not due, or out of attempts
        /\ Prepare("camp", c, NoKey, "failed",
             [camp[c] EXCEPT !.st = IF c \in Canaries THEN "failed" ELSE "completed"])
  /\ Reads

\* create_and_bind_auto_remediation_item
BindLater ==  \* mutant: the campaign is bound with its next update
  /\ todo.at = "bind"
  /\ items' = [items EXCEPT ![todo.k] =
                  [st |-> "preparing", by |-> todo.c, media |-> queue[todo.k.v].media,
                   old |-> FALSE]]
  /\ todo' = [todo EXCEPT !.at = "apply", !.next.cur = todo.k]
  /\ UNCHANGED <<camp, latest, aborts, spent, rows, hold, worker>>
Bind ==
  /\ todo.at = "bind"
  /\ LET k == todo.k
         c == todo.c
     IN  /\ items' = [items EXCEPT ![k] =
                        [st |-> "preparing", by |-> c, media |-> queue[k.v].media,
                         old |-> disk[k.v] \in delivered[k.v]]]
         /\ camp' = [camp EXCEPT ![c].cur = k]
         /\ todo' = [todo EXCEPT !.at = "apply", !.next.cur = k]
  /\ UNCHANGED <<latest, aborts, spent, rows, hold, worker>>

\* queue_failed_retry_preserving_budget or pause_failed_retry_for_review:
\* only while the row is the failure the item was made for.
Applies(k) == /\ Failed(k.v, k.rev)
              /\ k.how = "retry" => /\ queue[k.v].media = items[k].media
                                    /\ disk[k.v] = items[k].media

Apply ==
  /\ todo.at = "apply"
  /\ LET k == todo.k
         c == todo.c
     IN  \/ /\ Applies(k)
            /\ k.how = "retry"
            /\ queue' = [queue EXCEPT ![k.v].st = "queued"]
            /\ spent' = [spent EXCEPT ![k] = IF @ < 2 THEN @ + 1 ELSE @]
            /\ Prepare("item", c, k, "running", camp[c])
         \/ /\ Applies(k)
            /\ k.how = "pause"
            /\ queue' = [queue EXCEPT ![k.v].st = "paused"]
            /\ Finish(c, k, "blocked_review", Onward(c))
            /\ UNCHANGED spent
         \/ /\ ~Applies(k)
            /\ Finish(c, k, "failed", Stopped(c))
            /\ UNCHANGED <<queue, spent>>
  /\ UNCHANGED <<camp, latest, items, aborts, disk, delivered, reviews, hold, worker>>

\* pause_exact_queued_ai_queue_candidate
Contain ==
  /\ todo.at = "contain"
  /\ LET v == todo.k.v IN
       queue' = IF queue[v].st = "queued" /\ Exact(v, camp[todo.c].goal)
                  THEN [queue EXCEPT ![v].st = "paused"] ELSE queue
  /\ todo' = [todo EXCEPT !.at = "item"]
  /\ UNCHANGED <<camp, latest, items, aborts, spent, disk, delivered, reviews, hold, worker>>

WriteItem ==
  /\ todo.at = "item"
  /\ items' = [items EXCEPT ![todo.k].st = todo.to]
  /\ todo' = [todo EXCEPT !.at = "camp"]
  /\ UNCHANGED <<camp, latest, aborts, spent, rows, hold, worker>>

WriteCamp ==
  /\ todo.at = "camp"
  /\ camp' = [camp EXCEPT ![todo.c] = todo.next]
  /\ todo' = NoTodo
  /\ UNCHANGED <<latest, items, aborts, spent, rows, hold, worker>>

\* An exception, caught by the loop, or the death of the Worker.
Abort(all) ==
  /\ aborts < MaxAborts
  /\ aborts' = aborts + 1
  /\ todo' = NoTodo
  /\ IF all THEN mode' = "none" /\ batch' = {} ELSE ~Idle /\ UNCHANGED worker
  /\ UNCHANGED <<camp, latest, items, spent, rows, hold>>

-----------------------------------------------------------------------------
(* The Worker's claims *)

Begin(m, b) ==
  /\ mode = "none"
  /\ b # {}
  /\ mode' = m
  /\ batch' = b
  /\ UNCHANGED <<control, rows, hold>>

Running == {c \in Canaries : camp[c].st = "running"}

SelectAll(b) ==
  /\ Running = {}
  /\ ~hold
  /\ \A v \in b : queue[v].st \in {"queued", "failed_retry"}
  /\ Begin("all", b)

\* Only once the control thread has bound the item and queued the target.
SelectCanary(c) ==
  /\ c \in Running
  /\ camp[c].cur # NoKey
  /\ LET g == camp[c].goal IN
       /\ queue[g.v].st = "queued"
       /\ Exact(g.v, g)
       /\ disk[g.v] = g.media
       /\ Begin(c, {g.v})

\* Checked again in the transaction of the claim guard.
AllowedOnce(v) ==  \* mutant: the check made at selection is trusted
  mode # "all" => queue[v].st = "queued"
Allowed(v) ==
  IF mode = "all"
    THEN ~hold /\ Active \cap Canaries = {}
    ELSE /\ camp[mode].st = "running"
         /\ queue[v].st = "queued"
         /\ Exact(v, camp[mode].goal)
         /\ disk[v] = camp[mode].goal.media

Claim(v) ==
  /\ v \in batch
  /\ Allowed(v)
  /\ disk[v] \notin delivered[v]
  /\ queue' = [queue EXCEPT ![v].st = IF @ = "absent" THEN @ ELSE "running"]
  /\ batch' = batch \ {v}
  /\ mode' = IF batch = {v} THEN "none" ELSE mode
  /\ UNCHANGED <<control, disk, delivered, reviews, hold>>

\* The claim is refused or raises: the rest of the batch is left alone.
Refuse(v) ==
  /\ v \in batch
  /\ ~Allowed(v) \/ disk[v] \in delivered[v]
  /\ batch' = {}
  /\ mode' = "none"
  /\ UNCHANGED <<control, rows, hold>>

Outside == UNCHANGED <<control, disk, reviews, hold, worker>>

Deliver(v) ==
  /\ queue[v].st = "running"
  /\ queue[v].media = disk[v]
  /\ queue' = [queue EXCEPT ![v] = [@ EXCEPT !.st = "done", !.rev = NoRev]]
  /\ delivered' = [delivered EXCEPT ![v] = @ \cup {disk[v]}]
  /\ Outside

\* A retry is scheduled, or the limit of attempts or a review stops the row.
Fail(v) ==
  /\ queue[v].st = "running"
  /\ \E st \in {"failed_retry", "paused"}, r \in Revs :
       queue' = [queue EXCEPT ![v] = [@ EXCEPT !.st = st, !.rev = r]]
  /\ UNCHANGED delivered
  /\ Outside

Requeue(v) ==
  /\ queue[v].st = "running"
  /\ queue' = [queue EXCEPT ![v].st = "queued"]
  /\ UNCHANGED delivered
  /\ Outside

(* Discovery, files, reviews and the operator *)

OperatorRetry(v) ==
  /\ Idle
  /\ queue[v].st # "absent"
  /\ queue' = [queue EXCEPT ![v] = [@ EXCEPT !.st = "queued", !.rev = NoRev]]
  /\ UNCHANGED delivered
  /\ Outside

OperatorPause(v) ==
  /\ Idle
  /\ queue[v].st # "absent"
  /\ queue' = [queue EXCEPT ![v].st = "paused"]
  /\ UNCHANGED delivered
  /\ Outside

\* A scan finds finished subtitles, no candidate, or a new media revision.
ScanFinished(v) ==
  /\ queue[v].st \in {"queued", "failed_retry", "paused"}
  /\ queue' = [queue EXCEPT ![v] = [@ EXCEPT !.st = "done", !.rev = NoRev]]
  /\ UNCHANGED delivered
  /\ Outside

ScanUnwanted(v) ==
  /\ queue[v].st # "absent"
  /\ queue' = [queue EXCEPT ![v] = NoRow]
  /\ UNCHANGED delivered
  /\ Outside

Upsert(v) ==
  /\ queue[v].media # disk[v]
  /\ queue' = [queue EXCEPT ![v] =
       [st |-> IF @.st \in {"running", "paused"} THEN @.st ELSE "queued",
        rev |-> @.rev, media |-> disk[v]]]
  /\ UNCHANGED delivered
  /\ Outside

MediaReplaced(v) ==
  /\ disk[v] < MaxMedia
  /\ disk' = [disk EXCEPT ![v] = @ + 1]
  /\ UNCHANGED <<control, queue, delivered, reviews, hold, worker>>

ReviewChanges(v) ==
  /\ reviews' = IF v \in reviews THEN reviews \ {v} ELSE reviews \cup {v}
  /\ UNCHANGED <<control, queue, disk, delivered, hold, worker>>

HoldChanges ==
  /\ Idle
  /\ hold' = ~hold
  /\ UNCHANGED <<control, rows, worker>>

-----------------------------------------------------------------------------
Commands == \/ \E c \in Campaigns : \/ StartSweep(c) \/ StartConfigured(c)
                                   \/ PauseCampaign(c) \/ ResumeCampaign(c) \/ CancelCampaign(c)
                                   \/ \E v \in Videos : StartCanary(c, v)
            \/ HoldChanges
Look(c)  == \/ LookGone(c) \/ LookDrifted(c) \/ LookPreparing(c) \/ LookWaiting(c)
            \/ LookDone(c) \/ LookStopped(c) \/ Exhausted(c) \/ Preview(c)
Writes   == Bind \/ Apply \/ Contain \/ WriteItem \/ WriteCamp
Select   == \/ \E b \in SUBSET Videos : SelectAll(b)
            \/ \E c \in Canaries : SelectCanary(c)
Others(v) == \/ OperatorRetry(v) \/ OperatorPause(v) \/ ScanFinished(v) \/ ScanUnwanted(v)
             \/ Upsert(v) \/ MediaReplaced(v) \/ ReviewChanges(v)

Next == \/ Commands
        \/ \E c \in Campaigns : Look(c)
        \/ Writes
        \/ \E all \in BOOLEAN : Abort(all)
        \/ Select
        \/ \E v \in Videos : Claim(v) \/ Refuse(v) \/ Deliver(v) \/ Fail(v) \/ Requeue(v)
        \/ \E v \in Videos : Others(v)

Spec == Init /\ [][Next]_vars

\* The control thread finishes a round within the cool-down of a failed row,
\* the Worker keeps taking candidates in order, a child ends by its deadline,
\* and the operator does not hold the queue for ever.
CoolDown == \E v \in Videos : queue[v].st = "failed_retry"
FairSpec ==
  /\ Spec
  /\ WF_vars(Writes)
  /\ SF_vars(WriteItem /\ CoolDown)
  /\ SF_vars(WriteCamp /\ CoolDown)
  /\ SF_vars(HoldChanges /\ hold)
  /\ \A c \in Campaigns : WF_vars(Look(c)) /\ SF_vars(LookDone(c) \/ LookStopped(c))
  /\ \A v \in Videos : /\ SF_vars(Select /\ v \in batch')
                       /\ SF_vars(Claim(v))
                       /\ WF_vars(Refuse(v))
                       /\ SF_vars(Deliver(v) \/ Fail(v))

-----------------------------------------------------------------------------
Media    == 0..MaxMedia
RowState == {"absent", "queued", "running", "failed_retry", "paused", "done"}
CampState == {"absent", "running", "paused", "completed", "cancelled", "failed"}
ItemState == {"absent", "preparing", "running", "succeeded", "failed", "blocked_review"}
Open      == {"preparing", "running"}
Goals == [v : Videos \cup {Nobody}, rev : Revs \cup {NoRev}, media : Media]
Camps == [st : CampState, cur : Keys \cup {NoKey}, done : Nat, bad : Nat, goal : Goals]
Todos == [at : {"bind", "apply", "contain", "item", "camp"}, c : Campaigns,
          k : Keys \cup {NoKey}, to : ItemState, next : Camps]

\* Types of the two databases' tables and of the two threads' local state.
TypeOK ==
  /\ camp \in [Campaigns -> Camps]
  /\ latest \in Campaigns \cup {Nobody}
  /\ items \in [Keys -> [st : ItemState, by : Campaigns \cup {Nobody},
                         media : Media, old : BOOLEAN]]
  /\ todo \in Todos \cup {NoTodo}
  /\ aborts \in 0..MaxAborts
  /\ queue \in [Videos -> [st : RowState, rev : Revs \cup {NoRev}, media : Media]]
  /\ disk \in [Videos -> Media]
  /\ delivered \in [Videos -> SUBSET Media]
  /\ reviews \subseteq Videos
  /\ hold \in BOOLEAN
  /\ mode \in {"none", "all"} \cup Canaries
  /\ batch \subseteq Videos
  /\ spent \in [Keys -> 0..2]

\* At most one campaign is running or paused, through starts, resumes,
\* cancellations and the control thread's own late writes.
OneActive == \A c, d \in Active : c = d

\* An item that is not finished is the current item of its campaign, whatever
\* was interrupted: nothing is followed by nobody.
ItemsFollowed ==
  \A k \in Keys : items[k].st \in Open => camp[items[k].by].cur = k

\* What makes these inductive: an item belongs to a campaign that exists, and
\* the control thread writes for a running campaign what fits the item that
\* the campaign is bound to.
ItemsOwned ==
  \A k \in Keys : items[k].st # "absent" =>
    items[k].by \in Campaigns /\ camp[items[k].by].st # "absent"
CurrentIsMine ==
  \A c \in Campaigns : camp[c].cur # NoKey =>
    /\ camp[c].st # "absent"
    /\ items[camp[c].cur].st # "absent"
    /\ items[camp[c].cur].by = c
    /\ c \in Canaries => camp[c].cur.v = camp[c].goal.v
BindFits(c, k) ==
  /\ camp[c].cur = NoKey
  /\ k # NoKey
  /\ items[k].st = "absent"
  /\ c \in Canaries => k.v = camp[c].goal.v
EndFits(c, k, to, next) ==
  /\ to # "absent"
  /\ next.cur = IF to \in Open THEN k ELSE NoKey
  /\ to = "succeeded" /\ c \in Canaries => camp[c].goal.media \in delivered[k.v]
CampFits(cur, next) ==
  next.cur = cur \/ (next.cur = NoKey /\ items[cur].st \notin Open)
WritesFit ==
  ~Idle =>
    /\ camp[todo.c].st = "running"
    /\ todo.next.goal = camp[todo.c].goal
    /\ todo.next.st # "absent"
    /\ todo.at = "bind" => BindFits(todo.c, todo.k)
    /\ todo.at \in {"apply", "contain", "item"} => todo.k = camp[todo.c].cur /\ todo.k # NoKey
    /\ todo.at \in {"contain", "item"} => EndFits(todo.c, todo.k, todo.to, todo.next)
    /\ todo.at = "camp" => CampFits(camp[todo.c].cur, todo.next)
BatchIsTarget ==
  /\ mode = "none" => batch = {}
  /\ mode \in Canaries => batch \subseteq {camp[mode].goal.v} /\ camp[mode].st # "absent"

CampaignInv == ItemsOwned /\ CurrentIsMine /\ WritesFit /\ BatchIsTarget

\* While a canary campaign is active nothing but its exact target is claimed,
\* also from a batch selected before it started.
CanaryIsolated ==
  [][\A v \in Videos, c \in Active \cap Canaries :
       queue[v].st # "running" /\ queue'[v].st = "running"
         => v = camp[c].goal.v /\ Exact(v, camp[c].goal) /\ disk[v] = camp[c].goal.media]_vars

\* A canary item succeeds only if its target's own media revision was
\* delivered, although row, file and ledger may change before it is written.
CanaryProven ==
  \A k \in Keys : items[k].st = "succeeded" /\ items[k].by \in Canaries =>
    LET g == camp[items[k].by].goal IN k.v = g.v /\ g.media \in delivered[k.v]

\* Once scans and operator leave the rows alone, a running campaign stops or
\* settles, unless the row it waits for was queued again after its delivery:
\* the ledger refuses to attempt it for ever.
Refused(v) == queue[v].st = "queued" /\ disk[v] \in delivered[v]
CampaignSettles ==
  <>[][\A v \in Videos : ~Others(v)]_vars =>
    \A c \in Campaigns :
      camp[c].st = "running" ~> camp[c].st # "running" \/ \E v \in Videos : Refused(v)

\* A failure is queued again at most once, whatever scans, operator, Worker
\* and later campaigns do to the row: processed_auto_remediation_keys says that
\* a recorded key has consumed its one safe attempt.  An interruption between
\* the two databases can make that false, and nothing else.
OneAttemptUninterrupted == aborts = 0 => \A k \in Keys : spent[k] <= 1
=============================================================================
