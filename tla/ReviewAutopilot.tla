--------------------------- MODULE ReviewAutopilot ---------------------------
(***************************************************************************)
(* How failed videos repair themselves (main.py, control_state.py): a job   *)
(* that fails pauses its row and opens a review; five automatic policies    *)
(* queue commands for open reviews; the control thread executes one command *)
(* at a time and most remedies put the row back into the queue.  The line   *)
(* repair runs inside the control thread, reserved against the Worker's own *)
(* batches.  One video under review and one other; a failure revision is a  *)
(* cause and a text, as its hash is.                                        *)
(***************************************************************************)
EXTENDS Naturals, FiniteSets

CONSTANTS
  Failures,     \* failure revisions: a cause and a text
  MaxFull,      \* attempts of the full transcription
  MaxFailures,  \* bound: jobs that fail
  MaxTurns      \* bound: commands by hand and deaths of the Worker

ASSUME AutopilotAssumption ==
  /\ \A f \in Failures : f.cause \in {"asr", "omission", "timing", "other"}
  /\ {MaxFull, MaxFailures, MaxTurns} \subseteq Nat

Kinds    == {"asr", "subtitle"}
Policies == {"omission", "lines", "timing", "selective", "full"}
NoFail   == [cause |-> "none"]
NoReview == [open |-> FALSE, about |-> NoFail, repairable |-> FALSE]
NoOrder  == [policy |-> "none"]

VARIABLES
  row,       \* the video's row: status, failure, attempts (2 is many), source, how its child ended
  other,     \* the other video's row
  batch,     \* rows the Worker selected and has not claimed
  working,   \* the Worker is inside a cycle
  review,    \* of each kind
  orders,    \* commands: policy, review, failure revision, status; how often they reached the row
  control,   \* the control thread: where it is, the command it executes
  overtook,  \* history: commands queued while the Worker was inside a cycle
  failures, turns

autopilotVars == <<row, other, batch, working, review, orders, control, overtook,
                   failures, turns>>

Active       == {"queued", "running"}
Id(o)        == <<o.policy, o.of, o.rev>>
Order(p, k, rev) == [policy |-> p, of |-> k, rev |-> rev, status |-> "queued", reached |-> 0]
OfReview(k)  == {o \in orders : o.of = k}
OfPolicy(p)  == {o \in orders : o.policy = p}
Ledger(p, k) == OfReview(k) \cap OfPolicy(p)
PutOrder(o, s)    == (orders \ {o}) \cup {[o EXCEPT !.status = s]}
Open(k)      == review[k].open
Busy         == row.status \in {"running", "ended"} \/ other = "running"
Paused       == row.status = "paused"
Idle         == control.at = "idle"
Stands(x)        == control.at = x
Goes(x)      == control' = [control EXCEPT !.at = x]

AutopilotInit ==
  /\ row = [status |-> "queued", failure |-> NoFail, attempts |-> 0, source |-> "scan",
            by |-> "none", next |-> NoFail]
  /\ other = "queued" /\ batch = {} /\ working = FALSE
  /\ review = [k \in Kinds |-> NoReview] /\ orders = {}
  /\ control = [at |-> "idle", order |-> NoOrder]
  /\ overtook = {}
  /\ failures = 0 /\ turns = 0

-----------------------------------------------------------------------------
(* what each policy proposes *)

\* Open reviews that no command owns; a policy that is not bound to a revision
\* considers a review once.
Candidate(p, k, scoped) ==
  /\ Open(k)
  /\ \A o \in OfReview(k) : o.status \notin Active
  /\ scoped \/ Ledger(p, k) = {}

Completed(p, k) == \E o \in Ledger(p, k) : o.status = "completed"

\* Only attempts that were answered without an error count.
AllowedUnlessFailed(p, k, max) ==
  LET counted == {o \in Ledger(p, k) : o.status # "failed"} IN
  Cardinality(counted) < max /\ \A o \in counted : o.rev # row.failure

\* A new failure revision within the budget; failed attempts count.
Allowed(p, k, max) ==
  Cardinality(Ledger(p, k)) < max /\ \A o \in Ledger(p, k) : o.rev # row.failure

\* A key that was used brings its old command back.
FirstFor(p, k) == \A o \in Ledger(p, k) : o.rev # row.failure

\* Omitted lines, named by the failure that paused the row; a subtitle review
\* has to name the same ones.
LineEvidence(k) ==
  /\ Paused /\ row.failure.cause = "omission"
  /\ k = "subtitle" => review[k].about = row.failure

TimingEvidence == Paused /\ review["subtitle"].about.cause = "timing" /\ row.failure.cause # "asr"
FullEvidence   == Paused /\ row.failure.cause = "asr"

\* A checkpoint of a transcript that was not repaired yet.
SelectiveEvidence == review["asr"].repairable

OmissionOrders(ready) ==
  {o \in {Order("omission", "asr", row.failure)} :
     /\ {"omission", "full"} \subseteq ready
     /\ Candidate("omission", "asr", FALSE)
     /\ Completed("full", "asr") \/ Completed("selective", "asr")
     /\ Paused /\ row.attempts = 2 /\ row.failure.cause = "omission"}

LineOrders(ready) ==
  {o \in {Order("lines", k, row.failure) : k \in Kinds} :
     /\ "lines" \in ready
     /\ Candidate("lines", o.of, TRUE)
     /\ o.of = "asr" => Completed("omission", "asr") /\ row.attempts = 2
     /\ LineEvidence(o.of) /\ row.attempts >= 1
     /\ Allowed("lines", o.of, 1) /\ FirstFor("lines", o.of)
     /\ ~Busy}

TimingOrders(ready) ==
  {o \in {Order("timing", "subtitle", row.failure)} :
     /\ "timing" \in ready
     /\ Candidate("timing", "subtitle", FALSE)
     /\ TimingEvidence /\ row.attempts >= 1}

SelectiveOrders(ready) ==
  {o \in {Order("selective", "asr", row.failure)} :
     /\ "selective" \in ready
     /\ Candidate("selective", "asr", TRUE)
     /\ SelectiveEvidence /\ Paused
     /\ FirstFor("selective", "asr")}

\* The cheaper repair has its turn first.
FullOrders(ready) ==
  {o \in {Order("full", "asr", row.failure)} :
     /\ "full" \in ready
     /\ Candidate("full", "asr", TRUE)
     /\ "selective" \in ready \/ ~review["asr"].repairable
     /\ FullEvidence
     /\ Allowed("full", "asr", MaxFull) /\ FirstFor("full", "asr")}

\* In this order, and one at a time.
Proposals(ready) ==
  IF row.source = "remedy" /\ row.status \in {"queued", "running", "ended"} THEN {}
  ELSE LET all == <<OmissionOrders(ready), LineOrders(ready), TimingOrders(ready),
                    SelectiveOrders(ready), FullOrders(ready)>>
           some == {i \in DOMAIN all : all[i] # {}}
       IN  IF some = {} THEN {} ELSE all[CHOOSE i \in some : \A j \in some : i <= j]

\* A policy waits for its last command, for the row that one queued, and for
\* an interval.
Settled(p) == /\ \A o \in OfPolicy(p) : o.status \notin Active
              /\ row.status \notin {"queued", "running", "ended"}
Unused   == {p \in Policies : OfPolicy(p) = {}}
ReadySets == {Unused \cup some : some \in SUBSET {p \in Policies \ Unused : Settled(p)}}

Propose(o) ==
  /\ orders' = orders \cup {o}
  /\ overtook' = IF working /\ o.policy = "lines" THEN overtook \cup {Id(o)} ELSE overtook

-----------------------------------------------------------------------------
(* the Worker *)

YieldsToQueued == \E o \in OfPolicy("lines") : o.status = "queued"
\* The slot is reserved from the command to its answer.
Yields == \E o \in OfPolicy("lines") : o.status \in Active

QueuedRows == {v \in {"video"} : row.status = "queued"} \cup {v \in {"other"} : other = "queued"}

\* Before a cycle, under one lock with the control thread's proposals.
WorkerLooks ==
  /\ ~working /\ ~Yields
  /\ \E ready \in ReadySets :
       /\ IF Proposals(ready) # {}
            THEN (\E o \in Proposals(ready) : Propose(o)) /\ UNCHANGED <<working, batch>>
            ELSE /\ working' = TRUE /\ batch' \in SUBSET QueuedRows \ {{}}
                 /\ UNCHANGED <<orders, overtook>>
  /\ UNCHANGED <<row, other, review, control, failures, turns>>

ClaimsVideo ==
  /\ "video" \in batch /\ batch' = batch \ {"video"}
  /\ row' = [row EXCEPT !.status = "running", !.by = "worker", !.attempts = IF @ = 2 THEN 2 ELSE @ + 1]
  /\ UNCHANGED <<other, working, review, orders, control, overtook, failures, turns>>

ClaimsOther ==
  /\ "other" \in batch /\ batch' = batch \ {"other"}
  /\ other' = "running"
  /\ UNCHANGED <<row, working, review, orders, control, overtook, failures, turns>>

\* There is always a next one.
OtherEnds ==
  /\ other = "running" /\ other' = "queued"
  /\ UNCHANGED <<row, batch, working, review, orders, control, overtook, failures, turns>>

ByWorker == row.status = "running" /\ row.by = "worker"

\* Kinds of review a failing child opens: for a transcript, for omitted lines
\* or timing, for both, for none; the write may fail.
Opens(f) == CASE f.cause = "asr" -> {{}, {"asr"}}
              [] f.cause = "omission" -> {{}, {"subtitle"}, Kinds}
              [] f.cause = "timing" -> {{}, {"subtitle"}}
              [] OTHER -> {{}}

\* A transcript a selective repair has failed on is not repairable again.
Opened(ks, f) == [k \in Kinds |-> IF k \notin ks THEN review[k] ELSE
  [open |-> TRUE, about |-> f, repairable |-> k = "asr" /\ f.cause = "asr" /\ row.source # "remedy"]]

ChildFails ==
  /\ ByWorker /\ failures < MaxFailures /\ failures' = failures + 1
  /\ \E f \in Failures : \E ks \in Opens(f) :
       /\ review' = Opened(ks, f)
       /\ row' = [row EXCEPT !.status = "ended", !.next = f]
  /\ UNCHANGED <<other, batch, working, orders, control, overtook, turns>>

\* A command in flight owns its review.
ClosedIfIdle == [k \in Kinds |-> IF \A o \in OfReview(k) : o.status \notin Active
                                   THEN [review[k] EXCEPT !.open = FALSE] ELSE review[k]]

ChildPublishes ==
  /\ ByWorker
  /\ review' = ClosedIfIdle
  /\ row' = [row EXCEPT !.status = "ended", !.next = NoFail]
  /\ UNCHANGED <<other, batch, working, orders, control, overtook, failures, turns>>

\* The parent records what the child said.
Recorded ==
  /\ row.status = "ended"
  /\ row' = [row EXCEPT !.status = IF row.next = NoFail THEN "done" ELSE "paused",
                        !.failure = row.next, !.next = NoFail, !.by = "none"]
  /\ UNCHANGED <<other, batch, working, review, orders, control, overtook, failures, turns>>

CycleEnds ==
  /\ working /\ batch = {} /\ other # "running" /\ row.status # "ended" /\ ~ByWorker
  /\ working' = FALSE
  /\ UNCHANGED <<row, other, batch, review, orders, control, overtook, failures, turns>>

-----------------------------------------------------------------------------
(* the control thread *)

\* Only when there is no command to execute.
ControlProposes ==
  /\ Idle /\ \A o \in orders : o.status # "queued"
  /\ \E ready \in ReadySets : \E o \in Proposals(ready) : Propose(o)
  /\ UNCHANGED <<row, other, batch, working, review, control, failures, turns>>

\* The operator answers a review.
HandOrder(k) ==
  /\ Open(k) /\ turns < MaxTurns /\ turns' = turns + 1
  /\ Ledger("hand", k) = {}
  /\ orders' = orders \cup {Order("hand", k, NoFail)}
  /\ UNCHANGED <<row, other, batch, working, review, control, overtook, failures>>

\* The evidence, read again.
StillValid(o) ==
  /\ Open(o.of)
  /\ o.policy # "hand" => row.failure = o.rev
  /\ CASE o.policy = "full" -> FullEvidence
       [] o.policy = "omission" -> Paused /\ row.attempts = 2 /\ row.failure.cause = "omission"
       [] o.policy = "timing" -> TimingEvidence
       [] o.policy = "selective" -> SelectiveEvidence /\ Paused
       [] o.policy = "lines" -> LineEvidence(o.of) /\ ~Busy
       [] OTHER -> TRUE

Execute(o) ==
  /\ Idle /\ o.status = "queued"
  /\ orders' = PutOrder(o, "running")
  /\ control' = [order |-> [o EXCEPT !.status = "running"],
                 at |-> IF ~StillValid(o) THEN "failed" ELSE IF o.policy = "lines" THEN "claim" ELSE "queue"]
  /\ UNCHANGED <<row, other, batch, working, review, overtook, failures, turns>>

Now == control.order
\* The remedy reached the row; what the thread does next.
Reached(x) == /\ orders' = (orders \ {Now}) \cup {[Now EXCEPT !.reached = @ + 1]}
              /\ control' = [at |-> x, order |-> [Now EXCEPT !.reached = @ + 1]]

\* Compare and set: the row is still paused for that failure, its attempts stay.
CanQueue == Paused /\ row.failure = Now.rev
Requeued == [row EXCEPT !.status = "queued", !.source = "remedy"]

QueueRow ==
  /\ Stands("queue") /\ Now.policy # "hand"
  /\ IF CanQueue THEN row' = Requeued /\ Reached("completed")
     ELSE UNCHANGED <<row, orders>> /\ Goes("failed")
  /\ UNCHANGED <<other, batch, working, review, overtook, failures, turns>>

\* By hand: as new, unless it runs.
QueueByHand ==
  /\ Stands("queue") /\ Now.policy = "hand"
  /\ IF row.status \in {"running", "ended"} THEN UNCHANGED row /\ Goes("failed")
     ELSE /\ row' = [row EXCEPT !.status = "queued", !.source = "hand", !.attempts = 0, !.failure = NoFail]
          /\ Goes("completed")
  /\ UNCHANGED <<other, batch, working, review, orders, overtook, failures, turns>>

\* The repair claims its row; nothing asks again whether the Worker is busy.
ClaimLines ==
  /\ Stands("claim")
  /\ IF CanQueue THEN row' = [row EXCEPT !.status = "running", !.by = "repair"] /\ Reached("repair")
     ELSE UNCHANGED <<row, orders>> /\ Goes("failed")
  /\ UNCHANGED <<other, batch, working, review, overtook, failures, turns>>

\* A failure restores the row as it was; a line whose transcript is unreliable
\* asks for a full transcription.
LinesEnd ==
  /\ Stands("repair")
  /\ \/ row' = [row EXCEPT !.status = "done", !.by = "none", !.failure = NoFail] /\ Goes("resolve")
     \/ \E x \in {"failed", "escalate"} : row' = [row EXCEPT !.status = "paused", !.by = "none"] /\ Goes(x)
  /\ UNCHANGED <<other, batch, working, review, orders, overtook, failures, turns>>

Escalate ==
  /\ Stands("escalate")
  /\ IF LineEvidence(Now.of) /\ CanQueue /\ ~Busy
       THEN row' = Requeued /\ Goes("completed")
       ELSE UNCHANGED row /\ Goes("failed")
  /\ UNCHANGED <<other, batch, working, review, orders, overtook, failures, turns>>

Resolve ==
  /\ Stands("resolve")
  /\ review' = [review EXCEPT ![Now.of].open = FALSE]
  /\ Goes("completed")
  /\ UNCHANGED <<row, other, batch, working, orders, overtook, failures, turns>>

Answer ==
  /\ control.at \in {"completed", "failed"}
  /\ orders' = PutOrder(Now, control.at)
  /\ control' = [at |-> "idle", order |-> NoOrder]
  /\ UNCHANGED <<row, other, batch, working, review, overtook, failures, turns>>

\* A command whose Worker is gone is closed as failed half an hour later.
GivenUp(o) ==
  /\ o.status = "running" /\ Idle
  /\ orders' = PutOrder(o, "failed")
  /\ UNCHANGED <<row, other, batch, working, review, control, overtook, failures, turns>>

-----------------------------------------------------------------------------
(* the Worker dies and starts again *)

\* A job is queued again, or done if it was published; a line repair is done
\* or paused again.
Recovered == CASE ByWorker -> {[row EXCEPT !.status = "queued", !.by = "none"]}
               [] row.status = "ended" /\ row.next = NoFail ->
                    {[row EXCEPT !.status = "done", !.by = "none", !.failure = NoFail]}
               [] row.status = "ended" /\ row.next # NoFail ->
                    {[row EXCEPT !.status = "queued", !.by = "none", !.next = NoFail]}
               [] row.status = "running" /\ row.by = "repair" ->
                    {[row EXCEPT !.status = "paused", !.by = "none"],
                     [row EXCEPT !.status = "done", !.by = "none", !.failure = NoFail]}
               [] OTHER -> {row}

\* Reviews older than the publication are closed.
Stop ==
  /\ turns < MaxTurns /\ turns' = turns + 1
  /\ row' \in Recovered
  /\ review' = IF row'.status = "done" THEN ClosedIfIdle ELSE review
  /\ other' = IF other = "running" THEN "queued" ELSE other
  /\ batch' = {} /\ working' = FALSE
  /\ control' = [at |-> "idle", order |-> NoOrder]
  /\ UNCHANGED <<orders, overtook, failures>>

AutopilotNext ==
  \/ WorkerLooks \/ ClaimsVideo \/ ClaimsOther \/ OtherEnds \/ ChildFails \/ ChildPublishes \/ Recorded
  \/ CycleEnds \/ ControlProposes \/ QueueRow \/ QueueByHand \/ ClaimLines \/ LinesEnd \/ Escalate \/ Resolve
  \/ Answer \/ Stop
  \/ \E k \in Kinds : HandOrder(k)
  \/ \E o \in orders : Execute(o) \/ GivenUp(o)

AutopilotSpec == AutopilotInit /\ [][AutopilotNext]_autopilotVars

-----------------------------------------------------------------------------
(* properties *)

\* No failure is remedied a second time by the same policy for the same review,
\* and no policy exceeds its budget, wherever a death leaves a command failed
\* although it had reached the row.
RemedyOnce ==
  /\ \A o \in orders : o.reached <= 1 /\ \A q \in orders : Id(q) = Id(o) => q = o
  /\ \A p \in Policies \ {"selective"}, k \in Kinds :
       Cardinality({o \in Ledger(p, k) : o.reached > 0}) <= IF p = "full" THEN MaxFull ELSE 1

\* A line repair runs beside a normal job only if the Worker was inside a cycle
\* when its command was queued.
RepairAloneUnlessOvertaken ==
  row.status = "running" /\ row.by = "repair" /\ other = "running" => Id(Now) \in overtook
=============================================================================
