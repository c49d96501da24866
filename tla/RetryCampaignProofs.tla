------------------------ MODULE RetryCampaignProofs ------------------------
(***************************************************************************)
(* RetryCampaign for any number of videos, failures and campaigns, and for *)
(* any bounds: the two tables stay consistent although the control thread  *)
(* writes them in separate transactions and may die between any two, at    *)
(* most one campaign is active, and a canary isolates the Worker.          *)
(***************************************************************************)
EXTENDS RetryCampaign, TLAPS

-----------------------------------------------------------------------------
(* Types *)

\* What the end of an item makes of its campaign.
LEMMA EndedType ==
  ASSUME NEW c \in Campaigns, camp[c] \in Camps, NEW to, NEW st \in CampState
  PROVE  /\ Ended(c, to, st) \in Camps
         /\ Ended(c, to, st).st = st
         /\ Ended(c, to, st).cur = NoKey
         /\ Ended(c, to, st).goal = camp[c].goal
  BY DEF Ended, Camps

\* A campaign that only changes its state.
LEMMA StateChanged ==
  ASSUME NEW r \in Camps, NEW st \in CampState
  PROVE  /\ [r EXCEPT !.st = st] \in Camps
         /\ [r EXCEPT !.st = st].st = st
         /\ [r EXCEPT !.st = st].cur = r.cur
         /\ [r EXCEPT !.st = st].goal = r.goal
  BY DEF Camps

\* Campaigns go on or stop in a state of theirs.
LEMMA StateType ==
  ASSUME NEW c
  PROVE  Onward(c) \in CampState \ {"absent"} /\ Stopped(c) \in CampState \ {"absent"}
  BY DEF Onward, Stopped, CampState

\* A prepared write of any kind has the type of one.
LEMMA PreparedType ==
  ASSUME NEW c \in Campaigns, NEW k \in Keys \cup {NoKey}, NEW to \in ItemState,
         NEW next \in Camps, NEW at \in {"bind", "apply", "contain", "item", "camp"},
         Prepare(at, c, k, to, next)
  PROVE  /\ todo' \in Todos
         /\ todo'.at = at /\ todo'.c = c /\ todo'.k = k /\ todo'.to = to /\ todo'.next = next
  BY DEF Prepare, Todos

-----------------------------------------------------------------------------
(* The control thread looks: nothing is written yet, and what it prepares  *)
(* has a type and fits.                                                     *)

\* The end of the current item, and the item it still follows.
LEMMA EndPrepared ==
  ASSUME TypeOK, NEW c \in Campaigns, camp[c].st = "running", camp[c].cur # NoKey,
         NEW to \in {"succeeded", "failed", "blocked_review"},
         NEW st \in CampState \ {"absent"}, NEW at \in {"item", "contain"},
         Prepare(at, c, camp[c].cur, to, Ended(c, to, st)),
         UNCHANGED <<camp, items, delivered>>,
         to = "succeeded" /\ c \in Canaries => camp[c].goal.media \in delivered[camp[c].cur.v]
  PROVE  todo' \in Todos /\ WritesFit'
<1> DEFINE k == camp[c].cur
<1>1. /\ camp[c] \in Camps /\ k \in Keys \cup {NoKey}
      /\ Ended(c, to, st) \in Camps
      /\ Ended(c, to, st).st = st
      /\ Ended(c, to, st).cur = NoKey
      /\ Ended(c, to, st).goal = camp[c].goal
  BY EndedType DEF TypeOK, Camps
<1>2. /\ todo' \in Todos
      /\ todo'.at = at /\ todo'.c = c /\ todo'.k = k /\ todo'.to = to
      /\ todo'.next = Ended(c, to, st)
  BY <1>1, PreparedType DEF ItemState
<1>3. EndFits(todo.c, todo.k, todo.to, todo.next)'
  BY <1>1, <1>2 DEF EndFits, Open
<1> QED
  BY <1>1, <1>2, <1>3 DEF WritesFit

LEMMA FollowPrepared ==
  ASSUME TypeOK, NEW c \in Campaigns, camp[c].st = "running", camp[c].cur # NoKey,
         NEW at \in {"item", "apply"}, Prepare(at, c, camp[c].cur, "running", camp[c]),
         UNCHANGED <<camp, items, delivered>>
  PROVE  todo' \in Todos /\ WritesFit'
<1>1. camp[c] \in Camps /\ camp[c].cur \in Keys \cup {NoKey}
  BY DEF TypeOK, Camps
<1>2. /\ todo' \in Todos
      /\ todo'.at = at /\ todo'.c = c /\ todo'.k = camp[c].cur /\ todo'.to = "running"
      /\ todo'.next = camp[c]
  BY <1>1, PreparedType DEF ItemState
<1> QED
  BY <1>1, <1>2 DEF WritesFit, EndFits, Open

LEMMA LookFits ==
  ASSUME TypeOK, NEW c \in Campaigns, Look(c)
  PROVE  todo' \in Todos /\ WritesFit' /\ Reads
<1> DEFINE k == camp[c].cur
<1>0. /\ camp[c] \in Camps /\ k \in Keys \cup {NoKey}
      /\ camp[c].st = "running" /\ camp[c].st \in CampState
      /\ Reads /\ UNCHANGED <<camp, items, delivered>>
  BY DEF TypeOK, Camps, Look, Follows, Free, Due, LookGone, LookDrifted, LookPreparing,
         LookWaiting, LookDone, LookStopped, Exhausted, Preview, Reads, rows
<1>1. ASSUME NEW to \in {"succeeded", "failed", "blocked_review"},
             NEW st \in CampState \ {"absent"}, NEW at \in {"item", "contain"},
             Prepare(at, c, k, to, Ended(c, to, st)), k # NoKey,
             to = "succeeded" /\ c \in Canaries => camp[c].goal.media \in delivered[k.v]
      PROVE  todo' \in Todos /\ WritesFit' /\ Reads
  BY <1>0, <1>1, EndPrepared
<1>2. ASSUME NEW at \in {"item", "apply"}, k # NoKey, Prepare(at, c, k, "running", camp[c])
      PROVE  todo' \in Todos /\ WritesFit' /\ Reads
  BY <1>0, <1>2, FollowPrepared
<1>3. ASSUME NEW st \in CampState \ {"absent"}, k = NoKey, Reads,
             Prepare("camp", c, NoKey, "failed", [camp[c] EXCEPT !.st = st])
      PROVE  todo' \in Todos /\ WritesFit' /\ Reads
  <2> DEFINE next == [camp[c] EXCEPT !.st = st]
  <2>1. next \in Camps /\ next.st = st /\ next.cur = k /\ next.goal = camp[c].goal
    BY <1>0, StateChanged
  <2> HIDE DEF next
  <2>2. /\ todo' \in Todos
        /\ todo'.at = "camp" /\ todo'.c = c /\ todo'.k = NoKey /\ todo'.next = next
    BY <1>0, <1>3, <2>1, PreparedType DEF ItemState, next
  <2>3. UNCHANGED <<camp, items, delivered>>
    BY <1>3 DEF Reads, rows
  <2> QED
    BY <1>0, <1>3, <2>1, <2>2, <2>3 DEF WritesFit, CampFits
<1>4. ASSUME NEW q \in Eligible(c), k = NoKey, Reads, Prepare("bind", c, q, "preparing", camp[c])
      PROVE  todo' \in Todos /\ WritesFit' /\ Reads
  <2>1. /\ q \in Keys /\ items[q].st = "absent"
        /\ c \in Canaries => q.v = camp[c].goal.v
        /\ q.how # "none" /\ q # NoKey
    BY DEF Eligible, Keys, NoKey
  <2>2. /\ todo' \in Todos
        /\ todo'.at = "bind" /\ todo'.c = c /\ todo'.k = q /\ todo'.next = camp[c]
    BY <1>0, <1>4, <2>1, PreparedType DEF ItemState
  <2>3. UNCHANGED <<camp, items, delivered>>
    BY <1>4 DEF Reads, rows
  <2> QED
    BY <1>0, <1>4, <2>1, <2>2, <2>3 DEF WritesFit, BindFits
<1> HIDE DEF k
<1>5. CASE LookGone(c)
  BY <1>1, <1>5, StateType DEF LookGone, Follows, Finish, ItemState, Open, k
<1>6. CASE LookDrifted(c)
  BY <1>1, <1>6 DEF LookDrifted, Follows, ItemState, CampState, Open, k
<1>7. CASE LookPreparing(c)
  BY <1>2, <1>7 DEF LookPreparing, Follows, k
<1>8. CASE LookWaiting(c)
  BY <1>2, <1>8 DEF LookWaiting, Follows, k
<1>9. CASE LookDone(c)
  <2>1. k # NoKey /\ Reads
    BY <1>9 DEF LookDone, Follows, k
  <2>2. CASE c \in Canaries /\ ~Strict(c, k)
    BY <1>1, <1>9, <2>1, <2>2 DEF LookDone, Finish, ItemState, CampState, Open, k
  <2>3. CASE ~(c \in Canaries /\ ~Strict(c, k))
    <3>1. Finish(c, k, "succeeded", Onward(c))
      BY <1>9, <2>3 DEF LookDone, k
    <3>2. c \in Canaries => camp[c].goal.media \in delivered[k.v]
      BY <2>3 DEF Strict
    <3> QED
      BY <1>1, <2>1, <3>1, <3>2, StateType DEF Finish, ItemState, Open
  <2> QED
    BY <2>2, <2>3
<1>10. CASE LookStopped(c)
  BY <1>1, <1>10, StateType DEF LookStopped, Follows, Finish, ItemState, Open, k
<1>11. CASE Exhausted(c)
  BY <1>3, <1>11 DEF Exhausted, Free, CampState, k
<1>12. CASE Preview(c)
  BY <1>3, <1>4, <1>12 DEF Preview, Free, CampState, k
<1> QED
  BY <1>5, <1>6, <1>7, <1>8, <1>9, <1>10, <1>11, <1>12 DEF Look

-----------------------------------------------------------------------------
(* Every step keeps the types. *)

LEMMA TodoType ==
  ASSUME TypeOK, todo.at # "idle"
  PROVE  /\ todo \in Todos /\ todo.c \in Campaigns /\ todo.k \in Keys \cup {NoKey}
         /\ todo.to \in ItemState /\ todo.next \in Camps
         /\ camp[todo.c] \in Camps
  BY DEF TypeOK, Todos, NoTodo

\* A new campaign and what it is created with.
LEMMA CreateType ==
  ASSUME TypeOK, NEW c \in Campaigns, NEW goal \in Goals, Create(c, goal)
  PROVE  camp' \in [Campaigns -> Camps] /\ latest' \in Campaigns
<1>1. [NoCamp EXCEPT !.st = "running", !.goal = goal] \in Camps
  BY DEF NoCamp, Camps, CampState
<1> QED
  BY <1>1 DEF Create, TypeOK

\* A row that gets another state, and with it another failure.
LEMMA RowChanged ==
  ASSUME TypeOK, NEW v \in Videos, NEW st \in RowState, NEW r \in Revs \cup {NoRev}
  PROVE  /\ [queue EXCEPT ![v].st = st]
              \in [Videos -> [st : RowState, rev : Revs \cup {NoRev}, media : Media]]
         /\ [queue EXCEPT ![v] = [@ EXCEPT !.st = st, !.rev = r]]
              \in [Videos -> [st : RowState, rev : Revs \cup {NoRev}, media : Media]]
<1>1. queue[v] \in [st : RowState, rev : Revs \cup {NoRev}, media : Media]
  BY DEF TypeOK
<1>2. /\ [queue[v] EXCEPT !.st = st] \in [st : RowState, rev : Revs \cup {NoRev}, media : Media]
      /\ [queue[v] EXCEPT !.st = st, !.rev = r]
           \in [st : RowState, rev : Revs \cup {NoRev}, media : Media]
  BY <1>1
<1> QED
  BY <1>2 DEF TypeOK

LEMMA CommandType == TypeOK /\ Commands => TypeOK'
<1> SUFFICES ASSUME TypeOK, Commands PROVE TypeOK'
  OBVIOUS
<1>1. ASSUME NEW c \in Campaigns, NEW goal \in Goals, Create(c, goal), hold' \in BOOLEAN
      PROVE  TypeOK'
  <2>1. camp' \in [Campaigns -> Camps] /\ latest' \in Campaigns
    BY <1>1, CreateType
  <2>2. UNCHANGED <<items, todo, aborts, spent, rows, worker>>
    BY <1>1 DEF Create
  <2> QED
    BY <1>1, <2>1, <2>2 DEF TypeOK, rows, worker
<1>2. NoGoal \in Goals
  BY CampaignAssumption DEF NoGoal, Goals, Media
<1>3. ASSUME NEW c \in Campaigns, StartSweep(c) \/ StartConfigured(c) PROVE TypeOK'
  BY <1>1, <1>2, <1>3 DEF StartSweep, StartConfigured, TypeOK
<1>4. ASSUME NEW c \in Campaigns, NEW v \in Videos, StartCanary(c, v) PROVE TypeOK'
  <2> DEFINE goal == [v |-> v, rev |-> queue[v].rev, media |-> queue[v].media]
  <2>1. goal \in Goals
    BY DEF TypeOK, Goals
  <2>2. Create(c, goal) /\ hold' = TRUE
    BY <1>4 DEF StartCanary
  <2> QED
    BY <1>1, <2>1, <2>2
<1>5. ASSUME NEW c \in Campaigns, NEW st \in CampState,
             camp' = [camp EXCEPT ![c].st = st],
             UNCHANGED <<latest, items, todo, aborts, spent, rows, hold, worker>>
      PROVE  TypeOK'
  <2>1. [camp[c] EXCEPT !.st = st] \in Camps
    BY StateChanged DEF TypeOK
  <2>2. camp' \in [Campaigns -> Camps]
    BY <1>5, <2>1 DEF TypeOK
  <2> QED
    BY <1>5, <2>2 DEF TypeOK, rows, worker
<1>6. ASSUME NEW c \in Campaigns, PauseCampaign(c) \/ ResumeCampaign(c) \/ CancelCampaign(c)
      PROVE  TypeOK'
  BY <1>5, <1>6 DEF PauseCampaign, ResumeCampaign, CancelCampaign, CampState
<1>7. CASE HoldChanges
  BY <1>7 DEF HoldChanges, TypeOK, control, rows, worker
<1> QED
  BY <1>3, <1>4, <1>6, <1>7 DEF Commands

LEMMA WriteType == TypeOK /\ WritesFit /\ Writes => TypeOK'
<1> SUFFICES ASSUME TypeOK, WritesFit, Writes PROVE TypeOK'
  OBVIOUS
<1> DEFINE c == todo.c
           k == todo.k
<1>0. /\ todo \in Todos /\ c \in Campaigns /\ k \in Keys \cup {NoKey}
      /\ todo.to \in ItemState /\ todo.next \in Camps /\ camp[c] \in Camps
      /\ todo.at # "idle"
  BY TodoType DEF Writes, Bind, Apply, Contain, WriteItem, WriteCamp
<1>1. todo.at # "camp" => k \in Keys
  BY <1>0 DEF WritesFit, BindFits, Idle, Todos
<1> HIDE DEF c, k
<1>2. CASE Bind
  <2>1. k \in Keys /\ k.v \in Videos
    BY <1>1, <1>2 DEF Bind, Keys, k
  <2>2. items' \in [Keys -> [st : ItemState, by : Campaigns \cup {Nobody},
                             media : Media, old : BOOLEAN]]
    <3>1. (disk[k.v] \in delivered[k.v]) \in BOOLEAN
      OBVIOUS
    <3> QED
      BY <1>0, <1>2, <2>1, <3>1 DEF Bind, TypeOK, ItemState, c, k
  <2>3. [camp[c] EXCEPT !.cur = k] \in Camps
    BY <1>0, <2>1 DEF Camps
  <2>4. camp' \in [Campaigns -> Camps]
    BY <1>0, <1>2, <2>3 DEF Bind, TypeOK, c, k
  <2>5. [todo.next EXCEPT !.cur = k] \in Camps
    BY <1>0, <2>1 DEF Camps
  <2>6. todo' \in Todos
    BY <1>0, <1>2, <2>5 DEF Bind, Todos, k
  <2> QED
    BY <1>2, <2>2, <2>4, <2>6 DEF Bind, TypeOK, rows, worker
<1>3. CASE Apply
  <2>1. k \in Keys /\ k.v \in Videos
    BY <1>1, <1>3 DEF Apply, Keys, k
  <2>2. queue' \in [Videos -> [st : RowState, rev : Revs \cup {NoRev}, media : Media]]
    <3>1. UNCHANGED queue \/ \E st \in RowState : queue' = [queue EXCEPT ![k.v].st = st]
      BY <1>3 DEF Apply, RowState, k
    <3>2. ASSUME NEW st \in RowState, queue' = [queue EXCEPT ![k.v].st = st]
          PROVE  queue' \in [Videos -> [st : RowState, rev : Revs \cup {NoRev}, media : Media]]
      BY <2>1, <3>2, RowChanged
    <3> QED
      BY <3>1, <3>2 DEF TypeOK
  <2>3. spent' \in [Keys -> 0..2]
    BY <1>3, <2>1 DEF Apply, TypeOK, k
  <2>4. todo' \in Todos
    <3>1. ASSUME NEW to \in ItemState, NEW st \in CampState, Finish(c, k, to, st)
          PROVE  todo' \in Todos
      BY <1>0, <3>1, EndedType, PreparedType DEF Finish
    <3>2. Prepare("item", c, k, "running", camp[c]) => todo' \in Todos
      BY <1>0, PreparedType DEF ItemState
    <3> QED
      BY <1>3, <3>1, <3>2, StateType DEF Apply, ItemState, c, k
  <2> QED
    BY <1>3, <2>2, <2>3, <2>4 DEF Apply, TypeOK, rows, worker
<1>4. CASE Contain
  <2>1. k \in Keys /\ k.v \in Videos
    BY <1>1, <1>4 DEF Contain, Keys, k
  <2>2. queue' \in [Videos -> [st : RowState, rev : Revs \cup {NoRev}, media : Media]]
    BY <1>4, <2>1 DEF Contain, TypeOK, RowState, k
  <2>3. todo' \in Todos
    BY <1>0, <1>4 DEF Contain, Todos
  <2> QED
    BY <1>4, <2>2, <2>3 DEF Contain, TypeOK, rows, worker
<1>5. CASE WriteItem
  <2>1. todo' \in Todos
    BY <1>0, <1>5 DEF WriteItem, Todos
  <2>2. items' \in [Keys -> [st : ItemState, by : Campaigns \cup {Nobody},
                             media : Media, old : BOOLEAN]]
    BY <1>0, <1>1, <1>5 DEF WriteItem, TypeOK, k
  <2> QED
    BY <1>5, <2>1, <2>2 DEF WriteItem, TypeOK, rows, worker
<1>6. CASE WriteCamp
  BY <1>0, <1>6 DEF WriteCamp, TypeOK, rows, worker, c
<1> QED
  BY <1>2, <1>3, <1>4, <1>5, <1>6 DEF Writes

\* The Worker, the files, discovery and the operator.
LEMMA RowType ==
  ASSUME TypeOK, NEW v \in Videos,
         Claim(v) \/ Refuse(v) \/ Deliver(v) \/ Fail(v) \/ Requeue(v) \/ Others(v)
  PROVE  TypeOK'
<1> USE DEF TypeOK, control, rows, worker, Outside, RowState
<1>1. CASE Claim(v)
  BY <1>1 DEF Claim
<1>2. CASE Refuse(v)
  BY <1>2 DEF Refuse
<1>3. CASE Deliver(v)
  BY <1>3 DEF Deliver
<1>4. CASE Fail(v)
  <2>1. PICK st \in RowState, r \in Revs : queue' = [queue EXCEPT ![v] = [@ EXCEPT !.st = st, !.rev = r]]
    BY <1>4 DEF Fail
  <2> QED
    BY <1>4, <2>1, RowChanged DEF Fail
<1>5. CASE Requeue(v) \/ OperatorPause(v)
  <2>1. PICK st \in RowState : queue' = [queue EXCEPT ![v].st = st]
    BY <1>5 DEF Requeue, OperatorPause
  <2> QED
    BY <1>5, <2>1, RowChanged DEF Requeue, OperatorPause
<1>10. CASE OperatorRetry(v) \/ ScanFinished(v)
  <2>1. PICK st \in RowState : queue' = [queue EXCEPT ![v] = [@ EXCEPT !.st = st, !.rev = NoRev]]
    BY <1>10 DEF OperatorRetry, ScanFinished
  <2> QED
    BY <1>10, <2>1, RowChanged DEF OperatorRetry, ScanFinished
<1>6. CASE ScanUnwanted(v)
  BY <1>6, CampaignAssumption DEF ScanUnwanted, NoRow, Media
<1>7. CASE Upsert(v)
  BY <1>7 DEF Upsert
<1>8. CASE MediaReplaced(v)
  <2>1. disk[v] + 1 \in Media
    BY <1>8, CampaignAssumption DEF MediaReplaced, Media
  <2> QED
    BY <1>8, <2>1 DEF MediaReplaced
<1>9. CASE ReviewChanges(v)
  BY <1>9 DEF ReviewChanges
<1> QED
  BY <1>1, <1>2, <1>3, <1>4, <1>5, <1>6, <1>7, <1>8, <1>9, <1>10 DEF Others

LEMMA TypeStep == TypeOK /\ CampaignInv /\ [Next]_vars => TypeOK'
<1> SUFFICES ASSUME TypeOK, CampaignInv, [Next]_vars PROVE TypeOK'
  OBVIOUS
<1>0. WritesFit
  BY DEF CampaignInv
<1>1. ASSUME NEW c \in Campaigns, Look(c) PROVE TypeOK'
  <2>1. todo' \in Todos /\ Reads
    BY <1>1, LookFits
  <2> QED
    BY <2>1 DEF Reads, TypeOK, rows, worker
<1>2. ASSUME NEW all \in BOOLEAN, Abort(all) PROVE TypeOK'
  BY <1>2, CampaignAssumption DEF Abort, TypeOK, rows, worker
<1>3. CASE Select
  <2>1. ASSUME NEW b \in SUBSET Videos, SelectAll(b) PROVE TypeOK'
    BY <2>1 DEF SelectAll, Begin, TypeOK, control, rows
  <2>2. ASSUME NEW c \in Canaries, SelectCanary(c) PROVE TypeOK'
    <3>1. camp[c].cur \in Keys /\ camp[c].goal.v = camp[c].cur.v
      BY <2>2 DEF SelectCanary, CampaignInv, CurrentIsMine, Canaries, TypeOK, Camps
    <3>2. camp[c].goal.v \in Videos
      BY <3>1 DEF Keys
    <3> QED
      BY <2>2, <3>2 DEF SelectCanary, Begin, TypeOK, control, rows
  <2> QED
    BY <1>3, <2>1, <2>2 DEF Select
<1>4. CASE UNCHANGED vars
  BY <1>4 DEF vars, control, rows, worker, TypeOK
<1> QED
  BY <1>0, <1>1, <1>2, <1>3, <1>4, CommandType, WriteType, RowType DEF Next

-----------------------------------------------------------------------------
(* The inductive invariant *)

IInv == TypeOK /\ CampaignInv /\ OneActive /\ ItemsFollowed /\ CanaryProven

\* What others do to rows, files and reviews, and what the control thread
\* reads, disturbs no campaign: deliveries only accumulate.
Undisturbed ==
  /\ UNCHANGED <<camp, items, mode>>
  /\ batch' \subseteq batch
  /\ \A v \in Videos : delivered[v] \subseteq delivered'[v]

LEMMA Tables ==
  ASSUME TypeOK, CampaignInv, OneActive, ItemsFollowed, CanaryProven, Undisturbed
  PROVE  OneActive' /\ ItemsFollowed' /\ CanaryProven' /\ ItemsOwned' /\ CurrentIsMine'
         /\ BatchIsTarget'
<1> USE DEF Undisturbed
<1>1. OneActive' /\ ItemsOwned' /\ CurrentIsMine' /\ ItemsFollowed'
  BY DEF OneActive, Active, CampaignInv, ItemsOwned, CurrentIsMine, ItemsFollowed
<1>2. CanaryProven'
  BY DEF CanaryProven, Keys
<1>3. BatchIsTarget'
  BY DEF CampaignInv, BatchIsTarget
<1> QED
  BY <1>1, <1>2, <1>3

LEMMA WritesStillFit ==
  ASSUME TypeOK, CampaignInv, Undisturbed, UNCHANGED todo
  PROVE  WritesFit'
<1>1. CASE Idle
  BY <1>1 DEF WritesFit, Idle
<1>2. CASE ~Idle
  <2>1. WritesFit /\ UNCHANGED <<camp, items, todo>>
    BY DEF CampaignInv, Undisturbed
  <2>2. todo.at \in {"contain", "item"} => EndFits(todo.c, todo.k, todo.to, todo.next)'
    <3>1. todo.at \in {"contain", "item"} => todo.k \in Keys
      BY <1>2, <2>1, TodoType DEF WritesFit, Idle
    <3> QED
      BY <1>2, <2>1, <3>1 DEF WritesFit, EndFits, Undisturbed, Keys
  <2> QED
    BY <1>2, <2>1, <2>2 DEF WritesFit, BindFits, CampFits, Idle
<1> QED
  BY <1>1, <1>2

\* A new campaign has no item yet.
LEMMA CreateStep ==
  ASSUME IInv, NEW c \in Campaigns, NEW goal \in Goals, Create(c, goal), Alone(c)
  PROVE  (CampaignInv /\ OneActive /\ ItemsFollowed /\ CanaryProven)'
<1>0. /\ UNCHANGED <<items, todo, mode, batch, delivered>> /\ Idle /\ camp[c].st = "absent"
      /\ \A d \in Campaigns : d # c => camp'[d] = camp[d]
      /\ camp'[c].st = "running" /\ camp'[c].cur = NoKey
  BY DEF Create, rows, worker, IInv, TypeOK, NoCamp
<1>1. \A k \in Keys : items[k].st # "absent" => items[k].by \in Campaigns \ {c}
  BY <1>0 DEF IInv, CampaignInv, ItemsOwned
<1>2. OneActive'
  BY <1>0 DEF IInv, OneActive, Active, Alone
<1>3. ItemsFollowed'
  BY <1>0, <1>1 DEF IInv, ItemsFollowed, Open
<1>4. CanaryProven'
  <2>1. \A k \in Keys : items[k].st = "succeeded" => camp'[items[k].by] = camp[items[k].by]
    BY <1>0, <1>1
  <2> QED
    BY <1>0, <2>1 DEF IInv, CanaryProven
<1>5. ItemsOwned'
  BY <1>0, <1>1 DEF IInv, CampaignInv, ItemsOwned
<1>6. CurrentIsMine'
  BY <1>0 DEF IInv, CampaignInv, CurrentIsMine
<1>7. WritesFit'
  BY <1>0 DEF WritesFit, Idle
<1>8. BatchIsTarget'
  <2>1. mode \in Canaries => mode \in Campaigns \ {c}
    BY <1>0 DEF IInv, CampaignInv, BatchIsTarget, Canaries
  <2> QED
    BY <1>0, <2>1 DEF IInv, CampaignInv, BatchIsTarget
<1> QED
  BY <1>2, <1>3, <1>4, <1>5, <1>6, <1>7, <1>8 DEF CampaignInv

\* An operator's command, or the end of an item, gives a campaign a state.
LEMMA StateStep ==
  ASSUME IInv, NEW c \in Campaigns, NEW new \in Camps, Active \subseteq {c} \/ new.st = "cancelled",
         camp' = [camp EXCEPT ![c] = new], camp[c].st # "absent", new.st # "absent",
         new.goal = camp[c].goal, CampFits(camp[c].cur, new),
         UNCHANGED <<items, mode, batch, delivered>>, Idle'
  PROVE  (CampaignInv /\ OneActive /\ ItemsFollowed /\ CanaryProven)'
<1>0. /\ \A d \in Campaigns : d # c => camp'[d] = camp[d]
      /\ camp'[c] = new
  BY DEF IInv, TypeOK
<1>2. OneActive'
  BY <1>0 DEF IInv, OneActive, Active
<1>3. ItemsFollowed'
  <2>1. ASSUME NEW k \in Keys, items[k].st \in Open PROVE camp'[items[k].by].cur = k
    <3>1. camp[items[k].by].cur = k /\ items[k].by \in Campaigns
      BY <2>1 DEF IInv, ItemsFollowed, CampaignInv, ItemsOwned, Open
    <3> QED
      BY <1>0, <2>1, <3>1 DEF CampFits
  <2> QED
    BY <2>1 DEF ItemsFollowed
<1>4. CanaryProven'
  <2>1. \A k \in Keys : items[k].st = "succeeded" =>
          camp'[items[k].by].goal = camp[items[k].by].goal
    BY <1>0 DEF IInv, CampaignInv, ItemsOwned
  <2> QED
    BY <2>1 DEF IInv, CanaryProven
<1>5. ItemsOwned'
  BY <1>0 DEF IInv, CampaignInv, ItemsOwned
<1>6. CurrentIsMine'
  BY <1>0 DEF IInv, CampaignInv, CurrentIsMine, CampFits
<1>7. WritesFit'
  BY DEF WritesFit
<1>8. BatchIsTarget'
  BY <1>0 DEF IInv, CampaignInv, BatchIsTarget, Canaries
<1> QED
  BY <1>2, <1>3, <1>4, <1>5, <1>6, <1>7, <1>8 DEF CampaignInv

LEMMA CommandStep ==
  ASSUME IInv, Commands
  PROVE  (CampaignInv /\ OneActive /\ ItemsFollowed /\ CanaryProven)'
<1>1. NoGoal \in Goals
  BY CampaignAssumption DEF NoGoal, Goals, Media
<1>2. ASSUME NEW c \in Campaigns, StartSweep(c) \/ StartConfigured(c)
      PROVE  (CampaignInv /\ OneActive /\ ItemsFollowed /\ CanaryProven)'
  BY <1>1, <1>2, CreateStep DEF StartSweep, StartConfigured
<1>3. ASSUME NEW c \in Campaigns, NEW v \in Videos, StartCanary(c, v)
      PROVE  (CampaignInv /\ OneActive /\ ItemsFollowed /\ CanaryProven)'
  <2> DEFINE goal == [v |-> v, rev |-> queue[v].rev, media |-> queue[v].media]
  <2>1. goal \in Goals
    BY DEF IInv, TypeOK, Goals
  <2>2. Create(c, goal) /\ Alone(c)
    BY <1>3 DEF StartCanary
  <2> QED
    BY <2>1, <2>2, CreateStep
<1>4. ASSUME NEW c \in Campaigns, NEW st \in {"paused", "running", "cancelled"},
             camp' = [camp EXCEPT ![c].st = st], camp[c].st # "absent", Idle,
             Active \subseteq {c} \/ st = "cancelled",
             UNCHANGED <<items, todo, rows, worker>>
      PROVE  (CampaignInv /\ OneActive /\ ItemsFollowed /\ CanaryProven)'
  <2> DEFINE new == [camp[c] EXCEPT !.st = st]
  <2>1. /\ new \in Camps /\ new.st = st /\ new.cur = camp[c].cur
        /\ new.goal = camp[c].goal
    <3>1. camp[c] \in Camps /\ st \in CampState
      BY DEF IInv, TypeOK, CampState
    <3> QED
      BY <3>1, StateChanged
  <2>2. camp' = [camp EXCEPT ![c] = new]
    BY <1>4
  <2>3. UNCHANGED <<items, mode, batch, delivered>> /\ Idle' /\ CampFits(camp[c].cur, new)
    BY <1>4, <2>1 DEF rows, worker, Idle, CampFits
  <2> HIDE DEF new
  <2> QED
    BY <1>4, <2>1, <2>2, <2>3, StateStep
<1>5. ASSUME NEW c \in Campaigns, PauseCampaign(c)
      PROVE  (CampaignInv /\ OneActive /\ ItemsFollowed /\ CanaryProven)'
  <2>1. Active \subseteq {c} /\ camp[c].st # "absent"
    BY <1>5 DEF PauseCampaign, IInv, OneActive, Active
  <2> QED
    BY <1>4, <1>5, <2>1 DEF PauseCampaign
<1>6. ASSUME NEW c \in Campaigns, ResumeCampaign(c) \/ CancelCampaign(c)
      PROVE  (CampaignInv /\ OneActive /\ ItemsFollowed /\ CanaryProven)'
  BY <1>4, <1>6 DEF ResumeCampaign, CancelCampaign, Alone
<1>7. CASE HoldChanges
  <2>1. Undisturbed /\ UNCHANGED todo
    BY <1>7 DEF HoldChanges, Undisturbed, control, rows, worker
  <2> QED
    BY <2>1, Tables, WritesStillFit DEF IInv, CampaignInv
<1> QED
  BY <1>2, <1>3, <1>5, <1>6, <1>7 DEF Commands

LEMMA WriteStep ==
  ASSUME IInv, Writes
  PROVE  (CampaignInv /\ OneActive /\ ItemsFollowed /\ CanaryProven)'
<1> DEFINE c == todo.c
           k == todo.k
<1>0. /\ c \in Campaigns /\ k \in Keys \cup {NoKey} /\ todo.at # "idle"
      /\ todo.to \in ItemState /\ todo.next \in Camps /\ camp[c] \in Camps
      /\ todo \in Todos
  BY TodoType DEF IInv, Writes, Bind, Apply, Contain, WriteItem, WriteCamp
<1>1. /\ camp[c].st = "running" /\ todo.next.goal = camp[c].goal /\ todo.next.st # "absent"
      /\ todo.at = "bind" => BindFits(c, k)
      /\ todo.at \in {"apply", "contain", "item"} => k = camp[c].cur /\ k # NoKey
      /\ todo.at \in {"contain", "item"} => EndFits(c, k, todo.to, todo.next)
      /\ todo.at = "camp" => CampFits(camp[c].cur, todo.next)
  BY <1>0 DEF IInv, CampaignInv, WritesFit, Idle
<1>2. todo.at # "camp" => k \in Keys
  BY <1>0, <1>1 DEF BindFits, Todos
<1> HIDE DEF c, k
<1>3. CASE Bind
  <2>1. /\ k \in Keys /\ camp[c].cur = NoKey /\ k # NoKey /\ items[k].st = "absent"
        /\ c \in Canaries => k.v = camp[c].goal.v
    BY <1>1, <1>2, <1>3 DEF Bind, BindFits
  <2>2. /\ items'[k].st = "preparing" /\ items'[k].by = c
        /\ \A q \in Keys : q # k => items'[q] = items[q]
    BY <1>3, <2>1 DEF Bind, IInv, TypeOK, c, k
  <2>3. /\ \A d \in Campaigns : d # c => camp'[d] = camp[d]
        /\ camp'[c].st = "running" /\ camp'[c].cur = k /\ camp'[c].goal = camp[c].goal
    BY <1>0, <1>1, <1>3 DEF Bind, IInv, TypeOK, Camps, c, k
  <2>4. /\ todo'.at = "apply" /\ todo'.c = c /\ todo'.k = k
        /\ todo'.next.goal = camp[c].goal /\ todo'.next.st # "absent"
    BY <1>0, <1>1, <1>3 DEF Bind, Todos, Camps, c, k
  <2>5. UNCHANGED <<mode, batch, delivered>>
    BY <1>3 DEF Bind, rows, worker
  <2>6. OneActive'
    BY <1>1, <2>3 DEF IInv, OneActive, Active
  <2>7. ItemsFollowed'
    <3>1. ASSUME NEW q \in Keys, q # k, items[q].st \in Open PROVE camp'[items[q].by].cur = q
      BY <2>1, <2>3, <3>1 DEF IInv, ItemsFollowed, CampaignInv, ItemsOwned, Open, Keys, NoKey
    <3> QED
      BY <2>2, <2>3, <3>1 DEF ItemsFollowed
  <2>8. CanaryProven'
    <3>1. ASSUME NEW q \in Keys, q # k, items[q].st # "absent"
          PROVE  camp'[items[q].by].goal = camp[items[q].by].goal
      BY <2>3, <3>1 DEF IInv, CampaignInv, ItemsOwned
    <3> QED
      BY <2>2, <2>5, <3>1 DEF IInv, CanaryProven
  <2>9. ItemsOwned'
    BY <1>0, <2>2, <2>3 DEF IInv, CampaignInv, ItemsOwned
  <2>10. CurrentIsMine'
    <3>1. ASSUME NEW d \in Campaigns, d # c, camp[d].cur # NoKey
          PROVE  camp[d].cur \in Keys /\ camp[d].cur # k
      BY <2>1, <3>1 DEF IInv, CampaignInv, CurrentIsMine, TypeOK, Camps
    <3> QED
      BY <2>1, <2>2, <2>3, <3>1 DEF IInv, CampaignInv, CurrentIsMine
  <2>11. WritesFit'
    BY <2>1, <2>3, <2>4 DEF WritesFit
  <2>12. BatchIsTarget'
    BY <1>1, <2>3, <2>5 DEF IInv, CampaignInv, BatchIsTarget, Canaries
  <2> QED
    BY <2>6, <2>7, <2>8, <2>9, <2>10, <2>11, <2>12 DEF CampaignInv
<1>4. CASE Apply
  <2>1. Undisturbed /\ UNCHANGED <<camp, items, delivered>>
    BY <1>4 DEF Apply, Undisturbed, worker
  <2>2. ASSUME NEW to \in {"failed", "blocked_review"}, NEW st \in CampState \ {"absent"},
               Finish(c, k, to, st)
        PROVE  WritesFit'
    <3>1. k = camp[c].cur /\ k # NoKey
      BY <1>1, <1>4 DEF Apply
    <3> QED
      BY <1>0, <1>1, <2>1, <2>2, <3>1, EndPrepared DEF Finish, IInv
  <2>3. ASSUME Prepare("item", c, k, "running", camp[c]) PROVE WritesFit'
    BY <1>0, <1>1, <1>4, <2>1, <2>3, FollowPrepared DEF Apply, IInv
  <2>4. WritesFit'
    BY <1>4, <2>2, <2>3, StateType DEF Apply, c, k
  <2> QED
    BY <2>1, <2>4, Tables DEF IInv, CampaignInv
<1>5. CASE Contain
  <2>1. Undisturbed /\ UNCHANGED <<camp, items, delivered>>
    BY <1>5 DEF Contain, Undisturbed, worker
  <2>2. /\ todo'.at = "item" /\ todo'.c = c /\ todo'.k = k
        /\ todo'.to = todo.to /\ todo'.next = todo.next
    BY <1>0, <1>5 DEF Contain, Todos, c, k
  <2>3. WritesFit'
    BY <1>1, <1>5, <2>1, <2>2 DEF Contain, WritesFit, EndFits
  <2> QED
    BY <2>1, <2>3, Tables DEF IInv, CampaignInv
<1>6. CASE WriteItem
  <2>1. k \in Keys /\ k = camp[c].cur /\ k # NoKey /\ EndFits(c, k, todo.to, todo.next)
    BY <1>1, <1>2, <1>6 DEF WriteItem
  <2>2. /\ items[k].by = c /\ items[k].st # "absent"
        /\ c \in Canaries => k.v = camp[c].goal.v
    BY <1>0, <2>1 DEF IInv, CampaignInv, CurrentIsMine
  <2>3. /\ items'[k].st = todo.to /\ items'[k].by = c
        /\ \A q \in Keys : q # k => items'[q] = items[q]
    BY <1>6, <2>1, <2>2 DEF WriteItem, IInv, TypeOK, k
  <2>4. /\ UNCHANGED <<camp, mode, batch, delivered>>
        /\ todo'.at = "camp" /\ todo'.c = c /\ todo'.next = todo.next
    BY <1>0, <1>6 DEF WriteItem, rows, worker, Todos, c
  <2>5. OneActive' /\ ItemsFollowed'
    BY <2>1, <2>3, <2>4 DEF IInv, OneActive, Active, ItemsFollowed
  <2>6. CanaryProven'
    BY <2>1, <2>2, <2>3, <2>4 DEF IInv, CanaryProven, EndFits
  <2>7. ItemsOwned' /\ CurrentIsMine'
    BY <1>0, <1>1, <2>1, <2>2, <2>3, <2>4
       DEF IInv, CampaignInv, ItemsOwned, CurrentIsMine, EndFits, TypeOK, Camps
  <2>8. WritesFit'
    BY <1>1, <2>1, <2>3, <2>4 DEF WritesFit, CampFits, EndFits
  <2>9. BatchIsTarget'
    BY <2>4 DEF IInv, CampaignInv, BatchIsTarget
  <2> QED
    BY <2>5, <2>6, <2>7, <2>8, <2>9 DEF CampaignInv
<1>7. CASE WriteCamp
  <2>1. Active \subseteq {c}
    BY <1>0, <1>1 DEF IInv, OneActive, Active
  <2>2. CampFits(camp[c].cur, todo.next)
    BY <1>1, <1>7 DEF WriteCamp
  <2>3. /\ camp' = [camp EXCEPT ![c] = todo.next] /\ Idle'
        /\ UNCHANGED <<items, mode, batch, delivered>>
    BY <1>7 DEF WriteCamp, Idle, NoTodo, rows, worker, c
  <2> QED
    BY <1>0, <1>1, <2>1, <2>2, <2>3, StateStep
<1> QED
  BY <1>3, <1>4, <1>5, <1>6, <1>7 DEF Writes

\* A batch begins for everything, or for the target of a running canary.
LEMMA SelectStep ==
  ASSUME IInv, Select
  PROVE  (CampaignInv /\ OneActive /\ ItemsFollowed /\ CanaryProven)'
<1>1. /\ UNCHANGED <<camp, items, todo, delivered>>
      /\ \/ mode' = "all"
         \/ \E c \in Canaries : /\ mode' = c /\ camp[c].st = "running"
                                /\ batch' = {camp[c].goal.v}
  BY DEF Select, SelectAll, SelectCanary, Begin, Running, control, rows
<1>2. /\ OneActive' /\ ItemsFollowed' /\ CanaryProven' /\ ItemsOwned' /\ CurrentIsMine'
  BY <1>1 DEF IInv, CampaignInv, OneActive, Active, ItemsFollowed, CanaryProven,
              ItemsOwned, CurrentIsMine
<1>3. WritesFit'
  BY <1>1 DEF IInv, CampaignInv, WritesFit, BindFits, EndFits, CampFits, Idle
<1>4. BatchIsTarget'
  BY <1>1, CampaignAssumption DEF BatchIsTarget, Canaries
<1> QED
  BY <1>2, <1>3, <1>4 DEF CampaignInv

\* An interrupted control thread forgets what it was about to write.
LEMMA AbortStep ==
  ASSUME IInv, NEW all \in BOOLEAN, Abort(all)
  PROVE  (CampaignInv /\ OneActive /\ ItemsFollowed /\ CanaryProven)'
<1>1. /\ UNCHANGED <<camp, items, delivered>> /\ Idle'
      /\ \/ UNCHANGED <<mode, batch>>
         \/ mode' = "none" /\ batch' = {}
  BY DEF Abort, Idle, NoTodo, rows, worker
<1>2. /\ OneActive' /\ ItemsFollowed' /\ CanaryProven' /\ ItemsOwned' /\ CurrentIsMine'
  BY <1>1 DEF IInv, CampaignInv, OneActive, Active, ItemsFollowed, CanaryProven,
              ItemsOwned, CurrentIsMine
<1>3. WritesFit'
  BY <1>1 DEF WritesFit
<1>4. BatchIsTarget'
  BY <1>1, CampaignAssumption DEF IInv, CampaignInv, BatchIsTarget, Canaries
<1> QED
  BY <1>2, <1>3, <1>4 DEF CampaignInv

\* A claim or a refusal shortens the batch; its end frees the Worker.
LEMMA ClaimStep ==
  ASSUME IInv, NEW v \in Videos, Claim(v) \/ Refuse(v)
  PROVE  (CampaignInv /\ OneActive /\ ItemsFollowed /\ CanaryProven)'
<1>1. /\ UNCHANGED <<camp, items, todo, delivered>>
      /\ \/ mode' = mode /\ batch' \subseteq batch
         \/ mode' = "none" /\ batch' = {}
  BY DEF Claim, Refuse, control, rows
<1>2. /\ OneActive' /\ ItemsFollowed' /\ CanaryProven' /\ ItemsOwned' /\ CurrentIsMine'
  BY <1>1 DEF IInv, CampaignInv, OneActive, Active, ItemsFollowed, CanaryProven,
              ItemsOwned, CurrentIsMine
<1>3. WritesFit'
  BY <1>1 DEF IInv, CampaignInv, WritesFit, BindFits, EndFits, CampFits, Idle
<1>4. BatchIsTarget'
  BY <1>1, CampaignAssumption DEF IInv, CampaignInv, BatchIsTarget, Canaries
<1> QED
  BY <1>2, <1>3, <1>4 DEF CampaignInv

LEMMA RowStep ==
  ASSUME IInv, NEW v \in Videos, Deliver(v) \/ Fail(v) \/ Requeue(v) \/ Others(v)
  PROVE  (CampaignInv /\ OneActive /\ ItemsFollowed /\ CanaryProven)'
<1>1. UNCHANGED <<camp, items, todo, mode, batch>>
  BY DEF Deliver, Fail, Requeue, Others, OperatorRetry, OperatorPause, ScanFinished,
         ScanUnwanted, Upsert, MediaReplaced, ReviewChanges, Outside, control, worker
<1>2. \A u \in Videos : delivered[u] \subseteq delivered'[u]
  <2>1. CASE Deliver(v)
    BY <2>1 DEF Deliver, IInv, TypeOK
  <2>2. CASE UNCHANGED delivered
    BY <2>2
  <2> QED
    BY <2>1, <2>2
       DEF Fail, Requeue, Others, OperatorRetry, OperatorPause, ScanFinished,
           ScanUnwanted, Upsert, MediaReplaced, ReviewChanges
<1>3. Undisturbed
  BY <1>1, <1>2 DEF Undisturbed
<1> QED
  BY <1>1, <1>3, Tables, WritesStillFit DEF IInv, CampaignInv

LEMMA InitInv == Init => IInv
<1> SUFFICES ASSUME Init PROVE IInv
  OBVIOUS
<1> USE DEF Init
<1>1. TypeOK
  <2>1. NoGoal \in Goals /\ 1 \in Media /\ 0 \in Media
    BY CampaignAssumption DEF NoGoal, Goals, Media
  <2>2. NoCamp \in Camps
    BY <2>1 DEF NoCamp, Camps, CampState
  <2>3. NoItem \in [st : ItemState, by : Campaigns \cup {Nobody}, media : Media, old : BOOLEAN]
    BY <2>1 DEF NoItem, ItemState
  <2>4. NoRow \in [st : RowState, rev : Revs \cup {NoRev}, media : Media]
    BY <2>1 DEF NoRow, RowState
  <2> QED
    <3>1. camp \in [Campaigns -> Camps] /\ items \in [Keys -> [st : ItemState,
             by : Campaigns \cup {Nobody}, media : Media, old : BOOLEAN]]
      BY <2>2, <2>3
    <3>2. queue \in [Videos -> [st : RowState, rev : Revs \cup {NoRev}, media : Media]]
      BY <2>4
    <3>3. disk \in [Videos -> Media] /\ delivered \in [Videos -> SUBSET Media]
          /\ spent \in [Keys -> 0..2] /\ aborts \in 0..MaxAborts
      BY <2>1, CampaignAssumption
    <3> QED
      BY <3>1, <3>2, <3>3 DEF TypeOK
<1>2. \A c \in Campaigns : camp[c].st = "absent" /\ camp[c].cur = NoKey
  BY DEF NoCamp
<1>3. \A k \in Keys : items[k].st = "absent"
  BY DEF NoItem
<1>4. ItemsOwned /\ CurrentIsMine /\ ItemsFollowed /\ CanaryProven /\ OneActive
  BY <1>2, <1>3 DEF ItemsOwned, CurrentIsMine, ItemsFollowed, CanaryProven, OneActive,
                    Active, Open
<1>5. WritesFit /\ BatchIsTarget
  BY CampaignAssumption DEF WritesFit, Idle, NoTodo, BatchIsTarget, Canaries
<1> QED
  BY <1>1, <1>4, <1>5 DEF IInv, CampaignInv

LEMMA InvStep == IInv /\ [Next]_vars => IInv'
<1> SUFFICES ASSUME IInv, [Next]_vars PROVE IInv'
  OBVIOUS
<1>1. TypeOK'
  BY TypeStep DEF IInv
<1>2. (CampaignInv /\ OneActive /\ ItemsFollowed /\ CanaryProven)'
  <2>1. ASSUME NEW c \in Campaigns, Look(c)
        PROVE  (CampaignInv /\ OneActive /\ ItemsFollowed /\ CanaryProven)'
    <3>1. WritesFit' /\ Reads
      BY <2>1, LookFits DEF IInv
    <3>2. Undisturbed
      BY <3>1 DEF Undisturbed, Reads, rows, worker
    <3> QED
      BY <3>1, <3>2, Tables DEF IInv, CampaignInv
  <2>2. CASE UNCHANGED vars
    <3>1. Undisturbed /\ UNCHANGED todo
      BY <2>2 DEF Undisturbed, vars, control, rows, worker
    <3> QED
      BY <3>1, Tables, WritesStillFit DEF IInv, CampaignInv
  <2> QED
    BY <2>1, <2>2, CommandStep, WriteStep, AbortStep, SelectStep, ClaimStep, RowStep DEF Next
<1> QED
  BY <1>1, <1>2 DEF IInv

\* The invariant that everything below rests on.
LEMMA Invariance == Spec => []IInv
<1> QED
  BY InitInv, InvStep, PTL DEF Spec

\* Items belong to existing campaigns, and what the control thread is about to
\* write fits the tables at the moment it is written.
THEOREM CampaignCorrect == Spec => []CampaignInv
<1>1. IInv => CampaignInv
  BY DEF IInv
<1> QED
  BY <1>1, Invariance, PTL

\* Campaigns, items, rows and the Worker's batch are typed.
THEOREM TypeCorrect == Spec => []TypeOK
<1>1. IInv => TypeOK
  BY DEF IInv
<1> QED
  BY <1>1, Invariance, PTL

\* No two campaigns are ever active at the same time, whatever is started,
\* resumed, cancelled or written late.
THEOREM OneCampaignAtATime == Spec => []OneActive
<1>1. IInv => OneActive
  BY DEF IInv
<1> QED
  BY <1>1, Invariance, PTL

\* Every unfinished item is followed by its campaign, whatever transaction the
\* control thread was interrupted after.
THEOREM NothingLost == Spec => []ItemsFollowed
<1>1. IInv => ItemsFollowed
  BY DEF IInv
<1> QED
  BY <1>1, Invariance, PTL

\* A canary that succeeded delivered its target's own media revision.
THEOREM SuccessIsProven == Spec => []CanaryProven
<1>1. IInv => CanaryProven
  BY DEF IInv
<1> QED
  BY <1>1, Invariance, PTL

\* The batch of the Worker is the canary's target, the campaign that claims is
\* the only active one: nothing else begins while a canary is active.
THEOREM CanaryIsAlone == Spec => CanaryIsolated
<1> DEFINE Isolated == \A v \in Videos, c \in Active \cap Canaries :
             queue[v].st # "running" /\ queue'[v].st = "running"
               => v = camp[c].goal.v /\ Exact(v, camp[c].goal) /\ disk[v] = camp[c].goal.media
<1>1. IInv /\ [Next]_vars => [Isolated]_vars
  <2> SUFFICES ASSUME IInv, Next, NEW v \in Videos, NEW c \in Active \cap Canaries,
                      queue[v].st # "running", queue'[v].st = "running"
               PROVE  v = camp[c].goal.v /\ Exact(v, camp[c].goal)
                      /\ disk[v] = camp[c].goal.media
    OBVIOUS
  <2>1. Claim(v)
    <3>1. UNCHANGED queue \/ \E u \in Videos : Claim(u) \/ Deliver(u) \/ Fail(u) \/ Requeue(u)
                          \/ Others(u) \/ Apply \/ Contain
      BY DEF Next, Commands, StartSweep, StartConfigured, StartCanary, Create, PauseCampaign,
             ResumeCampaign, CancelCampaign, HoldChanges, Look, LookGone, LookDrifted,
             LookPreparing, LookWaiting, LookDone, LookStopped, Exhausted, Preview, Reads,
             Writes, Bind, WriteItem, WriteCamp, Abort, Select, SelectAll, SelectCanary,
             Begin, Refuse, rows
    <3>2. ASSUME NEW u \in Videos, Claim(u) PROVE u = v
      BY <3>2 DEF Claim, IInv, TypeOK
    <3>3. ASSUME NEW u \in Videos, NEW row, row.st # "running",
                 queue' = [queue EXCEPT ![u] = row]
          PROVE  FALSE
      BY <3>3 DEF IInv, TypeOK
    <3>4. ASSUME NEW u, NEW st, st # "running", queue' = [queue EXCEPT ![u].st = st]
          PROVE  FALSE
      BY <3>4 DEF IInv, TypeOK
    <3>5. ASSUME NEW u \in Videos, Deliver(u) \/ Requeue(u) \/ Fail(u) PROVE FALSE
      <4>1. ~Requeue(u)
        BY <3>4 DEF Requeue
      <4>2. ~Deliver(u)
        <5> DEFINE row == [queue[u] EXCEPT !.st = "done", !.rev = NoRev]
        <5>1. row.st = "done"
          BY DEF IInv, TypeOK
        <5> QED
          BY <5>1, <3>3 DEF Deliver
      <4>3. ~Fail(u)
        <5>1. ASSUME NEW st \in {"failed_retry", "paused"}, NEW r \in Revs
              PROVE  [queue[u] EXCEPT !.st = st, !.rev = r].st # "running"
          BY DEF IInv, TypeOK
        <5> QED
          BY <5>1, <3>3 DEF Fail
      <4> QED
        BY <3>5, <4>1, <4>2, <4>3
    <3>6. ASSUME NEW u \in Videos, Others(u) PROVE FALSE
      <4>1. ~OperatorPause(u)
        BY <3>4 DEF OperatorPause
      <4>2. ASSUME NEW st \in {"queued", "done"},
                   queue' = [queue EXCEPT ![u] = [@ EXCEPT !.st = st, !.rev = NoRev]]
            PROVE  FALSE
        <5>1. [queue[u] EXCEPT !.st = st, !.rev = NoRev].st = st
          BY DEF IInv, TypeOK
        <5> QED
          BY <4>2, <5>1, <3>3
      <4>3. ~OperatorRetry(u) /\ ~ScanFinished(u)
        BY <4>2 DEF OperatorRetry, ScanFinished
      <4>4. ~ScanUnwanted(u)
        BY <3>3 DEF ScanUnwanted, NoRow
      <4>5. ~Upsert(u)
        <5> DEFINE st == IF queue[u].st \in {"running", "paused"} THEN queue[u].st ELSE "queued"
        <5>1. st # "running" \/ queue[u].st = "running"
          OBVIOUS
        <5>2. Upsert(u) => queue' = [queue EXCEPT ![u] =
                             [st |-> st, rev |-> queue[u].rev, media |-> disk[u]]]
          BY DEF Upsert
        <5> QED
          BY <5>1, <5>2 DEF IInv, TypeOK
      <4>6. ~MediaReplaced(u) /\ ~ReviewChanges(u)
        BY DEF MediaReplaced, ReviewChanges
      <4> QED
        BY <3>6, <4>1, <4>3, <4>4, <4>5, <4>6 DEF Others
    <3>7. ~Apply
      <4>1. ASSUME Apply
            PROVE  \E u : \E st \in {"queued", "paused"} : queue' = [queue EXCEPT ![u].st = st]
        BY <4>1 DEF Apply
      <4> QED
        BY <3>4, <4>1
    <3>8. ~Contain
      BY <3>4 DEF Contain
    <3> QED
      BY <3>1, <3>2, <3>5, <3>6, <3>7, <3>8
  <2>2. c \in Active /\ c \in Canaries
    OBVIOUS
  <2>3. mode \in Canaries
    BY <2>1, <2>2 DEF Claim, Allowed, IInv, TypeOK, CampaignInv, BatchIsTarget
  <2>4. mode = c
    BY <2>1, <2>2, <2>3, CampaignAssumption DEF Claim, Allowed, IInv, OneActive, Active, Canaries
  <2>5. v = camp[c].goal.v
    BY <2>1, <2>3, <2>4 DEF Claim, IInv, CampaignInv, BatchIsTarget
  <2> QED
    BY <2>1, <2>3, <2>4, <2>5, CampaignAssumption DEF Claim, Allowed, Canaries
<1> QED
  BY <1>1, Invariance, PTL DEF Spec, CanaryIsolated

-----------------------------------------------------------------------------
(* One attempt for one failure, as long as the control thread was not      *)
(* interrupted: a failure that was never selected has not been queued      *)
(* again, an item is being prepared only between the two transactions that *)
(* bind and apply it, and what is applied has not been applied before.     *)

Unspent   == \A k \in Keys : items[k].st = "absent" => spent[k] = 0
Between   == \A k \in Keys : items[k].st = "preparing" => todo.at \in {"apply", "item"} /\ todo.k = k
FirstTime == todo.at = "apply" => spent[todo.k] = 0
MovesOn   == todo.at \in {"contain", "item"} => todo.to \notin {"absent", "preparing"}
Attempted == \A k \in Keys : spent[k] <= 1
OnceInv   == aborts = 0 => Unspent /\ Between /\ FirstTime /\ MovesOn /\ Attempted

\* Nobody but the control thread touches its items and its history.
OtherThan == UNCHANGED <<items, todo, spent>>

LEMMA UntouchedOnce ==
  ASSUME OnceInv, OtherThan, aborts' = aborts
  PROVE  OnceInv'
  BY DEF OnceInv, OtherThan, Unspent, Between, FirstTime, MovesOn, Attempted

\* The control thread looks while nothing is being prepared, and so never
\* finds a preparation to be repeated.
LEMMA LookOnce ==
  ASSUME IInv, OnceInv, NEW c \in Campaigns, Look(c)
  PROVE  OnceInv'
<1> SUFFICES ASSUME aborts' = 0 PROVE OnceInv'
  BY DEF OnceInv
<1>0. /\ Idle /\ UNCHANGED <<items, spent, aborts>>
  BY DEF Look, LookGone, LookDrifted, LookPreparing, LookWaiting, LookDone, LookStopped,
         Exhausted, Preview, Follows, Free, Due, Reads
<1>1. /\ Unspent /\ Attempted
      /\ \A k \in Keys : items[k].st # "preparing"
  BY <1>0 DEF OnceInv, Between, Idle
<1>2. camp[c].cur \in Keys \cup {NoKey}
  BY DEF IInv, TypeOK, Camps
<1>3. ~LookPreparing(c)
  BY <1>1, <1>2 DEF LookPreparing, Follows
<1>4. /\ todo'.at # "apply"
      /\ todo'.at \in {"contain", "item"} => todo'.to \notin {"absent", "preparing"}
  <2>1. ASSUME NEW at \in {"item", "contain"}, NEW to \in {"running", "succeeded", "failed", "blocked_review"},
               NEW k, NEW next, Prepare(at, c, k, to, next)
        PROVE  todo'.at # "apply" /\ todo'.to \notin {"absent", "preparing"}
    BY <2>1 DEF Prepare
  <2>2. ASSUME NEW at \in {"bind", "camp"}, NEW to, NEW k, NEW next, Prepare(at, c, k, to, next)
        PROVE  todo'.at \notin {"apply", "contain", "item"}
    BY <2>2 DEF Prepare
  <2>3. ASSUME LookGone(c) \/ LookDrifted(c) \/ LookWaiting(c)
        PROVE  todo'.at # "apply" /\ todo'.to \notin {"absent", "preparing"}
    BY <2>1, <2>3 DEF LookGone, LookDrifted, LookWaiting, Finish
  <2>4. ASSUME LookDone(c)
        PROVE  todo'.at # "apply" /\ todo'.to \notin {"absent", "preparing"}
    BY <2>1, <2>4 DEF LookDone, Finish
  <2>5. ASSUME LookStopped(c)
        PROVE  todo'.at # "apply" /\ todo'.to \notin {"absent", "preparing"}
    BY <2>1, <2>5 DEF LookStopped, Finish
  <2>6. ASSUME Exhausted(c) \/ Preview(c)
        PROVE  todo'.at \notin {"apply", "contain", "item"}
    BY <2>2, <2>6 DEF Exhausted, Preview
  <2> QED
    BY <1>3, <2>3, <2>4, <2>5, <2>6 DEF Look
<1> QED
  BY <1>0, <1>1, <1>4 DEF OnceInv, Unspent, Between, FirstTime, MovesOn, Attempted

\* The writes: an item is spent by the transaction that queues its row again,
\* and is recorded as attempted before the control thread looks again.
LEMMA WriteOnce ==
  ASSUME IInv, OnceInv, Writes
  PROVE  OnceInv'
<1> SUFFICES ASSUME aborts' = 0 PROVE OnceInv'
  BY DEF OnceInv
<1> DEFINE k == todo.k
<1>0. /\ todo \in Todos /\ todo.at # "idle" /\ k \in Keys \cup {NoKey} /\ todo.to \in ItemState
      /\ todo.c \in Campaigns
  BY TodoType DEF IInv, Writes, Bind, Apply, Contain, WriteItem, WriteCamp
<1>1. /\ todo.at = "bind" => items[k].st = "absent"
      /\ todo.at # "camp" => k \in Keys
  BY <1>0 DEF IInv, CampaignInv, WritesFit, BindFits, Idle, Todos
<1>2. UNCHANGED aborts
  BY DEF Writes, Bind, Apply, Contain, WriteItem, WriteCamp
<1>3. Unspent /\ Between /\ FirstTime /\ MovesOn /\ Attempted
  BY <1>2 DEF OnceInv
<1> SUFFICES Unspent' /\ Between' /\ FirstTime' /\ MovesOn' /\ Attempted'
  BY DEF OnceInv
<1> HIDE DEF k
<1>4. CASE Bind
  <2>1. /\ todo.at = "bind" /\ k \in Keys /\ UNCHANGED spent /\ spent[k] = 0
    BY <1>1, <1>3, <1>4 DEF Bind, Unspent
  <2>2. /\ items'[k].st = "preparing"
        /\ \A q \in Keys : q # k => items'[q] = items[q]
    BY <1>4, <2>1 DEF Bind, IInv, TypeOK, k
  <2>3. todo'.at = "apply" /\ todo'.k = k
    BY <1>0, <1>4 DEF Bind, Todos, k
  <2>4. \A q \in Keys : items[q].st # "preparing"
    BY <1>3, <2>1 DEF Between
  <2> QED
    BY <1>3, <2>1, <2>2, <2>3, <2>4 DEF Unspent, Between, FirstTime, MovesOn, Attempted
<1>5. CASE Apply
  <2>1. todo.at = "apply" /\ k \in Keys /\ spent[k] = 0 /\ UNCHANGED items
    BY <1>1, <1>3, <1>5 DEF Apply, FirstTime, k
  <2>2. /\ spent'[k] <= 1
        /\ \A q \in Keys : q # k => spent'[q] = spent[q]
    BY <1>5, <2>1 DEF Apply, IInv, TypeOK, k
  <2>3. todo'.at = "item" /\ todo'.k = k /\ todo'.to \notin {"absent", "preparing"}
    BY <1>5 DEF Apply, Prepare, Finish, k
  <2>4. items[k].st # "absent"
    BY <1>0, <2>1 DEF IInv, CampaignInv, WritesFit, CurrentIsMine, Idle, k
  <2> QED
    BY <1>3, <2>1, <2>2, <2>3, <2>4 DEF Unspent, Between, FirstTime, MovesOn, Attempted, k
<1>6. CASE Contain
  <2>1. todo.at = "contain" /\ UNCHANGED <<items, spent>>
    BY <1>6 DEF Contain
  <2>2. todo'.at = "item" /\ todo'.to = todo.to
    BY <1>0, <1>6 DEF Contain, Todos
  <2> QED
    BY <1>3, <2>1, <2>2 DEF Unspent, Between, FirstTime, MovesOn, Attempted
<1>7. CASE WriteItem
  <2>1. todo.at = "item" /\ k \in Keys /\ UNCHANGED spent /\ todo.to \notin {"absent", "preparing"}
    BY <1>1, <1>3, <1>7 DEF WriteItem, MovesOn
  <2>2. /\ items'[k].st = todo.to
        /\ \A q \in Keys : q # k => items'[q] = items[q]
    BY <1>7, <2>1 DEF WriteItem, IInv, TypeOK, k
  <2>3. todo'.at = "camp"
    BY <1>0, <1>7 DEF WriteItem, Todos
  <2>4. \A q \in Keys : q # k => items[q].st # "preparing"
    BY <1>3 DEF Between, k
  <2> QED
    BY <1>3, <2>1, <2>2, <2>3, <2>4 DEF Unspent, Between, FirstTime, MovesOn, Attempted
<1>8. CASE WriteCamp
  <2>1. todo.at = "camp" /\ todo'.at = "idle" /\ UNCHANGED <<items, spent>>
    BY <1>8 DEF WriteCamp, NoTodo
  <2> QED
    BY <1>3, <2>1 DEF Unspent, Between, FirstTime, MovesOn, Attempted
<1> QED
  BY <1>4, <1>5, <1>6, <1>7, <1>8 DEF Writes

LEMMA OnceStep == IInv /\ OnceInv /\ [Next]_vars => OnceInv'
<1> SUFFICES ASSUME IInv, OnceInv, [Next]_vars PROVE OnceInv'
  OBVIOUS
<1>1. CASE Commands
  <2>1. OtherThan /\ aborts' = aborts
    BY <1>1 DEF Commands, StartSweep, StartConfigured, StartCanary, Create, PauseCampaign,
               ResumeCampaign, CancelCampaign, HoldChanges, OtherThan, control
  <2> QED
    BY <2>1, UntouchedOnce
<1>2. ASSUME NEW all \in BOOLEAN, Abort(all) PROVE OnceInv'
  BY <1>2, CampaignAssumption DEF Abort, OnceInv, IInv, TypeOK
<1>3. CASE Select
  <2>1. OtherThan /\ aborts' = aborts
    BY <1>3 DEF Select, SelectAll, SelectCanary, Begin, OtherThan, control
  <2> QED
    BY <2>1, UntouchedOnce
<1>4. ASSUME NEW v \in Videos,
             Claim(v) \/ Refuse(v) \/ Deliver(v) \/ Fail(v) \/ Requeue(v) \/ Others(v)
      PROVE  OnceInv'
  <2>1. OtherThan /\ aborts' = aborts
    BY <1>4 DEF Claim, Refuse, Deliver, Fail, Requeue, Outside, OtherThan, control, Others,
                OperatorRetry, OperatorPause, ScanFinished, ScanUnwanted, Upsert,
                MediaReplaced, ReviewChanges
  <2> QED
    BY <2>1, UntouchedOnce
<1>5. CASE UNCHANGED vars
  BY <1>5, UntouchedOnce DEF vars, control, OtherThan
<1> QED
  BY <1>1, <1>2, <1>3, <1>4, <1>5, LookOnce, WriteOnce DEF Next

LEMMA InitOnce == Init => OnceInv
  BY DEF Init, OnceInv, Unspent, Between, FirstTime, MovesOn, Attempted, NoItem, NoTodo

\* No failure is queued again twice, whatever scans, operator, Worker and later
\* campaigns do to its row, unless the control thread was interrupted.
THEOREM OneAttempt == Spec => []OneAttemptUninterrupted
<1>1. OnceInv => OneAttemptUninterrupted
  BY DEF OnceInv, Attempted, OneAttemptUninterrupted
<1> QED
  BY <1>1, InitOnce, OnceStep, Invariance, PTL DEF Spec
=============================================================================
