--------------------------- MODULE InventoryEpochs ---------------------------
(***************************************************************************)
(* The proof that every video is accounted for (scanner.py, scan_state.py): *)
(* the background scan walks the whole library in an epoch, classifies      *)
(* every file and records what it saw together with queue row and           *)
(* obligation.  A summary trusts the last completed epoch unless a change   *)
(* was reported since it began.  Files change at any time, the watcher      *)
(* reports changes late or never, other scans and the Worker write the same *)
(* tables.  Times are counted in completed epochs.  One policy and root.    *)
(***************************************************************************)
EXTENDS Naturals, FiniteSets

CONSTANTS
  Library,     \* paths of videos
  MaxVersions, \* bound: media of one path
  MaxChanges,  \* bound: changes of files
  MaxEpochs,   \* bound: completed epochs
  MaxTrips     \* bound: errors, locks, restarts

ASSUME InventoryAssumption ==
  /\ {MaxVersions, MaxChanges, MaxEpochs, MaxTrips} \subseteq Nat
  /\ "none" \notin Library

Media    == 1..MaxVersions     \* identities of one path, 0: no file
NoFile   == [media |-> 0, needs |-> FALSE]
NoRow    == [media |-> 0, status |-> "none"]
NoDebt   == [state |-> "none", since |-> 0]
NoEpoch  == [on |-> FALSE, dirty |-> FALSE, bound |-> 0, seen |-> [v \in Library |-> {}],
             present |-> [v \in Library |-> {}], tracked |-> 0]
NoItem   == [path |-> "none", media |-> 0, class |-> "none"]

VARIABLES
  disk,      \* of every path: the media and whether it needs AI subtitles
  queue,     \* its queue row: the media it was made for, its status
  debts,     \* obligations: state and first eligibility, of every path and media
  epoch,     \* the running epoch, also after the Worker that began it is gone
  last,      \* the last completed epoch
  bad,       \* an epoch failed since then
  completed, \* how many were completed
  todo,      \* the walk of this Worker: directories it has not listed
  walking,   \* it holds an iterator
  item,      \* the file in its hands
  untold,    \* paths with an event the watcher has not written yet
  since,     \* history: completed walks that could not see the file as it is
  late,      \* history: paths that changed after the walk had passed them
  covered,   \* history: unchanged since the last completed walk passed them
  unheard,   \* history: changed, and no table says so
  changes, trips

inventoryVars == <<disk, queue, debts, epoch, last, bad, completed, todo, walking, item, untold,
                   since, late, covered, unheard, changes, trips>>
world   == <<disk, untold, since, changes>>
tables  == <<queue, debts>>
epochs  == <<epoch, last, bad, completed>>
walk    == <<todo, walking, item>>
history == <<late, covered, unheard>>

InventoryInit ==
  /\ disk = [v \in Library |-> NoFile]
  /\ queue = [v \in Library |-> NoRow]
  /\ debts = [v \in Library |-> [m \in Media |-> NoDebt]]
  /\ epoch = NoEpoch /\ last = NoEpoch /\ bad = FALSE /\ completed = 0
  /\ todo = {} /\ walking = FALSE /\ item = NoItem
  /\ untold = {} /\ since = [v \in Library |-> 0]
  /\ late = {} /\ covered = Library /\ unheard = {}
  /\ changes = 0 /\ trips = 0

-----------------------------------------------------------------------------
(* the library *)

\* The walk reads a file from the moment it classifies it.
Passed(v) == walking /\ v \notin todo /\ ~(item.path = v /\ item.class = "none")

\* A file appears, is replaced, comes back or goes; a subtitle beside it comes
\* or goes, which no event tells.
Changes(v) ==
  /\ changes < MaxChanges /\ changes' = changes + 1
  /\ \E m \in {0} \cup Media, n \in BOOLEAN :
       /\ m = 0 => ~n
       /\ disk' = [disk EXCEPT ![v] = [media |-> m, needs |-> n]] /\ disk' # disk
       /\ untold' = IF m \notin {0, disk[v].media} THEN untold \cup {v} ELSE untold
  /\ since' = [since EXCEPT ![v] = completed]
  /\ epoch' = [epoch EXCEPT !.present[v] = @ \cup {disk'[v].media}]
  /\ late' = IF Passed(v) THEN late \cup {v} ELSE late
  /\ covered' = covered \ {v}
  /\ unheard' = unheard \cup {v}
  /\ UNCHANGED <<tables, last, bad, completed, walk, trips>>

-----------------------------------------------------------------------------
(* queue and ledger *)

\* A change that other writers than the scan make invalidates both proofs.
Dirtied == /\ epoch' = [epoch EXCEPT !.dirty = epoch.on]
           /\ last' = [last EXCEPT !.dirty = last.on]

\* A row of the same media stays as it is.
Upserted(v) ==
  IF queue[v].media = disk[v].media THEN queue
  ELSE [queue EXCEPT ![v] = [media |-> disk[v].media, status |-> "queued"]]

OpenOf(v) == {m \in Media : debts[v][m].state = "open"}

\* One open obligation per path: the new one inherits the earliest
\* eligibility of those it supersedes.
Ensured(v, at) ==
  LET m == disk[v].media
      old == debts[v][m]
      begins == {debts[v][u].since : u \in OpenOf(v)} \cup (IF OpenOf(v) = {} THEN {at} ELSE {})
      first == CHOOSE b \in begins : \A c \in begins : b <= c
      mine == IF old.state = "none" THEN [state |-> "open", since |-> first]
              ELSE IF old.state = "excluded" THEN [old EXCEPT !.state = "open"] ELSE old
  IN  [debts EXCEPT ![v] = [u \in Media |->
         IF u = m THEN mine
         ELSE IF mine.state = "open" /\ u \in OpenOf(v) THEN [@[u] EXCEPT !.state = "excluded"]
         ELSE @[u]]]

Waived(v) == [debts EXCEPT ![v] = [u \in Media |->
                IF u \in OpenOf(v) THEN [@[u] EXCEPT !.state = "excluded"] ELSE @[u]]]

Class(v) == IF disk[v].needs
              THEN IF debts[v][disk[v].media].state = "succeeded" THEN "finished" ELSE "needs_ai"
              ELSE "excluded"

\* What a scan writes for a classified file.
Written(v, class, at) ==
  CASE class = "needs_ai" -> queue' = Upserted(v) /\ debts' = Ensured(v, at)
    [] class = "finished" -> UNCHANGED debts /\ queue' =
         IF queue[v] = NoRow THEN queue ELSE [queue EXCEPT ![v].status = "done"]
    [] OTHER -> debts' = Waived(v) /\ queue' = [queue EXCEPT ![v] = NoRow]

\* The watcher writes a stable file; a row that already has this media keeps
\* the proof valid.
Reported(v) ==
  /\ v \in untold /\ untold' = untold \ {v}
  /\ IF disk[v] # NoFile /\ Upserted(v) # queue
       THEN queue' = Upserted(v) /\ Dirtied /\ unheard' = unheard \ {v}
       ELSE UNCHANGED <<queue, epoch, last, unheard>>
  /\ UNCHANGED <<disk, since, changes, debts, bad, completed, walk, late, covered, trips>>

\* The latest completed epoch recorded exactly this.
SeenBefore(v) == last.on /\ [media |-> disk[v].media, class |-> Class(v)] \in
                        {[media |-> o.media, class |-> o.class] : o \in last.seen[v]}

\* A scan outside of an epoch.
Rescanned(v) ==
  /\ disk[v] # NoFile
  /\ Written(v, Class(v), completed)
  /\ IF SeenBefore(v) THEN UNCHANGED <<epoch, last, unheard>> ELSE Dirtied /\ unheard' = unheard \ {v}
  /\ UNCHANGED <<world, bad, completed, walk, late, covered, trips>>

\* A queued row without an open obligation gets one, whatever the file needs.
Backfilled(v) ==
  /\ queue[v].status = "queued" /\ disk[v].media = queue[v].media
  /\ disk[v].media \notin OpenOf(v)
  /\ LET d == Ensured(v, completed) IN d[v][disk[v].media].state = "open" /\ debts' = d
  /\ UNCHANGED <<world, queue, epochs, walk, history, trips>>

\* The Worker drops a row whose file is gone or needs nothing any more.
Dropped(v) ==
  /\ queue[v].status = "queued" /\ ~disk[v].needs
  /\ queue' = [queue EXCEPT ![v] = NoRow]
  /\ Dirtied /\ unheard' = unheard \ {v}
  /\ UNCHANGED <<world, debts, bad, completed, walk, late, covered, trips>>

\* A claim makes sure of the obligation of what is on disk, and settles it.
Delivered(v) ==
  /\ queue[v].status = "queued" /\ disk[v].needs
  /\ debts' = [Ensured(v, completed) EXCEPT ![v][disk[v].media].state = "succeeded"]
  /\ queue' = [queue EXCEPT ![v].status = "done"]
  /\ UNCHANGED <<world, epochs, walk, history, trips>>

-----------------------------------------------------------------------------
(* the epochs *)

BegunNow == [NoEpoch EXCEPT !.on = TRUE, !.bound = completed + 1,
                            !.present = [v \in Library |-> {disk[v].media}]]

\* New videos count from the end of the last completed epoch.
Begun == [NoEpoch EXCEPT !.on = TRUE, !.bound = completed,
                         !.present = [v \in Library |-> {disk[v].media}]]

\* An interrupted epoch is walked again from the root: what it saw before is
\* marked as old, changes reported until now are covered.
Renewed == [epoch EXCEPT !.dirty = FALSE, !.present = [v \in Library |-> {disk[v].media}],
                         !.seen = [v \in Library |-> {[o EXCEPT !.old = TRUE] : o \in @[v]}]]

Start ==
  /\ ~walking /\ completed < MaxEpochs
  /\ epoch' = IF epoch.on THEN Renewed ELSE Begun
  /\ walking' = TRUE /\ todo' = Library /\ item' = NoItem
  /\ late' = {}
  /\ UNCHANGED <<world, tables, last, bad, completed, covered, unheard, trips>>

\* The iterator yields a file that exists when its directory is listed.
List(v) ==
  /\ walking /\ item = NoItem /\ v \in todo
  /\ todo' = todo \ {v}
  /\ item' = IF disk[v] = NoFile THEN NoItem ELSE [NoItem EXCEPT !.path = v]
  /\ UNCHANGED <<world, tables, epochs, walking, history, trips>>

\* Slow media I/O, outside of any transaction.
Classify ==
  /\ item # NoItem /\ item.class = "none"
  /\ disk[item.path] # NoFile
  /\ item' = [item EXCEPT !.media = disk[item.path].media, !.class = Class(item.path)]
  /\ UNCHANGED <<world, tables, epochs, todo, walking, history, trips>>

Required(class) == class \in {"needs_ai", "finished"}

\* Row, obligation and observation in one transaction, if the file is the one
\* that was classified.
Observe ==
  /\ item # NoItem /\ item.class # "none" /\ epoch.on
  /\ LET v == item.path  m == item.media IN
       /\ disk[v].media = m
       /\ Written(v, item.class, epoch.bound)
       /\ epoch' = [epoch EXCEPT !.seen[v] = {o \in @ : o.media # m} \cup
                                              {[media |-> m, class |-> item.class, old |-> FALSE]}]
  /\ item' = NoItem
  /\ UNCHANGED <<world, last, bad, completed, todo, walking, history, trips>>

\* Observations whose obligation is what they say.
Tracked(seen) == {v \in Library : \E o \in seen[v] :
  \/ o.class = "needs_ai" /\ debts[v][o.media].state \in {"open", "succeeded"}
  \/ o.class = "finished" /\ debts[v][o.media].state = "succeeded"}
Owed(seen) == {v \in Library : \E o \in seen[v] : Required(o.class)}

KeptAll(seen) == seen

\* What was not seen again by the renewed walk is gone.
Kept(seen) == [v \in Library |-> {o \in seen[v] : ~o.old}]

Exhausted == walking /\ todo = {} /\ item = NoItem /\ epoch.on

EpochEnds ==
  /\ Exhausted /\ ~epoch.dirty
  /\ LET seen == Kept(epoch.seen) IN
       /\ \A v \in Library : Cardinality(seen[v]) <= 1
       /\ last' = [epoch EXCEPT !.seen = seen, !.tracked = Cardinality(Tracked(seen))]
  /\ epoch' = NoEpoch /\ bad' = FALSE /\ completed' = completed + 1
  /\ walking' = FALSE /\ UNCHANGED <<todo, item>>
  /\ covered' = Library \ late /\ late' = {}
  /\ since' = [v \in Library |-> IF v \in late THEN completed' ELSE since[v]]
  /\ UNCHANGED <<disk, untold, changes, tables, unheard, trips>>

\* A reported change, a file that changed or went under the walk, or any other
\* error fails the epoch; that may fail to be recorded, and then the epoch is
\* resumed.
Troubled == \/ Exhausted /\ (epoch.dirty \/ \E v \in Library : Cardinality(Kept(epoch.seen)[v]) > 1)
            \/ item # NoItem /\ disk[item.path].media = 0
            \/ item.class # "none" /\ disk[item.path].media # item.media
            \/ walking /\ trips < MaxTrips

Fail ==
  /\ walking /\ Troubled
  /\ \/ epoch' = NoEpoch /\ bad' = TRUE /\ UNCHANGED trips
     \/ trips < MaxTrips /\ trips' = trips + 1 /\ UNCHANGED <<epoch, bad>>
  /\ walking' = FALSE /\ item' = NoItem /\ UNCHANGED todo
  /\ UNCHANGED <<world, tables, last, completed, history>>

\* A busy database keeps epoch, walk and file; the file is classified again.
Locked ==
  /\ item.class # "none" /\ trips < MaxTrips /\ trips' = trips + 1
  /\ item' = [NoItem EXCEPT !.path = item.path]
  /\ UNCHANGED <<world, tables, epochs, todo, walking, history>>

\* Events the watcher held are lost.
ScanRestarts ==
  /\ trips < MaxTrips /\ trips' = trips + 1
  /\ untold' = {} /\ walking' = FALSE /\ item' = NoItem /\ todo' = {}
  /\ UNCHANGED <<disk, since, changes, tables, epochs, history>>

InventoryNext ==
  \/ Start \/ Classify \/ Observe \/ EpochEnds \/ Fail \/ Locked \/ ScanRestarts
  \/ \E v \in Library : \/ Changes(v) \/ Reported(v) \/ Rescanned(v) \/ Backfilled(v) \/ Dropped(v)
                         \/ Delivered(v) \/ List(v)

InventorySpec == InventoryInit /\ [][InventoryNext]_inventoryVars

-----------------------------------------------------------------------------
(* properties *)

\* The summary an operator reads; it may also say no because of age.
Complete ==
  /\ last.on /\ ~last.dirty /\ ~bad
  /\ Cardinality(Tracked(last.seen)) = last.tracked /\ Owed(last.seen) = Tracked(last.seen)
  /\ \A v \in Library : queue[v].status = "queued" => queue[v].media \in OpenOf(v)

\* When the summary says complete, every video that did not change since the
\* walk passed it, or whose change some table was told, is in the proof as it
\* is, owed if it needs subtitles, and the proof holds nothing that was gone
\* before its walk began.
Attested ==
  Complete => \A v \in Library :
    /\ disk[v] # NoFile /\ (v \in covered \/ v \notin unheard) =>
         \E o \in last.seen[v] : o.media = disk[v].media /\ (disk[v].needs => Required(o.class))
    /\ \A o \in last.seen[v] : o.media \in last.present[v]

\* The clock of an obligation starts no later than the first walk that could
\* have seen that its video needs subtitles was the latest completed one.
EligibleInTime ==
  \A v \in Library : disk[v].needs /\ debts[v][disk[v].media] # NoDebt =>
                       debts[v][disk[v].media].since <= since[v]
=============================================================================
