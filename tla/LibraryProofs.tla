--------------------------- MODULE LibraryProofs ----------------------------
(***************************************************************************)
(* Theorems about what is recorded of the library: InventoryEpochs for     *)
(* any videos and numbers of media versions, changes, epochs and trips;    *)
(* DeliveryStatistics for any releases, attempts and deadline;             *)
(* ResourceAdmission for any launchers, samples and length of the          *)
(* hysteresis; CompletedDelivery for any number of media, policies,        *)
(* texts, jobs, deaths and archives.                                       *)
(***************************************************************************)
EXTENDS InventoryEpochs, DeliveryStatistics, ResourceAdmission, CompletedDelivery,
        WellFoundedInduction, SequenceTheorems, TLAPS

-----------------------------------------------------------------------------
(* InventoryEpochs.  The inductive invariant InventoryInv says what the    *)
(* walk, the epoch's tables and the obligations know of each video that    *)
(* did not change behind the walk's back.                                  *)

\* Types of the obligations, the files, the observations, rows and epochs.
States    == {"none", "open", "excluded", "succeeded"}
Classes   == {"none", "needs_ai", "finished", "excluded"}
DebtTypes == [state : States, since : Nat]
DiskTypes == [media : {0} \cup Media, needs : BOOLEAN]
SeenTypes == [media : {0} \cup Media, class : Classes, old : BOOLEAN]
RowTypes  == [media : {0} \cup Media, status : {"none", "queued", "done"}]
Counts    == Nat \cup {Cardinality(S) : S \in SUBSET Library}
EpochTypes == [on : BOOLEAN, dirty : BOOLEAN, bound : Nat, seen : [Library -> SUBSET SeenTypes],
               present : [Library -> SUBSET ({0} \cup Media)], tracked : Counts]
ItemTypes == [path : Library \cup {"none"}, media : {0} \cup Media, class : Classes]

InventoryTypes ==
  /\ disk \in [Library -> DiskTypes] /\ queue \in [Library -> RowTypes]
  /\ debts \in [Library -> [Media -> DebtTypes]]
  /\ epoch \in EpochTypes /\ last \in EpochTypes /\ item \in ItemTypes
  /\ completed \in Nat /\ since \in [Library -> Nat] /\ todo \subseteq Library /\ covered \subseteq Library
  /\ epoch.bound <= completed
  /\ \A v \in Library : disk[v].needs => disk[v].media # 0
  /\ \A v \in Library : queue[v].status = "queued" => queue[v].media # 0

\* The file in the walk's hands is none it has still to list.
Held ==
  /\ item # NoItem => walking /\ item.path \in Library /\ item.path \notin todo
  /\ walking => epoch.on
  /\ item.class # "none" => item.media # 0 /\ item # NoItem

\* A change after the walk passed is told, or nobody heard of it.
Told ==
  /\ \A v \in late : epoch.on /\ ~epoch.dirty => v \in unheard
  /\ \A v \in Library \ covered : last.on /\ ~last.dirty => v \in unheard

\* An observation that says of a file what it is.
Fits(o, v) == o.media = disk[v].media /\ (disk[v].needs => Required(o.class))

\* What the walk classified fits, for a video that did not change behind it.
WalkSaw ==
  \A v \in Library \ late :
    /\ walking /\ item.path = v /\ item.class # "none" => Fits(item, v)
    /\ walking /\ v \notin todo /\ item.path # v /\ disk[v] # NoFile => \E o \in epoch.seen[v] : ~o.old /\ Fits(o, v)

\* An observation is of a medium that was there in its epoch.
Present ==
  \A v \in Library :
    /\ epoch.on => disk[v].media \in epoch.present[v]
    /\ \A o \in epoch.seen[v] : epoch.on /\ ~o.old => o.media \in epoch.present[v]
    /\ \A o \in last.seen[v] : o.media \in last.present[v]

\* What the last epoch proves fits what is on the disk.
ProofFits ==
  last.on /\ ~last.dirty => \A v \in covered : disk[v] # NoFile => \E o \in last.seen[v] : Fits(o, v)

\* A video has at most one open obligation.
OneOpen == \A v \in Library : \A m, n \in OpenOf(v) : m = n

Has(v) == debts[v][disk[v].media].state # "none"

\* An obligation is missing only until the walk comes by.
Begins ==
  /\ \A v \in Library : since[v] <= completed /\ \A m \in Media : debts[v][m].since <= completed
  /\ \A v \in Library : \A m \in Media : debts[v][m].state = "none" => debts[v][m] = NoDebt
  /\ \A v \in Library : disk[v].needs /\ ~Has(v) => since[v] = completed
  /\ \A v \in Library \ late : disk[v].needs /\ walking =>
       /\ v \notin todo /\ item.path # v => Has(v)
       /\ item.path = v /\ item.class \notin {"none", "needs_ai"} => Has(v)

InventoryInv == /\ InventoryTypes /\ Held /\ Told /\ WalkSaw /\ Present /\ ProofFits
                /\ OneOpen /\ Begins /\ EligibleInTime

-----------------------------------------------------------------------------
(* The obligations. *)

\* What every writer keeps of them: they stay, with their first eligibility.
DebtsGo ==
  /\ debts' \in [Library -> [Media -> DebtTypes]]
  /\ \A v \in Library, m \in Media : debts'[v][m].since <= completed
  /\ \A v \in Library, m \in Media : debts[v][m].state # "none" =>
       debts'[v][m].state # "none" /\ debts'[v][m].since = debts[v][m].since
  /\ \A v \in Library, m \in Media : debts'[v][m].state = "none" => debts'[v][m] = NoDebt
  /\ \A v \in Library : \A m, n \in Media : debts'[v][m].state = "open" /\ debts'[v][n].state = "open" => m = n

\* What the writers rely on.
DebtsSound ==
  /\ debts \in [Library -> [Media -> DebtTypes]] /\ completed \in Nat
  /\ \A v \in Library, m \in Media : debts[v][m].since <= completed
  /\ \A v \in Library, m \in Media : debts[v][m].state = "none" => debts[v][m] = NoDebt
  /\ \A v \in Library : \A m, n \in Media : debts[v][m].state = "open" /\ debts[v][n].state = "open" => m = n

\* An obligation is ensured: the media before it are superseded.
LEMMA EnsuredRow ==
  ASSUME DebtsSound, NEW v \in Library, disk[v].media \in Media, NEW at \in Nat, at <= completed
  PROVE  \E r \in [Media -> DebtTypes] :
           /\ Ensured(v, at) = [debts EXCEPT ![v] = r]
           /\ r[disk[v].media].state # "none"
           /\ \A u \in Media : r[u].since <= completed
           /\ \A u \in Media : debts[v][u].state # "none" => r[u].state # "none" /\ r[u].since = debts[v][u].since
           /\ \A u \in Media : r[u].state = "none" => r[u] = NoDebt
           /\ \A m, n \in Media : r[m].state = "open" /\ r[n].state = "open" => m = n
<1> DEFINE m == disk[v].media
           old == debts[v][m]
           begins == {debts[v][u].since : u \in OpenOf(v)} \cup (IF OpenOf(v) = {} THEN {at} ELSE {})
           first == CHOOSE b \in begins : \A c \in begins : b <= c
           mine == IF old.state = "none" THEN [state |-> "open", since |-> first]
                   ELSE IF old.state = "excluded" THEN [old EXCEPT !.state = "open"] ELSE old
           r == [u \in Media |-> IF u = m THEN mine
                                 ELSE IF mine.state = "open" /\ u \in OpenOf(v)
                                        THEN [debts[v][u] EXCEPT !.state = "excluded"] ELSE debts[v][u]]
<1>1. \A u \in Media : debts[v][u] \in DebtTypes /\ debts[v][u].since \in Nat /\ debts[v][u].since <= completed
  BY DEF DebtsSound, DebtTypes
<1>2. \E b \in Nat : b <= completed /\ begins = {b}
  <2>1. CASE OpenOf(v) = {}
    BY <2>1
  <2>2. CASE OpenOf(v) # {}
    <3>1. PICK u \in Media : u \in OpenOf(v)
      BY <2>2 DEF OpenOf
    <3>2. \A n \in OpenOf(v) : n = u
      BY <3>1 DEF OpenOf, DebtsSound
    <3>3. begins = {debts[v][u].since}
      BY <2>2, <3>1, <3>2
    <3> QED
      BY <1>1, <3>3
  <2> QED
    BY <2>1, <2>2
<1>3. first \in Nat /\ first <= completed
  <2>1. PICK b \in Nat : b <= completed /\ begins = {b}
    BY <1>2
  <2> HIDE DEF begins
  <2>2. first = b
    BY <2>1
  <2> QED
    BY <2>1, <2>2
<1>4. Ensured(v, at) = [debts EXCEPT ![v] = r]
  <2>1. v \in DOMAIN debts
    BY DEF DebtsSound
  <2> QED
    BY <2>1 DEF Ensured
<1> HIDE DEF first
<1>5. old \in DebtTypes /\ old.since <= completed
  BY <1>1
<1>6. /\ mine \in DebtTypes /\ mine.since <= completed /\ mine.state # "none"
      /\ old.state # "none" => mine.since = old.since
      /\ old.state = "open" => mine.state = "open"
  <2> HIDE DEF old
  <2> QED
    BY <1>3, <1>5 DEF DebtTypes, States
<1> HIDE DEF mine
<1>7. ASSUME NEW u \in Media
      PROVE  /\ r[u] \in DebtTypes /\ r[u].since <= completed
             /\ debts[v][u].state # "none" => r[u].state # "none" /\ r[u].since = debts[v][u].since
             /\ r[u].state = "none" => r[u] = NoDebt
             /\ r[u].state = "open" => u = m \/ (mine.state # "open" /\ debts[v][u].state = "open")
             /\ u = m => r[u] = mine
  <2>1. CASE u = m
    BY <1>6, <2>1
  <2>2. CASE u # m /\ mine.state = "open" /\ u \in OpenOf(v)
    <3>1. r[u] = [debts[v][u] EXCEPT !.state = "excluded"]
      BY <2>2
    <3> QED
      BY <1>1, <2>2, <3>1 DEF DebtTypes, States
  <2>3. CASE u # m /\ ~(mine.state = "open" /\ u \in OpenOf(v))
    <3>1. r[u] = debts[v][u]
      BY <2>3
    <3>2. mine.state = "open" => debts[v][u].state # "open"
      BY <2>3 DEF OpenOf
    <3> QED
      BY <1>1, <2>3, <3>1, <3>2 DEF DebtsSound
  <2> QED
    BY <2>1, <2>2, <2>3
<1>8. r \in [Media -> DebtTypes]
  BY <1>7
<1> HIDE DEF r
<1>9. ASSUME NEW a \in Media, NEW b \in Media, r[a].state = "open", r[b].state = "open" PROVE a = b
  <2>1. CASE mine.state = "open"
    BY <1>7, <1>9, <2>1
  <2>2. CASE mine.state # "open"
    <3>1. a # m /\ b # m
      BY <1>7, <1>9, <2>2
    <3> QED
      BY <1>7, <1>9, <3>1 DEF DebtsSound
  <2> QED
    BY <2>1, <2>2
<1> QED
  BY <1>4, <1>6, <1>7, <1>8, <1>9

\* One row of the obligations is written.
LEMMA RowGoes ==
  ASSUME DebtsSound, NEW v \in Library, NEW r \in [Media -> DebtTypes],
         debts' = [debts EXCEPT ![v] = r],
         \A u \in Media : r[u].since <= completed,
         \A u \in Media : debts[v][u].state # "none" => r[u].state # "none" /\ r[u].since = debts[v][u].since,
         \A u \in Media : r[u].state = "none" => r[u] = NoDebt,
         \A m, n \in Media : r[m].state = "open" /\ r[n].state = "open" => m = n
  PROVE  DebtsGo
<1>1. \A w \in Library : debts'[w] = IF w = v THEN r ELSE debts[w]
  BY DEF DebtsSound
<1> QED
  BY <1>1 DEF DebtsSound, DebtsGo

\* The three writers of obligations keep them: ensuring,
LEMMA EnsuredGoes ==
  ASSUME DebtsSound, NEW v \in Library, disk[v].media \in Media, NEW at \in Nat, at <= completed,
         debts' = Ensured(v, at)
  PROVE  DebtsGo /\ debts'[v][disk[v].media].state # "none"
<1>1. PICK r \in [Media -> DebtTypes] :
        /\ Ensured(v, at) = [debts EXCEPT ![v] = r]
        /\ r[disk[v].media].state # "none"
        /\ \A u \in Media : r[u].since <= completed
        /\ \A u \in Media : debts[v][u].state # "none" => r[u].state # "none" /\ r[u].since = debts[v][u].since
        /\ \A u \in Media : r[u].state = "none" => r[u] = NoDebt
        /\ \A m, n \in Media : r[m].state = "open" /\ r[n].state = "open" => m = n
  BY EnsuredRow
<1>2. debts'[v] = r
  BY <1>1 DEF DebtsSound
<1> QED
  BY <1>1, <1>2, RowGoes

\* waiving,
LEMMA WaivedGoes ==
  ASSUME DebtsSound, NEW v \in Library, debts' = Waived(v) PROVE DebtsGo
<1> DEFINE r == [u \in Media |-> IF u \in OpenOf(v) THEN [debts[v][u] EXCEPT !.state = "excluded"] ELSE debts[v][u]]
<1>1. \A u \in Media : debts[v][u] \in DebtTypes /\ debts[v][u].since <= completed
  BY DEF DebtsSound
<1>2. debts' = [debts EXCEPT ![v] = r]
  <2>1. v \in DOMAIN debts
    BY DEF DebtsSound
  <2> QED
    BY <2>1 DEF Waived
<1>3. ASSUME NEW u \in Media
      PROVE  /\ r[u] \in DebtTypes /\ r[u].since = debts[v][u].since /\ r[u].state # "open"
             /\ debts[v][u].state # "none" => r[u].state # "none"
             /\ r[u].state = "none" => r[u] = debts[v][u]
  <2>1. CASE u \in OpenOf(v)
    <3>1. r[u] = [debts[v][u] EXCEPT !.state = "excluded"]
      BY <2>1
    <3> QED
      BY <1>1, <3>1 DEF DebtTypes, States
  <2>2. CASE u \notin OpenOf(v)
    <3>1. r[u] = debts[v][u] /\ debts[v][u].state # "open"
      BY <2>2 DEF OpenOf
    <3> QED
      BY <1>1, <3>1
  <2> QED
    BY <2>1, <2>2
<1>4. r \in [Media -> DebtTypes]
  BY <1>3
<1> HIDE DEF r
<1>5. \A u \in Media : r[u].state = "none" => r[u] = NoDebt
  BY <1>3 DEF DebtsSound
<1> QED
  BY <1>1, <1>2, <1>3, <1>4, <1>5, RowGoes

\* and settling.
LEMMA SucceededGoes ==
  ASSUME DebtsSound, NEW v \in Library, disk[v].media \in Media,
         debts' = [Ensured(v, completed) EXCEPT ![v][disk[v].media].state = "succeeded"]
  PROVE  DebtsGo
<1> DEFINE m == disk[v].media
<1>0. completed \in Nat /\ completed <= completed
  BY DEF DebtsSound
<1>1. PICK r \in [Media -> DebtTypes] :
        /\ Ensured(v, completed) = [debts EXCEPT ![v] = r]
        /\ r[m].state # "none"
        /\ \A u \in Media : r[u].since <= completed
        /\ \A u \in Media : debts[v][u].state # "none" => r[u].state # "none" /\ r[u].since = debts[v][u].since
        /\ \A u \in Media : r[u].state = "none" => r[u] = NoDebt
        /\ \A a, b \in Media : r[a].state = "open" /\ r[b].state = "open" => a = b
  BY <1>0, EnsuredRow
<1> DEFINE s == [r EXCEPT ![m] = [r[m] EXCEPT !.state = "succeeded"]]
<1>2. debts' = [debts EXCEPT ![v] = s]
  BY <1>1 DEF DebtsSound
<1>3. r[m] \in DebtTypes
  BY <1>1
<1>4. [r[m] EXCEPT !.state = "succeeded"] \in DebtTypes /\ [r[m] EXCEPT !.state = "succeeded"].since = r[m].since
      /\ [r[m] EXCEPT !.state = "succeeded"].state = "succeeded"
  BY <1>3 DEF DebtTypes, States
<1>5. s \in [Media -> DebtTypes] /\ (\A u \in Media : u # m => s[u] = r[u])
      /\ s[m].since = r[m].since /\ s[m].state = "succeeded"
  BY <1>4
<1> HIDE DEF s
<1>6. \A u \in Media : s[u].since = r[u].since /\ (r[u].state # "none" => s[u].state # "none")
  BY <1>5
<1>7. \A u \in Media : s[u].state = "none" => s[u] = NoDebt
  BY <1>1, <1>5
<1>8. \A a, b \in Media : s[a].state = "open" /\ s[b].state = "open" => a = b
  BY <1>1, <1>5
<1>9. \A u \in Media : s[u].since <= completed
  BY <1>1, <1>6
<1>10. \A u \in Media : debts[v][u].state # "none" => s[u].state # "none" /\ s[u].since = debts[v][u].since
  BY <1>1, <1>6
<1> QED
  BY <1>2, <1>5, <1>7, <1>8, <1>9, <1>10, RowGoes

-----------------------------------------------------------------------------
(* The epochs. *)

\* What each writer leaves of an epoch: nothing is open,
LEMMA NoEpochTypes == NoEpoch \in EpochTypes /\ ~NoEpoch.on /\ NoEpoch.bound = 0
                       /\ NoEpoch.seen = [v \in Library |-> {}]
<1> DEFINE s == [v \in Library |-> {}]
<1>1. s \in [Library -> SUBSET SeenTypes] /\ s \in [Library -> SUBSET ({0} \cup Media)]
  OBVIOUS
<1>2. 0 \in Counts /\ 0 \in Nat
  BY DEF Counts
<1>3. NoEpoch = [on |-> FALSE, dirty |-> FALSE, bound |-> 0, seen |-> s, present |-> s, tracked |-> 0]
  BY DEF NoEpoch
<1> HIDE DEF s
<1>4. NoEpoch \in EpochTypes /\ ~NoEpoch.on /\ NoEpoch.bound = 0 /\ NoEpoch.seen = s
  BY <1>1, <1>2, <1>3 DEF EpochTypes
<1> QED
  BY <1>4 DEF s

\* a foreign change spoils it,
LEMMA DirtiedEpochs ==
  ASSUME epoch \in EpochTypes, last \in EpochTypes, Dirtied
  PROVE  /\ epoch' \in EpochTypes /\ epoch'.on = epoch.on /\ epoch'.dirty = epoch.on /\ epoch'.bound = epoch.bound
         /\ epoch'.seen = epoch.seen /\ epoch'.present = epoch.present
         /\ last' \in EpochTypes /\ last'.on = last.on /\ last'.dirty = last.on
         /\ last'.seen = last.seen /\ last'.present = last.present
  BY DEF Dirtied, EpochTypes

\* a medium appears in it,
LEMMA ChangedEpoch ==
  ASSUME epoch \in EpochTypes, NEW v \in Library, NEW m \in {0} \cup Media,
         epoch' = [epoch EXCEPT !.present[v] = @ \cup {m}]
  PROVE  /\ epoch' \in EpochTypes /\ epoch'.on = epoch.on /\ epoch'.dirty = epoch.dirty
         /\ epoch'.bound = epoch.bound /\ epoch'.seen = epoch.seen
         /\ epoch'.present[v] = epoch.present[v] \cup {m}
         /\ \A w \in Library : w # v => epoch'.present[w] = epoch.present[w]
<1> DEFINE p == [epoch.present EXCEPT ![v] = @ \cup {m}]
<1>1. epoch.present \in [Library -> SUBSET ({0} \cup Media)]
  BY DEF EpochTypes
<1>2. p \in [Library -> SUBSET ({0} \cup Media)] /\ p[v] = epoch.present[v] \cup {m}
      /\ \A w \in Library : w # v => p[w] = epoch.present[w]
  BY <1>1
<1>3. epoch' = [epoch EXCEPT !.present = p]
  BY DEF EpochTypes
<1> HIDE DEF p
<1>4. epoch' \in EpochTypes /\ epoch'.on = epoch.on /\ epoch'.dirty = epoch.dirty
      /\ epoch'.bound = epoch.bound /\ epoch'.seen = epoch.seen /\ epoch'.present = p
  BY <1>2, <1>3 DEF EpochTypes
<1> QED
  BY <1>2, <1>4

\* the walk observes,
LEMMA ObservedEpoch ==
  ASSUME epoch \in EpochTypes, NEW v \in Library, NEW S \in SUBSET SeenTypes,
         epoch' = [epoch EXCEPT !.seen[v] = S]
  PROVE  /\ epoch' \in EpochTypes /\ epoch'.on = epoch.on /\ epoch'.dirty = epoch.dirty
         /\ epoch'.bound = epoch.bound /\ epoch'.present = epoch.present
         /\ epoch'.seen[v] = S /\ \A w \in Library : w # v => epoch'.seen[w] = epoch.seen[w]
<1> DEFINE p == [epoch.seen EXCEPT ![v] = S]
<1>1. epoch.seen \in [Library -> SUBSET SeenTypes]
  BY DEF EpochTypes
<1>2. /\ p \in [Library -> SUBSET SeenTypes] /\ p[v] = S
      /\ \A w \in Library : w # v => p[w] = epoch.seen[w]
  BY <1>1
<1>3. epoch' = [epoch EXCEPT !.seen = p]
  BY DEF EpochTypes
<1> HIDE DEF p
<1>4. epoch' \in EpochTypes /\ epoch'.on = epoch.on /\ epoch'.dirty = epoch.dirty
      /\ epoch'.bound = epoch.bound /\ epoch'.present = epoch.present /\ epoch'.seen = p
  BY <1>2, <1>3 DEF EpochTypes
<1> QED
  BY <1>2, <1>4

\* it starts with what is there,
LEMMA StartedEpoch ==
  ASSUME epoch \in EpochTypes, disk \in [Library -> DiskTypes], completed \in Nat,
         epoch.bound <= completed, Start
  PROVE  /\ epoch' \in EpochTypes /\ epoch'.on /\ epoch'.bound <= completed
         /\ \A v \in Library : /\ epoch'.present[v] = {disk[v].media}
                               /\ \A o \in epoch'.seen[v] : o.old
<1> DEFINE p == [v \in Library |-> {disk[v].media}]
<1>1. p \in [Library -> SUBSET ({0} \cup Media)] /\ \A v \in Library : p[v] = {disk[v].media}
  BY DEF DiskTypes
<1>2. CASE epoch.on /\ epoch' = Renewed
  <2> DEFINE s == [v \in Library |-> {[o EXCEPT !.old = TRUE] : o \in epoch.seen[v]}]
  <2>1. \A o \in SeenTypes : [o EXCEPT !.old = TRUE] \in SeenTypes /\ [o EXCEPT !.old = TRUE].old
    BY DEF SeenTypes
  <2>2. \A v \in Library : epoch.seen[v] \subseteq SeenTypes
    BY DEF EpochTypes
  <2>3. s \in [Library -> SUBSET SeenTypes] /\ \A v \in Library : \A o \in s[v] : o.old
    BY <2>1, <2>2
  <2>4. epoch' = [epoch EXCEPT !.dirty = FALSE, !.present = p, !.seen = s]
    BY <1>2 DEF Renewed
  <2> HIDE DEF p, s
  <2>5. /\ epoch' \in EpochTypes /\ epoch'.on = epoch.on /\ epoch'.bound = epoch.bound
        /\ epoch'.present = p /\ epoch'.seen = s
    BY <1>1, <2>3, <2>4 DEF EpochTypes
  <2> QED
    BY <1>1, <1>2, <2>3, <2>5
<1>3. CASE epoch' = Begun
  <2> DEFINE s == [v \in Library |-> {}]
  <2>1. epoch' = [NoEpoch EXCEPT !.on = TRUE, !.bound = completed, !.present = p]
    BY <1>3 DEF Begun
  <2> HIDE DEF p
  <2>2. /\ epoch' \in EpochTypes /\ epoch'.on /\ epoch'.bound = completed
        /\ epoch'.present = p /\ epoch'.seen = s
    BY <1>1, <2>1, NoEpochTypes DEF EpochTypes
  <2> QED
    BY <1>1, <2>2
<1> QED
  BY <1>2, <1>3 DEF Start

\* its old observations are dropped at its end,
LEMMA KeptSeen ==
  ASSUME epoch \in EpochTypes
  PROVE  Kept(epoch.seen) \in [Library -> SUBSET SeenTypes]
         /\ \A v \in Library : Kept(epoch.seen)[v] = {o \in epoch.seen[v] : ~o.old}
  BY DEF Kept, EpochTypes

\* and it becomes the last one.
LEMMA EndedEpoch ==
  ASSUME epoch \in EpochTypes, EpochEnds
  PROVE  /\ last'.on = epoch.on /\ last'.dirty = epoch.dirty /\ last'.present = epoch.present
         /\ last'.seen = Kept(epoch.seen) /\ last' \in EpochTypes /\ epoch' = NoEpoch
<1> DEFINE s == Kept(epoch.seen)
           n == Cardinality(Tracked(s))
<1>1. s \in [Library -> SUBSET SeenTypes]
  BY KeptSeen
<1>2. last' = [epoch EXCEPT !.seen = s, !.tracked = n]
  BY DEF EpochEnds
<1>3. n \in Counts
  BY DEF Counts, Tracked
<1> HIDE DEF s, n
<1>4. last'.on = epoch.on /\ last'.dirty = epoch.dirty /\ last'.present = epoch.present
      /\ last'.seen = s /\ last' \in EpochTypes
  BY <1>1, <1>2, <1>3 DEF EpochTypes
<1> QED
  BY <1>4 DEF s, EpochEnds

-----------------------------------------------------------------------------
(* What every writer of row and obligation does. *)

Rows == /\ queue \in [Library -> RowTypes]
        /\ \A v \in Library : queue[v].status = "queued" => queue[v].media # 0

\* A queued row has a medium, whoever writes it.
LEMMA UpsertedRows ==
  ASSUME NEW v \in Library, disk[v].media \in Media, Rows
  PROVE  /\ Upserted(v) \in [Library -> RowTypes]
         /\ \A w \in Library : Upserted(v)[w].status = "queued" => Upserted(v)[w].media # 0
<1> DEFINE x == [media |-> disk[v].media, status |-> "queued"]
<1>1. x \in RowTypes /\ x.media # 0
  BY DEF RowTypes, Media
<1>2. Upserted(v) = queue \/ Upserted(v) = [queue EXCEPT ![v] = x]
  BY DEF Upserted
<1> HIDE DEF x
<1> QED
  BY <1>1, <1>2 DEF Rows

LEMMA NoRowTypes == NoRow \in RowTypes /\ NoRow.status # "queued"
  BY DEF NoRow, RowTypes

LEMMA DoneRows ==
  ASSUME NEW v \in Library, Rows, queue' = [queue EXCEPT ![v].status = "done"]
  PROVE  Rows'
<1>1. /\ [queue[v] EXCEPT !.status = "done"] \in RowTypes
      /\ [queue[v] EXCEPT !.status = "done"].status = "done"
  BY DEF Rows, RowTypes
<1>2. queue' = [queue EXCEPT ![v] = [queue[v] EXCEPT !.status = "done"]]
  OBVIOUS
<1> QED
  BY <1>1, <1>2 DEF Rows

LEMMA GoneRows ==
  ASSUME NEW v \in Library, Rows, queue' = [queue EXCEPT ![v] = NoRow]
  PROVE  Rows'
  BY NoRowTypes DEF Rows

LEMMA DebtsStay == ASSUME DebtsSound, UNCHANGED debts PROVE DebtsGo
  BY DEF DebtsSound, DebtsGo

\* A classification is written to row and obligation.
LEMMA WrittenGoes ==
  ASSUME DebtsSound, Rows, NEW v \in Library, NEW class,
         class = "needs_ai" => disk[v].media \in Media,
         NEW at \in Nat, at <= completed, Written(v, class, at)
  PROVE  DebtsGo /\ Rows' /\ (class = "needs_ai" => debts'[v][disk[v].media].state # "none")
<1>1. CASE class = "needs_ai"
  <2>1. queue' = Upserted(v) /\ debts' = Ensured(v, at)
    BY <1>1 DEF Written
  <2> QED
    BY <1>1, <2>1, UpsertedRows, EnsuredGoes DEF Rows
<1>2. CASE class = "finished"
  <2>1. UNCHANGED debts /\ (UNCHANGED queue \/ queue' = [queue EXCEPT ![v].status = "done"])
    BY <1>2 DEF Written
  <2> QED
    BY <1>2, <2>1, DebtsStay, DoneRows DEF Rows
<1>3. CASE class \notin {"needs_ai", "finished"}
  <2>1. debts' = Waived(v) /\ queue' = [queue EXCEPT ![v] = NoRow]
    BY <1>3 DEF Written
  <2> QED
    BY <1>3, <2>1, WaivedGoes, GoneRows
<1> QED
  BY <1>1, <1>2, <1>3

\* The watcher, a scan outside of an epoch and the Worker: files and walk stay,
\* the proofs stay or are no longer to be trusted.
Writes ==
  /\ UNCHANGED <<disk, since, changes, bad, completed, walk, late, covered>>
  /\ unheard' \subseteq unheard
  /\ Dirtied \/ UNCHANGED <<epoch, last, unheard>>
  /\ DebtsGo /\ Rows'

\* Types and sound obligations.
Basics == InventoryTypes /\ DebtsSound

LEMMA Sound == ASSUME InventoryTypes, Begins, OneOpen PROVE Basics
  BY DEF InventoryTypes, Begins, OneOpen, OpenOf, Basics, DebtsSound

\* What is on the disk.
LEMMA OnDisk ==
  ASSUME InventoryTypes, NEW v \in Library
  PROVE  /\ disk[v] \in DiskTypes /\ disk[v].media \in {0} \cup Media /\ disk[v].needs \in BOOLEAN
         /\ disk[v].needs => disk[v].media \in Media
         /\ disk[v].media = 0 <=> disk[v] = NoFile
         /\ 0 \notin Media /\ Rows
         /\ completed \in Nat /\ completed <= completed
  BY DEF InventoryTypes, DiskTypes, Media, NoFile, Rows

\* Each foreign writer is one that leaves files and walk alone.
LEMMA WritersWrite ==
  ASSUME Basics, NEW v \in Library,
         Reported(v) \/ Rescanned(v) \/ Backfilled(v) \/ Dropped(v) \/ Delivered(v)
  PROVE  Writes
<1> USE DEF Basics
<1>0. /\ disk[v] \in DiskTypes /\ disk[v].media \in {0} \cup Media
      /\ disk[v].needs => disk[v].media \in Media
      /\ disk[v].media = 0 <=> disk[v] = NoFile
      /\ 0 \notin Media /\ Rows
      /\ completed \in Nat /\ completed <= completed
  BY OnDisk
<1>1. CASE Reported(v)
  <2>1. DebtsGo
    BY <1>1, DebtsStay DEF Reported
  <2>2. Rows'
    <3>1. CASE disk[v] # NoFile /\ queue' = Upserted(v)
      BY <1>0, <3>1, UpsertedRows DEF Rows
    <3>2. CASE UNCHANGED queue
      BY <1>0, <3>2 DEF Rows
    <3> QED
      BY <1>1, <3>1, <3>2 DEF Reported
  <2> QED
    BY <1>1, <2>1, <2>2 DEF Reported, Writes, walk
<1>2. CASE Rescanned(v)
  <2>1. Class(v) = "needs_ai" => disk[v].media \in Media
    BY <1>0 DEF Class
  <2>2. Written(v, Class(v), completed)
    BY <1>2 DEF Rescanned
  <2>3. DebtsGo /\ Rows'
    BY <1>0, <2>1, <2>2, WrittenGoes
  <2> QED
    BY <1>2, <2>3 DEF Rescanned, Writes, walk, world
<1>3. CASE Backfilled(v)
  <2>1. disk[v].media \in Media
    BY <1>0, <1>3 DEF Backfilled, Rows
  <2>2. debts' = Ensured(v, completed)
    BY <1>3 DEF Backfilled
  <2>3. DebtsGo
    BY <1>0, <2>1, <2>2, EnsuredGoes
  <2>4. Rows'
    BY <1>0, <1>3 DEF Backfilled, Rows
  <2> QED
    BY <1>3, <2>3, <2>4 DEF Backfilled, Writes, walk, world, history, epochs
<1>4. CASE Dropped(v)
  <2>1. DebtsGo
    BY <1>4, DebtsStay DEF Dropped
  <2>2. Rows'
    BY <1>0, <1>4, GoneRows DEF Dropped
  <2> QED
    BY <1>4, <2>1, <2>2 DEF Dropped, Writes, walk, world
<1>5. CASE Delivered(v)
  <2>1. disk[v].media \in Media
    BY <1>0, <1>5 DEF Delivered
  <2>2. DebtsGo
    BY <1>5, <2>1, SucceededGoes DEF Delivered
  <2>3. Rows'
    BY <1>0, <1>5, DoneRows DEF Delivered
  <2> QED
    BY <1>5, <2>2, <2>3 DEF Delivered, Writes, walk, world, history, epochs
<1> QED
  BY <1>1, <1>2, <1>3, <1>4, <1>5

\* The walk writes what it classified.
LEMMA ObserveWrites ==
  ASSUME Basics, Held, Observe
  PROVE  /\ item.path \in Library /\ item.class # "none" /\ disk[item.path].media = item.media /\ item.media # 0
         /\ DebtsGo /\ Rows'
         /\ item.class = "needs_ai" => debts'[item.path][item.media].state # "none"
<1> DEFINE v == item.path
<1> USE DEF Basics
<1>1. item # NoItem /\ item.class # "none" /\ v \in Library /\ item.media # 0
  BY DEF Observe, Held
<1>2. disk[v].media = item.media /\ Written(v, item.class, epoch.bound)
  BY DEF Observe
<1>3. disk[v].media \in Media /\ Rows /\ epoch.bound \in Nat /\ epoch.bound <= completed
  BY <1>1, <1>2, OnDisk DEF InventoryTypes, EpochTypes
<1>4. DebtsGo /\ Rows' /\ (item.class = "needs_ai" => debts'[v][disk[v].media].state # "none")
  BY <1>1, <1>2, <1>3, WrittenGoes
<1> QED
  BY <1>1, <1>2, <1>4

\* Every step is one of these.
LEMMA Actions ==
  ASSUME Basics, [InventoryNext]_inventoryVars
  PROVE  \/ (\E v \in Library : Changes(v)) \/ Writes
         \/ Start \/ (\E v \in Library : List(v)) \/ Classify \/ Observe \/ EpochEnds \/ Fail \/ Locked \/ ScanRestarts
<1>1. CASE UNCHANGED inventoryVars
  <2>1. DebtsGo
    BY <1>1, DebtsStay DEF inventoryVars, Basics
  <2> QED
    BY <1>1, <2>1 DEF inventoryVars, Writes, walk, Rows, Basics, InventoryTypes
<1>2. CASE InventoryNext
  BY <1>2, WritersWrite DEF InventoryNext
<1> QED
  BY <1>1, <1>2

-----------------------------------------------------------------------------
(* Every step keeps the invariant. *)

Walks == walking' = walking /\ todo' = todo

\* What a change of a file does to the tables of the walk.
LEMMA ChangeEffect ==
  ASSUME InventoryTypes, NEW v \in Library, Changes(v)
  PROVE  /\ disk' \in [Library -> DiskTypes] /\ (disk'[v].needs => disk'[v].media # 0)
         /\ \A w \in Library : w # v => disk'[w] = disk[w]
         /\ since' \in [Library -> Nat] /\ since'[v] = completed /\ \A w \in Library : w # v => since'[w] = since[w]
         /\ epoch' \in EpochTypes /\ epoch'.on = epoch.on /\ epoch'.dirty = epoch.dirty
         /\ epoch'.bound = epoch.bound /\ epoch'.seen = epoch.seen
         /\ epoch'.present[v] = epoch.present[v] \cup {disk'[v].media}
         /\ \A w \in Library : w # v => epoch'.present[w] = epoch.present[w]
<1>1. PICK m \in {0} \cup Media, n \in BOOLEAN : (m = 0 => ~n) /\ disk' = [disk EXCEPT ![v] = [media |-> m, needs |-> n]]
  BY DEF Changes
<1>2. [media |-> m, needs |-> n] \in DiskTypes
  BY DEF DiskTypes
<1>3. /\ disk' \in [Library -> DiskTypes] /\ disk'[v] = [media |-> m, needs |-> n]
      /\ \A w \in Library : w # v => disk'[w] = disk[w]
  BY <1>1, <1>2 DEF InventoryTypes
<1>4. /\ since' \in [Library -> Nat] /\ since'[v] = completed
      /\ \A w \in Library : w # v => since'[w] = since[w]
  BY DEF Changes, InventoryTypes
<1>5. epoch' = [epoch EXCEPT !.present[v] = @ \cup {m}] /\ epoch \in EpochTypes
  <2>1. disk'[v].media = m
    BY <1>3
  <2>2. epoch' = [epoch EXCEPT !.present[v] = @ \cup {disk'[v].media}]
    BY DEF Changes
  <2> QED
    BY <2>1, <2>2 DEF InventoryTypes
<1>6. /\ epoch' \in EpochTypes /\ epoch'.on = epoch.on /\ epoch'.dirty = epoch.dirty
      /\ epoch'.bound = epoch.bound /\ epoch'.seen = epoch.seen
      /\ epoch'.present[v] = epoch.present[v] \cup {m}
      /\ \A w \in Library : w # v => epoch'.present[w] = epoch.present[w]
  BY <1>5, ChangedEpoch
<1> QED
  BY <1>1, <1>3, <1>4, <1>6

\* What the walk does to the file in its hands.
LEMMA ItemEffect ==
  ASSUME InventoryTypes, Held
  PROVE  /\ NoItem \in ItemTypes /\ NoItem.path = "none" /\ NoItem.class = "none"
         /\ \A v \in Library : List(v) => \/ disk[v] = NoFile /\ item' = NoItem
                                          \/ disk[v] # NoFile /\ item' \in ItemTypes /\ item'.path = v
                                             /\ item'.class = "none" /\ item' # NoItem
         /\ Classify => /\ item.path \in Library /\ item' \in ItemTypes /\ item'.path = item.path
                        /\ item'.media = disk[item.path].media /\ item'.class = Class(item.path)
                        /\ item'.media # 0
         /\ Locked => item.path \in Library /\ item' \in ItemTypes /\ item'.path = item.path /\ item'.class = "none"
         /\ item.class # "none" => item # NoItem
<1>1. NoItem \in ItemTypes /\ NoItem.path = "none" /\ NoItem.class = "none"
  BY DEF NoItem, ItemTypes, Classes
<1>2. ASSUME NEW v \in Library, List(v)
      PROVE  \/ disk[v] = NoFile /\ item' = NoItem
             \/ disk[v] # NoFile /\ item' \in ItemTypes /\ item'.path = v /\ item'.class = "none" /\ item' # NoItem
  <2>1. CASE disk[v] # NoFile
    <3>1. item' = [NoItem EXCEPT !.path = v]
      BY <1>2, <2>1 DEF List
    <3>2. item' \in ItemTypes /\ item'.path = v /\ item'.class = "none"
      BY <3>1 DEF NoItem, ItemTypes, Classes
    <3> QED
      BY <1>1, <2>1, <3>2, InventoryAssumption
  <2> QED
    BY <1>2, <2>1 DEF List
<1>3. ASSUME Classify
      PROVE  /\ item.path \in Library /\ item' \in ItemTypes /\ item'.path = item.path
             /\ item'.media = disk[item.path].media /\ item'.class = Class(item.path)
             /\ item'.media # 0
  <2>1. item \in ItemTypes /\ item.path \in Library /\ disk[item.path] # NoFile
    BY <1>3 DEF Classify, Held, InventoryTypes
  <2>2. item' = [item EXCEPT !.media = disk[item.path].media, !.class = Class(item.path)]
    BY <1>3 DEF Classify
  <2>3. Class(item.path) \in Classes
    BY DEF Class, Classes
  <2>4. disk[item.path].media \in {0} \cup Media /\ disk[item.path].media # 0
    BY <2>1, OnDisk
  <2> QED
    BY <2>1, <2>2, <2>3, <2>4 DEF ItemTypes
<1>4. ASSUME Locked
      PROVE  /\ item.path \in Library /\ item' \in ItemTypes /\ item'.path = item.path
             /\ item'.class = "none"
  <2>1. item.path \in Library
    BY <1>4 DEF Locked, Held
  <2> QED
    BY <1>4, <2>1 DEF Locked, NoItem, ItemTypes, Classes
<1> QED
  BY <1>1, <1>2, <1>3, <1>4 DEF Held

\* The clauses of the invariant, one by one.
LEMMA InventoryTypesStep ==
  ASSUME Basics, Held, [InventoryNext]_inventoryVars
  PROVE  InventoryTypes'
<1> DEFINE Goal == InventoryTypes'
<1>0. /\ InventoryTypes /\ DebtsSound
      /\ (\A v \in Library : disk[v].needs => disk[v].media # 0) /\ completed \in Nat
      /\ Rows
  BY DEF Basics, InventoryTypes, DebtsSound, Rows
<1>i. NoItem \in ItemTypes /\ NoEpoch \in EpochTypes /\ NoEpoch.bound = 0
  BY <1>0, ItemEffect, NoEpochTypes
<1>1. ASSUME NEW v \in Library, Changes(v) PROVE Goal
  <2>1. /\ disk' \in [Library -> DiskTypes] /\ (disk'[v].needs => disk'[v].media # 0)
        /\ \A w \in Library : w # v => disk'[w] = disk[w]
        /\ since' \in [Library -> Nat] /\ epoch' \in EpochTypes /\ epoch'.bound = epoch.bound
    BY <1>0, <1>1, ChangeEffect
  <2>2. \A w \in Library : disk'[w].needs => disk'[w].media # 0
    BY <1>0, <2>1
  <2> QED
    BY <1>1, <2>1, <2>2 DEF InventoryTypes, Basics, Changes, tables, walk
<1>2. CASE Writes
  <2>1. epoch' \in EpochTypes /\ last' \in EpochTypes /\ epoch'.bound = epoch.bound
    BY <1>0, <1>2, DirtiedEpochs DEF Writes, InventoryTypes
  <2> QED
    BY <1>0, <1>2, <2>1 DEF InventoryTypes, Writes, walk, DebtsGo, Rows
<1>3. CASE Start
  <2>1. epoch' \in EpochTypes /\ epoch'.bound <= completed
    BY <1>0, <1>3, StartedEpoch DEF InventoryTypes
  <2> QED
    BY <1>0, <1>i, <1>3, <2>1 DEF InventoryTypes, Start, world, tables
<1>4. ASSUME NEW v \in Library, List(v) PROVE Goal
  <2>1. item' \in ItemTypes
    BY <1>0, <1>i, <1>4, ItemEffect
  <2> QED
    BY <1>0, <1>4, <2>1 DEF InventoryTypes, List, world, tables, epochs, history
<1>5. CASE Classify
  <2>1. item' \in ItemTypes
    BY <1>0, <1>i, <1>5, ItemEffect
  <2> QED
    BY <1>0, <1>5, <2>1 DEF InventoryTypes, Classify, world, tables, epochs, history
<1>6. CASE Observe
  <2>1. item.path \in Library /\ DebtsGo /\ Rows'
    BY <1>6, ObserveWrites
  <2> DEFINE S == {o \in epoch.seen[item.path] : o.media # item.media} \cup
                     {[media |-> item.media, class |-> item.class, old |-> FALSE]}
  <2>2. item \in ItemTypes /\ epoch \in EpochTypes
    BY <1>0 DEF InventoryTypes
  <2>3. epoch.seen[item.path] \subseteq SeenTypes
    BY <2>1, <2>2 DEF EpochTypes
  <2>4. [media |-> item.media, class |-> item.class, old |-> FALSE] \in SeenTypes
    BY <2>2 DEF SeenTypes, ItemTypes
  <2>5. S \in SUBSET SeenTypes
    BY <2>3, <2>4
  <2>6. epoch' = [epoch EXCEPT !.seen[item.path] = S]
    BY <1>6 DEF Observe
  <2> HIDE DEF S
  <2>7. epoch' \in EpochTypes /\ epoch'.bound = epoch.bound
    BY <2>1, <2>2, <2>5, <2>6, ObservedEpoch
  <2> QED
    BY <1>0, <1>i, <1>6, <2>1, <2>7 DEF InventoryTypes, Observe, world, history, DebtsGo, Rows
<1>7. CASE EpochEnds
  <2>1. last' \in EpochTypes /\ epoch' \in EpochTypes /\ epoch'.bound = 0
    BY <1>0, <1>i, <1>7, EndedEpoch DEF InventoryTypes
  <2>2. completed' = completed + 1 /\ completed' \in Nat /\ 0 <= completed'
    BY <1>0, <1>7 DEF EpochEnds
  <2>3. since' \in [Library -> Nat]
    BY <1>0, <1>7, <2>2 DEF EpochEnds, InventoryTypes
  <2> QED
    BY <1>0, <1>7, <2>1, <2>2, <2>3 DEF InventoryTypes, EpochEnds, tables
<1>8. CASE Fail
  <2>1. epoch' \in EpochTypes /\ epoch'.bound <= completed
    BY <1>0, <1>i, <1>8 DEF Fail, InventoryTypes
  <2> QED
    BY <1>0, <1>i, <1>8, <2>1 DEF InventoryTypes, Fail, world, tables, history
<1>9. CASE Locked
  <2>1. item' \in ItemTypes
    BY <1>0, <1>9, ItemEffect
  <2> QED
    BY <1>0, <1>9, <2>1 DEF InventoryTypes, Locked, world, tables, epochs, history
<1>10. CASE ScanRestarts
  BY <1>0, <1>i, <1>10 DEF InventoryTypes, ScanRestarts, tables, epochs, history
<1> QED
  BY <1>1, <1>2, <1>3, <1>4, <1>5, <1>6, <1>7, <1>8, <1>9, <1>10, Actions

LEMMA HeldStep ==
  ASSUME Basics, Held, [InventoryNext]_inventoryVars
  PROVE  Held'
<1>0. InventoryTypes
  BY DEF Basics
<1>i. NoItem.class = "none"
  BY DEF NoItem
<1>1. ASSUME NEW v \in Library, Changes(v) PROVE Held'
  <2>1. epoch'.on = epoch.on
    BY <1>0, <1>1, ChangeEffect
  <2> QED
    BY <1>1, <2>1 DEF Held, Changes, walk
<1>2. CASE Writes
  <2>1. epoch'.on = epoch.on
    BY <1>0, <1>2, DirtiedEpochs DEF Writes, InventoryTypes
  <2> QED
    BY <1>2, <2>1 DEF Held, Writes, walk
<1>3. CASE Start
  <2>1. epoch'.on
    BY <1>0, <1>3, StartedEpoch DEF InventoryTypes
  <2> QED
    BY <1>i, <1>3, <2>1 DEF Held, Start
<1>4. ASSUME NEW v \in Library, List(v) PROVE Held'
  <2>1. item' = NoItem \/ (item'.path = v /\ item'.class = "none")
    BY <1>0, <1>4, ItemEffect
  <2> QED
    BY <1>i, <1>4, <2>1 DEF Held, List, epochs
<1>5. CASE Classify
  <2>1. item.path \in Library /\ item'.path = item.path /\ item'.media # 0
    BY <1>0, <1>5, ItemEffect
  <2>2. item' # NoItem
    BY <2>1 DEF NoItem
  <2> QED
    BY <1>5, <2>1, <2>2 DEF Held, Classify, epochs
<1>6. CASE Observe
  <2>1. epoch'.on = epoch.on
    BY <1>0, <1>6 DEF Observe, InventoryTypes, EpochTypes
  <2> QED
    BY <1>i, <1>6, <2>1 DEF Held, Observe
<1>7. CASE EpochEnds
  BY <1>i, <1>7 DEF Held, EpochEnds, Exhausted
<1>8. CASE Fail
  BY <1>i, <1>8 DEF Held, Fail
<1>9. CASE Locked
  <2>1. item.path \in Library /\ item'.path = item.path /\ item'.class = "none"
    BY <1>0, <1>9, ItemEffect
  <2> QED
    BY <1>9, <2>1 DEF Held, Locked, epochs
<1>10. CASE ScanRestarts
  BY <1>i, <1>10 DEF Held, ScanRestarts
<1> QED
  BY <1>1, <1>2, <1>3, <1>4, <1>5, <1>6, <1>7, <1>8, <1>9, <1>10, Actions

LEMMA ToldStep ==
  ASSUME Basics, Told, [InventoryNext]_inventoryVars
  PROVE  Told'
<1>0. InventoryTypes
  BY DEF Basics
<1>1. ASSUME NEW v \in Library, Changes(v) PROVE Told'
  <2>1. epoch'.on = epoch.on /\ epoch'.dirty = epoch.dirty
    BY <1>0, <1>1, ChangeEffect
  <2> QED
    BY <1>1, <2>1 DEF Told, Changes
<1>2. CASE Writes
  <2>1. CASE Dirtied
    <3>1. epoch'.dirty = epoch'.on /\ last'.dirty = last'.on
      BY <1>0, <2>1, DirtiedEpochs DEF InventoryTypes
    <3> QED
      BY <3>1 DEF Told
  <2> QED
    BY <1>2, <2>1 DEF Told, Writes
<1>3. CASE Start
  BY <1>3 DEF Told, Start
<1>6. CASE Observe
  <2>1. epoch'.on = epoch.on /\ epoch'.dirty = epoch.dirty
    BY <1>0, <1>6 DEF Observe, InventoryTypes, EpochTypes
  <2> QED
    BY <1>6, <2>1 DEF Told, Observe, history
<1>7. CASE EpochEnds
  <2>1. last'.on = epoch.on /\ last'.dirty = epoch.dirty
    BY <1>0, <1>7, EndedEpoch DEF InventoryTypes
  <2> QED
    BY <1>7, <2>1 DEF Told, EpochEnds
<1>8. CASE Fail
  BY <1>8, NoEpochTypes DEF Told, Fail, history
<1>9. CASE Classify \/ Locked \/ ScanRestarts \/ \E v \in Library : List(v)
  BY <1>9 DEF Told, Classify, Locked, ScanRestarts, List, epochs, history
<1> QED
  BY <1>1, <1>2, <1>3, <1>6, <1>7, <1>8, <1>9, Actions

LEMMA WalkSawStep ==
  ASSUME Basics, Held, WalkSaw, [InventoryNext]_inventoryVars
  PROVE  WalkSaw'
<1>0. InventoryTypes
  BY DEF Basics
<1>i. NoItem.class = "none" /\ NoItem.path = "none"
  BY DEF NoItem
<1>1. ASSUME NEW v \in Library, Changes(v) PROVE WalkSaw'
  <2>1. epoch'.seen = epoch.seen /\ \A w \in Library : w # v => disk'[w] = disk[w]
    BY <1>0, <1>1, ChangeEffect
  <2>2. late \subseteq late' /\ (Passed(v) => v \in late') /\ UNCHANGED walk
    BY <1>1 DEF Changes
  <2>3. \A w \in Library \ late' : w # v => w \in Library \ late
    BY <2>2
  <2>4. v \notin late' /\ walking => (v \in todo /\ item.path # v) \/ (item.path = v /\ item.class = "none")
    BY <1>i, <2>2, InventoryAssumption DEF Passed, Held
  <2> QED
    BY <2>1, <2>2, <2>3, <2>4 DEF WalkSaw, Fits, walk
<1>2. CASE Writes
  <2>1. epoch'.seen = epoch.seen
    BY <1>0, <1>2, DirtiedEpochs DEF Writes, InventoryTypes
  <2> QED
    BY <1>2, <2>1 DEF WalkSaw, Fits, Writes, walk
<1>3. CASE Start
  BY <1>i, <1>3 DEF WalkSaw, Start
<1>4. ASSUME NEW v \in Library, List(v) PROVE WalkSaw'
  <2>1. \/ disk[v] = NoFile /\ item' = NoItem
        \/ item'.path = v /\ item'.class = "none"
    BY <1>0, <1>4, ItemEffect
  <2>2. item = NoItem /\ todo' = todo \ {v} /\ UNCHANGED <<disk, epoch, walking, late>>
    BY <1>4 DEF List, world, epochs, history
  <2>3. "none" \notin Library
    BY InventoryAssumption
  <2> QED
    BY <1>i, <2>1, <2>2, <2>3 DEF WalkSaw, Fits
<1>5. CASE Classify
  <2>1. item.path \in Library /\ item'.path = item.path /\ item'.media = disk[item.path].media
        /\ item'.class = Class(item.path)
    BY <1>0, <1>5, ItemEffect
  <2>2. disk[item.path].needs => Required(item'.class)
    BY <2>1 DEF Class, Required
  <2> QED
    BY <1>5, <2>1, <2>2 DEF WalkSaw, Fits, Classify, world, epochs, history
<1>6. CASE Observe
  <2>1. item.path \in Library /\ item.class # "none" /\ disk[item.path].media = item.media
    BY <1>6, ObserveWrites
  <2> DEFINE n == [media |-> item.media, class |-> item.class, old |-> FALSE]
             S == {o \in epoch.seen[item.path] : o.media # item.media} \cup {n}
  <2>2. epoch' = [epoch EXCEPT !.seen[item.path] = S] /\ epoch \in EpochTypes /\ item \in ItemTypes
    BY <1>0, <1>6 DEF Observe, InventoryTypes
  <2>3. /\ epoch'.seen[item.path] = S
        /\ \A w \in Library : w # item.path => epoch'.seen[w] = epoch.seen[w]
    BY <2>1, <2>2 DEF EpochTypes
  <2>4. n \in S /\ n.media = item.media /\ n.class = item.class /\ ~n.old
    OBVIOUS
  <2> HIDE DEF n, S
  <2>5. UNCHANGED <<disk, late, walking, todo>> /\ item' = NoItem
    BY <1>6 DEF Observe, world, history
  <2>6. item.path \notin late /\ walking => Fits(n, item.path)
    BY <2>1, <2>4 DEF WalkSaw, Fits
  <2> QED
    BY <1>i, <2>1, <2>3, <2>4, <2>5, <2>6 DEF WalkSaw, Fits
<1>7. CASE EpochEnds \/ Fail \/ ScanRestarts
  BY <1>7 DEF WalkSaw, EpochEnds, Fail, ScanRestarts
<1>9. CASE Locked
  <2>1. item.path \in Library /\ item'.path = item.path /\ item'.class = "none"
    BY <1>0, <1>9, ItemEffect
  <2> QED
    BY <1>9, <2>1 DEF WalkSaw, Fits, Locked, world, epochs, history
<1> QED
  BY <1>1, <1>2, <1>3, <1>4, <1>5, <1>6, <1>7, <1>9, Actions

LEMMA PresentStep ==
  ASSUME Basics, Held, Present, [InventoryNext]_inventoryVars
  PROVE  Present'
<1>0. InventoryTypes
  BY DEF Basics
<1>1. ASSUME NEW v \in Library, Changes(v) PROVE Present'
  <2>1. /\ epoch'.on = epoch.on /\ epoch'.seen = epoch.seen
        /\ epoch'.present[v] = epoch.present[v] \cup {disk'[v].media}
        /\ \A w \in Library : w # v => epoch'.present[w] = epoch.present[w] /\ disk'[w] = disk[w]
    BY <1>0, <1>1, ChangeEffect
  <2>2. last' = last
    BY <1>1 DEF Changes
  <2> QED
    BY <2>1, <2>2 DEF Present
<1>2. CASE Writes
  <2>1. /\ epoch'.on = epoch.on /\ epoch'.seen = epoch.seen /\ epoch'.present = epoch.present
        /\ last'.seen = last.seen /\ last'.present = last.present
    BY <1>0, <1>2, DirtiedEpochs DEF Writes, InventoryTypes
  <2> QED
    BY <1>2, <2>1 DEF Present, Writes
<1>3. CASE Start
  <2>1. \A v \in Library : epoch'.present[v] = {disk[v].media} /\ \A o \in epoch'.seen[v] : o.old
    BY <1>0, <1>3, StartedEpoch DEF InventoryTypes
  <2> QED
    BY <1>3, <2>1 DEF Present, Start, world
<1>6. CASE Observe
  <2>1. item.path \in Library /\ disk[item.path].media = item.media
    BY <1>6, ObserveWrites
  <2> DEFINE n == [media |-> item.media, class |-> item.class, old |-> FALSE]
             S == {o \in epoch.seen[item.path] : o.media # item.media} \cup {n}
  <2>2. epoch' = [epoch EXCEPT !.seen[item.path] = S] /\ epoch \in EpochTypes
    BY <1>0, <1>6 DEF Observe, InventoryTypes
  <2>3. /\ epoch'.seen[item.path] = S /\ \A w \in Library : w # item.path => epoch'.seen[w] = epoch.seen[w]
        /\ epoch'.present = epoch.present /\ epoch'.on = epoch.on
    BY <2>1, <2>2 DEF EpochTypes
  <2>4. \A o \in S : o \in epoch.seen[item.path] \/ o.media = item.media
    OBVIOUS
  <2> HIDE DEF n, S
  <2>5. UNCHANGED <<disk, last>>
    BY <1>6 DEF Observe, world
  <2> QED
    BY <2>1, <2>3, <2>4, <2>5 DEF Present
<1>7. CASE EpochEnds
  <2>1. last'.present = epoch.present /\ last'.seen = Kept(epoch.seen) /\ epoch' = NoEpoch
    BY <1>0, <1>7, EndedEpoch DEF InventoryTypes
  <2>2. epoch.on
    BY <1>7 DEF EpochEnds, Exhausted
  <2>3. \A v \in Library : Kept(epoch.seen)[v] = {o \in epoch.seen[v] : ~o.old}
    BY <1>0, KeptSeen DEF InventoryTypes
  <2> QED
    BY <2>1, <2>2, <2>3, NoEpochTypes DEF Present
<1>8. CASE Fail
  BY <1>8, NoEpochTypes DEF Present, Fail, world
<1>9. CASE Classify \/ Locked \/ ScanRestarts \/ \E v \in Library : List(v)
  BY <1>9 DEF Present, Classify, Locked, ScanRestarts, List, epochs, world
<1> QED
  BY <1>1, <1>2, <1>3, <1>6, <1>7, <1>8, <1>9, Actions

LEMMA ProofFitsStep ==
  ASSUME Basics, WalkSaw, ProofFits, [InventoryNext]_inventoryVars
  PROVE  ProofFits'
<1>0. InventoryTypes
  BY DEF Basics
<1>1. ASSUME NEW v \in Library, Changes(v) PROVE ProofFits'
  <2>1. \A w \in Library : w # v => disk'[w] = disk[w]
    BY <1>0, <1>1, ChangeEffect
  <2>2. last' = last /\ covered' = covered \ {v}
    BY <1>1 DEF Changes
  <2>3. covered \subseteq Library
    BY DEF Basics, InventoryTypes
  <2> QED
    BY <2>1, <2>2, <2>3 DEF ProofFits, Fits
<1>2. CASE Writes
  <2>1. CASE Dirtied
    BY <1>0, <2>1, DirtiedEpochs DEF ProofFits, InventoryTypes
  <2> QED
    BY <1>2, <2>1 DEF ProofFits, Fits, Writes
<1>7. CASE EpochEnds
  <2>1. last'.seen = Kept(epoch.seen)
    BY <1>0, <1>7, EndedEpoch DEF InventoryTypes
  <2>2. covered' = Library \ late /\ walking /\ todo = {} /\ item = NoItem /\ disk' = disk
    BY <1>7 DEF EpochEnds, Exhausted
  <2>3. \A v \in Library : Kept(epoch.seen)[v] = {o \in epoch.seen[v] : ~o.old}
    BY <1>0, KeptSeen DEF InventoryTypes
  <2>4. \A v \in Library : item.path # v
    BY <2>2, InventoryAssumption DEF NoItem
  <2>5. \A v \in Library \ late : disk[v] # NoFile => \E o \in epoch.seen[v] : ~o.old /\ Fits(o, v)
    BY <2>2, <2>4 DEF WalkSaw
  <2> QED
    BY <2>1, <2>2, <2>3, <2>5 DEF ProofFits, Fits
<1>9. CASE Start \/ Observe \/ Fail \/ Classify \/ Locked \/ ScanRestarts \/ \E v \in Library : List(v)
  BY <1>9
     DEF ProofFits, Fits, Start, Observe, Fail, Classify, Locked, ScanRestarts, List, epochs, world,
         history
<1> QED
  BY <1>1, <1>2, <1>7, <1>9, Actions

LEMMA OneOpenStep ==
  ASSUME Basics, Held, OneOpen, [InventoryNext]_inventoryVars
  PROVE  OneOpen'
<1>1. CASE DebtsGo
  BY <1>1 DEF DebtsGo, OneOpen, OpenOf
<1>2. CASE UNCHANGED debts
  BY <1>2 DEF OneOpen, OpenOf
<1>3. \/ Writes \/ Observe
      \/ UNCHANGED debts
  BY Actions DEF Changes, Start, List, Classify, EpochEnds, Fail, Locked, ScanRestarts, tables
<1> QED
  BY <1>1, <1>2, <1>3, ObserveWrites DEF Writes

LEMMA BeginsStep ==
  ASSUME Basics, Held, WalkSaw, Begins, [InventoryNext]_inventoryVars
  PROVE  Begins'
<1> DEFINE Goal == Begins'
<1>0. InventoryTypes
  BY DEF Basics
<1>i. NoItem.class = "none" /\ NoItem.path = "none" /\ "none" \notin Library
  BY InventoryAssumption DEF NoItem
\* files and times stay, the obligations may grow
<1>d. ASSUME UNCHANGED <<disk, since, completed>>, DebtsGo
      PROVE  /\ \A v \in Library : since'[v] <= completed' /\ \A m \in Media : debts'[v][m].since <= completed'
             /\ \A v \in Library : \A m \in Media : debts'[v][m].state = "none" => debts'[v][m] = NoDebt
             /\ \A v \in Library : disk'[v].needs /\ Has(v) => Has(v)'
             /\ \A v \in Library : disk'[v].needs /\ ~Has(v)' => since'[v] = completed'
  <2>1. \A v \in Library : disk[v].needs => disk[v].media \in Media
    BY <1>0, OnDisk
  <2>2. \A v \in Library : disk'[v].needs /\ Has(v) => Has(v)'
    BY <1>d, <2>1 DEF Has, DebtsGo
  <2> QED
    BY <1>d, <2>2 DEF Begins, DebtsGo
<1>e. UNCHANGED debts => DebtsGo
  BY DebtsStay DEF Basics
<1>1. ASSUME NEW v \in Library, Changes(v) PROVE Goal
  <2>1. /\ since' \in [Library -> Nat] /\ since'[v] = completed /\ \A w \in Library : w # v => since'[w] = since[w]
        /\ \A w \in Library : w # v => disk'[w] = disk[w]
    BY <1>0, <1>1, ChangeEffect
  <2>2. UNCHANGED <<debts, completed, walk>> /\ late \subseteq late' /\ (Passed(v) => v \in late')
    BY <1>1 DEF Changes, tables
  <2>3. v \notin late' /\ walking => (v \in todo /\ item.path # v) \/ (item.path = v /\ item.class = "none")
    BY <1>i, <2>2 DEF Passed, Held
  <2>4. \A w \in Library : w # v => (Has(w)' <=> Has(w))
    BY <2>1, <2>2 DEF Has
  <2>5. \A w \in Library : since'[w] <= completed
    BY <1>0, <2>1 DEF Begins, InventoryTypes
  <2>6. \A w \in Library : \A m \in Media : debts'[w][m].since <= completed' /\ (debts'[w][m].state = "none" => debts'[w][m] = NoDebt)
    BY <2>2 DEF Begins
  <2>7. \A w \in Library : disk'[w].needs /\ ~Has(w)' => since'[w] = completed'
    BY <2>1, <2>2, <2>4 DEF Begins
  <2>8. \A w \in Library \ late' : disk'[w].needs /\ walking' =>
          /\ w \notin todo' /\ item'.path # w => Has(w)'
          /\ item'.path = w /\ item'.class \notin {"none", "needs_ai"} => Has(w)'
    BY <2>1, <2>2, <2>3, <2>4 DEF Begins, walk
  <2> QED
    BY <2>2, <2>5, <2>6, <2>7, <2>8 DEF Begins
<1>2. CASE Writes
  BY <1>2, <1>d DEF Begins, Writes, walk
<1>3. CASE Start
  <2>1. UNCHANGED <<disk, since, completed, debts>>
    BY <1>3 DEF Start, world, tables
  <2> QED
    BY <1>i, <1>3, <1>d, <1>e, <2>1 DEF Begins, Start
<1>4. ASSUME NEW v \in Library, List(v) PROVE Goal
  <2>1. \/ disk[v] = NoFile /\ item' = NoItem
        \/ item'.path = v /\ item'.class = "none"
    BY <1>0, <1>4, ItemEffect
  <2>2. /\ item = NoItem /\ todo' = todo \ {v}
        /\ UNCHANGED <<disk, since, completed, debts, walking, late>>
    BY <1>4 DEF List, world, epochs, history, tables
  <2>3. disk'[v].needs => item'.path = v /\ item'.class = "none"
    BY <1>i, <2>1, <2>2 DEF NoFile
  <2>4. \A w \in Library : w # v => item'.path # w
    BY <1>i, <2>1
  <2>5. \A w \in Library \ late' : disk'[w].needs /\ walking' =>
          /\ w \notin todo' /\ item'.path # w => Has(w)'
          /\ item'.path = w /\ item'.class \notin {"none", "needs_ai"} => Has(w)'
    BY <1>i, <1>d, <1>e, <2>2, <2>3, <2>4 DEF Begins
  <2> QED
    BY <1>d, <1>e, <2>2, <2>5 DEF Begins
<1>5. CASE Classify
  <2>1. item.path \in Library /\ item'.path = item.path /\ item'.class = Class(item.path)
    BY <1>0, <1>5, ItemEffect
  <2>2. UNCHANGED <<disk, since, completed, debts, walking, late, todo>>
    BY <1>5 DEF Classify, world, epochs, history, tables
  <2>3. disk[item.path].needs /\ item'.class \notin {"none", "needs_ai"} => Has(item.path)
    BY <2>1 DEF Class, Has
  <2> QED
    BY <1>d, <1>e, <2>1, <2>2, <2>3 DEF Begins
<1>6. CASE Observe
  <2>1. /\ item.path \in Library /\ item.class # "none" /\ disk[item.path].media = item.media
        /\ DebtsGo /\ (item.class = "needs_ai" => debts'[item.path][item.media].state # "none")
    BY <1>6, ObserveWrites
  <2>2. UNCHANGED <<disk, since, completed, walking, late, todo>> /\ item' = NoItem
    BY <1>6 DEF Observe, world, history
  <2>3. item.class = "needs_ai" => \A v \in Library : v = item.path => Has(v)'
    BY <2>1, <2>2 DEF Has
  <2> QED
    BY <1>i, <1>d, <2>1, <2>2, <2>3 DEF Begins
<1>7. CASE EpochEnds
  <2>1. /\ walking /\ todo = {} /\ item = NoItem /\ UNCHANGED <<disk, debts>> /\ completed' = completed + 1 /\ ~walking'
        /\ since' = [v \in Library |-> IF v \in late THEN completed' ELSE since[v]]
    BY <1>7 DEF EpochEnds, Exhausted, tables
  <2>2. /\ completed \in Nat /\ since \in [Library -> Nat]
        /\ debts \in [Library -> [Media -> DebtTypes]]
    BY <1>0 DEF InventoryTypes
  <2>3. \A v \in Library : item.path # v
    BY <1>i, <2>1
  <2>4. \A v \in Library : Has(v)' <=> Has(v)
    BY <2>1 DEF Has
  <2>5. \A v \in Library : disk'[v].needs /\ ~Has(v)' => since'[v] = completed'
    BY <2>1, <2>3, <2>4 DEF Begins
  <2>6. \A v \in Library : since'[v] <= completed'
    BY <2>1, <2>2 DEF Begins
  <2>7. \A v \in Library, m \in Media : debts[v][m].since \in Nat
    BY <2>2 DEF DebtTypes
  <2>8. \A v \in Library, m \in Media : debts'[v][m].since <= completed'
    BY <2>1, <2>2, <2>7 DEF Begins
  <2> QED
    BY <2>1, <2>5, <2>6, <2>8 DEF Begins
<1>8. CASE Fail \/ ScanRestarts
  <2>1. UNCHANGED <<disk, since, completed, debts>> /\ ~walking'
    BY <1>8 DEF Fail, ScanRestarts, world, tables, epochs
  <2> QED
    BY <1>d, <1>e, <2>1 DEF Begins
<1>9. CASE Locked
  <2>1. item.path \in Library /\ item'.path = item.path /\ item'.class = "none"
    BY <1>0, <1>9, ItemEffect
  <2>2. UNCHANGED <<disk, since, completed, debts, walking, late, todo>>
    BY <1>9 DEF Locked, world, epochs, history, tables
  <2> QED
    BY <1>d, <1>e, <2>1, <2>2 DEF Begins
<1> QED
  BY <1>1, <1>2, <1>3, <1>4, <1>5, <1>6, <1>7, <1>8, <1>9, Actions

LEMMA TimeStep ==
  ASSUME Basics, Held, Begins, EligibleInTime, [InventoryNext]_inventoryVars
  PROVE  EligibleInTime'
<1>0. InventoryTypes /\ completed \in Nat /\ since \in [Library -> Nat]
  BY DEF Basics, InventoryTypes
<1>n. NoDebt.state = "none" /\ NoDebt.since = 0
  BY DEF NoDebt
<1>t. \A v \in Library : disk[v].needs => disk[v].media \in Media
  BY <1>0, OnDisk
<1>d. ASSUME UNCHANGED <<disk, since>>, DebtsGo PROVE EligibleInTime'
  <2> SUFFICES ASSUME NEW v \in Library, disk[v].needs, debts'[v][disk[v].media] # NoDebt
               PROVE  debts'[v][disk[v].media].since <= since[v]
    BY <1>d DEF EligibleInTime
  <2>1. CASE Has(v)
    BY <1>d, <1>n, <1>t, <2>1 DEF Has, DebtsGo, EligibleInTime
  <2>2. CASE ~Has(v)
    BY <1>d, <1>t, <2>2 DEF DebtsGo, Begins
  <2> QED
    BY <2>1, <2>2
<1>e. UNCHANGED debts => DebtsGo
  BY DebtsStay DEF Basics
<1>1. ASSUME NEW v \in Library, Changes(v) PROVE EligibleInTime'
  <2>1. /\ disk' \in [Library -> DiskTypes] /\ (disk'[v].needs => disk'[v].media # 0)
        /\ since' \in [Library -> Nat] /\ since'[v] = completed /\ \A w \in Library : w # v => since'[w] = since[w]
        /\ \A w \in Library : w # v => disk'[w] = disk[w]
    BY <1>0, <1>1, ChangeEffect
  <2>2. UNCHANGED debts
    BY <1>1 DEF Changes, tables
  <2>3. disk'[v].needs => disk'[v].media \in Media
    BY <2>1 DEF DiskTypes
  <2> QED
    BY <2>1, <2>2, <2>3 DEF EligibleInTime, Begins
<1>7. CASE EpochEnds
  <2>1. /\ UNCHANGED <<disk, debts>> /\ completed' = completed + 1
        /\ since' = [v \in Library |-> IF v \in late THEN completed' ELSE since[v]]
    BY <1>7 DEF EpochEnds, tables
  <2>2. \A v \in Library : since[v] <= since'[v] /\ since'[v] \in Nat
    BY <1>0, <2>1 DEF Begins
  <2>3. \A v \in Library, m \in Media : debts[v][m].since \in Nat
    BY <1>0 DEF DebtTypes, InventoryTypes
  <2> QED
    BY <1>0, <1>t, <2>1, <2>2, <2>3 DEF EligibleInTime
<1>9. CASE Start \/ Fail \/ Classify \/ Locked \/ ScanRestarts \/ \E v \in Library : List(v)
  BY <1>9, <1>d, <1>e DEF Start, Fail, Classify, Locked, ScanRestarts, List, world, tables
<1>6. CASE Writes \/ Observe
  BY <1>6, <1>d, ObserveWrites DEF Writes, Observe, world
<1> QED
  BY <1>1, <1>6, <1>7, <1>9, Actions

-----------------------------------------------------------------------------
(* The theorems. *)

LEMMA InventoryStarts == ASSUME InventoryInit PROVE InventoryInv
<1>1. /\ NoEpoch \in EpochTypes /\ ~NoEpoch.on /\ NoEpoch.bound = 0
      /\ \A v \in Library : NoEpoch.seen[v] = {}
  BY NoEpochTypes
<1>2. NoFile \in DiskTypes /\ ~NoFile.needs /\ NoRow \in RowTypes /\ NoRow.status # "queued"
      /\ NoDebt \in DebtTypes /\ NoDebt.state = "none" /\ NoDebt.since = 0 /\ NoItem \in ItemTypes
      /\ NoItem.class = "none"
  BY DEF NoFile, NoRow, NoDebt, NoItem, DiskTypes, RowTypes, DebtTypes, ItemTypes, Media, States,
         Classes
<1>3. disk \in [Library -> DiskTypes] /\ queue \in [Library -> RowTypes] /\ debts \in [Library -> [Media -> DebtTypes]]
      /\ since \in [Library -> Nat]
  BY <1>2 DEF InventoryInit
<1>4. \A v \in Library : disk[v] = NoFile /\ queue[v] = NoRow /\ since[v] = 0 /\ \A m \in Media : debts[v][m] = NoDebt
  BY DEF InventoryInit
<1>5. UNION {{}} = {} /\ epoch = NoEpoch /\ last = NoEpoch /\ item = NoItem /\ completed = 0 /\ todo = {}
      /\ walking = FALSE /\ late = {} /\ covered = Library
  BY DEF InventoryInit
<1>6. InventoryTypes
  BY <1>1, <1>2, <1>3, <1>4, <1>5 DEF InventoryTypes
<1>7. Held /\ Told /\ WalkSaw /\ ProofFits
  BY <1>1, <1>2, <1>5 DEF Held, Told, WalkSaw, ProofFits
<1>8. Present
  BY <1>1, <1>5 DEF Present
<1>9. OneOpen /\ Begins /\ EligibleInTime
  BY <1>2, <1>4, <1>5 DEF OneOpen, OpenOf, Begins, EligibleInTime
<1> QED
  BY <1>6, <1>7, <1>8, <1>9 DEF InventoryInv

\* The inductive invariant holds in every state: what the walk, the epochs and
\* the obligations say of a video that did not change behind the walk is so.
THEOREM InventoryCorrect == InventorySpec => []InventoryInv
<1>1. InventoryInit => InventoryInv
  BY InventoryStarts
<1>2. InventoryInv /\ [InventoryNext]_inventoryVars => InventoryInv'
  BY Sound, InventoryTypesStep, HeldStep, ToldStep, WalkSawStep, PresentStep, ProofFitsStep,
     OneOpenStep, BeginsStep, TimeStep
     DEF InventoryInv
<1> QED
  BY <1>1, <1>2, PTL DEF InventorySpec

\* A complete summary attests every video that did not change behind the walk's
\* back, or whose change a table was told, as it is: no other order of events,
\* restarts, failed epochs and foreign writers makes it say so (scan_state.py,
\* the summary of the last completed epoch).
THEOREM ProofsAttest == InventorySpec => []Attested
<1>1. ASSUME InventoryInv PROVE Attested
  <2> SUFFICES ASSUME Complete, NEW v \in Library
               PROVE  /\ disk[v] # NoFile /\ (v \in covered \/ v \notin unheard) =>
                           \E o \in last.seen[v] : o.media = disk[v].media /\ (disk[v].needs => Required(o.class))
                      /\ \A o \in last.seen[v] : o.media \in last.present[v]
    BY DEF Attested
  <2>1. last.on /\ ~last.dirty
    BY DEF Complete
  <2>2. v \notin unheard => v \in covered
    BY <1>1, <2>1 DEF InventoryInv, Told
  <2>3. disk[v] # NoFile /\ v \in covered =>
          \E o \in last.seen[v] : o.media = disk[v].media /\ (disk[v].needs => Required(o.class))
    BY <1>1, <2>1 DEF InventoryInv, ProofFits, Fits
  <2>4. \A o \in last.seen[v] : o.media \in last.present[v]
    BY <1>1 DEF InventoryInv, Present
  <2> QED
    BY <2>2, <2>3, <2>4
<1> QED
  BY <1>1, InventoryCorrect, PTL

\* An obligation counts from no later than the first walk that could have seen
\* its need, whoever writes it and however often its video was superseded
\* (scan_state.py, ensure_obligation).
THEOREM EligibilityInTime == InventorySpec => []EligibleInTime
  BY InventoryCorrect, PTL DEF InventoryInv

-----------------------------------------------------------------------------
(* DeliveryStatistics.  The inductive invariant StatisticsInv says of each *)
(* obligation which verdicts its state still allows.                       *)

\* Types of the obligations, the proofs, the walks and the verdicts.
OwedTypes == [state : {"none", "open", "excluded", "succeeded"}, eligible : Nat, claims : Nat, ended : Nat]
ProofTypes == [at : Nat, by : Nat]
WalkTypes == [state : {"none", "completed", "failed"}, owed : SUBSET Releases]

StatisticsTypes ==
  /\ clock \in Nat /\ release \in {0} \cup Releases
  /\ ledger \in [Releases -> OwedTypes]
  /\ proof \in [Releases -> ProofTypes]
  /\ walks \in [Ticks -> WalkTypes]
  /\ counted \in [Releases -> {"never", "on_time", "missed", "excluded", "unrecorded"}]

\* A proof is of a claim; an obligation that was claimed is not excluded; one
\* that is excluded was so before its deadline.
ClaimsCounted ==
  \A r \in Releases :
    /\ proof[r].by <= ledger[r].claims
    /\ ledger[r].state \in {"none", "excluded"} => ledger[r].claims = 0
    /\ ledger[r].state = "excluded" => ledger[r].eligible <= ledger[r].ended /\ ledger[r].ended <= Due(r)

\* Walks are in the past.
WalksPast == \A t \in Ticks : Walk(t) => t <= clock

\* Nothing can still make the obligation be on time.
Overdue(r) ==
  /\ ledger[r].state # "none" /\ clock > Due(r)
  /\ ledger[r].state = "open" /\ Proven(r) => proof[r].at > Due(r)
  /\ ledger[r].state = "succeeded" => ledger[r].ended > Due(r)

\* What was counted is what the obligation still allows.
Judgements ==
  \A r \in Releases :
    /\ counted[r] = "on_time" => ledger[r].state = "succeeded" /\ ledger[r].ended <= Due(r)
    /\ counted[r] \in {"missed", "excluded"} => Overdue(r)
    /\ counted[r] = "missed" => ledger[r].state # "excluded"

StatisticsInv == StatisticsTypes /\ ClaimsCounted /\ WalksPast /\ Judgements

-----------------------------------------------------------------------------
(* Least and greatest. *)

Below == {p \in Nat \X Nat : p[1] < p[2]}

\* A set of numbers has a least one.
LEMMA BelowIsFounded == IsWellFoundedOn(Below, Nat)
<1>1. Below = OpToRel(<, Nat)
  BY DEF OpToRel, Below
<1> QED
  BY <1>1, NatLessThanWellFounded

LEMMA LeastNatural == ASSUME NEW S \in SUBSET Nat, S # {} PROVE \E m \in S : \A k \in S : m <= k
<1>1. PICK m \in S : \A k \in S : <<k, m>> \notin Below
  BY BelowIsFounded, WFMin
<1>2. ASSUME NEW k \in S PROVE m <= k
  <2>1. <<k, m>> \notin Below /\ k \in Nat /\ m \in Nat
    BY <1>1
  <2>2. k < m => <<k, m>> \in Below
    BY <2>1 DEF Below
  <2> QED
    BY <2>1, <2>2
<1> QED
  BY <1>2

LEMMA LeastIn == ASSUME NEW S \in SUBSET Nat, S # {} PROVE Least(S) \in S
  BY LeastNatural DEF Least

\* The last completed walk.
LEMMA LastIs == LastWalk \in 0..MaxClock /\ (LastWalk = 0 \/ Walk(LastWalk))
<1> DEFINE S == {t \in 0..MaxClock : t = 0 \/ Walk(t)}
           D == {d \in 0..MaxClock : MaxClock - d \in S}
<1>1. MaxClock \in Nat
  BY StatisticsAssumption
<1>2. D \in SUBSET Nat /\ MaxClock \in D
  BY <1>1
<1>3. PICK d \in D : \A k \in D : d <= k
  <2> HIDE DEF D
  <2> QED
    BY <1>2, LeastNatural
<1>4. MaxClock - d \in S
  BY <1>3
<1>5. ASSUME NEW u \in Ticks, Walk(u) PROVE u <= MaxClock - d
  <2>1. /\ u \in 0..MaxClock /\ u \in S /\ MaxClock - u \in 0..MaxClock
        /\ MaxClock - (MaxClock - u) = u
    BY <1>1, <1>5 DEF Ticks
  <2>2. MaxClock - u \in D
    BY <2>1
  <2>3. d <= MaxClock - u /\ d \in Nat /\ u \in Nat
    BY <1>2, <1>3, <2>1, <2>2
  <2> QED
    BY <1>1, <2>3
<1>6. \E t \in 0..MaxClock : (t = 0 \/ Walk(t)) /\ \A u \in Ticks : Walk(u) => u <= t
  BY <1>4, <1>5
<1> QED
  BY <1>6 DEF LastWalk

-----------------------------------------------------------------------------
(* What may happen to an obligation when a classification of the video is written. *)

Moves(o, n) ==
  /\ n \in OwedTypes
  /\ \/ n = o
     \/ o.state = "none" /\ n.state = "open" /\ n.claims = 0
     \/ o.state = "excluded" /\ n.state = "open" /\ n.eligible = o.eligible /\ n.claims = o.claims
     \/ /\ o.state = "open" /\ o.claims = 0 /\ n.state = "excluded" /\ n.claims = 0 /\ n.eligible = o.eligible
        /\ n.ended = clock /\ n.eligible <= clock /\ clock <= n.eligible + Deadline

\* Each writer makes one of these moves: the admission,
LEMMA AdmittedMoves ==
  ASSUME NEW o \in OwedTypes, NEW at \in Nat
  PROVE  Moves(o, Admitted(o, at)) /\ Admitted(o, at).state # "none"
         /\ Admitted(o, at).state # "excluded"
<1>1. CASE o.state = "none"
  <2> DEFINE n == [Unowed EXCEPT !.state = "open", !.eligible = at]
  <2>1. Unowed \in OwedTypes /\ Unowed.claims = 0
    BY DEF Unowed, OwedTypes
  <2>2. n \in OwedTypes /\ n.state = "open" /\ n.claims = 0
    BY <2>1 DEF OwedTypes
  <2>3. Admitted(o, at) = n
    BY <1>1 DEF Admitted
  <2> HIDE DEF n
  <2> QED
    BY <1>1, <2>2, <2>3 DEF Moves
<1>3. CASE o.state = "excluded"
  <2> DEFINE n == [o EXCEPT !.state = "open", !.ended = 0]
  <2>1. n \in OwedTypes /\ n.state = "open" /\ n.claims = o.claims /\ n.eligible = o.eligible
    BY DEF OwedTypes
  <2>2. Admitted(o, at) = n
    BY <1>3 DEF Admitted
  <2> HIDE DEF n
  <2> QED
    BY <1>3, <2>1, <2>2 DEF Moves
<1>4. CASE o.state \notin {"none", "excluded"}
  <2>1. Admitted(o, at) = o
    BY <1>4 DEF Admitted
  <2> QED
    BY <1>4, <2>1 DEF Moves
<1> QED
  BY <1>1, <1>3, <1>4

\* the exclusion of what was never claimed,
LEMMA ExcludedMoves ==
  ASSUME NEW l \in [Releases -> OwedTypes], NEW rs, clock \in Nat,
         \A r \in Releases : r \in rs => l[r].state = "open" /\ l[r].claims = 0
  PROVE  \A r \in Releases : Moves(l[r], Excluded(l, rs)[r]) /\ (r \notin rs => Excluded(l, rs)[r] = l[r])
<1> TAKE r \in Releases
<1>1. l[r] \in OwedTypes
  OBVIOUS
<1>2. CASE r \in rs /\ l[r].eligible <= clock /\ clock <= l[r].eligible + Deadline
  <2>1. Excluded(l, rs)[r] = [l[r] EXCEPT !.state = "excluded", !.ended = clock]
    BY <1>2 DEF Excluded
  <2> QED
    BY <1>1, <1>2, <2>1 DEF Moves, OwedTypes
<1>3. CASE ~(r \in rs /\ l[r].eligible <= clock /\ clock <= l[r].eligible + Deadline)
  <2>1. Excluded(l, rs)[r] = l[r]
    BY <1>3 DEF Excluded
  <2> QED
    BY <1>1, <2>1 DEF Moves
<1> QED
  BY <1>2, <1>3

\* the writer of a classification,
LEMMA AssuredMoves ==
  ASSUME StatisticsTypes, release # 0, NEW at \in Nat
  PROVE  /\ \A r \in Releases : Moves(ledger[r], Assured(at)[r])
         /\ Assured(at) \in [Releases -> OwedTypes]
<1> DEFINE from  == IF Untried = {} THEN at ELSE Least({ledger[r].eligible : r \in Untried})
           added == [ledger EXCEPT ![release] = Admitted(@, from)]
<1>0. release \in Releases /\ ledger \in [Releases -> OwedTypes] /\ clock \in Nat
  BY DEF StatisticsTypes
<1>1. from \in Nat
  <2> DEFINE E == {ledger[r].eligible : r \in Untried}
  <2>1. CASE Untried # {}
    <3>1. E \in SUBSET Nat /\ E # {}
      BY <1>0, <2>1 DEF Untried, OwedTypes
    <3> HIDE DEF E
    <3>2. Least(E) \in Nat
      BY <3>1, LeastIn
    <3> QED
      BY <2>1, <3>2 DEF E
  <2> QED
    BY <2>1
<1> HIDE DEF from
<1>2. Moves(ledger[release], Admitted(ledger[release], from))
  BY <1>0, <1>1, AdmittedMoves
<1>3. added \in [Releases -> OwedTypes]
  BY <1>0, <1>2 DEF Moves
<1>4. \A r \in Releases : Moves(ledger[r], added[r]) /\ (r # release => added[r] = ledger[r])
  BY <1>0, <1>2 DEF Moves
<1>5. \A r \in Releases : r \in Untried \ {release} => added[r].state = "open" /\ added[r].claims = 0
  BY <1>4 DEF Untried
<1>6. Assured(at) = IF added[release].state = "open" THEN Excluded(added, Untried \ {release}) ELSE added
  BY DEF Assured, from
<1> HIDE DEF added
<1>7. CASE added[release].state = "open"
  <2>1. \A r \in Releases : /\ Moves(added[r], Excluded(added, Untried \ {release})[r])
                            /\ r \notin Untried \ {release} => Excluded(added, Untried \ {release})[r] = added[r]
    BY <1>0, <1>3, <1>5, ExcludedMoves
  <2>2. \A r \in Releases : Moves(ledger[r], Excluded(added, Untried \ {release})[r])
    <3> TAKE r \in Releases
    <3>1. CASE r = release
      BY <1>4, <2>1, <3>1
    <3>2. CASE r # release
      BY <1>4, <2>1, <3>2
    <3> QED
      BY <3>1, <3>2
  <2> DEFINE x == Excluded(added, Untried \ {release})
  <2>3. x = [r \in Releases |-> x[r]]
    BY DEF Excluded
  <2>4. \A r \in Releases : x[r] \in OwedTypes
    BY <2>2 DEF Moves
  <2> HIDE DEF x
  <2>5. x \in [Releases -> OwedTypes]
    BY <2>3, <2>4
  <2> QED
    BY <1>6, <1>7, <2>2, <2>5 DEF x
<1>8. CASE added[release].state # "open"
  BY <1>3, <1>4, <1>6, <1>8
<1> QED
  BY <1>7, <1>8

\* and the reconciliation.
LEMMA ReconciledMoves ==
  ASSUME StatisticsTypes, NEW at \in Nat
  PROVE  /\ \A r \in Releases : Moves(ledger[r], Reconciled(at)[r])
         /\ Reconciled(at) \in [Releases -> OwedTypes]
<1>1. CASE release = 0
  <2>1. \A r \in Releases : r \in Untried => ledger[r].state = "open" /\ ledger[r].claims = 0
    BY DEF Untried
  <2>2. \A r \in Releases : Moves(ledger[r], Excluded(ledger, Untried)[r])
    BY <2>1, ExcludedMoves DEF StatisticsTypes
  <2> DEFINE x == Excluded(ledger, Untried)
  <2>3. x = [r \in Releases |-> x[r]]
    BY DEF Excluded
  <2>4. \A r \in Releases : x[r] \in OwedTypes
    BY <2>2 DEF Moves
  <2> HIDE DEF x
  <2>5. x \in [Releases -> OwedTypes]
    BY <2>3, <2>4
  <2> QED
    BY <1>1, <2>2, <2>5 DEF Reconciled, x
<1>2. CASE release # 0
  BY <1>2, AssuredMoves DEF Reconciled
<1> QED
  BY <1>1, <1>2

LEMMA BoundTyped == Bound \in Nat
  BY LastIs DEF Bound

-----------------------------------------------------------------------------
(* Every step keeps the invariant. *)

\* An obligation that moved, in the time it moved in.
MovesOn(r) == Moves(ledger[r], ledger'[r])

\* What the invariant says of one obligation.
Fair(o, r) ==
  /\ proof[r].by <= o.claims
  /\ o.state \in {"none", "excluded"} => o.claims = 0
  /\ o.state = "excluded" => o.eligible <= o.ended /\ o.ended <= o.eligible + Deadline
  /\ counted[r] = "on_time" => o.state = "succeeded" /\ o.ended <= o.eligible + Deadline
  /\ counted[r] \in {"missed", "excluded"} =>
       /\ o.state # "none" /\ clock > o.eligible + Deadline
       /\ o.state = "open" /\ o.claims > 0 /\ proof[r].by = o.claims => proof[r].at > o.eligible + Deadline
       /\ o.state = "succeeded" => o.ended > o.eligible + Deadline
  /\ counted[r] = "missed" => o.state # "excluded"

LEMMA AllFair == ClaimsCounted /\ Judgements <=> \A r \in Releases : Fair(ledger[r], r)
  BY DEF ClaimsCounted, Judgements, Overdue, Proven, Due, Fair

LEMMA AllFairNext == (\A r \in Releases : Fair(ledger[r], r)') => ClaimsCounted' /\ Judgements'
  BY DEF ClaimsCounted, Judgements, Overdue, Proven, Due, Fair

\* A move keeps what is fair.
LEMMA FairMoves ==
  ASSUME StatisticsTypes, NEW r \in Releases, NEW o \in OwedTypes, NEW n, Moves(o, n), Fair(o, r)
  PROVE  Fair(n, r)
<1>1. Deadline \in Nat /\ clock \in Nat /\ n \in OwedTypes
  BY StatisticsAssumption DEF StatisticsTypes, Moves
<1>2. /\ n.claims \in Nat /\ o.eligible \in Nat /\ n.ended \in Nat /\ o.claims \in Nat
      /\ proof[r].by \in Nat
  BY <1>1 DEF OwedTypes, StatisticsTypes, ProofTypes
<1>5. CASE n = o
  BY <1>5
<1>6. CASE o.state = "none" /\ n.state = "open" /\ n.claims = 0
  BY <1>2, <1>6 DEF Fair
<1>7. CASE o.state = "excluded" /\ n.state = "open" /\ n.eligible = o.eligible /\ n.claims = o.claims
  BY <1>2, <1>7 DEF Fair
<1>8. CASE /\ o.state = "open" /\ o.claims = 0 /\ n.state = "excluded" /\ n.claims = 0 /\ n.eligible = o.eligible
           /\ n.ended = clock /\ n.eligible <= clock /\ clock <= n.eligible + Deadline
  BY <1>1, <1>2, <1>8 DEF Fair
<1> QED
  BY <1>5, <1>6, <1>7, <1>8 DEF Moves

\* So does a step in which every obligation moves.
LEMMA Moved ==
  ASSUME StatisticsInv, UNCHANGED <<clock, proof, counted>>, \A r \in Releases : MovesOn(r),
         ledger' \in [Releases -> OwedTypes]
  PROVE  ClaimsCounted' /\ Judgements'
<1>1. \A r \in Releases : ledger[r] \in OwedTypes /\ Fair(ledger[r], r)
  BY AllFair DEF StatisticsInv, StatisticsTypes
<1>2. \A r \in Releases : \A n : n = ledger'[r] => Fair(n, r)
  BY <1>1, FairMoves DEF MovesOn, StatisticsInv
<1>3. \A r \in Releases : Fair(ledger[r], r)'
  BY <1>2 DEF Fair
<1> QED
  BY <1>3, AllFairNext

\* Types and walks.
LEMMA StatisticsTypesStep ==
  ASSUME StatisticsInv, [StatisticsNext]_statisticsVars
  PROVE  StatisticsTypes' /\ WalksPast'
<1>0. StatisticsTypes /\ WalksPast /\ clock \in Nat /\ ledger \in [Releases -> OwedTypes]
  BY DEF StatisticsInv, StatisticsTypes
<1>1. CASE UNCHANGED statisticsVars
  BY <1>0, <1>1 DEF statisticsVars, StatisticsTypes, WalksPast, Walk
\* the ledger alone
<1>2. ASSUME ledger' \in [Releases -> OwedTypes],
             UNCHANGED <<clock, release, walks, proof, counted>>
      PROVE  StatisticsTypes' /\ WalksPast'
  BY <1>0, <1>2 DEF StatisticsTypes, WalksPast, Walk
<1>3. CASE Seen \/ Backfills
  <2>1. ledger' \in [Releases -> OwedTypes]
    BY <1>0, <1>3, AssuredMoves, ReconciledMoves DEF Seen, Backfills
  <2> QED
    BY <1>2, <1>3, <2>1 DEF Seen, Backfills
<1>4. CASE Claimed
  <2>1. Assured(Bound) \in [Releases -> OwedTypes] /\ release \in Releases
    BY <1>0, <1>4, AssuredMoves, BoundTyped DEF Claimed, StatisticsTypes
  <2>2. [Assured(Bound)[release] EXCEPT !.claims = @ + 1] \in OwedTypes
    BY <2>1 DEF OwedTypes
  <2>3. ledger' = [Assured(Bound) EXCEPT ![release] = [Assured(Bound)[release] EXCEPT !.claims = @ + 1]]
    BY <1>4, <2>1 DEF Claimed
  <2>4. ledger' \in [Releases -> OwedTypes]
    BY <2>1, <2>2, <2>3
  <2> QED
    BY <1>2, <1>4, <2>4 DEF Claimed
<1>5. ASSUME NEW r \in Releases, Verified(r) PROVE StatisticsTypes' /\ WalksPast'
  <2>1. ledger[r] \in OwedTypes /\ proof[r].at \in Nat
    BY <1>0 DEF StatisticsTypes, ProofTypes
  <2> DEFINE n == [ledger[r] EXCEPT !.state = "succeeded", !.ended = proof[r].at]
  <2>2. n \in OwedTypes
    BY <2>1 DEF OwedTypes
  <2>3. ledger' = [ledger EXCEPT ![r] = n]
    BY <1>0, <1>5 DEF Verified
  <2> HIDE DEF n
  <2>4. ledger' \in [Releases -> OwedTypes]
    BY <1>0, <2>2, <2>3
  <2> QED
    BY <1>2, <1>5, <2>4 DEF Verified
<1>6. ASSUME NEW r \in Releases, Published(r) PROVE StatisticsTypes' /\ WalksPast'
  <2>1. [at |-> clock, by |-> ledger[r].claims] \in ProofTypes
    BY <1>0 DEF ProofTypes, OwedTypes
  <2> QED
    BY <1>0, <1>6, <2>1 DEF Published, StatisticsTypes, WalksPast, Walk
<1>7. CASE Changed \/ Passes
  <2>1. \A t \in Ticks : t \in Nat
    BY DEF Ticks
  <2>2. /\ clock' \in Nat /\ clock <= clock' /\ UNCHANGED <<ledger, walks, proof, counted>>
        /\ release' \in {0} \cup Releases
    BY <1>0, <1>7 DEF Changed, Passes, StatisticsTypes
  <2>3. WalksPast'
    BY <1>0, <2>1, <2>2 DEF WalksPast, Walk
  <2> QED
    BY <1>0, <2>2, <2>3 DEF StatisticsTypes
<1>8. CASE Walked \/ WalkFails
  <2>1. PICK s \in {"completed", "failed"}, rs \in SUBSET Releases :
          walks' = [walks EXCEPT ![clock] = [state |-> s, owed |-> rs]]
    BY <1>0, <1>8 DEF Walked, WalkFails, StatisticsTypes
  <2>2. [state |-> s, owed |-> rs] \in WalkTypes
    BY DEF WalkTypes
  <2>3. walks' \in [Ticks -> WalkTypes] /\ \A t \in Ticks : t # clock => walks'[t] = walks[t]
    BY <1>0, <2>1, <2>2 DEF StatisticsTypes
  <2>4. ledger' \in [Releases -> OwedTypes]
    BY <1>0, <1>8, ReconciledMoves, BoundTyped DEF Walked, WalkFails
  <2>5. UNCHANGED <<clock, release, proof, counted>>
    BY <1>8 DEF Walked, WalkFails
  <2>6. \A t \in Ticks : t \in Nat
    BY DEF Ticks
  <2>7. WalksPast'
    BY <1>0, <2>3, <2>5, <2>6 DEF WalksPast, Walk
  <2> QED
    BY <1>0, <2>3, <2>4, <2>5, <2>7 DEF StatisticsTypes
<1>9. CASE Summarized
  <2>1. counted' \in [Releases -> {"never", "on_time", "missed", "excluded", "unrecorded"}]
    BY <1>0, <1>9 DEF Summarized, StatisticsTypes, Judged
  <2> QED
    BY <1>0, <1>9, <2>1 DEF Summarized, StatisticsTypes, WalksPast, Walk
<1> QED
  BY <1>1, <1>3, <1>4, <1>5, <1>6, <1>7, <1>8, <1>9 DEF StatisticsNext

\* The verdicts.
LEMMA JudgementsStep ==
  ASSUME StatisticsInv, [StatisticsNext]_statisticsVars
  PROVE  ClaimsCounted' /\ Judgements'
<1>0. /\ StatisticsTypes /\ WalksPast /\ ClaimsCounted /\ Judgements /\ clock \in Nat
      /\ ledger \in [Releases -> OwedTypes] /\ proof \in [Releases -> ProofTypes] /\ Deadline \in Nat
      /\ counted \in [Releases -> {"never", "on_time", "missed", "excluded", "unrecorded"}]
  BY StatisticsAssumption DEF StatisticsInv, StatisticsTypes
<1>n. \A r \in Releases : /\ ledger[r] \in OwedTypes /\ ledger[r].claims \in Nat /\ ledger[r].eligible \in Nat
                          /\ Due(r) \in Nat /\ proof[r].at \in Nat /\ proof[r].by \in Nat
  BY <1>0 DEF OwedTypes, ProofTypes, Due
<1>1. CASE UNCHANGED statisticsVars
  BY <1>0, <1>1 DEF statisticsVars, ClaimsCounted, Judgements, Overdue, Proven, Due
<1>2. CASE Seen \/ Backfills \/ Walked
  <2>1. (\A r \in Releases : MovesOn(r)) /\ ledger' \in [Releases -> OwedTypes]
    BY <1>0, <1>2, AssuredMoves, ReconciledMoves, BoundTyped DEF Seen, Backfills, Walked, MovesOn
  <2> QED
    BY <1>2, <2>1, Moved DEF Seen, Backfills, Walked
<1>3. CASE Changed \/ WalkFails
  BY <1>0, <1>3 DEF Changed, WalkFails, ClaimsCounted, Judgements, Overdue, Proven, Due
<1>4. CASE Passes
  BY <1>0, <1>n, <1>4 DEF Passes, ClaimsCounted, Judgements, Overdue, Proven, Due
<1>5. CASE Claimed
  <2> DEFINE l == Assured(Bound)
  <2>1. /\ l \in [Releases -> OwedTypes] /\ release \in Releases
        /\ \A r \in Releases : Moves(ledger[r], l[r])
    BY <1>0, <1>5, AssuredMoves, BoundTyped DEF Claimed, StatisticsTypes
  <2>2. l[release].state = "open" /\ ledger' = [l EXCEPT ![release].claims = @ + 1]
        /\ UNCHANGED <<clock, release, walks, proof, counted>>
    BY <1>5 DEF Claimed
  <2> HIDE DEF l
  <2>3. /\ ledger'[release].state = "open" /\ ledger'[release].claims = l[release].claims + 1
        /\ ledger'[release].eligible = l[release].eligible /\ l[release].claims \in Nat
        /\ \A r \in Releases : r # release => ledger'[r] = l[r]
    BY <2>1, <2>2 DEF OwedTypes
  <2>4. ASSUME NEW r \in Releases PROVE Fair(ledger[r], r)'
    <3>1. Fair(l[r], r)
      BY <1>0, <1>n, <2>1, AllFair, FairMoves
    <3>2. CASE r # release
      BY <2>2, <2>3, <3>1, <3>2 DEF Fair
    <3>3. CASE r = release
      BY <1>n, <2>2, <2>3, <3>1, <3>3 DEF Fair
    <3> QED
      BY <3>2, <3>3
  <2> QED
    BY <2>4, AllFairNext
<1>6. ASSUME NEW r \in Releases, Verified(r) PROVE ClaimsCounted' /\ Judgements'
  <2> DEFINE n == [ledger[r] EXCEPT !.state = "succeeded", !.ended = proof[r].at]
  <2>1. /\ n.state = "succeeded" /\ n.ended = proof[r].at /\ n.eligible = ledger[r].eligible /\ n.claims = ledger[r].claims
    BY <1>n DEF OwedTypes
  <2>2. /\ ledger' = [ledger EXCEPT ![r] = n] /\ ledger[r].state = "open" /\ Proven(r)
        /\ UNCHANGED <<clock, proof, counted>>
    BY <1>0, <1>6 DEF Verified
  <2> HIDE DEF n
  <2>3. ledger'[r] = n /\ \A q \in Releases : q # r => ledger'[q] = ledger[q]
    BY <1>0, <2>2
  <2>4. ClaimsCounted'
    BY <1>0, <2>1, <2>2, <2>3 DEF ClaimsCounted, Due
  <2>5. Judgements'
    BY <1>0, <2>1, <2>2, <2>3 DEF Judgements, Overdue, Proven, Due
  <2> QED
    BY <2>4, <2>5
<1>7. ASSUME NEW r \in Releases, Published(r) PROVE ClaimsCounted' /\ Judgements'
  <2>1. proof'[r] = [at |-> clock, by |-> ledger[r].claims] /\ (\A q \in Releases : q # r => proof'[q] = proof[q])
        /\ UNCHANGED <<clock, ledger, counted>>
    BY <1>0, <1>7 DEF Published
  <2>2. proof'[r].at = clock /\ proof'[r].by = ledger[r].claims
    BY <2>1
  <2>3. ClaimsCounted'
    BY <1>0, <1>n, <2>1, <2>2 DEF ClaimsCounted, Due
  <2>4. Judgements'
    BY <1>0, <1>n, <2>1, <2>2 DEF Judgements, Overdue, Proven, Due
  <2> QED
    BY <2>3, <2>4
<1>8. CASE Summarized
  <2>1. UNCHANGED <<clock, ledger, proof>> /\ counted' = [r \in Releases |->
          IF ~InCohort(r) THEN counted[r] ELSE IF Unrecorded(r) THEN "unrecorded" ELSE Judged(r)]
    BY <1>8 DEF Summarized
  <2>2. Walk(LastWalk) /\ LastWalk \in Ticks /\ LastWalk <= clock /\ LastWalk \in Nat
    BY <1>0, <1>8 DEF Summarized, AttestedNow, Unbroken, Holds, Walk, WalksPast, Ticks
  <2>3. ASSUME NEW r \in Releases, InCohort(r)
        PROVE  ledger[r].state # "none" /\ clock > Due(r)
    BY <1>0, <1>n, <2>2, <2>3 DEF InCohort
  <2>4. ClaimsCounted'
    BY <1>0, <2>1 DEF ClaimsCounted, Due
  <2>5. ASSUME NEW r \in Releases
        PROVE  /\ counted'[r] = "on_time" => ledger[r].state = "succeeded" /\ ledger[r].ended <= Due(r)
               /\ counted'[r] \in {"missed", "excluded"} => Overdue(r)
               /\ counted'[r] = "missed" => ledger[r].state # "excluded"
    <3>1. CASE ~InCohort(r)
      BY <1>0, <2>1, <3>1 DEF Judgements
    <3>2. CASE InCohort(r) /\ Unrecorded(r)
      BY <1>0, <2>1, <3>2 DEF Judgements
    <3>3. CASE InCohort(r) /\ ~Unrecorded(r)
      <4>1. counted'[r] = Judged(r) /\ ledger[r].state # "none" /\ clock > Due(r)
        BY <2>1, <2>3, <3>3
      <4>2. ledger[r].state = "open" /\ Proven(r) => proof[r].at > Due(r)
        BY <1>n, <3>3 DEF Unrecorded
      <4>3. ledger[r].state \in {"none", "open", "excluded", "succeeded"} /\ ledger[r].ended \in Nat
        BY <1>n DEF OwedTypes
      <4>4. CASE ledger[r].state = "open"
        <5>1. Judged(r) = "missed"
          BY <4>4 DEF Judged
        <5> QED
          BY <4>1, <4>2, <4>4, <5>1 DEF Overdue
      <4>5. CASE ledger[r].state = "excluded"
        <5>1. Judged(r) = "excluded"
          BY <1>0, <4>5 DEF Judged, ClaimsCounted
        <5> QED
          BY <4>1, <4>5, <5>1 DEF Overdue
      <4>6. CASE ledger[r].state = "succeeded" /\ ledger[r].ended <= Due(r)
        <5>1. Judged(r) = "on_time"
          BY <4>6 DEF Judged
        <5> QED
          BY <4>1, <4>6, <5>1
      <4>7. CASE ledger[r].state = "succeeded" /\ ~(ledger[r].ended <= Due(r))
        <5>1. Judged(r) = "missed"
          BY <4>7 DEF Judged
        <5> QED
          BY <1>n, <4>1, <4>3, <4>7, <5>1 DEF Overdue
      <4> QED
        BY <4>1, <4>3, <4>4, <4>5, <4>6, <4>7
    <3> QED
      BY <3>1, <3>2, <3>3
  <2> QED
    BY <2>1, <2>4, <2>5 DEF Judgements, Overdue, Proven, Due
<1> QED
  BY <1>1, <1>2, <1>3, <1>4, <1>5, <1>6, <1>7, <1>8 DEF StatisticsNext

-----------------------------------------------------------------------------
(* The theorems. *)

\* The inductive invariant holds in every state: what was counted for a release
\* is what its obligation and its proof still say.
THEOREM StatisticsCorrect == StatisticsSpec => []StatisticsInv
<1>1. ASSUME StatisticsInit PROVE StatisticsInv
  <2>1. Unowed \in OwedTypes /\ Unowed.state = "none" /\ Unowed.claims = 0
    BY DEF Unowed, OwedTypes
  <2>2. NoProof \in ProofTypes /\ NoProof.by = 0 /\ NoWalk \in WalkTypes /\ NoWalk.state = "none"
    BY DEF NoProof, NoWalk, ProofTypes, WalkTypes
  <2>3. \A r \in Releases : ledger[r] = Unowed /\ proof[r] = NoProof /\ counted[r] = "never"
    BY <1>1 DEF StatisticsInit
  <2>4. StatisticsTypes
    BY <1>1, <2>1, <2>2 DEF StatisticsInit, StatisticsTypes
  <2>5. WalksPast
    BY <1>1, <2>2 DEF StatisticsInit, WalksPast, Walk
  <2>6. ClaimsCounted /\ Judgements
    BY <2>1, <2>2, <2>3 DEF ClaimsCounted, Judgements
  <2> QED
    BY <2>4, <2>5, <2>6 DEF StatisticsInv
<1>2. StatisticsInv /\ [StatisticsNext]_statisticsVars => StatisticsInv'
  BY StatisticsTypesStep, JudgementsStep DEF StatisticsInv
<1> QED
  BY <1>1, <1>2, PTL DEF StatisticsSpec

\* A verdict that a summary has counted is never turned to the better by what
\* happens to the video afterwards, for any number of releases and attempts and
\* any deadline (scan_state.py, the summary of the service level).
THEOREM CountedVerdictsLast == StatisticsSpec => []VerdictsLast
<1>1. ASSUME StatisticsInv PROVE VerdictsLast
  <2> SUFFICES ASSUME NEW r \in Releases
               PROVE  /\ counted[r] = "on_time" => Judged(r) = "on_time"
                      /\ counted[r] = "missed" => Judged(r) = "missed"
                      /\ counted[r] = "excluded" => Judged(r) # "on_time"
    BY DEF VerdictsLast
  <2>1. ledger[r] \in OwedTypes /\ Due(r) \in Nat /\ ledger[r].ended \in Nat
    BY <1>1, StatisticsAssumption DEF StatisticsInv, StatisticsTypes, OwedTypes, Due
  <2>2. counted[r] = "on_time" => ledger[r].state = "succeeded" /\ ledger[r].ended <= Due(r)
    BY <1>1 DEF StatisticsInv, Judgements
  <2>3. counted[r] \in {"missed", "excluded"} => (ledger[r].state = "succeeded" => ledger[r].ended > Due(r))
    BY <1>1 DEF StatisticsInv, Judgements, Overdue
  <2>4. counted[r] = "missed" => ledger[r].state # "excluded"
    BY <1>1 DEF StatisticsInv, Judgements
  <2>5. ledger[r].state = "succeeded" /\ ledger[r].ended <= Due(r) => Judged(r) = "on_time"
    BY DEF Judged
  <2>6. ledger[r].state # "excluded" /\ ~(ledger[r].state = "succeeded" /\ ledger[r].ended <= Due(r)) => Judged(r) = "missed"
    BY DEF Judged
  <2>7. Judged(r) = "on_time" => ledger[r].state = "succeeded" /\ ledger[r].ended <= Due(r)
    BY DEF Judged
  <2> QED
    BY <2>1, <2>2, <2>3, <2>4, <2>5, <2>6, <2>7
<1> QED
  BY <1>1, StatisticsCorrect, PTL

-----------------------------------------------------------------------------
(* ResourceAdmission.  The inductive invariant ResourceInv holds until a   *)
(* launcher replaces a state of admission that it had not read.            *)

\* Types of the tiers, the persisted hysteresis, and a launcher's place.
Tiers == {"green", "yellow", "red", "unavailable"}
HysteresisTypes == [tier : Tiers \cup {"none"}, candidate : Tiers \cup {"none"}, count : Nat]
StateTypes == [plan : Nat, hysteresis : HysteresisTypes, oom : Nat]
Routes == {"primary", "lower", "none"}
LaunchTypes ==
  [step : {"idle", "killed"}] \cup [step : {"deferred"}, again : BOOLEAN]
    \cup [step : {"probing"}, second : BOOLEAN, read : StateTypes, known : Nat]
    \cup [step : {"planned", "loaded"}, id : Nat, fresh : BOOLEAN, route : Routes, hot : BOOLEAN, calm : BOOLEAN]
    \cup [step : {"working"}, route : Routes, hot : BOOLEAN, calm : BOOLEAN]
    \cup [step : {"recording", "reporting"}, read : StateTypes]

ResourceTypes ==
  /\ admission \in StateTypes
  /\ launch \in [Launchers -> LaunchTypes]
  /\ probes \in Nat /\ ooms \in Nat /\ cooled \in Nat
  /\ recentRaw \in Seq(Tiers) /\ Len(recentRaw) <= RecoverySamples
  /\ raced \in BOOLEAN

\* Samples without pressure; a tier that the samples back: a calm one has only
\* such samples, and the count is that of the equal samples at the end.
Relaxed(raws) == \A i \in 1..Len(raws) : Severity[raws[i]] < 2
Backed(h, raws) ==
  /\ h.tier = "none" => raws = <<>>
  /\ h.tier \in {"green", "yellow"} => Relaxed(raws)
  /\ h.count <= Len(raws)
  /\ \A i \in 1..Len(raws) : i > Len(raws) - h.count => raws[i] = h.candidate

\* Work that was admitted against no sample and no known end.
Careful(l) == l.calm /\ (l.route = "primary" => ~l.hot)

\* As long as no launcher has replaced a state it had not read.
Unraced ==
  /\ admission.oom = ooms
  /\ Backed(admission.hysteresis, recentRaw)
  /\ \A w \in Launchers : LaunchAt(w, "probing") => launch[w].read.oom = launch[w].known
  /\ \A w \in Launchers : launch[w].step \in {"planned", "loaded", "working"} => Careful(launch[w])

ResourceInv == ResourceTypes /\ (raced \/ Unraced)

-----------------------------------------------------------------------------
(* The tiers. *)

\* A tier below red is green or yellow.
LEMMA Severities ==
  /\ Severity["green"] = 0 /\ Severity["yellow"] = 1 /\ Severity["red"] = 2 /\ Severity["unavailable"] = 3
  /\ \A t \in Tiers : Severity[t] \in Nat /\ (Severity[t] < 2 <=> t \in {"green", "yellow"})
  BY DEF Severity, Tiers

LEMMA RawTiers == ASSUME NEW s \in Samples, NEW b PROVE RawTier(s, b) \in Tiers
  BY DEF RawTier, Tiers, Samples, Unavailable

\* The hysteresis always leaves a tier.
LEMMA HysteresisTyped ==
  ASSUME NEW raw \in Tiers, NEW h \in HysteresisTypes
  PROVE  Hysteresis(raw, h) \in HysteresisTypes /\ Hysteresis(raw, h).tier # "none"
<1>1. Steady(raw) \in HysteresisTypes /\ Steady(raw).tier = raw /\ raw # "none"
  BY DEF Steady, HysteresisTypes, Tiers
<1>2. ASSUME NEW n \in Nat, h.tier # "none"
      PROVE  [tier |-> h.tier, candidate |-> raw, count |-> n] \in HysteresisTypes
  BY <1>2 DEF HysteresisTypes, Tiers
<1>3. (IF h.candidate = raw THEN h.count + 1 ELSE 1) \in Nat
  BY DEF HysteresisTypes
<1> QED
  BY <1>1, <1>2, <1>3 DEF Hysteresis

\* The samples that are remembered: the last ones.
LEMMA LatestRaws ==
  ASSUME NEW raws \in Seq(Tiers), Len(raws) <= RecoverySamples, NEW raw \in Tiers
  PROVE  LET l == Latest(Append(raws, raw)) IN
         /\ l \in Seq(Tiers) /\ Len(l) <= RecoverySamples /\ Len(l) \in Nat /\ Len(l) > 0
         /\ l[Len(l)] = raw
         /\ \/ Len(l) = Len(raws) + 1 /\ \A i \in 1..Len(raws) : l[i] = raws[i]
            \/ Len(l) = Len(raws) /\ Len(raws) = RecoverySamples /\ \A i \in 1..Len(raws) : i > 1 => l[i - 1] = raws[i]
<1> DEFINE a == Append(raws, raw)
<1>1. RecoverySamples \in Nat \ {0}
  BY AdmissionAssumption
<1>2. a \in Seq(Tiers) /\ Len(a) = Len(raws) + 1 /\ a[Len(raws) + 1] = raw /\ (\A i \in 1..Len(raws) : a[i] = raws[i])
      /\ Len(raws) \in Nat
  OBVIOUS
<1> HIDE DEF a
<1>3. CASE Len(a) > RecoverySamples
  <2>1. Latest(a) = Tail(a) /\ a # <<>> /\ Len(raws) = RecoverySamples
    BY <1>1, <1>2, <1>3 DEF Latest
  <2>2. /\ Tail(a) \in Seq(Tiers) /\ Len(Tail(a)) = Len(a) - 1
        /\ \A i \in 1..(Len(a) - 1) : Tail(a)[i] = a[i + 1]
    BY <1>2, <2>1
  <2>3. \A i \in 1..Len(raws) : i > 1 => Tail(a)[i - 1] = a[i]
    <3> SUFFICES ASSUME NEW i \in 1..Len(raws), i > 1 PROVE Tail(a)[i - 1] = a[i]
      OBVIOUS
    <3>1. i - 1 \in 1..(Len(a) - 1) /\ (i - 1) + 1 = i
      BY <1>2
    <3> QED
      BY <2>2, <3>1
  <2> QED
    BY <1>1, <1>2, <2>1, <2>2, <2>3 DEF a
<1>4. CASE ~(Len(a) > RecoverySamples)
  <2>1. Latest(a) = a
    BY <1>4 DEF Latest
  <2> QED
    BY <1>1, <1>2, <1>4, <2>1 DEF a
<1> QED
  BY <1>3, <1>4

\* The tier that a decision leaves is backed by the samples.
LEMMA TierIsBacked ==
  ASSUME NEW raws \in Seq(Tiers), Len(raws) <= RecoverySamples, NEW raw \in Tiers,
         NEW h \in HysteresisTypes, Backed(h, raws)
  PROVE  Backed(Hysteresis(raw, h), Latest(Append(raws, raw)))
<1> DEFINE l == Latest(Append(raws, raw))
           g == Hysteresis(raw, h)
           n == IF h.candidate = raw THEN h.count + 1 ELSE 1
<1>1. /\ l \in Seq(Tiers) /\ Len(l) <= RecoverySamples /\ Len(l) \in Nat /\ Len(l) > 0
      /\ l[Len(l)] = raw
      /\ \/ Len(l) = Len(raws) + 1 /\ \A i \in 1..Len(raws) : l[i] = raws[i]
         \/ Len(l) = Len(raws) /\ Len(raws) = RecoverySamples /\ \A i \in 1..Len(raws) : i > 1 => l[i - 1] = raws[i]
  BY LatestRaws
<1>2. /\ Len(raws) \in Nat /\ RecoverySamples \in Nat \ {0} /\ h.count \in Nat
      /\ h.tier \in Tiers \cup {"none"}
  BY AdmissionAssumption DEF HysteresisTypes
<1> HIDE DEF l
\* the samples that were calm, and the new one
<1>3. Relaxed(raws) /\ Severity[raw] < 2 => Relaxed(l)
  <2> SUFFICES ASSUME Relaxed(raws), Severity[raw] < 2, NEW i \in 1..Len(l) PROVE Severity[l[i]] < 2
    BY DEF Relaxed
  <2>1. CASE i = Len(l)
    BY <1>1, <2>1
  <2>2. CASE i # Len(l) /\ Len(l) = Len(raws) + 1
    <3>1. i \in 1..Len(raws) /\ l[i] = raws[i]
      BY <1>1, <1>2, <2>2
    <3> QED
      BY <3>1 DEF Relaxed
  <2>3. CASE i # Len(l) /\ Len(l) = Len(raws)
    <3>1. i + 1 \in 1..Len(raws) /\ i + 1 > 1 /\ (i + 1) - 1 = i
      BY <1>1, <1>2, <2>3
    <3>2. l[i] = raws[i + 1]
      BY <1>1, <1>2, <2>3, <3>1
    <3> QED
      BY <3>1, <3>2 DEF Relaxed
  <2> QED
    BY <1>1, <2>1, <2>2, <2>3
\* equal samples in a row
<1>4. ASSUME NEW i \in 1..Len(l), i > Len(l) - n PROVE l[i] = raw
  <2>1. CASE i = Len(l)
    BY <1>1, <2>1
  <2>2. CASE i # Len(l)
    <3>1. h.candidate = raw /\ n = h.count + 1
      BY <1>1, <1>2, <1>4, <2>2
    <3>2. CASE Len(l) = Len(raws) + 1
      <4>1. i \in 1..Len(raws) /\ l[i] = raws[i] /\ i > Len(raws) - h.count
        BY <1>1, <1>2, <1>4, <2>2, <3>1, <3>2
      <4> QED
        BY <3>1, <4>1 DEF Backed
    <3>3. CASE Len(l) = Len(raws)
      <4>1. i + 1 \in 1..Len(raws) /\ i + 1 > 1 /\ (i + 1) - 1 = i /\ i + 1 > Len(raws) - h.count
        BY <1>1, <1>2, <1>4, <2>2, <3>1, <3>3
      <4>2. l[i] = raws[i + 1]
        BY <1>1, <1>2, <3>3, <4>1
      <4> QED
        BY <3>1, <4>1, <4>2 DEF Backed
    <3> QED
      BY <1>1, <3>2, <3>3
  <2> QED
    BY <2>1, <2>2
<1>5. n \in Nat /\ (n <= Len(l) \/ n = Len(l) + 1)
  BY <1>1, <1>2 DEF Backed
<1>6. ASSUME g = Steady(raw) PROVE Backed(g, l)
  <2>1. g.tier = raw /\ g.count = 0
    BY <1>6 DEF Steady
  <2>2. raw \in {"green", "yellow"} => Relaxed(l)
    <3> SUFFICES ASSUME raw \in {"green", "yellow"} PROVE Relaxed(l)
      OBVIOUS
    <3>0. Severity[raw] < 2
      BY Severities
    <3>1. CASE h.tier = "none"
      <4>1. raws = <<>>
        BY <3>1 DEF Backed
      <4>2. Relaxed(raws)
        BY <4>1 DEF Relaxed
      <4> QED
        BY <1>3, <3>0, <4>2
    <3>2. CASE h.tier \in {"green", "yellow"}
      BY <1>3, <3>0, <3>2 DEF Backed
    <3>3. CASE h.tier \in {"red", "unavailable"}
      <4>1. n >= RecoverySamples
        <5>1. ~(Severity[raw] >= Severity[h.tier])
          BY <3>3, Severities
        <5>2. n < RecoverySamples => g.tier = h.tier
          BY <1>2, <3>3, <5>1 DEF Hysteresis
        <5> QED
          BY <1>2, <1>5, <2>1, <3>3, <5>2
      <4>2. \A i \in 1..Len(l) : l[i] = raw
        <5> SUFFICES ASSUME NEW i \in 1..Len(l) PROVE l[i] = raw
          OBVIOUS
        <5>1. i > Len(l) - n
          BY <1>1, <1>2, <1>5, <4>1
        <5> QED
          BY <1>4, <5>1
      <4> QED
        BY <3>0, <4>2 DEF Relaxed
    <3> QED
      BY <1>2, <3>1, <3>2, <3>3 DEF Tiers
  <2>3. raw # "none"
    BY DEF Tiers
  <2> HIDE DEF g
  <2> QED
    BY <1>1, <2>1, <2>2, <2>3 DEF Backed
<1>7. ASSUME g # Steady(raw) PROVE Backed(g, l)
  <2>1. /\ h.tier # "none" /\ ~(Severity[raw] >= Severity[h.tier]) /\ ~(n >= RecoverySamples)
        /\ g = [tier |-> h.tier, candidate |-> raw, count |-> n]
    BY <1>7 DEF Hysteresis
  <2>2. g.tier = h.tier /\ g.candidate = raw /\ g.count = n
    BY <2>1
  <2>3. h.tier \in {"green", "yellow"} => Relaxed(l)
    <3>1. h.tier \in Tiers
      BY <1>2, <2>1
    <3>2. h.tier \in {"green", "yellow"} => Severity[raw] < 2
      BY <2>1, <3>1, Severities
    <3> QED
      BY <1>3, <3>2 DEF Backed
  <2>4. n <= Len(l)
    BY <1>1, <1>2, <1>5, <2>1 DEF Backed
  <2> HIDE DEF g, n
  <2> QED
    BY <1>4, <2>1, <2>2, <2>3, <2>4 DEF Backed
<1> QED
  BY <1>6, <1>7 DEF l

-----------------------------------------------------------------------------
(* What a launcher does. *)

Active == {"planned", "loaded", "working"}

\* Where a launcher is says which record it has.
LEMMA LaunchKinds ==
  ASSUME NEW l \in LaunchTypes
  PROVE  /\ l.step \in {"planned", "loaded"} =>
              l \in [step : {"planned", "loaded"}, id : Nat, fresh : BOOLEAN, route : Routes, hot : BOOLEAN, calm : BOOLEAN]
         /\ l.step = "working" => l \in [step : {"working"}, route : Routes, hot : BOOLEAN, calm : BOOLEAN]
         /\ l.step = "probing" => l \in [step : {"probing"}, second : BOOLEAN, read : StateTypes, known : Nat]
         /\ l.step \in {"recording", "reporting"} => l \in [step : {"recording", "reporting"}, read : StateTypes]
  BY DEF LaunchTypes

\* A launcher moves, the others stay.
LEMMA Placed ==
  ASSUME launch \in [Launchers -> LaunchTypes], NEW w \in Launchers, NEW r \in LaunchTypes,
         LaunchIs(w, r)
  PROVE  /\ launch' \in [Launchers -> LaunchTypes] /\ launch'[w] = r
         /\ \A x \in Launchers : x # w => launch'[x] = launch[x]
  BY DEF LaunchIs

\* What a launcher may become without a decision: nothing is planned anew.
Follows(w, r) ==
  /\ r \in LaunchTypes
  /\ r.step = "probing" => r.read = admission /\ r.known = ooms
  /\ r.step \in Active => /\ launch[w].step \in Active
                          /\ launch[w].calm => r.calm
                          /\ r.hot => launch[w].hot
                          /\ r.route = "primary" => launch[w].route = "primary"

LEMMA NoLaunchFollows == ASSUME NEW w PROVE Follows(w, NoLaunch)
  BY DEF NoLaunch, Follows, LaunchTypes, Active

\* The steps of a launcher that decide nothing.
Steps(w) ==
  \/ BeginProbe(w) \/ ProbeAfterUnload(w) \/ ProbeFails(w) \/ Defer(w)
  \/ LoadPlan(w) \/ PlanAges(w) \/ GiveUp(w) \/ StartGpuWork(w) \/ EndGpuWork(w)
  \/ RunOutOfMemory(w) \/ IsKilled(w) \/ NoticeKill(w) \/ RecordFails(w)

\* Such a step makes nothing more daring than it was.
LEMMA LauncherStep ==
  ASSUME ResourceTypes, NEW w \in Launchers, Steps(w)
  PROVE  /\ UNCHANGED <<admission, probes, ooms, cooled, recentRaw, raced>>
         /\ \E r : Follows(w, r) /\ LaunchIs(w, r)
<1> DEFINE l == launch[w]
<1>0. l \in LaunchTypes /\ admission \in StateTypes /\ ooms \in Nat
  BY DEF ResourceTypes
<1>1. UNCHANGED <<admission, probes, ooms, cooled, recentRaw, raced>>
  BY DEF Steps, BeginProbe, ProbeAfterUnload, Reads, ProbeFails, Defer, LoadPlan, PlanAges, GiveUp,
         StartGpuWork, EndGpuWork, RunOutOfMemory, IsKilled, NoticeKill, RecordFails
<1>2. CASE BeginProbe(w) \/ ProbeAfterUnload(w)
  <2>1. PICK b \in BOOLEAN : Reads(w, b)
    BY <1>2 DEF BeginProbe, ProbeAfterUnload
  <2> DEFINE r == [step |-> "probing", second |-> b, read |-> admission, known |-> ooms]
  <2>2. Follows(w, r)
    BY <1>0, <2>1 DEF Follows, LaunchTypes, Active
  <2> QED
    BY <1>1, <2>1, <2>2 DEF Reads
<1>3. CASE ProbeFails(w) \/ Defer(w) \/ GiveUp(w) \/ EndGpuWork(w) \/ RecordFails(w)
  <2>1. LaunchIs(w, NoLaunch)
    BY <1>3 DEF ProbeFails, Defer, GiveUp, EndGpuWork, RecordFails
  <2> QED
    BY <1>1, <2>1, NoLaunchFollows
<1>4. CASE LoadPlan(w)
  <2> DEFINE r == [l EXCEPT !.step = "loaded"]
  <2>1. l \in [step : {"planned", "loaded"}, id : Nat, fresh : BOOLEAN, route : Routes, hot : BOOLEAN, calm : BOOLEAN]
        /\ l.step = "planned"
    BY <1>0, <1>4, LaunchKinds DEF LoadPlan, LaunchAt
  <2> HIDE DEF l
  <2>2. r \in [step : {"planned", "loaded"}, id : Nat, fresh : BOOLEAN, route : Routes, hot : BOOLEAN, calm : BOOLEAN]
        /\ r.step = "loaded" /\ r.calm = l.calm /\ r.hot = l.hot /\ r.route = l.route
    BY <2>1
  <2>3. LaunchIs(w, r)
    BY <1>4 DEF LoadPlan, l
  <2> HIDE DEF r
  <2>4. r \in LaunchTypes
    BY <2>2 DEF LaunchTypes
  <2>5. Follows(w, r)
    BY <2>1, <2>2, <2>4 DEF Follows, Active, l
  <2> QED
    BY <1>1, <2>3, <2>5
<1>5. CASE PlanAges(w)
  <2> DEFINE r == [l EXCEPT !.fresh = FALSE]
  <2>1. l \in [step : {"planned", "loaded"}, id : Nat, fresh : BOOLEAN, route : Routes, hot : BOOLEAN, calm : BOOLEAN]
    BY <1>0, <1>5, LaunchKinds DEF PlanAges
  <2> HIDE DEF l
  <2>2. r \in [step : {"planned", "loaded"}, id : Nat, fresh : BOOLEAN, route : Routes, hot : BOOLEAN, calm : BOOLEAN]
        /\ r.step = l.step /\ r.calm = l.calm /\ r.hot = l.hot /\ r.route = l.route
    BY <2>1
  <2>3. LaunchIs(w, r)
    BY <1>5 DEF PlanAges, l
  <2> HIDE DEF r
  <2>4. r \in LaunchTypes
    BY <2>2 DEF LaunchTypes
  <2>5. Follows(w, r)
    BY <2>1, <2>2, <2>4 DEF Follows, Active, l
  <2> QED
    BY <1>1, <2>3, <2>5
<1>6. CASE StartGpuWork(w)
  <2>1. PICK asked \in {"primary", "lower"} :
          LaunchIs(w, [step |-> "working", hot |-> l.hot, calm |-> l.calm, route |-> AdjustedRoute(w, asked)])
    BY <1>6 DEF StartGpuWork
  <2>2. l \in [step : {"planned", "loaded"}, id : Nat, fresh : BOOLEAN, route : Routes, hot : BOOLEAN, calm : BOOLEAN]
        /\ l.step = "loaded"
    BY <1>0, <1>6, LaunchKinds DEF StartGpuWork, LaunchAt
  <2>3. /\ AdjustedRoute(w, asked) \in Routes
        /\ (AdjustedRoute(w, asked) = "primary" => l.route = "primary")
    BY DEF AdjustedRoute, Routes
  <2> DEFINE r == [step |-> "working", hot |-> l.hot, calm |-> l.calm, route |-> AdjustedRoute(w, asked)]
  <2> HIDE DEF l
  <2>4. r \in [step : {"working"}, route : Routes, hot : BOOLEAN, calm : BOOLEAN]
        /\ r.step = "working" /\ r.calm = l.calm /\ r.hot = l.hot
        /\ (r.route = "primary" => l.route = "primary")
    BY <2>2, <2>3
  <2>5. LaunchIs(w, r)
    BY <2>1
  <2> HIDE DEF r
  <2>6. r \in LaunchTypes
    BY <2>4 DEF LaunchTypes
  <2>7. Follows(w, r)
    BY <2>2, <2>4, <2>6 DEF Follows, Active, l
  <2> QED
    BY <1>1, <2>5, <2>7
<1>7. CASE RunOutOfMemory(w) \/ NoticeKill(w)
  <2>1. PICK s \in {"recording", "reporting"} : LaunchIs(w, [step |-> s, read |-> admission])
    BY <1>7 DEF RunOutOfMemory, NoticeKill
  <2>2. Follows(w, [step |-> s, read |-> admission])
    BY <1>0 DEF Follows, LaunchTypes, Active
  <2> QED
    BY <1>1, <2>1, <2>2
<1>8. CASE IsKilled(w)
  <2>1. Follows(w, [step |-> "killed"])
    BY DEF Follows, LaunchTypes, Active
  <2> QED
    BY <1>1, <1>8, <2>1 DEF IsKilled
<1> QED
  BY <1>2, <1>3, <1>4, <1>5, <1>6, <1>7, <1>8 DEF Steps

\* A decision, from the state that was read.
LEMMA Decided ==
  ASSUME ResourceTypes, NEW w \in Launchers, FinishProbe(w)
  PROVE  /\ launch[w].step = "probing" /\ launch[w].read \in StateTypes /\ launch[w].known \in Nat
         /\ UNCHANGED <<ooms, cooled>> /\ probes' \in Nat
         /\ admission' \in StateTypes /\ admission'.oom = launch[w].read.oom
         /\ raced' = (raced \/ admission # launch[w].read) /\ raced' \in BOOLEAN
         /\ \E raw \in Tiers : /\ recentRaw' = Latest(Append(recentRaw, raw))
                               /\ admission'.hysteresis = Hysteresis(raw, launch[w].read.hysteresis)
         /\ \E r \in LaunchTypes :
              /\ LaunchIs(w, r) /\ r.step # "probing"
              /\ r.step \in Active => /\ admission'.hysteresis.tier \in {"green", "yellow"}
                                      /\ r.route = "primary" => ~(launch[w].read.oom > cooled)
                                      /\ r.hot => launch[w].known > cooled
                                      /\ Relaxed(recentRaw') => r.calm
<1> DEFINE l == launch[w]
<1>0. /\ l \in [step : {"probing"}, second : BOOLEAN, read : StateTypes, known : Nat]
      /\ l.step = "probing"
  BY LaunchKinds DEF ResourceTypes, FinishProbe, LaunchAt
<1>1. l.read \in StateTypes /\ l.known \in Nat /\ l.second \in BOOLEAN
  BY <1>0
<1> DEFINE recent == l.read.oom > cooled
<1>2. PICK s \in Samples :
       LET raw    == RawTier(s, recent)
           h      == Hysteresis(raw, l.read.hysteresis)
           short  == s.available /\ ((~recent /\ "primary" \notin s.fits) \/ s.fits = {})
       IN
       /\ admission' = [plan |-> probes + 1, hysteresis |-> h, oom |-> l.read.oom]
       /\ raced' = (raced \/ admission # l.read)
       /\ recentRaw' = Latest(Append(recentRaw, raw))
       /\ LaunchIs(w, IF Admits(s, recent, h)
                  THEN [step |-> "planned", id |-> probes + 1, fresh |-> TRUE,
                        route |-> ModelRoute(s, recent), hot |-> l.known > cooled,
                        calm |-> \A i \in DOMAIN recentRaw' : Severity[recentRaw'[i]] < 2]
                  ELSE [step |-> "deferred", again |-> short /\ ~l.second])
  BY DEF FinishProbe
<1> DEFINE raw == RawTier(s, recent)
           h == Hysteresis(raw, l.read.hysteresis)
           again == /\ (s.available /\ ((~recent /\ "primary" \notin s.fits) \/ s.fits = {}))
                    /\ ~l.second
           hot == l.known > cooled
           calm == \A i \in DOMAIN recentRaw' : Severity[recentRaw'[i]] < 2
           route == ModelRoute(s, recent)
<1>3. raw \in Tiers
  BY RawTiers
<1>4. h \in HysteresisTypes
  BY <1>1, <1>3, HysteresisTyped DEF StateTypes
<1>5. route \in Routes /\ (route = "primary" => ~recent)
  BY DEF ModelRoute, Routes
<1>6. Admits(s, recent, h) => h.tier \in {"green", "yellow"}
  BY DEF Admits
<1>7. Relaxed(recentRaw') => calm
  <2>1. recentRaw' \in Seq(Tiers)
    BY <1>2, <1>3, LatestRaws DEF ResourceTypes
  <2> QED
    BY <2>1 DEF Relaxed
<1>8. again \in BOOLEAN /\ hot \in BOOLEAN /\ calm \in BOOLEAN
  OBVIOUS
<1>9. /\ admission' = [plan |-> probes + 1, hysteresis |-> h, oom |-> l.read.oom]
      /\ raced' = (raced \/ admission # l.read)
      /\ recentRaw' = Latest(Append(recentRaw, raw))
      /\ Admits(s, recent, h) =>
           LaunchIs(w, [step |-> "planned", id |-> probes + 1, fresh |-> TRUE, route |-> route, hot |-> hot, calm |-> calm])
      /\ ~Admits(s, recent, h) => LaunchIs(w, [step |-> "deferred", again |-> again])
  BY <1>2
<1>10. probes' = probes + 1 /\ UNCHANGED <<ooms, cooled>> /\ probes \in Nat
  BY DEF FinishProbe, ResourceTypes
<1> HIDE DEF raw, h, again, hot, calm, route
<1>11. admission' \in StateTypes /\ admission'.oom = l.read.oom /\ admission'.hysteresis = h
  BY <1>1, <1>4, <1>9, <1>10 DEF StateTypes
<1>12. \E r \in LaunchTypes :
         /\ LaunchIs(w, r) /\ r.step # "probing"
         /\ r.step \in Active => /\ h.tier \in {"green", "yellow"}
                                 /\ r.route = "primary" => ~recent
                                 /\ r.hot => hot
                                 /\ Relaxed(recentRaw') => r.calm
  <2>1. CASE Admits(s, recent, h)
    <3> DEFINE r == [step |-> "planned", id |-> probes + 1, fresh |-> TRUE, route |-> route, hot |-> hot, calm |-> calm]
    <3>1. r \in LaunchTypes
      BY <1>5, <1>8, <1>10 DEF LaunchTypes
    <3>2. r.step = "planned" /\ r.route = route /\ r.hot = hot /\ r.calm = calm
      OBVIOUS
    <3>3. LaunchIs(w, r)
      BY <1>9, <2>1
    <3> HIDE DEF r
    <3> QED
      BY <1>5, <1>6, <1>7, <2>1, <3>1, <3>2, <3>3
  <2>2. CASE ~Admits(s, recent, h)
    <3>1. [step |-> "deferred", again |-> again] \in LaunchTypes
      BY <1>8 DEF LaunchTypes
    <3> QED
      BY <1>9, <2>2, <3>1 DEF Active
  <2> QED
    BY <2>1, <2>2
<1> QED
  BY <1>0, <1>1, <1>3, <1>9, <1>10, <1>11, <1>12 DEF h, hot, ResourceTypes

\* An end for lack of memory is counted in the state that was read.
LEMMA OomRecorded ==
  ASSUME ResourceTypes, NEW w \in Launchers, RecordOom(w)
  PROVE  /\ admission' \in StateTypes /\ admission'.oom = ooms' /\ ooms' \in Nat
         /\ raced' = (raced \/ admission # launch[w].read) /\ raced' \in BOOLEAN
         /\ admission = launch[w].read => admission'.hysteresis = admission.hysteresis
         /\ NoLaunch \in LaunchTypes /\ NoLaunch.step = "idle" /\ LaunchIs(w, NoLaunch)
         /\ UNCHANGED <<probes, cooled, recentRaw>>
<1>1. launch[w].read \in StateTypes /\ ooms + 1 \in Nat
  <2>1. launch[w] \in [step : {"recording", "reporting"}, read : StateTypes]
    BY LaunchKinds DEF ResourceTypes, RecordOom
  <2> QED
    BY <2>1 DEF ResourceTypes
<1>2. admission' = [launch[w].read EXCEPT !.oom = ooms + 1]
  BY DEF RecordOom
<1>3. /\ admission' \in StateTypes /\ admission'.oom = ooms + 1
      /\ admission'.hysteresis = launch[w].read.hysteresis
  BY <1>1, <1>2 DEF StateTypes
<1>4. NoLaunch \in LaunchTypes /\ NoLaunch.step = "idle"
  BY DEF NoLaunch, LaunchTypes
<1> QED
  BY <1>1, <1>3, <1>4 DEF RecordOom, ResourceTypes

-----------------------------------------------------------------------------
(* Every step keeps the invariant. *)

\* The types are kept by every step,
LEMMA ResourceTypesStep ==
  ASSUME ResourceTypes, [AdmissionNext]_admissionVars
  PROVE  ResourceTypes'
<1>1. CASE UNCHANGED admissionVars
  BY <1>1 DEF admissionVars, ResourceTypes
<1>2. ASSUME NEW w \in Launchers, Steps(w) PROVE ResourceTypes'
  <2>1. PICK r : Follows(w, r) /\ LaunchIs(w, r)
    BY <1>2, LauncherStep
  <2>2. launch' \in [Launchers -> LaunchTypes]
    BY <2>1, Placed DEF Follows, ResourceTypes
  <2> QED
    BY <1>2, <2>2, LauncherStep DEF ResourceTypes
<1>3. ASSUME NEW w \in Launchers, FinishProbe(w) PROVE ResourceTypes'
  <2>1. PICK raw \in Tiers : recentRaw' = Latest(Append(recentRaw, raw))
    BY <1>3, Decided
  <2>2. recentRaw' \in Seq(Tiers) /\ Len(recentRaw') <= RecoverySamples
    BY <2>1, LatestRaws DEF ResourceTypes
  <2>3. launch' \in [Launchers -> LaunchTypes]
    BY <1>3, Decided, Placed DEF ResourceTypes
  <2> QED
    BY <1>3, <2>2, <2>3, Decided DEF ResourceTypes
<1>4. ASSUME NEW w \in Launchers, RecordOom(w) PROVE ResourceTypes'
  <2>1. launch' \in [Launchers -> LaunchTypes]
    BY <1>4, OomRecorded, Placed DEF ResourceTypes
  <2> QED
    BY <1>4, <2>1, OomRecorded DEF ResourceTypes
<1>5. CASE CoolDown
  BY <1>5 DEF CoolDown, ResourceTypes
<1> QED
  BY <1>1, <1>2, <1>3, <1>4, <1>5 DEF AdmissionNext, Steps

\* and so is what holds until a race,
LEMMA UnracedStep ==
  ASSUME ResourceTypes, Unraced, [AdmissionNext]_admissionVars, ~raced'
  PROVE  Unraced'
<1> DEFINE Reading(l) == l.step = "probing" => l.read.oom = l.known
           Cleared(l) == l.step \in Active => Careful(l)
<1>0. \A x \in Launchers : Reading(launch[x]) /\ Cleared(launch[x])
  BY DEF Unraced, LaunchAt, Active
<1>q. ASSUME admission'.oom = ooms', Backed(admission.hysteresis, recentRaw)',
             \A x \in Launchers : Reading(launch'[x]) /\ Cleared(launch'[x])
      PROVE  Unraced'
  BY <1>q DEF Unraced, LaunchAt, Active
<1>p. ASSUME NEW w \in Launchers, NEW r \in LaunchTypes, LaunchIs(w, r), Reading(r), Cleared(r)
      PROVE  \A x \in Launchers : Reading(launch'[x]) /\ Cleared(launch'[x])
  <2> HIDE DEF Reading, Cleared
  <2> QED
    BY <1>0, <1>p, Placed DEF ResourceTypes
<1>1. CASE UNCHANGED admissionVars
  BY <1>1 DEF admissionVars, Unraced, LaunchAt
<1>2. ASSUME NEW w \in Launchers, Steps(w) PROVE Unraced'
  <2>1. UNCHANGED <<admission, ooms, recentRaw>>
    BY <1>2, LauncherStep
  <2>2. PICK r : Follows(w, r) /\ LaunchIs(w, r)
    BY <1>2, LauncherStep
  <2>3. Reading(r)
    BY <2>2 DEF Follows, Unraced
  <2>4. Cleared(r)
    BY <1>0, <2>2 DEF Follows, Careful
  <2>5. \A x \in Launchers : Reading(launch'[x]) /\ Cleared(launch'[x])
    BY <1>p, <2>2, <2>3, <2>4 DEF Follows
  <2> QED
    BY <1>q, <2>1, <2>5 DEF Unraced
<1>3. ASSUME NEW w \in Launchers, FinishProbe(w) PROVE Unraced'
  <2>1. /\ launch[w].step = "probing" /\ launch[w].read = admission /\ launch[w].read \in StateTypes
        /\ admission'.oom = launch[w].read.oom /\ ooms' = ooms /\ launch[w].known \in Nat
    BY <1>3, Decided
  <2>2. launch[w].known = launch[w].read.oom /\ admission.oom = ooms
    BY <1>0, <2>1 DEF Unraced
  <2>3. PICK raw \in Tiers : /\ recentRaw' = Latest(Append(recentRaw, raw))
                             /\ admission'.hysteresis = Hysteresis(raw, launch[w].read.hysteresis)
    BY <1>3, Decided
  <2>4. Backed(Hysteresis(raw, admission.hysteresis), Latest(Append(recentRaw, raw)))
    BY TierIsBacked DEF Unraced, ResourceTypes, StateTypes
  <2>5. Backed(admission.hysteresis, recentRaw)'
    BY <2>1, <2>3, <2>4
  <2>6. admission'.hysteresis.tier \in {"green", "yellow"} => Relaxed(recentRaw')
    BY <2>5 DEF Backed
  <2>7. PICK r \in LaunchTypes :
              /\ LaunchIs(w, r) /\ r.step # "probing"
              /\ r.step \in Active => /\ admission'.hysteresis.tier \in {"green", "yellow"}
                                      /\ r.route = "primary" => ~(launch[w].read.oom > cooled)
                                      /\ r.hot => launch[w].known > cooled
                                      /\ Relaxed(recentRaw') => r.calm
    BY <1>3, Decided
  <2>8. Reading(r) /\ Cleared(r)
    BY <2>2, <2>6, <2>7 DEF Careful
  <2>9. \A x \in Launchers : Reading(launch'[x]) /\ Cleared(launch'[x])
    BY <1>p, <2>7, <2>8
  <2> QED
    BY <1>q, <2>1, <2>2, <2>5, <2>9
<1>4. ASSUME NEW w \in Launchers, RecordOom(w) PROVE Unraced'
  <2>1. /\ admission'.oom = ooms' /\ admission'.hysteresis = admission.hysteresis /\ recentRaw' = recentRaw
        /\ NoLaunch \in LaunchTypes /\ NoLaunch.step = "idle" /\ LaunchIs(w, NoLaunch)
    BY <1>4, OomRecorded
  <2>2. Reading(NoLaunch) /\ Cleared(NoLaunch)
    BY <2>1 DEF Active
  <2>3. \A x \in Launchers : Reading(launch'[x]) /\ Cleared(launch'[x])
    BY <1>p, <2>1, <2>2
  <2> QED
    BY <1>q, <2>1, <2>3 DEF Unraced
<1>5. CASE CoolDown
  BY <1>5 DEF CoolDown, Unraced, LaunchAt
<1> QED
  BY <1>1, <1>2, <1>3, <1>4, <1>5 DEF AdmissionNext, Steps

\* and a race is not forgotten.
LEMMA RacedLasts ==
  ASSUME ResourceTypes, [AdmissionNext]_admissionVars, raced
  PROVE  raced'
<1>1. ASSUME NEW w \in Launchers, Steps(w) PROVE raced'
  BY <1>1, LauncherStep
<1>2. ASSUME NEW w \in Launchers, FinishProbe(w) \/ RecordOom(w) PROVE raced'
  BY <1>2, Decided, OomRecorded
<1>3. CASE UNCHANGED admissionVars \/ CoolDown
  BY <1>3 DEF admissionVars, CoolDown
<1> QED
  BY <1>1, <1>2, <1>3 DEF AdmissionNext, Steps

-----------------------------------------------------------------------------
(* The theorems. *)

\* The inductive invariant holds in every state: without a race the tier is
\* backed by the samples it was made of and all work is careful.
THEOREM AdmissionCorrect == AdmissionSpec => []ResourceInv
<1>1. AdmissionInit => ResourceInv
  <2> SUFFICES ASSUME AdmissionInit PROVE ResourceInv
    OBVIOUS
  <2>1. /\ Steady("none") \in HysteresisTypes /\ Steady("none").tier = "none"
        /\ Steady("none").count = 0
    BY DEF Steady, HysteresisTypes
  <2>2. admission = [plan |-> 0, hysteresis |-> Steady("none"), oom |-> 0]
    BY DEF AdmissionInit, NoAdmission
  <2>3. NoLaunch \in LaunchTypes /\ NoLaunch.step = "idle"
    BY DEF NoLaunch, LaunchTypes
  <2>4. recentRaw = <<>> /\ recentRaw \in Seq(Tiers) /\ Len(recentRaw) = 0 /\ 0 <= RecoverySamples
    BY AdmissionAssumption DEF AdmissionInit
  <2>5. admission \in StateTypes /\ admission.oom = 0 /\ admission.hysteresis = Steady("none")
    BY <2>1, <2>2 DEF StateTypes
  <2>6. ResourceTypes
    BY <2>3, <2>4, <2>5 DEF AdmissionInit, ResourceTypes
  <2>7. Backed(admission.hysteresis, recentRaw)
    BY <2>1, <2>4, <2>5 DEF Backed
  <2>8. \A w \in Launchers : launch[w].step = "idle"
    BY <2>3 DEF AdmissionInit
  <2>9. Unraced
    BY <2>5, <2>7, <2>8 DEF AdmissionInit, Unraced, LaunchAt
  <2> QED
    BY <2>6, <2>9 DEF ResourceInv
<1>2. ResourceInv /\ [AdmissionNext]_admissionVars => ResourceInv'
  BY ResourceTypesStep, UnracedStep, RacedLasts DEF ResourceInv
<1> QED
  BY <1>1, <1>2, PTL DEF AdmissionSpec

\* No GPU work that was admitted against the last samples runs, and none on the
\* primary route against a known out-of-memory end, for any number of launchers
\* and any length of the hysteresis, as long as nobody replaced a state that it
\* had not read (decide_resource_admission, record_resource_oom).
THEOREM LaunchesAreCautious == AdmissionSpec => []LaunchIsCautious
<1>1. ResourceInv => LaunchIsCautious
  BY DEF ResourceInv, Unraced, LaunchIsCautious, LaunchAt, Careful
<1> QED
  BY <1>1, AdmissionCorrect, PTL

-----------------------------------------------------------------------------
(* CompletedDelivery.  The inductive invariant is the model's CompletedInv:*)
(* what a child read is what it delivers, receipts are true, and every     *)
(* film is accounted for by a pair or a move.                              *)

\* A shelf stays one when a file of the right kind is put there or removed.
LEMMA ShelfPut ==
  ASSUME NEW s \in Shelves, NEW f \in Files, NEW x,
         \/ f = "subs" /\ x \in SubFiles
         \/ f = "film" /\ x \in Films
         \/ f = "proof" /\ x \in Proofs
         \/ f = "receipt" /\ x \in Receipts
  PROVE  [s EXCEPT ![f] = x] \in Shelves
  BY DEF Shelves, Files

LEMMA AbsentFits ==
  /\ Absent \in SubFiles /\ Absent \in Films /\ Absent \in Proofs /\ Absent \in Receipts
  /\ Bare \in Shelves
<1>1. Absent \in SubFiles /\ Absent \in Films /\ Absent \in Proofs /\ Absent \in Receipts
  BY DEF Absent, SubFiles, Films, Proofs, Receipts
<1> QED
  BY <1>1 DEF Bare, Shelves, Files

\* What one shelf holds fits the same place of another.
LEMMA ShelfMove ==
  ASSUME NEW s \in Shelves, NEW t \in Shelves, NEW f \in Files
  PROVE  /\ [s EXCEPT ![f] = t[f]] \in Shelves
         /\ [s EXCEPT ![f] = Absent] \in Shelves
<1>1. \/ f = "subs" /\ t[f] \in SubFiles
      \/ f = "film" /\ t[f] \in Films
      \/ f = "proof" /\ t[f] \in Proofs
      \/ f = "receipt" /\ t[f] \in Receipts
  BY DEF Shelves, Files
<1> QED
  BY <1>1, ShelfPut, AbsentFits DEF Files

\* Neither do files of two shelves that share none.
LEMMA ShelfMix ==
  ASSUME NEW s \in Shelves, NEW t \in Shelves, NEW S
  PROVE  /\ [f \in Files |-> IF f \in S THEN s[f] ELSE t[f]] \in Shelves
         /\ [f \in Files |-> IF f \in S THEN s[f] ELSE Absent] \in Shelves
  BY AbsentFits DEF Shelves, Files

LEMMA IdentityFits == ASSUME CompletedTypeOK PROVE Identity \in Targets
  BY DEF CompletedTypeOK, Identity, Targets

LEMMA MadeFits == ASSUME CompletedTypeOK PROVE Made \in Films
  BY DEF CompletedTypeOK, Made, Films, Shelves, SubFiles

\* The steps of the one who holds the lock keep the type of what he knows.
LEMMA HolderTypes ==
  ASSUME CompletedTypeOK
  PROVE  /\ NoMux \in Holders
         /\ \A x \in Places : [mux EXCEPT !.at = x] \in Holders
  BY DEF CompletedTypeOK, NoMux, Holders, Places

LEMMA OutcomeTypes ==
  ASSUME CompletedTypeOK
  PROVE  (Ends => mux' \in Holders) /\ (Raises => mux' \in Holders) /\ (Returns => mux' \in Holders)
<1>1. {"off", "verdict", "result", "rollback"} \subseteq Places
  BY DEF Places, Repairing
<1> QED
  BY <1>1, HolderTypes DEF Ends, Raises, Returns, Step

\* A publication replaces the subtitles and their manifest.
LEMMA PublishTypes ==
  ASSUME CompletedTypeOK, PublishSubs(written + 1)
  PROVE  onDisk' \in Shelves /\ written' \in Nat
<1>1. [text |-> written + 1] \in SubFiles /\ [text |-> written + 1, target |-> Identity] \in Proofs
  BY IdentityFits DEF CompletedTypeOK, SubFiles, Proofs
<1>2. [onDisk EXCEPT !["subs"] = [text |-> written + 1]] \in Shelves
  BY <1>1, ShelfPut DEF CompletedTypeOK, Files
<1>3. [[onDisk EXCEPT !["subs"] = [text |-> written + 1]]
         EXCEPT !["proof"] = [text |-> written + 1, target |-> Identity]] \in Shelves
  BY <1>1, <1>2, ShelfPut DEF Files
<1>4. onDisk' = [[onDisk EXCEPT !["subs"] = [text |-> written + 1]]
                  EXCEPT !["proof"] = [text |-> written + 1, target |-> Identity]]
  BY DEF PublishSubs
<1> QED
  BY <1>3, <1>4 DEF PublishSubs, CompletedTypeOK

LEMMA CompletedTypeStep == CompletedTypeOK /\ [CompletedNext]_completedVars => CompletedTypeOK'
<1> SUFFICES ASSUME CompletedTypeOK, [CompletedNext]_completedVars PROVE CompletedTypeOK'
  OBVIOUS
<1> USE HolderTypes, OutcomeTypes, AbsentFits DEF countVars
<1>1. CASE StartDelivery
  <2>1. mux' \in Holders
    <3>1. mux' = [by |-> "job", at |-> "publication", try |-> tries + 1, claim |-> Identity, text |-> 0, of |-> Absent]
      BY <1>1 DEF StartDelivery, NoMux
    <3> QED
      BY <3>1, IdentityFits DEF CompletedTypeOK, Holders, Places, Delivering
  <2>2. onDisk' \in Shelves /\ written' \in Nat
    <3>1. CASE UNCHANGED <<onDisk, written>>
      BY <3>1 DEF CompletedTypeOK
    <3>2. CASE PublishSubs(written + 1)
      BY <3>2, PublishTypes
    <3> QED
      BY <1>1, <3>1, <3>2 DEF StartDelivery
  <2> QED
    BY <1>1, <2>1, <2>2 DEF StartDelivery, CompletedTypeOK
<1>2. CASE ReadPublication
  <2>1. CASE Strict
    <3>1. mux' = [mux EXCEPT !.at = "identity", !.text = onDisk["subs"].text]
      BY <1>2, <2>1 DEF ReadPublication
    <3>2. mux' \in Holders
      BY <3>1 DEF CompletedTypeOK, Holders, Places, Delivering, Shelves, SubFiles
    <3> QED
      BY <1>2, <3>2 DEF ReadPublication, CompletedTypeOK
  <2>2. CASE ~Strict
    <3>1. mux' \in Holders
      BY <1>2, <2>2 DEF ReadPublication
    <3> QED
      BY <1>2, <3>1 DEF ReadPublication, CompletedTypeOK
  <2> QED
    BY <2>1, <2>2
<1>3. CASE ReadIdentity
  <2>1. [target |-> Identity, proof |-> onDisk["proof"]] \in Jobs
    BY IdentityFits DEF CompletedTypeOK, Shelves, Jobs
  <2> QED
    BY <1>3, <2>1 DEF ReadIdentity, CompletedTypeOK, Holders, Places, Delivering
<1>4. CASE LookAtReceipt
  BY <1>4 DEF LookAtReceipt, CompletedTypeOK, Step, Places, Delivering
<1>5. CASE WriteMarker
  BY <1>5 DEF WriteMarker, CompletedTypeOK, Step, Places, Delivering, Holders
<1>6. CASE ResumeMarker \/ DropMarker \/ VerifyOutput \/ AssertUnchanged
  BY <1>6
     DEF ResumeMarker, DropMarker, VerifyOutput, AssertUnchanged, CompletedTypeOK, Step,
         Places, Delivering
<1>7. CASE Make
  BY <1>7, MadeFits DEF Make, CompletedTypeOK, Step, Places, Delivering
<1>8. CASE Link
  <2>1. [onDisk EXCEPT !["film"] = staged] \in Shelves
    BY ShelfPut DEF CompletedTypeOK, Files
  <2> QED
    BY <1>8, <2>1 DEF Link, CompletedTypeOK, Step, Places, Delivering
<1>9. CASE Unstage \/ RemoveMarker
  BY <1>9 DEF Unstage, RemoveMarker, CompletedTypeOK, Step, Places, Delivering
<1>10. CASE WriteReceipt
  <2> DEFINE r == [of |-> mux.of, output |-> onDisk["film"], try |-> mux.try]
  <2>1. r \in Receipts
    BY DEF CompletedTypeOK, Shelves, Receipts, Holders
  <2>2. [onDisk EXCEPT !["receipt"] = r] \in Shelves
    BY <2>1, ShelfPut DEF CompletedTypeOK, Files
  <2> QED
    BY <1>10, <2>2 DEF WriteReceipt, CompletedTypeOK, Step, Places, Delivering
<1>11. CASE Verdict
  BY <1>11 DEF Verdict, CompletedTypeOK, Ends
<1>12. CASE BeginArchive \/ BeginRestore \/ Archived \/ BackedUp \/ Restored \/ FailMove
  BY <1>12 DEF BeginArchive, BeginRestore, Archived, BackedUp, Restored, FailMove, CompletedTypeOK,
               Step, Ends, Places, Moving
<1>13. CASE MoveOut
  <2>1. PICK f \in Files : aside' = [aside EXCEPT ![f] = onDisk[f]] /\ onDisk' = [onDisk EXCEPT ![f] = Absent]
    BY <1>13 DEF MoveOut
  <2>2. aside' \in Shelves /\ onDisk' \in Shelves
    BY <2>1, ShelfMove DEF CompletedTypeOK
  <2> QED
    BY <1>13, <2>2 DEF MoveOut, CompletedTypeOK
<1>14. CASE BringBack
  <2>1. PICK f \in Files : onDisk' = [onDisk EXCEPT ![f] = store[f]] /\ store' = [store EXCEPT ![f] = Absent]
    BY <1>14 DEF BringBack
  <2>2. store' \in Shelves /\ onDisk' \in Shelves
    BY <2>1, ShelfMove DEF CompletedTypeOK
  <2> QED
    BY <1>14, <2>2 DEF BringBack, CompletedTypeOK
<1>15. CASE UndoRestore
  <2>1. CASE onDisk = Bare
    BY <1>15, <2>1 DEF UndoRestore, CompletedTypeOK, Step, Places, Moving
  <2>2. CASE onDisk # Bare
    <3>1. PICK f \in Files : store' = [store EXCEPT ![f] = onDisk[f]] /\ onDisk' = [onDisk EXCEPT ![f] = Absent]
      BY <1>15, <2>2 DEF UndoRestore
    <3>2. store' \in Shelves /\ onDisk' \in Shelves
      BY <3>1, ShelfMove DEF CompletedTypeOK
    <3> QED
      BY <1>15, <2>2, <3>2 DEF UndoRestore, CompletedTypeOK
  <2> QED
    BY <2>1, <2>2
<1>16. CASE UndoMove
  <2>1. CASE aside = Bare
    BY <1>16, <2>1 DEF UndoMove, CompletedTypeOK, Ends
  <2>2. CASE aside # Bare
    <3>1. PICK f \in Files : onDisk' = [onDisk EXCEPT ![f] = aside[f]] /\ aside' = [aside EXCEPT ![f] = Absent]
      BY <1>16, <2>2 DEF UndoMove
    <3>2. aside' \in Shelves /\ onDisk' \in Shelves
      BY <3>1, ShelfMove DEF CompletedTypeOK
    <3> QED
      BY <1>16, <2>2, <3>2 DEF UndoMove, CompletedTypeOK
  <2> QED
    BY <2>1, <2>2
<1>17. CASE FailJob \/ DieDelivering \/ DieRepairing \/ DieMoving
  BY <1>17 DEF FailJob, DieDelivering, DieRepairing, DieMoving, CompletedTypeOK, Step, Places
<1>18. CASE ReplaceSource \/ ChangePolicy
  BY <1>18 DEF ReplaceSource, ChangePolicy, CompletedTypeOK
<1>19. CASE EditSubtitles
  <2>1. [text |-> written + 1] \in SubFiles
    BY DEF CompletedTypeOK, SubFiles
  <2>2. [onDisk EXCEPT !["subs"] = [text |-> written + 1]] \in Shelves
    BY <2>1, ShelfPut DEF CompletedTypeOK, Files
  <2> QED
    BY <1>19, <2>2 DEF EditSubtitles, CompletedTypeOK
<1>20. CASE StartRepair
  <2>1. PICK b \in {"order", "hand"} :
          mux' = [NoMux EXCEPT !.by = b, !.at = "repair", !.try = tries + 1,
                              !.claim = IF b = "order" THEN Identity ELSE Absent]
    BY <1>20 DEF StartRepair
  <2>2. mux' \in Holders
    <3>1. mux' = [by |-> b, at |-> "repair", try |-> tries + 1,
                  claim |-> IF b = "order" THEN Identity ELSE Absent, text |-> 0, of |-> Absent]
      BY <2>1 DEF NoMux
    <3> QED
      BY <3>1, IdentityFits DEF CompletedTypeOK, Holders, Places, Repairing
  <2>3. aside' \in Shelves
    <3>1. aside' = [f \in Files |-> IF f \in Copied THEN onDisk[f] ELSE Absent]
      BY <1>20 DEF StartRepair
    <3> QED
      BY <3>1, ShelfMix DEF CompletedTypeOK
  <2> QED
    BY <1>20, <2>2, <2>3 DEF StartRepair, CompletedTypeOK
<1>21. CASE RetranslateLines
  BY <1>21, PublishTypes DEF RetranslateLines, CompletedTypeOK, Step, Places, Delivering
<1>22. CASE FinishRepair
  BY <1>22 DEF FinishRepair, CompletedTypeOK, Step, Places
<1>23. CASE CopyBack
  <2>1. PICK S \in SUBSET Copied : onDisk' = [f \in Files |-> IF f \in S THEN aside[f] ELSE onDisk[f]]
    BY <1>23 DEF CopyBack
  <2>2. onDisk' \in Shelves
    BY <2>1, ShelfMix DEF CompletedTypeOK
  <2> QED
    BY <1>23, <2>2 DEF CopyBack, CompletedTypeOK
<1>24. CASE FailUndo
  <2>1. PICK S \in SUBSET {f \in Files : ~There(f)} :
          onDisk' = [f \in Files |-> IF f \in S THEN aside[f] ELSE onDisk[f]]
    BY <1>24 DEF FailUndo
  <2>2. onDisk' \in Shelves
    BY <2>1, ShelfMix DEF CompletedTypeOK
  <2> QED
    BY <1>24, <2>2 DEF FailUndo, CompletedTypeOK
<1>25. CASE UNCHANGED completedVars
  BY <1>25 DEF completedVars, CompletedTypeOK
<1> QED
  BY <1>1, <1>2, <1>3, <1>4, <1>5, <1>6, <1>7, <1>8, <1>9, <1>10, <1>11, <1>12, <1>13, <1>14, <1>15,
     <1>16, <1>17, <1>18, <1>19, <1>20, <1>21, <1>22, <1>23, <1>24, <1>25
     DEF CompletedNext

\* Every variable has its type.
THEOREM CompletedTypeCorrect == CompletedSpec => []CompletedTypeOK
<1>1. CompletedInit => CompletedTypeOK
  <2>1. NoMux \in Holders
    BY DEF NoMux, Holders, Places
  <2>2. 0 \in Nat /\ 1 \in Nat
    OBVIOUS
  <2> QED
    BY <2>1, <2>2, AbsentFits, Zenon DEF CompletedInit, CompletedTypeOK
<1> QED
  BY <1>1, CompletedTypeStep, PTL DEF CompletedSpec

-----------------------------------------------------------------------------
(* What the child read is what it delivers. *)

\* A subtitle file, a manifest and a film have the parts that are compared.
LEMMA Parts ==
  ASSUME CompletedTypeOK
  PROVE  /\ onDisk["subs"].text \in Nat /\ aside["subs"].text \in Nat /\ store["subs"].text \in Nat
         /\ onDisk["proof"].text \in Nat /\ mux.text \in Nat /\ medium \in Nat /\ written \in Nat
         /\ Subject # Absent => Subject.media \in Nat /\ Subject.text \in Nat
         /\ mux.of # Absent => mux.of.target.media \in Nat /\ mux.of.proof.text \in Nat
<1> USE DEF CompletedTypeOK, Shelves, SubFiles, Films, Proofs, Absent
<1>1. onDisk["subs"].text \in Nat /\ aside["subs"].text \in Nat /\ store["subs"].text \in Nat
  OBVIOUS
<1>2. onDisk["proof"].text \in Nat
  OBVIOUS
<1>3. Subject # Absent => Subject.media \in Nat /\ Subject.text \in Nat
  BY DEF Subject, There
<1>4. mux.of # Absent => mux.of.target.media \in Nat /\ mux.of.proof.text \in Nat
  BY DEF Holders, Jobs, Targets
<1> QED
  BY <1>1, <1>2, <1>3, <1>4 DEF Holders

\* Nothing is asked of one who neither delivers nor has read anything newer.
LEMMA AtRest ==
  ASSUME mux.at' \in {"off", "verdict"} \cup Repairing \cup Moving,
         mux.text' <= written', onDisk["subs"].text' <= written',
         aside["subs"].text' <= written', store["subs"].text' <= written'
  PROVE  ReadIsDelivered'
  BY DEF ReadIsDelivered, MuxAt, Moving, Repairing

LEMMA ReadStep ==
  CompletedTypeOK /\ ReadIsDelivered /\ [CompletedNext]_completedVars => ReadIsDelivered'
<1> SUFFICES ASSUME CompletedTypeOK, ReadIsDelivered, [CompletedNext]_completedVars
             PROVE  ReadIsDelivered'
  OBVIOUS
<1> USE Parts DEF countVars
<1>0. /\ mux \in Holders /\ DOMAIN onDisk = Files
  BY DEF CompletedTypeOK, Shelves
<1>e. Ends => mux'.at = "off" /\ mux'.text = 0
  BY DEF Ends, NoMux
<1>s. ASSUME NEW x, Step(x) PROVE mux'.at = x /\ mux'.text = mux.text /\ mux'.of = mux.of
  BY <1>s, <1>0 DEF Step, Holders
<1>r. Raises \/ Returns => mux'.at \in {"off", "verdict"} \cup Repairing /\ mux'.text \in {0, mux.text}
  BY <1>e, <1>s DEF Raises, Returns, Repairing
<1>2. CASE ReadPublication
  <2>1. CASE Strict
    <3>1. mux'.at = "identity" /\ mux'.text = onDisk["subs"].text
      BY <1>2, <2>1, <1>0 DEF ReadPublication, Holders
    <3>2. onDisk["subs"].text = onDisk["proof"].text
      BY <2>1 DEF Strict
    <3> QED
      BY <1>2, <3>1, <3>2 DEF ReadPublication, ReadIsDelivered, MuxAt
  <2>2. CASE ~Strict
    BY <1>2, <2>2, <1>r, AtRest DEF ReadPublication, ReadIsDelivered
  <2> QED
    BY <2>1, <2>2
<1>3. CASE ReadIdentity
  <2>1. /\ mux'.at = "look" /\ mux'.text = mux.text
        /\ mux'.of = [target |-> Identity, proof |-> onDisk["proof"]]
    BY <1>3, <1>0 DEF ReadIdentity, Holders
  <2>2. mux'.of # Absent
    BY <2>1 DEF Absent
  <2>3. mux'.of.target.media = medium /\ mux'.of.proof = onDisk["proof"]
    BY <2>1 DEF Identity
  <2> QED
    BY <1>3, <2>1, <2>2, <2>3 DEF ReadIdentity, ReadIsDelivered, MuxAt
<1>4. CASE LookAtReceipt
  <2>1. CASE Step("mark")
    BY <1>4, <2>1, <1>s DEF LookAtReceipt, ReadIsDelivered, MuxAt
  <2>2. CASE Raises \/ Returns
    BY <1>4, <2>2, <1>r, AtRest DEF LookAtReceipt, ReadIsDelivered
  <2> QED
    BY <1>4, <2>1, <2>2 DEF LookAtReceipt
<1>5. CASE WriteMarker \/ ResumeMarker
  BY <1>5, <1>s DEF WriteMarker, ResumeMarker, ReadIsDelivered, MuxAt
<1>5a. CASE DropMarker
  <2>1. CASE There("film")
    BY <1>5a, <2>1, <1>r, AtRest DEF DropMarker, ReadIsDelivered
  <2>2. CASE ~There("film")
    BY <1>5a, <2>2 DEF DropMarker, ReadIsDelivered, MuxAt
  <2> QED
    BY <2>1, <2>2
<1>6. CASE Make
  BY <1>6, <1>s DEF Make, ReadIsDelivered, MuxAt
<1>7. CASE VerifyOutput
  <2>1. CASE Made = Subject
    <3>1. mux'.at = "assert" /\ mux'.text = mux.text /\ mux'.of = mux.of
      BY <1>7, <2>1, <1>s DEF VerifyOutput, Subject
    <3>2. Subject # Absent /\ Subject.media = medium /\ Subject.text = onDisk["subs"].text
      BY <2>1 DEF Made, Absent
    <3>3. Subject' = Subject
      BY <1>7 DEF VerifyOutput, Subject, There
    <3> QED
      BY <1>7, <3>1, <3>2, <3>3 DEF VerifyOutput, ReadIsDelivered, MuxAt
  <2>2. CASE Made # Subject
    <3>1. Raises
      BY <1>7, <2>2 DEF VerifyOutput, Subject
    <3> QED
      BY <1>7, <3>1, <1>r, AtRest DEF VerifyOutput, ReadIsDelivered
  <2> QED
    BY <2>1, <2>2
<1>8. CASE AssertUnchanged
  <2> DEFINE same == medium = mux.of.target.media /\ onDisk["proof"] = mux.of.proof /\ onDisk["subs"].text = mux.text
  <2>1. CASE same
    <3>1. /\ Subject # Absent /\ Subject.media = mux.of.target.media
          /\ Subject.text = mux.of.proof.text
      BY <1>8, <2>1 DEF AssertUnchanged, ReadIsDelivered, MuxAt
    <3>2. Subject = Fruit(mux.of)
      BY <3>1 DEF Fruit, Subject, There, CompletedTypeOK, Shelves, Films
    <3>3. CASE There("film")
      <4>1. mux'.at = "receipt" /\ mux'.text = mux.text /\ mux'.of = mux.of
        BY <1>8, <2>1, <3>3, <1>s DEF AssertUnchanged
      <4> QED
        BY <1>8, <3>2, <3>3, <4>1 DEF AssertUnchanged, ReadIsDelivered, MuxAt, Subject, There, Fruit
    <3>4. CASE ~There("film")
      <4>1. mux'.at = "link" /\ mux'.text = mux.text /\ mux'.of = mux.of
        BY <1>8, <2>1, <3>4, <1>s DEF AssertUnchanged
      <4> QED
        BY <1>8, <3>2, <3>4, <4>1 DEF AssertUnchanged, ReadIsDelivered, MuxAt, Subject, There, Fruit
    <3> QED
      BY <3>3, <3>4
  <2>2. CASE ~same
    BY <1>8, <2>2, <1>r, AtRest DEF AssertUnchanged, ReadIsDelivered
  <2> QED
    BY <2>1, <2>2
<1>9. CASE Link
  <2>1. mux'.at = "unlink" /\ mux'.text = mux.text /\ mux'.of = mux.of
    BY <1>9, <1>s DEF Link
  <2>2. onDisk'["film"] = staged /\ onDisk'["subs"] = onDisk["subs"]
    BY <1>9, <1>0 DEF Link, Files
  <2>3. staged = Fruit(mux.of) /\ staged # Absent
    BY <1>9 DEF Link, ReadIsDelivered, MuxAt, Fruit, Absent
  <2> QED
    BY <1>9, <2>1, <2>2, <2>3 DEF Link, ReadIsDelivered, MuxAt, There, Fruit
<1>10. CASE Unstage
  BY <1>10, <1>s DEF Unstage, ReadIsDelivered, MuxAt, There, Fruit
<1>11. CASE WriteReceipt
  <2>1. mux'.at = "unmark" /\ mux'.text = mux.text /\ mux'.of = mux.of
    BY <1>11, <1>s DEF WriteReceipt
  <2>2. /\ onDisk'["receipt"] = [of |-> mux.of, output |-> onDisk["film"], try |-> mux.try]
        /\ onDisk'["film"] = onDisk["film"] /\ onDisk'["subs"] = onDisk["subs"]
    BY <1>11, <1>0 DEF WriteReceipt, Files
  <2>3. onDisk'["receipt"].output = onDisk["film"] /\ onDisk'["receipt"] # Absent
    BY <2>2 DEF Absent
  <2> QED
    BY <1>11, <2>1, <2>2, <2>3 DEF WriteReceipt, ReadIsDelivered, MuxAt, There
<1>b. Bare["subs"].text = 0 /\ Absent.text = 0 /\ "subs" \in Files
  BY DEF Bare, Absent, Files
<1>t. mux.text <= written /\ onDisk["subs"].text <= written /\ aside["subs"].text <= written
      /\ store["subs"].text <= written /\ 0 <= written
  BY DEF ReadIsDelivered
<1>12. CASE StartDelivery
  <2>1. mux'.at = "publication" /\ mux'.text = 0
    BY <1>12 DEF StartDelivery, NoMux
  <2>2. onDisk'["subs"].text <= written' /\ written <= written' /\ written' \in Nat
    BY <1>12, <1>0, <1>t DEF StartDelivery, PublishSubs, Files
  <2>3. aside' = aside /\ store' = store
    BY <1>12 DEF StartDelivery
  <2> QED
    BY <2>1, <2>2, <2>3, <1>t DEF ReadIsDelivered, MuxAt
<1>13. CASE RemoveMarker
  BY <1>13, <1>r, <1>t, AtRest DEF RemoveMarker
<1>14. CASE Verdict
  BY <1>14, <1>e, <1>t, AtRest DEF Verdict
<1>15. CASE BeginArchive \/ BeginRestore
  BY <1>15, <1>s, <1>t, <1>b, AtRest DEF BeginArchive, BeginRestore, Moving
<1>16. CASE Archived \/ BackedUp \/ Restored
  BY <1>16, <1>s, <1>e, <1>t, <1>b, AtRest DEF Archived, BackedUp, Restored, Moving
<1>17. CASE FailMove
  BY <1>17, <1>s, <1>t, AtRest DEF FailMove, Moving
<1>18. CASE MoveOut
  <2>1. PICK f \in Files : aside' = [aside EXCEPT ![f] = onDisk[f]] /\ onDisk' = [onDisk EXCEPT ![f] = Absent]
    BY <1>18 DEF MoveOut
  <2>2. onDisk'["subs"].text <= written /\ aside'["subs"].text <= written
    BY <2>1, <1>0, <1>t, <1>b DEF CompletedTypeOK, Shelves
  <2> QED
    BY <1>18, <2>2, <1>t, AtRest DEF MoveOut, Moving
<1>19. CASE BringBack
  <2>1. PICK f \in Files : onDisk' = [onDisk EXCEPT ![f] = store[f]] /\ store' = [store EXCEPT ![f] = Absent]
    BY <1>19 DEF BringBack
  <2>2. onDisk'["subs"].text <= written /\ store'["subs"].text <= written
    BY <2>1, <1>0, <1>t, <1>b DEF CompletedTypeOK, Shelves
  <2> QED
    BY <1>19, <2>2, <1>t, AtRest DEF BringBack, Moving, MuxAt
<1>20. CASE UndoRestore
  <2>1. CASE onDisk = Bare
    BY <1>20, <2>1, <1>s, <1>t, AtRest DEF UndoRestore, Moving
  <2>2. CASE onDisk # Bare
    <3>1. PICK f \in Files : store' = [store EXCEPT ![f] = onDisk[f]] /\ onDisk' = [onDisk EXCEPT ![f] = Absent]
      BY <1>20, <2>2 DEF UndoRestore
    <3>2. onDisk'["subs"].text <= written /\ store'["subs"].text <= written
      BY <3>1, <1>0, <1>t, <1>b DEF CompletedTypeOK, Shelves
    <3> QED
      BY <1>20, <2>2, <3>2, <1>t, AtRest DEF UndoRestore, Moving, MuxAt
  <2> QED
    BY <2>1, <2>2
<1>21. CASE UndoMove
  <2>1. CASE aside = Bare
    BY <1>21, <2>1, <1>e, <1>t, AtRest DEF UndoMove
  <2>2. CASE aside # Bare
    <3>1. PICK f \in Files : onDisk' = [onDisk EXCEPT ![f] = aside[f]] /\ aside' = [aside EXCEPT ![f] = Absent]
      BY <1>21, <2>2 DEF UndoMove
    <3>2. onDisk'["subs"].text <= written /\ aside'["subs"].text <= written
      BY <3>1, <1>0, <1>t, <1>b DEF CompletedTypeOK, Shelves
    <3> QED
      BY <1>21, <2>2, <3>2, <1>t, AtRest DEF UndoMove, Moving, MuxAt
  <2> QED
    BY <2>1, <2>2
<1>22. CASE FailJob
  BY <1>22, <1>r, <1>t, AtRest DEF FailJob
<1>22a. CASE DieDelivering \/ DieRepairing \/ DieMoving
  BY <1>22a, <1>s, <1>e, <1>t, <1>b, AtRest DEF DieDelivering, DieRepairing, DieMoving
<1>23. CASE ReplaceSource
  BY <1>23 DEF ReplaceSource, ReadIsDelivered, MuxAt, Subject, There, Fruit
<1>24. CASE ChangePolicy \/ UNCHANGED completedVars
  BY <1>24 DEF ChangePolicy, completedVars, ReadIsDelivered, MuxAt, Subject, There, Fruit
<1>25. CASE EditSubtitles
  <2>1. onDisk'["subs"].text = written + 1 /\ written' = written + 1
    BY <1>25, <1>0 DEF EditSubtitles, Files
  <2>2. \A f \in {"film", "proof", "receipt"} : onDisk'[f] = onDisk[f]
    BY <1>25, <1>0 DEF EditSubtitles, Files
  <2>3. Subject' = Subject /\ mux' = mux /\ medium' = medium /\ mark' = mark
    BY <1>25, <2>2 DEF EditSubtitles, Subject, There
  <2> QED
    BY <1>25, <1>t, <2>1, <2>2, <2>3 DEF EditSubtitles, ReadIsDelivered, MuxAt, There, Fruit
<1>26. CASE StartRepair
  <2>1. mux'.at = "repair" /\ mux'.text = 0
    BY <1>26 DEF StartRepair, NoMux
  <2>2. aside'["subs"] = onDisk["subs"]
    BY <1>26, <1>b DEF StartRepair, Copied
  <2> QED
    BY <1>26, <2>1, <2>2, <1>t, AtRest DEF StartRepair, Repairing
<1>27. CASE RetranslateLines
  <2>1. onDisk'["subs"].text = written + 1 /\ written' = written + 1
    BY <1>27, <1>0 DEF RetranslateLines, PublishSubs, Files
  <2>2. mux'.at = "publication" /\ mux'.text = mux.text
    BY <1>27, <1>s DEF RetranslateLines
  <2>3. aside' = aside /\ store' = store
    BY <1>27 DEF RetranslateLines
  <2> QED
    BY <2>1, <2>2, <2>3, <1>t DEF ReadIsDelivered, MuxAt
<1>28. CASE FinishRepair
  BY <1>28, <1>s, <1>t, <1>b, AtRest DEF FinishRepair
<1>29. CASE CopyBack
  <2>1. onDisk'["subs"] \in {onDisk["subs"], aside["subs"]}
    BY <1>29, <1>b DEF CopyBack
  <2> QED
    BY <1>29, <2>1, <1>e, <1>t, <1>b, AtRest DEF CopyBack
<1>30. CASE FailUndo
  <2>1. onDisk'["subs"] \in {onDisk["subs"], aside["subs"]}
    BY <1>30, <1>b DEF FailUndo
  <2> QED
    BY <1>30, <2>1, <1>e, <1>t, <1>b, AtRest DEF FailUndo
<1> QED
  BY <1>2, <1>3, <1>4, <1>5, <1>6, <1>7, <1>8, <1>9, <1>10, <1>11, <1>12, <1>13, <1>14, <1>15,
     <1>16, <1>17, <1>18, <1>19, <1>20, <1>21, <1>22, <1>23, <1>24, <1>25, <1>26, <1>5a, <1>22a,
     <1>27, <1>28, <1>29, <1>30
     DEF CompletedNext

-----------------------------------------------------------------------------
(* Receipts tell the truth. *)

ReceiptsTrue == \A s \in {onDisk, aside, store} : ReceiptTrue(s)

\* It depends on the receipt alone, and no receipt is a true one.
LEMMA ReceiptMoved ==
  /\ \A s, t : s["receipt"] = t["receipt"] => (ReceiptTrue(s) <=> ReceiptTrue(t))
  /\ ReceiptTrue(Bare)
  /\ \A s : s["receipt"] = Absent => ReceiptTrue(s)
  BY DEF ReceiptTrue, Bare, Files, Fruit

LEMMA ReceiptsStep ==
  CompletedTypeOK /\ ReadIsDelivered /\ ReceiptsTrue /\ [CompletedNext]_completedVars => ReceiptsTrue'
<1> SUFFICES ASSUME CompletedTypeOK, ReadIsDelivered, ReceiptsTrue, [CompletedNext]_completedVars
             PROVE  ReceiptsTrue'
  OBVIOUS
<1>0. DOMAIN onDisk = Files /\ DOMAIN aside = Files /\ DOMAIN store = Files /\ "receipt" \in Files
  BY DEF CompletedTypeOK, Shelves, Files
<1>t. ReceiptTrue(onDisk) /\ ReceiptTrue(aside) /\ ReceiptTrue(store) /\ ReceiptTrue(Bare)
  BY ReceiptMoved DEF ReceiptsTrue
<1>q. SUFFICES ReceiptTrue(onDisk') /\ ReceiptTrue(aside') /\ ReceiptTrue(store')
  BY DEF ReceiptsTrue, ReceiptTrue, Fruit
<1>1. CASE WriteReceipt
  <2>1. onDisk'["receipt"] = [of |-> mux.of, output |-> onDisk["film"], try |-> mux.try]
    BY <1>1, <1>0 DEF WriteReceipt
  <2>2. onDisk["film"] = Fruit(mux.of)
    BY <1>1 DEF WriteReceipt, ReadIsDelivered, MuxAt
  <2>3. ReceiptTrue(onDisk')
    BY <2>1, <2>2 DEF ReceiptTrue
  <2> QED
    BY <1>1, <2>3, <1>t DEF WriteReceipt
<1>2. CASE StartDelivery \/ Link \/ EditSubtitles \/ RetranslateLines
  <2>1. onDisk'["receipt"] = onDisk["receipt"] /\ aside' = aside /\ store' = store
    BY <1>2, <1>0 DEF StartDelivery, PublishSubs, Link, EditSubtitles, RetranslateLines
  <2> QED
    BY <2>1, <1>t, ReceiptMoved
<1>3. CASE MoveOut
  <2>1. PICK f \in Files : aside' = [aside EXCEPT ![f] = onDisk[f]] /\ onDisk' = [onDisk EXCEPT ![f] = Absent]
    BY <1>3 DEF MoveOut
  <2>2. /\ aside'["receipt"] \in {aside["receipt"], onDisk["receipt"]}
        /\ onDisk'["receipt"] \in {onDisk["receipt"], Absent}
    BY <2>1, <1>0
  <2> QED
    BY <1>3, <2>2, <1>t, ReceiptMoved DEF MoveOut
<1>4. CASE BringBack
  <2>1. PICK f \in Files : onDisk' = [onDisk EXCEPT ![f] = store[f]] /\ store' = [store EXCEPT ![f] = Absent]
    BY <1>4 DEF BringBack
  <2>2. /\ onDisk'["receipt"] \in {onDisk["receipt"], store["receipt"]}
        /\ store'["receipt"] \in {store["receipt"], Absent}
    BY <2>1, <1>0
  <2> QED
    BY <1>4, <2>2, <1>t, ReceiptMoved DEF BringBack
<1>5. CASE UndoRestore
  <2>1. CASE onDisk = Bare
    BY <1>5, <2>1, <1>t DEF UndoRestore
  <2>2. CASE onDisk # Bare
    <3>1. PICK f \in Files : store' = [store EXCEPT ![f] = onDisk[f]] /\ onDisk' = [onDisk EXCEPT ![f] = Absent]
      BY <1>5, <2>2 DEF UndoRestore
    <3>2. /\ store'["receipt"] \in {onDisk["receipt"], store["receipt"]}
          /\ onDisk'["receipt"] \in {onDisk["receipt"], Absent}
      BY <3>1, <1>0
    <3> QED
      BY <1>5, <3>2, <1>t, ReceiptMoved DEF UndoRestore
  <2> QED
    BY <2>1, <2>2
<1>6. CASE UndoMove
  <2>1. CASE aside = Bare
    BY <1>6, <2>1, <1>t DEF UndoMove
  <2>2. CASE aside # Bare
    <3>1. PICK f \in Files : onDisk' = [onDisk EXCEPT ![f] = aside[f]] /\ aside' = [aside EXCEPT ![f] = Absent]
      BY <1>6, <2>2 DEF UndoMove
    <3>2. /\ onDisk'["receipt"] \in {onDisk["receipt"], aside["receipt"]}
          /\ aside'["receipt"] \in {aside["receipt"], Absent}
      BY <3>1, <1>0
    <3> QED
      BY <1>6, <3>2, <1>t, ReceiptMoved DEF UndoMove
  <2> QED
    BY <2>1, <2>2
<1>7. CASE BeginArchive \/ BeginRestore \/ Archived \/ Restored \/ DieMoving
  BY <1>7, <1>t DEF BeginArchive, BeginRestore, Archived, Restored, DieMoving
<1>8. CASE ReadPublication \/ ReadIdentity \/ LookAtReceipt \/ WriteMarker \/ ResumeMarker \/ DropMarker \/ Make
           \/ VerifyOutput \/ AssertUnchanged \/ Unstage \/ RemoveMarker \/ Verdict
  BY <1>8, <1>t
     DEF ReadPublication, ReadIdentity, LookAtReceipt, WriteMarker, ResumeMarker, DropMarker, Make,
               VerifyOutput, AssertUnchanged, Unstage, RemoveMarker, Verdict
<1>10. CASE StartRepair
  <2>1. aside'["receipt"] = Absent
    BY <1>10, <1>0 DEF StartRepair, Copied
  <2> QED
    BY <1>10, <2>1, <1>t, ReceiptMoved DEF StartRepair
<1>11. CASE CopyBack
  <2>1. onDisk'["receipt"] = onDisk["receipt"]
    BY <1>11, <1>0 DEF CopyBack, Copied
  <2> QED
    BY <1>11, <2>1, <1>t, ReceiptMoved DEF CopyBack
<1>12. CASE FailUndo
  <2>1. onDisk'["receipt"] \in {onDisk["receipt"], aside["receipt"]}
    BY <1>12, <1>0 DEF FailUndo
  <2> QED
    BY <1>12, <2>1, <1>t, ReceiptMoved DEF FailUndo
<1>13. CASE FinishRepair \/ DieRepairing
  BY <1>13, <1>t DEF FinishRepair, DieRepairing
<1>9. CASE BackedUp \/ FailMove \/ FailJob \/ DieDelivering \/ ReplaceSource \/ ChangePolicy \/ UNCHANGED completedVars
  BY <1>9, <1>t
     DEF BackedUp, FailMove, FailJob, DieDelivering, ReplaceSource, ChangePolicy, completedVars
<1> QED
  BY <1>1, <1>2, <1>3, <1>4, <1>5, <1>6, <1>7, <1>8, <1>9, <1>10, <1>11, <1>12, <1>13 DEF CompletedNext

-----------------------------------------------------------------------------
(* Film and receipt through the moves. *)

\* A move from one shelf to the other changes neither what both hold
\* together nor that they share nothing.
LEMMA MoveKeepsJoin ==
  ASSUME NEW s \in Shelves, NEW t \in Shelves, NEW f \in Files, Disjoint(s, t)
  PROVE  /\ s[f] # Absent =>
              /\ Disjoint([s EXCEPT ![f] = Absent], [t EXCEPT ![f] = s[f]])
              /\ Joined([s EXCEPT ![f] = Absent], [t EXCEPT ![f] = s[f]]) = Joined(s, t)
         /\ t[f] # Absent =>
              /\ Disjoint([s EXCEPT ![f] = t[f]], [t EXCEPT ![f] = Absent])
              /\ Joined([s EXCEPT ![f] = t[f]], [t EXCEPT ![f] = Absent]) = Joined(s, t)
<1>1. DOMAIN s = Files /\ DOMAIN t = Files
  BY DEF Shelves
<1>2. s[f] = Absent \/ t[f] = Absent
  BY DEF Disjoint
<1> QED
  BY <1>1, <1>2 DEF Disjoint, Joined

LEMMA JoinWithBare ==
  ASSUME NEW s
  PROVE  /\ Disjoint(Bare, s) /\ Disjoint(s, Bare)
         /\ Paired(Joined(Bare, s)) <=> Paired(s)
         /\ Paired(Joined(s, Bare)) <=> Paired(s)
<1>1. \A f \in Files : Bare[f] = Absent
  BY DEF Bare
<1>2. \A f \in Files : Joined(Bare, s)[f] = s[f] /\ Joined(s, Bare)[f] = s[f]
  BY <1>1 DEF Joined
<1> QED
  BY <1>1, <1>2 DEF Disjoint, Paired, Files

\* A truthful receipt beside its film accounts for it.
LEMMA PairAccounts ==
  ASSUME ReceiptTrue(onDisk), Paired(onDisk) PROVE ~There("film") \/ Accounted
  BY DEF ReceiptTrue, Paired, There, Accounted

\* And without a marker nothing else does.
LEMMA AccountedPairs ==
  ASSUME mark = Absent, ~There("film") \/ Accounted PROVE Paired(onDisk)
  BY DEF Paired, There, Accounted

FilmInv == FilmAccounted /\ (MovesPaired \/ disowned)

LEMMA FilmStep ==
  CompletedTypeOK /\ ReadIsDelivered /\ ReceiptsTrue /\ ReceiptsTrue' /\ FilmInv
    /\ [CompletedNext]_completedVars => FilmInv'
<1> SUFFICES ASSUME CompletedTypeOK, ReadIsDelivered, ReceiptsTrue, ReceiptsTrue', FilmInv,
                    [CompletedNext]_completedVars
             PROVE  FilmInv'
  OBVIOUS
<1>d. CASE disowned'
  BY <1>d DEF FilmInv, FilmAccounted
<1>n. CASE ~disowned'
  <2> USE <1>n
  <2>0. ~disowned
    BY DEF CompletedNext, completedVars, countVars, StartDelivery, ReadPublication, ReadIdentity,
           LookAtReceipt, WriteMarker, ResumeMarker, DropMarker, Make, VerifyOutput,
           AssertUnchanged, Link, Unstage, WriteReceipt, RemoveMarker, Verdict, BeginArchive,
           BeginRestore, MoveOut, Archived, BackedUp, BringBack, Restored, FailMove, UndoRestore,
           FailUndo, UndoMove, StartRepair, RetranslateLines, FinishRepair, CopyBack, FailJob,
           DieDelivering, DieRepairing, DieMoving, ReplaceSource, ChangePolicy, EditSubtitles
  <2>m. MovesPaired /\ (mux.at \notin Moving => ~There("film") \/ Accounted)
    BY <2>0 DEF FilmInv, FilmAccounted
  <2>k. DOMAIN onDisk = Files /\ mux \in Holders
    BY DEF CompletedTypeOK, Shelves
  <2>e. Ends => mux'.at = "off"
    BY DEF Ends, NoMux
  <2>s. ASSUME NEW x, Step(x) PROVE mux'.at = x
    BY <2>s, <2>k DEF Step, Holders
  <2> SUFFICES MovesPaired' /\ (mux'.at \notin Moving => (~There("film") \/ Accounted)')
    BY DEF FilmInv, FilmAccounted
  <2>x. Raises \/ Returns => mux'.at \notin Moving
    BY <2>e, <2>s DEF Raises, Returns, Moving
  <2>1. CASE StartDelivery \/ EditSubtitles \/ StartRepair \/ RetranslateLines \/ CopyBack
    <3>1. /\ onDisk'["film"] = onDisk["film"] /\ onDisk'["receipt"] = onDisk["receipt"]
          /\ mux'.at \notin Moving /\ mux.at \notin Moving /\ store' = store /\ mark' = mark
      BY <2>1, <2>k, <2>e, <2>s
         DEF StartDelivery, EditSubtitles, StartRepair, RetranslateLines, CopyBack, Copied,
             PublishSubs, Files, NoMux, Moving, MuxAt
    <3> QED
      BY <3>1, <2>m DEF MovesPaired, Moving, Accounted, There, Fruit
  <2>2. CASE ReadPublication \/ ReadIdentity \/ ResumeMarker \/ Make \/ VerifyOutput \/ AssertUnchanged
              \/ Unstage \/ Verdict \/ FailJob \/ DieDelivering \/ DieRepairing \/ FinishRepair
    <3>1. /\ onDisk' = onDisk /\ store' = store /\ mark' = mark
          /\ mux'.at \notin Moving /\ mux.at \notin Moving
      BY <2>2, <2>k, <2>e, <2>s, <2>x
         DEF ReadPublication, ReadIdentity, ResumeMarker, Make, VerifyOutput, AssertUnchanged,
         Unstage, Verdict, FailJob, DieDelivering, DieRepairing, FinishRepair, Moving, Delivering,
         Repairing, MuxAt, Holders
    <3> QED
      BY <3>1, <2>m DEF MovesPaired, Moving, Accounted, There, Fruit
  <2>3. CASE ReplaceSource \/ ChangePolicy \/ UNCHANGED completedVars
    BY <2>3, <2>m
       DEF ReplaceSource, ChangePolicy, completedVars, MovesPaired, Accounted, There, Fruit, Joined,
                      Paired, Disjoint
  <2>r. ReceiptTrue(onDisk) /\ ReceiptTrue(onDisk')
    BY DEF ReceiptsTrue
  <2>4. CASE LookAtReceipt
    <3>1. /\ onDisk' = onDisk /\ store' = store /\ mux'.at \notin Moving /\ mux.at \notin Moving
          /\ mark' = mark \/ (There("receipt") /\ onDisk["receipt"].output = onDisk["film"])
      BY <2>4, <2>x, <2>s DEF LookAtReceipt, Vouches, Moving, MuxAt
    <3>2. (There("receipt") /\ onDisk["receipt"].output = onDisk["film"]) =>
            ~There("film") \/ onDisk["film"] = Fruit(onDisk["receipt"].of)
      BY <2>r DEF ReceiptTrue, There
    <3> QED
      BY <3>1, <3>2, <2>m DEF MovesPaired, Moving, Accounted, There, Fruit
  <2>5. CASE WriteMarker \/ DropMarker
    <3>1. /\ onDisk' = onDisk /\ store' = store /\ mux'.at \notin Moving /\ mux.at \notin Moving
          /\ mark = Absent \/ ~There("film")
      BY <2>5, <2>x, <2>s DEF WriteMarker, DropMarker, Moving, MuxAt
    <3> QED
      BY <3>1, <2>m DEF MovesPaired, Moving, Accounted, There, Fruit
  <2>6. CASE Link
    <3>1. /\ onDisk'["film"] = Fruit(mux.of) /\ mark' = mux.of /\ mark' # Absent
          /\ store' = store /\ mux'.at = "unlink" /\ mux.at \notin Moving
      BY <2>6, <2>s, <2>k DEF Link, ReadIsDelivered, MuxAt, Moving, Files
    <3>2. Accounted'
      BY <3>1 DEF Accounted, Fruit
    <3> QED
      BY <3>1, <3>2, <2>m DEF MovesPaired, Moving
  <2>7. CASE WriteReceipt
    <3>1. /\ onDisk'["film"] = onDisk["film"] /\ onDisk["film"] = Fruit(mux.of)
          /\ mark' = mux.of /\ mark' # Absent
          /\ store' = store /\ mux'.at = "unmark" /\ mux.at \notin Moving
      BY <2>7, <2>s, <2>k DEF WriteReceipt, ReadIsDelivered, MuxAt, Moving, Files
    <3>2. Accounted'
      BY <3>1 DEF Accounted, Fruit
    <3> QED
      BY <3>1, <3>2, <2>m DEF MovesPaired, Moving
  <2>8. CASE RemoveMarker
    <3>1. /\ There("receipt") /\ onDisk["receipt"].output = onDisk["film"] /\ onDisk' = onDisk
          /\ store' = store /\ mux'.at \notin Moving /\ mux.at \notin Moving
      BY <2>8, <2>x DEF RemoveMarker, ReadIsDelivered, MuxAt, Moving
    <3>2. Accounted'
      BY <3>1, <2>r DEF Accounted, ReceiptTrue, There, Fruit
    <3> QED
      BY <3>1, <3>2, <2>m DEF MovesPaired, Moving
  <2>9. CASE BeginArchive \/ BeginRestore
    <3>1. /\ onDisk' = onDisk /\ store' = store /\ aside' = Bare /\ mark = Absent /\ mark' = mark
          /\ mux.at \notin Moving /\ mux'.at \in {"archive", "backup"}
      BY <2>9, <2>s DEF BeginArchive, BeginRestore, Manageable, MuxAt, Moving
    <3>2. Paired(onDisk) /\ Paired(store)
      BY <3>1, <2>m, AccountedPairs DEF MovesPaired, Moving
    <3> QED
      BY <3>1, <3>2, JoinWithBare DEF MovesPaired, Moving
  <2>10. CASE MoveOut
    <3>1. PICK f \in Files : /\ onDisk[f] # Absent
                             /\ aside' = [aside EXCEPT ![f] = onDisk[f]]
                             /\ onDisk' = [onDisk EXCEPT ![f] = Absent]
      BY <2>10 DEF MoveOut, There
    <3>2. Disjoint(onDisk, aside) /\ Paired(Joined(onDisk, aside)) /\ Paired(store) /\ mark = Absent
      BY <2>10, <2>m DEF MoveOut, MovesPaired, Moving
    <3>3. Disjoint(onDisk', aside') /\ Joined(onDisk', aside') = Joined(onDisk, aside)
      BY <3>1, <3>2, MoveKeepsJoin DEF CompletedTypeOK
    <3> QED
      BY <2>10, <3>2, <3>3 DEF MoveOut, MovesPaired, Moving
  <2>11. CASE Archived \/ BackedUp
    <3>1. onDisk = Bare /\ Paired(Joined(onDisk, aside)) /\ Paired(store) /\ mark = Absent
      BY <2>11, <2>m DEF Archived, BackedUp, MovesPaired, MuxAt, Moving
    <3>2. Paired(aside) /\ ~There("film")
      BY <3>1, JoinWithBare DEF There, Bare, Files
    <3>3. CASE Archived
      BY <2>e, <3>1, <3>2, <3>3 DEF Archived, MovesPaired, Moving, There
    <3>4. CASE BackedUp
      BY <2>s, <3>1, <3>2, <3>4, JoinWithBare DEF BackedUp, MovesPaired, Moving, There
    <3> QED
      BY <2>11, <3>3, <3>4
  <2>12. CASE BringBack
    <3>1. PICK f \in Files : /\ store[f] # Absent
                             /\ onDisk' = [onDisk EXCEPT ![f] = store[f]]
                             /\ store' = [store EXCEPT ![f] = Absent]
      BY <2>12 DEF BringBack
    <3>2. Disjoint(onDisk, store) /\ Paired(Joined(onDisk, store)) /\ Paired(aside) /\ mark = Absent
      BY <2>12, <2>m DEF BringBack, MovesPaired, Moving, MuxAt
    <3>3. Disjoint(onDisk', store') /\ Joined(onDisk', store') = Joined(onDisk, store)
      BY <3>1, <3>2, MoveKeepsJoin DEF CompletedTypeOK
    <3> QED
      BY <2>12, <3>2, <3>3 DEF BringBack, MovesPaired, Moving, MuxAt
  <2>13. CASE Restored
    <3>1. Paired(onDisk) /\ Paired(store)
      BY <2>13, <2>m, JoinWithBare DEF Restored, MovesPaired, MuxAt, Paired, Bare, Files
    <3> QED
      BY <2>13, <3>1, <2>e, <2>r, PairAccounts
         DEF Restored, MovesPaired, Moving, There, Accounted, Fruit
  <2>14. CASE FailMove
    <3>1. CASE MuxAt("restore")
      BY <2>14, <3>1, <2>s, <2>m DEF FailMove, MovesPaired, Moving, MuxAt
    <3>2. CASE ~MuxAt("restore")
      BY <2>14, <3>2, <2>s, <2>m DEF FailMove, MovesPaired, Moving, MuxAt
    <3> QED
      BY <3>1, <3>2
  <2>15. CASE UndoRestore
    <3>1. Disjoint(onDisk, store) /\ Paired(Joined(onDisk, store)) /\ Paired(aside) /\ mark = Absent
      BY <2>15, <2>m DEF UndoRestore, MovesPaired, Moving, MuxAt
    <3>2. CASE onDisk = Bare
      BY <2>15, <3>1, <3>2, <2>s, JoinWithBare DEF UndoRestore, MovesPaired, Moving
    <3>3. CASE onDisk # Bare
      <4>1. PICK f \in Files : /\ onDisk[f] # Absent
                               /\ store' = [store EXCEPT ![f] = onDisk[f]]
                               /\ onDisk' = [onDisk EXCEPT ![f] = Absent]
        BY <2>15, <3>3 DEF UndoRestore, There
      <4>2. Disjoint(onDisk', store') /\ Joined(onDisk', store') = Joined(onDisk, store)
        BY <3>1, <4>1, MoveKeepsJoin DEF CompletedTypeOK
      <4> QED
        BY <2>15, <3>1, <3>3, <4>2 DEF UndoRestore, MovesPaired, Moving, MuxAt
    <3> QED
      BY <3>2, <3>3
  <2>16. CASE UndoMove
    <3>1. Disjoint(onDisk, aside) /\ Paired(Joined(onDisk, aside)) /\ Paired(store) /\ mark = Absent
      BY <2>16, <2>m DEF UndoMove, MovesPaired, Moving, MuxAt
    <3>2. CASE aside = Bare
      <4>1. Paired(onDisk)
        BY <3>1, <3>2, JoinWithBare
      <4> QED
        BY <2>16, <3>1, <3>2, <4>1, <2>e, <2>r, PairAccounts
           DEF UndoMove, MovesPaired, Moving, There, Accounted, Fruit
    <3>3. CASE aside # Bare
      <4>1. PICK f \in Files : /\ aside[f] # Absent
                               /\ onDisk' = [onDisk EXCEPT ![f] = aside[f]]
                               /\ aside' = [aside EXCEPT ![f] = Absent]
        BY <2>16, <3>3 DEF UndoMove
      <4>2. Disjoint(onDisk', aside') /\ Joined(onDisk', aside') = Joined(onDisk, aside)
        BY <3>1, <4>1, MoveKeepsJoin DEF CompletedTypeOK
      <4> QED
        BY <2>16, <3>1, <3>3, <4>2 DEF UndoMove, MovesPaired, Moving, MuxAt
    <3> QED
      BY <3>2, <3>3
  <2>17. CASE DieMoving
    <3>1. onDisk' = onDisk /\ mark' = mark /\ mux'.at = "off" /\ (There("film") => There("receipt"))
      BY <2>17, <2>e DEF DieMoving
    <3>2. Paired(Joined(onDisk, IF mux.at \in {"restore", "unrestore"} THEN store ELSE aside))
      BY <2>17, <2>m DEF DieMoving, MovesPaired, Moving
    <3>3. Paired(onDisk)
      BY <3>1, <3>2 DEF Paired, Joined, There, Files
    <3>4. Paired(store')
      <4>1. CASE mux.at \in {"restore", "unrestore"}
        BY <2>17, <4>1, <3>2, JoinWithBare DEF DieMoving, Paired, Bare, Files
      <4>2. CASE mux.at \notin {"restore", "unrestore"}
        BY <2>17, <4>2, <2>m DEF DieMoving, MovesPaired
      <4> QED
        BY <4>1, <4>2
    <3> QED
      BY <3>1, <3>3, <3>4, <2>r, PairAccounts DEF MovesPaired, Moving, There, Accounted, Fruit
  <2>18. CASE FailUndo
    <3>1. Paired(onDisk') /\ store' = Bare /\ mux'.at = "off"
      BY <2>18, <2>e DEF FailUndo
    <3>2. Paired(store')
      BY <3>1 DEF Paired, Bare, Files
    <3> QED
      BY <3>1, <3>2, <2>r DEF MovesPaired, Moving, Paired, ReceiptTrue, There, Accounted, Fruit
  <2> QED
    BY <2>1, <2>2, <2>3, <2>4, <2>5, <2>6, <2>7, <2>8, <2>9, <2>10, <2>11, <2>12, <2>13, <2>14,
       <2>15, <2>16, <2>17, <2>18
       DEF CompletedNext
<1> QED
  BY <1>d, <1>n

\* What makes the film accounted for: the child delivers what it read, a
\* receipt is true, and film and receipt stay together in every move.
THEOREM DeliveryCorrect == CompletedSpec => []CompletedInv
<1>1. CompletedInit => ReadIsDelivered /\ ReceiptsTrue /\ FilmInv
  <2>1. \A f \in Files : Bare[f] = Absent
    BY DEF Bare
  <2>2. Absent.text = 0 /\ NoMux.text = 0 /\ NoMux.at = "off"
    BY DEF Absent, NoMux
  <2>3. CompletedInit => ReadIsDelivered
    BY <2>1, <2>2 DEF CompletedInit, ReadIsDelivered, MuxAt, Files
  <2>4. CompletedInit => ReceiptsTrue
    BY ReceiptMoved DEF CompletedInit, ReceiptsTrue
  <2>5. CompletedInit => FilmInv
    BY <2>1, <2>2
       DEF CompletedInit, FilmInv, FilmAccounted, MovesPaired, Moving, There, Paired, Files
  <2> QED
    BY <2>3, <2>4, <2>5
<1>2. CompletedTypeOK /\ ReadIsDelivered /\ ReceiptsTrue /\ FilmInv /\ [CompletedNext]_completedVars
        => (ReadIsDelivered /\ ReceiptsTrue /\ FilmInv)'
  BY ReadStep, ReceiptsStep, FilmStep
<1>3. ReadIsDelivered /\ ReceiptsTrue /\ FilmInv => CompletedInv
  BY DEF CompletedInv, ReceiptsTrue, FilmInv
<1> QED
  BY <1>1, <1>2, <1>3, CompletedTypeCorrect, PTL DEF CompletedSpec

\* A film in the completed library is what its receipt or marker says,
\* unless it was given up in one of the two known ways.
THEOREM FilmsAccounted == CompletedSpec => []FilmAccounted
<1>1. CompletedInv => FilmAccounted
  BY DEF CompletedInv
<1> QED
  BY <1>1, DeliveryCorrect, PTL

\* What the parent records as delivered was muxed from the medium that is
\* there and from the subtitles its strict manifest proves.
THEOREM AcceptedIsCurrent ==
  CompletedSpec => [][accepted' # accepted => onDisk["film"] = Made]_completedVars
<1>1. CompletedInv /\ [CompletedNext]_completedVars => [accepted' # accepted => onDisk["film"] = Made]_completedVars
  <2> SUFFICES ASSUME CompletedInv, CompletedNext, accepted' # accepted PROVE onDisk["film"] = Made
    BY DEF completedVars
  <2>1. Verdict /\ ReceiptProves
    BY DEF CompletedNext, StartDelivery, ReadPublication, ReadIdentity, LookAtReceipt,
           WriteMarker, ResumeMarker, DropMarker, Make, VerifyOutput, AssertUnchanged, Link, Unstage, WriteReceipt,
           RemoveMarker, Verdict, BeginArchive, BeginRestore, MoveOut, Archived, BackedUp, BringBack, Restored,
           FailMove, UndoRestore, FailUndo, UndoMove, StartRepair, RetranslateLines, FinishRepair, CopyBack,
           FailJob, DieDelivering, DieRepairing, DieMoving, ReplaceSource, ChangePolicy, EditSubtitles
  <2>2. onDisk["film"] = Fruit([target |-> Identity, proof |-> onDisk["proof"]])
    BY <2>1 DEF CompletedInv, ReceiptTrue, ReceiptProves, Vouches, There
  <2> QED
    BY <2>1, <2>2 DEF ReceiptProves, Strict, Fruit, Made, Identity
<1> QED
  BY <1>1, DeliveryCorrect, PTL DEF CompletedSpec
=============================================================================
