---------------------------- MODULE MikanProofs -----------------------------
(***************************************************************************)
(* Theorems about the download worker: MikanEpisode for any sources,       *)
(* MikanJobs for any releases and any number of claims.                    *)
(***************************************************************************)
EXTENDS MikanEpisode, MikanJobs, TLAPS

-----------------------------------------------------------------------------
(* MikanEpisode.  The inductive invariant EpisodeInv: each of the two      *)
(* threads stands somewhere with what it read there, and a finished        *)
(* episode has no active release.                                          *)

\* Types of the sources and of the two threads, each with what it read.
Offers == Sources \cup {NoSource}
Views == [Sources -> {"absent", "loading", "stalled", "complete"}]
Judged == [at : {"expired"}, gone : SUBSET Sources, url : Offers]
EnqTypes ==
  {Rest} \cup [at : {"stored", "addedStored"}, item : Sources] \cup [at : {"expire", "choose"}, online : BOOLEAN]
    \cup [at : {"chosen", "added"}, item : Sources, online : BOOLEAN] \cup Judged
PolTypes ==
  {Rest} \cup [at : {"match", "missing", "expire"}, view : Views]
    \cup [at : {"restore"}, view : Views, item : Sources, how : {"stored", "failed", "found"}] \cup Judged

EpisodeTypes ==
  /\ active \in Offers /\ waiting \in Offers
  /\ finished \in BOOLEAN /\ downloaded \in BOOLEAN /\ overlapped \in BOOLEAN
  /\ dropped \subseteq Sources /\ known \subseteq Sources /\ hopeless \subseteq Sources
  /\ why \in {"none", "stall", "extract", "error"}
  /\ torrent \in Views
  /\ enq \in EnqTypes /\ pol \in PolTypes

EpisodeInv == EpisodeTypes /\ FinishedStaysDetached

-----------------------------------------------------------------------------
(* Where the threads are. *)

\* Where a thread is says which record it has,
LEMMA ThreadShapes ==
  ASSUME EpisodeTypes
  PROVE  /\ enq.at \in {"stored", "addedStored"} => enq \in [at : {"stored", "addedStored"}, item : Sources]
         /\ enq.at \in {"expire", "choose"} => enq \in [at : {"expire", "choose"}, online : BOOLEAN]
         /\ enq.at \in {"chosen", "added"} => enq \in [at : {"chosen", "added"}, item : Sources, online : BOOLEAN]
         /\ enq.at = "expired" => enq \in Judged
         /\ pol.at \in {"match", "missing", "expire"} => pol \in [at : {"match", "missing", "expire"}, view : Views]
         /\ pol.at = "restore" =>
              pol \in [at : {"restore"}, view : Views, item : Sources, how : {"stored", "failed", "found"}]
         /\ pol.at = "expired" => pol \in Judged
<1>1. enq \in EnqTypes /\ pol \in PolTypes
  BY DEF EpisodeTypes
<1>2. Rest.at = "rest" /\ \A j \in Judged : j.at = "expired"
  BY DEF Rest, Judged
<1>3. enq.at \in {"stored", "addedStored"} => enq \in [at : {"stored", "addedStored"}, item : Sources]
  BY <1>1, <1>2 DEF EnqTypes
<1>4. enq.at \in {"expire", "choose"} => enq \in [at : {"expire", "choose"}, online : BOOLEAN]
  BY <1>1, <1>2 DEF EnqTypes
<1>5. enq.at \in {"chosen", "added"} => enq \in [at : {"chosen", "added"}, item : Sources, online : BOOLEAN]
  BY <1>1, <1>2 DEF EnqTypes
<1>6. enq.at = "expired" => enq \in Judged
  BY <1>1, <1>2 DEF EnqTypes
<1>7. pol.at \in {"match", "missing", "expire"} => pol \in [at : {"match", "missing", "expire"}, view : Views]
  BY <1>1, <1>2 DEF PolTypes
<1>8. pol.at = "restore" =>
              pol \in [at : {"restore"}, view : Views, item : Sources, how : {"stored", "failed", "found"}]
  BY <1>1, <1>2 DEF PolTypes
<1>9. pol.at = "expired" => pol \in Judged
  BY <1>1, <1>2 DEF PolTypes
<1> QED
  BY <1>3, <1>4, <1>5, <1>6, <1>7, <1>8, <1>9

\* and each record of a place is one of them.
LEMMA Sits ==
  /\ Rest \in EnqTypes /\ Rest \in PolTypes
  /\ \A b \in BOOLEAN : \A x \in {"expire", "choose"} : [at |-> x, online |-> b] \in EnqTypes
  /\ \A r \in Sources : \A x \in {"stored", "addedStored"} : [at |-> x, item |-> r] \in EnqTypes
  /\ \A r \in Sources, b \in BOOLEAN : \A x \in {"chosen", "added"} : [at |-> x, item |-> r, online |-> b] \in EnqTypes
  /\ \A v \in Views : \A x \in {"match", "missing", "expire"} : [at |-> x, view |-> v] \in PolTypes
  /\ \A v \in Views, r \in Sources, h \in {"stored", "failed", "found"} :
       [at |-> "restore", view |-> v, item |-> r, how |-> h] \in PolTypes
  /\ \A g \in SUBSET Sources, u \in Offers :
       [at |-> "expired", gone |-> g, url |-> u] \in EnqTypes /\ [at |-> "expired", gone |-> g, url |-> u] \in PolTypes
<1>1. /\ Rest \in EnqTypes /\ Rest \in PolTypes
  BY DEF EnqTypes, PolTypes
<1>2. \A b \in BOOLEAN : \A x \in {"expire", "choose"} : [at |-> x, online |-> b] \in EnqTypes
  BY DEF EnqTypes
<1>3. \A r \in Sources : \A x \in {"stored", "addedStored"} : [at |-> x, item |-> r] \in EnqTypes
  BY DEF EnqTypes
<1>4. \A r \in Sources, b \in BOOLEAN : \A x \in {"chosen", "added"} : [at |-> x, item |-> r, online |-> b] \in EnqTypes
  BY DEF EnqTypes
<1>5. \A v \in Views : \A x \in {"match", "missing", "expire"} : [at |-> x, view |-> v] \in PolTypes
  BY DEF PolTypes
<1>6. \A v \in Views, r \in Sources, h \in {"stored", "failed", "found"} :
       [at |-> "restore", view |-> v, item |-> r, how |-> h] \in PolTypes
  BY DEF PolTypes
<1>7. \A g \in SUBSET Sources, u \in Offers : [at |-> "expired", gone |-> g, url |-> u] \in Judged
  BY DEF Judged
<1>8. Judged \subseteq EnqTypes /\ Judged \subseteq PolTypes
  BY DEF EnqTypes, PolTypes
<1> QED
  BY <1>1, <1>2, <1>3, <1>4, <1>5, <1>6, <1>7, <1>8

-----------------------------------------------------------------------------
(* Every step keeps the types. *)

\* The entry's part of the types, and the threads'.
EntryTypes ==
  /\ active \in Offers /\ waiting \in Offers
  /\ finished \in BOOLEAN /\ downloaded \in BOOLEAN /\ overlapped \in BOOLEAN
  /\ dropped \subseteq Sources /\ known \subseteq Sources /\ hopeless \subseteq Sources
  /\ why \in {"none", "stall", "extract", "error"}
  /\ torrent \in Views

\* The download client.
LEMMA TorrentChanges ==
  ASSUME torrent \in Views
  PROVE  /\ \A r \in Sources : Add(r) => torrent' \in Views
         /\ \A R : Delete(R) => torrent' \in Views
         /\ Torrents => torrent' \in Views
  BY DEF Views, Add, Delete, Torrents

\* The thread that enqueues,
LEMMA EnqueueingTypes ==
  ASSUME EpisodeTypes, Enqueueing
  PROVE  EntryTypes' /\ enq' \in EnqTypes /\ UNCHANGED pol
<1>0. EntryTypes
  BY DEF EpisodeTypes, EntryTypes
<1>1. CASE ReadStored
  <2>1. enq' \in EnqTypes
    BY <1>0, <1>1, Sits DEF ReadStored, HasWaiting, EntryTypes, Offers
  <2> QED
    BY <1>0, <1>1, <2>1 DEF ReadStored, EntryTypes, Offers
<1>2. CASE AddStored
  <2>0. enq.item \in Sources /\ enq \in [at : {"stored", "addedStored"}, item : Sources]
    BY <1>2, ThreadShapes DEF AddStored
  <2>1. CASE Add(enq.item) /\ enq' = [enq EXCEPT !.at = "addedStored"]
    <3>1. enq' = [at |-> "addedStored", item |-> enq.item]
      BY <2>0, <2>1
    <3>2. torrent' \in Views
      BY <1>0, <2>0, <2>1, TorrentChanges DEF EntryTypes
    <3> QED
      BY <1>0, <1>2, <2>0, <3>1, <3>2, Sits DEF AddStored, EntryTypes
  <2>2. CASE UNCHANGED torrent /\ enq' = [at |-> "expire", online |-> TRUE]
    BY <1>0, <1>2, <2>2, Sits DEF AddStored, EntryTypes
  <2> QED
    BY <1>2, <2>1, <2>2 DEF AddStored
<1>3. CASE WriteStored
  <2>0. enq.item \in Sources
    BY <1>3, ThreadShapes DEF WriteStored
  <2> QED
    BY <1>0, <1>3, <2>0, Sits DEF WriteStored, EntryTypes, Offers
<1>4. CASE Choose
  <2>0. enq.online \in BOOLEAN
    BY <1>4, ThreadShapes DEF Choose
  <2>1. enq' \in EnqTypes
    BY <1>4, <2>0, Sits DEF Choose
  <2> QED
    BY <1>0, <1>4, <2>1 DEF Choose, EntryTypes
<1>5. CASE StoreChosen
  <2>0. enq.item \in Sources
    BY <1>5, ThreadShapes DEF StoreChosen
  <2> QED
    BY <1>0, <1>5, <2>0, Sits DEF StoreChosen, EntryTypes, Offers
<1>6. CASE AddChosen
  <2>0. enq.item \in Sources /\ enq.online \in BOOLEAN
        /\ enq \in [at : {"chosen", "added"}, item : Sources, online : BOOLEAN]
    BY <1>6, ThreadShapes DEF AddChosen
  <2>1. CASE Add(enq.item) /\ enq' = [enq EXCEPT !.at = "added"]
    <3>1. enq' = [at |-> "added", item |-> enq.item, online |-> enq.online]
      BY <2>0, <2>1
    <3>2. torrent' \in Views
      BY <1>0, <2>0, <2>1, TorrentChanges DEF EntryTypes
    <3> QED
      BY <1>0, <1>6, <2>0, <3>1, <3>2, Sits DEF AddChosen, EntryTypes
  <2>2. CASE UNCHANGED torrent /\ enq' = Rest
    BY <1>0, <1>6, <2>2, Sits DEF AddChosen, EntryTypes
  <2> QED
    BY <1>6, <2>1, <2>2 DEF AddChosen
<1>7. CASE WriteChosen
  <2>0. enq.item \in Sources
    BY <1>7, ThreadShapes DEF WriteChosen
  <2> QED
    BY <1>0, <1>7, <2>0, Sits DEF WriteChosen, MarkPending, EntryTypes, Offers
<1> QED
  BY <1>1, <1>2, <1>3, <1>4, <1>5, <1>6, <1>7 DEF Enqueueing

\* a release that is given up,
LEMMA GivesUpTypes ==
  ASSUME EntryTypes, HasActive, NEW reason \in {"stall", "extract", "error"}, GiveUpActive(reason)
  PROVE  /\ dropped' \subseteq Sources /\ active' = NoSource /\ active' \in Offers
         /\ why' \in {"none", "stall", "extract", "error"} /\ downloaded' \in BOOLEAN
  BY DEF EntryTypes, HasActive, GiveUpActive, Offers

\* the thread that polls,
LEMMA PollingTypes ==
  ASSUME EpisodeTypes, Polling
  PROVE  EntryTypes' /\ pol' \in PolTypes /\ UNCHANGED enq
<1>0. EntryTypes
  BY DEF EpisodeTypes, EntryTypes
<1>1. CASE ViewTorrents
  BY <1>0, <1>1, Sits DEF ViewTorrents, EntryTypes
<1>2. CASE Match
  <2>0. pol \in [at : {"match", "missing", "expire"}, view : Views] /\ pol.view \in Views
    BY <1>2, ThreadShapes DEF Match
  <2>1. CASE pol' = [pol EXCEPT !.at = "missing"]
    <3>1. pol' = [at |-> "missing", view |-> pol.view]
      BY <2>0, <2>1
    <3> QED
      BY <1>0, <1>2, <2>0, <3>1, Sits DEF Match, EntryTypes
  <2>2. ASSUME NEW r \in Sources, NEW how \in {"stored", "failed", "found"},
               pol' = [at |-> "restore", view |-> pol.view, item |-> r, how |-> how]
        PROVE  EntryTypes' /\ pol' \in PolTypes /\ UNCHANGED enq
    BY <1>0, <1>2, <2>0, <2>2, Sits DEF Match, EntryTypes
  <2> QED
    BY <1>2, <2>1, <2>2 DEF Match
<1>3. CASE Restore
  <2>0. pol.item \in Sources /\ pol.view \in Views
    BY <1>3, ThreadShapes DEF Restore
  <2>1. pol' \in PolTypes
    BY <1>3, <2>0, Sits DEF Restore
  <2> QED
    BY <1>0, <1>3, <2>0, <2>1 DEF Restore, EntryTypes, Offers
<1>4. CASE MissingTorrent
  <2>0. pol \in [at : {"match", "missing", "expire"}, view : Views] /\ pol.view \in Views
    BY <1>4, ThreadShapes DEF MissingTorrent
  <2>1. pol' = [at |-> "expire", view |-> pol.view]
    BY <1>4, <2>0 DEF MissingTorrent
  <2>2. pol' \in PolTypes
    BY <2>0, <2>1, Sits
  <2>3. CASE HasActive /\ GiveUpActive("extract")
    BY <1>0, <1>4, <2>2, <2>3, GivesUpTypes DEF MissingTorrent, EntryTypes
  <2>4. CASE UNCHANGED <<dropped, active, why>> /\ downloaded' \in {downloaded, TRUE}
    BY <1>0, <1>4, <2>2, <2>4 DEF MissingTorrent, EntryTypes
  <2> QED
    BY <1>4, <2>3, <2>4 DEF MissingTorrent
<1> QED
  BY <1>1, <1>2, <1>3, <1>4 DEF Polling

\* and the expiry that both run.
LEMMA ExpireTypes ==
  ASSUME EpisodeTypes, ExpireDelete \/ ExpireWrite
  PROVE  EntryTypes' /\ enq' \in EnqTypes /\ pol' \in PolTypes
<1>0. EntryTypes /\ enq \in EnqTypes /\ pol \in PolTypes
  BY DEF EpisodeTypes, EntryTypes
<1>1. CASE ExpireDelete
  <2>1. PICK gone \in SUBSET Sources :
          /\ Delete(gone)
          /\ \/ /\ UNCHANGED enq
                /\ pol' = IF gone = {} THEN Rest ELSE [at |-> "expired", gone |-> gone, url |-> active]
             \/ /\ UNCHANGED pol
                /\ enq' = IF gone = {} THEN [at |-> "choose", online |-> TRUE]
                          ELSE [at |-> "expired", gone |-> gone, url |-> active]
    BY <1>1 DEF ExpireDelete, Expired
  <2>2. torrent' \in Views
    BY <1>0, <2>1, TorrentChanges DEF EntryTypes
  <2>3. enq' \in EnqTypes /\ pol' \in PolTypes
    BY <1>0, <2>1, Sits DEF EntryTypes
  <2> QED
    BY <1>0, <1>1, <2>2, <2>3 DEF ExpireDelete, EntryTypes
<1>2. CASE ExpireWrite
  <2>1. enq' \in EnqTypes /\ pol' \in PolTypes
    BY <1>0, <1>2, Sits DEF ExpireWrite
  <2>2. ASSUME NEW e \in Judged, WriteExpired(e)
        PROVE  /\ dropped' \subseteq Sources /\ active' \in Offers /\ downloaded' \in BOOLEAN /\ waiting' \in Offers
               /\ why' \in {"none", "stall", "extract", "error"}
    BY <1>0, <2>2 DEF EntryTypes, WriteExpired, Judged, Offers
  <2>3. \/ UNCHANGED <<dropped, active, downloaded, why, waiting>>
        \/ \E e \in Judged : WriteExpired(e)
    BY <1>2, ThreadShapes DEF ExpireWrite
  <2> QED
    BY <1>0, <1>2, <2>1, <2>2, <2>3 DEF ExpireWrite, EntryTypes
<1> QED
  BY <1>1, <1>2

LEMMA EpisodeTypesStep ==
  ASSUME EpisodeTypes, [EpisodeNext]_episodeVars
  PROVE  EpisodeTypes'
<1>0. EntryTypes /\ enq \in EnqTypes /\ pol \in PolTypes
  BY DEF EpisodeTypes, EntryTypes
<1>1. CASE Torrents
  BY <1>0, <1>1, TorrentChanges DEF Torrents, EntryTypes, EpisodeTypes
<1>2. CASE Enqueueing
  BY <1>0, <1>2, EnqueueingTypes DEF EntryTypes, EpisodeTypes
<1>3. CASE Polling
  BY <1>0, <1>3, PollingTypes DEF EntryTypes, EpisodeTypes
<1>4. CASE ExpireDelete \/ ExpireWrite
  BY <1>4, ExpireTypes DEF EntryTypes, EpisodeTypes
<1>5. CASE Extracted
  <2>1. CASE finished' = TRUE /\ active' = NoSource /\ why' = "none" /\ downloaded' = FALSE /\ UNCHANGED <<dropped, hopeless>>
    BY <1>0, <1>5, <2>1 DEF Extracted, EntryTypes, EpisodeTypes, Offers
  <2>2. ASSUME NEW r \in Sources, hopeless' = hopeless \cup {r},
               NEW reason \in {"extract", "error"}, GiveUpActive(reason),
               UNCHANGED finished
        PROVE  EpisodeTypes'
    BY <1>0, <1>5, <2>2, GivesUpTypes DEF Extracted, EntryTypes, EpisodeTypes
  <2> QED
    BY <1>5, <2>1, <2>2 DEF Extracted
<1>6. CASE UNCHANGED episodeVars
  BY <1>0, <1>6 DEF episodeVars, EntryTypes, EpisodeTypes
<1> QED
  BY <1>1, <1>2, <1>3, <1>4, <1>5, <1>6 DEF EpisodeNext

-----------------------------------------------------------------------------
(* A finished episode. *)

\* What sets an active release asks, or says, whether the episode is finished.
LEMMA DetachedStep ==
  ASSUME EpisodeTypes, FinishedStaysDetached, [EpisodeNext]_episodeVars
  PROVE  FinishedStaysDetached'
<1>1. CASE Enqueueing
  BY <1>1
     DEF FinishedStaysDetached, Enqueueing, ReadStored, AddStored, WriteStored, Choose, StoreChosen,
         AddChosen, WriteChosen, MarkPending
<1>2. CASE Polling
  BY <1>2
     DEF FinishedStaysDetached, Polling, ViewTorrents, Match, Restore, Restorable, MissingTorrent,
         GiveUpActive
<1>3. CASE ExpireDelete \/ ExpireWrite
  BY <1>3 DEF FinishedStaysDetached, ExpireDelete, ExpireWrite, WriteExpired
<1>4. CASE Extracted
  BY <1>4 DEF FinishedStaysDetached, Extracted, GiveUpActive
<1>5. CASE Torrents \/ UNCHANGED episodeVars
  BY <1>5 DEF FinishedStaysDetached, Torrents, episodeVars
<1> QED
  BY <1>1, <1>2, <1>3, <1>4, <1>5 DEF EpisodeNext

\* The invariant holds at first.
LEMMA EpisodeBegins == EpisodeInit => EpisodeInv
  BY Sits DEF EpisodeInit, EpisodeInv, EpisodeTypes, FinishedStaysDetached, Offers, Views

\* The inductive invariant holds in every state.
THEOREM EpisodeCorrect == EpisodeSpec => []EpisodeInv
<1>1. EpisodeInv /\ [EpisodeNext]_episodeVars => EpisodeInv'
  BY EpisodeTypesStep, DetachedStep DEF EpisodeInv
<1> QED
  BY <1>1, EpisodeBegins, PTL DEF EpisodeSpec

\* The entry, the client and both threads keep their types.
THEOREM EpisodeTypeCorrect == EpisodeSpec => []EpisodeTypeOK
<1>1. EpisodeInv => EpisodeTypeOK
  BY DEF EpisodeInv, EpisodeTypes, EpisodeTypeOK, Offers, Views
<1> QED
  BY <1>1, EpisodeCorrect, PTL

\* A finished episode has no active release again, although both threads work on
\* views that may be stale, unless a stored release was being added when another
\* one finished it (mikan_worker.py).
THEOREM FinishedEpisodesStayDetached == EpisodeSpec => []FinishedStaysDetached
<1>1. EpisodeInv => FinishedStaysDetached
  BY DEF EpisodeInv
<1> QED
  BY <1>1, EpisodeCorrect, PTL

-----------------------------------------------------------------------------
(* MikanJobs.  The inductive invariant JobsInv: a cancellation is held     *)
(* only by a claim that was asked, and a job runs for its last claim.      *)

\* Types of the table, the claims' slots and the records.
JobTypes == [status : {"none", "queued", "running"} \cup FinishedAs, by : 0..MaxClaims, due : BOOLEAN,
             safe : BOOLEAN, kind : Results \cup {"none", "unsafe"}]
RecordTypes == [job : Releases, kind : Results \cup {"paused"}]
LiveRuns == [job : Releases, at : Busy, result : Results \cup {"none", "paused"}, beat : BOOLEAN, told : BOOLEAN,
             seen : BOOLEAN, copy : Seq(RecordTypes)]
EndedRuns == [job : Releases, at : {"done"}]

JobsTypes ==
  /\ jobs \in [Releases -> JobTypes]
  /\ runs \in [Claims -> LiveRuns \cup EndedRuns \cup {NoRun}]
  /\ \A c \in Claims : runs[c].at \in {"update", "append"} => runs[c].result # "paused"
  /\ records \in Seq(RecordTypes) /\ cancel \in 0..MaxClaims /\ requests \in Nat

\* Only a claim that was asked to stop is stopping.
AskedFor ==
  /\ cancel # 0 => cancel \in asked
  /\ \A c \in Claims : runs[c].at \in Busy /\ (runs[c].seen \/ runs[c].result = "cancelled") => c \in asked

\* Claims are numbered as they are made, and a job runs for its last one.
Latest ==
  /\ \A c, d \in Claims : runs[c] = NoRun /\ c < d => runs[d] = NoRun
  /\ \A r \in Releases : jobs[r].status = "running" =>
       /\ jobs[r].by \in Claims /\ runs[jobs[r].by].job = r
       /\ \A d \in Claims : runs[d].job = r => d <= jobs[r].by

JobsInv == JobsTypes /\ AskedFor /\ Latest

-----------------------------------------------------------------------------
(* What the steps do to the claims' slots. *)

\* A slot at work has its whole record, and no unused one has a job.
LEMMA SlotShapes ==
  ASSUME JobsTypes, NEW c \in Claims
  PROVE  /\ runs[c].at \in Busy => runs[c] \in LiveRuns
         /\ runs[c] # NoRun => runs[c].job \in Releases
         /\ runs[c].at \in Busy => runs[c] # NoRun
         /\ NoRun.job \notin Releases /\ NoRun.at \notin Busy
<1>1. runs[c] \in LiveRuns \cup EndedRuns \cup {NoRun}
  BY DEF JobsTypes
<1>2. NoRun.job \notin Releases /\ NoRun.at = "unused"
  BY MikanJobsAssumption DEF NoRun
<1>3. \A q \in EndedRuns : q.at = "done" /\ q.job \in Releases
  BY DEF EndedRuns
<1>4. \A q \in LiveRuns : q.job \in Releases
  BY DEF LiveRuns
<1> QED
  BY <1>1, <1>2, <1>3, <1>4 DEF Busy

\* A claim's slot goes on with its job, and holds a cancellation only if that
\* was asked for.
Advances(c) ==
  \E q \in LiveRuns \cup EndedRuns :
    /\ runs' = [runs EXCEPT ![c] = q] /\ q.job = runs[c].job /\ runs[c] # NoRun
    /\ q.at \in Busy /\ (q.seen \/ q.result = "cancelled") => c \in asked
    /\ q.at \in {"update", "append"} => q.result # "paused"

\* Each action of a claim advances its slot.
LEMMA IsOver ==
  ASSUME JobsTypes, NEW c \in Claims, runs[c].at \in Busy, runs' = [runs EXCEPT ![c] = Over(c)]
  PROVE  Advances(c)
<1>1. runs[c].job \in Releases /\ runs[c] # NoRun
  BY SlotShapes
<1>2. Over(c) \in EndedRuns /\ Over(c).job = runs[c].job /\ Over(c).at = "done"
  BY <1>1 DEF Over, EndedRuns
<1> QED
  BY <1>1, <1>2 DEF Advances, Busy

\* A claim that cancels was asked.
LEMMA CancelsFor ==
  ASSUME AskedFor, NEW c \in Claims, CancelFor(c)
  PROVE  c \in asked
  BY DEF AskedFor, CancelFor, Claims

LEMMA BeatAdvances ==
  ASSUME JobsTypes, AskedFor, NEW c \in Claims, Beat(c)
  PROVE  Advances(c)
<1>1. /\ runs[c] \in LiveRuns /\ runs \in [Claims -> LiveRuns \cup EndedRuns \cup {NoRun}]
      /\ runs[c].at = "working" /\ runs[c] # NoRun
  BY SlotShapes DEF Beat, JobsTypes, Busy
<1>2. CASE runs' = [runs EXCEPT ![c].beat = FALSE, ![c].told = TRUE, ![c].seen = TRUE] /\ CancelFor(c)
  <2> DEFINE q == [runs[c] EXCEPT !.beat = FALSE, !.told = TRUE, !.seen = TRUE]
  <2>1. q \in LiveRuns /\ q.job = runs[c].job /\ q.at = "working"
    BY <1>1 DEF LiveRuns
  <2>2. runs' = [runs EXCEPT ![c] = q]
    BY <1>1, <1>2
  <2> HIDE DEF q
  <2> QED
    BY <1>1, <1>2, <2>1, <2>2, CancelsFor DEF Advances
<1>3. CASE runs' = [runs EXCEPT ![c].beat = FALSE]
  <2> DEFINE q == [runs[c] EXCEPT !.beat = FALSE]
  <2>1. /\ q \in LiveRuns /\ q.job = runs[c].job /\ q.at = "working"
        /\ q.seen = runs[c].seen /\ q.result = runs[c].result
    BY <1>1 DEF LiveRuns
  <2>2. runs' = [runs EXCEPT ![c] = q]
    BY <1>1, <1>3
  <2> HIDE DEF q
  <2> QED
    BY <1>1, <2>1, <2>2 DEF Advances, AskedFor, Busy
<1> QED
  BY <1>2, <1>3 DEF Beat

LEMMA TellAdvances ==
  ASSUME JobsTypes, AskedFor, NEW c \in Claims, Tell(c)
  PROVE  Advances(c)
<1>1. /\ runs[c] \in LiveRuns /\ runs \in [Claims -> LiveRuns \cup EndedRuns \cup {NoRun}]
      /\ runs[c].at = "working" /\ runs[c] # NoRun
  BY SlotShapes DEF Tell, JobsTypes, Busy
<1> DEFINE q == [runs[c] EXCEPT !.told = TRUE]
<1>2. /\ q \in LiveRuns /\ q.job = runs[c].job /\ q.at = "working" /\ q.seen = runs[c].seen
      /\ q.result = runs[c].result
  BY <1>1 DEF LiveRuns
<1>3. runs' = [runs EXCEPT ![c] = q]
  BY <1>1 DEF Tell
<1> HIDE DEF q
<1> QED
  BY <1>1, <1>2, <1>3 DEF Advances, AskedFor, Busy

\* What a slot has when its extraction ends.
LEMMA ResultAdvances ==
  ASSUME JobsTypes, AskedFor, NEW c \in Claims, runs[c].at = "working",
         NEW x \in Results \cup {"none", "paused"},
         runs' = [runs EXCEPT ![c].at = "result", ![c].beat = FALSE, ![c].told = FALSE, ![c].seen = FALSE, ![c].result = x],
         x = "cancelled" => c \in asked
  PROVE  Advances(c)
<1>1. /\ runs[c] \in LiveRuns /\ runs \in [Claims -> LiveRuns \cup EndedRuns \cup {NoRun}]
      /\ runs[c] # NoRun
  BY SlotShapes DEF JobsTypes, Busy
<1> DEFINE q == [runs[c] EXCEPT !.at = "result", !.beat = FALSE, !.told = FALSE, !.seen = FALSE, !.result = x]
<1>2. q \in LiveRuns /\ q.job = runs[c].job /\ q.at = "result" /\ ~q.seen /\ q.result = x
  BY <1>1 DEF LiveRuns, Busy
<1>3. runs' = [runs EXCEPT ![c] = q]
  BY <1>1
<1> HIDE DEF q
<1> QED
  BY <1>1, <1>2, <1>3 DEF Advances

LEMMA ExtractAdvances ==
  ASSUME JobsTypes, AskedFor, NEW c \in Claims, Extract(c)
  PROVE  Advances(c)
<1>1. PICK result \in (Results \ {"cancelled"}) \cup {"paused"} :
        runs' = [runs EXCEPT ![c].at = "result", ![c].beat = FALSE, ![c].told = FALSE, ![c].seen = FALSE,
                     ![c].result = IF result = "paused" /\ runs[c].seen THEN "cancelled" ELSE result]
  BY DEF Extract
<1> DEFINE x == IF result = "paused" /\ runs[c].seen THEN "cancelled" ELSE result
<1>2. x \in Results \cup {"none", "paused"} /\ (x = "cancelled" => runs[c].seen)
  BY DEF Results, Failures
<1>3. runs[c].at = "working"
  BY DEF Extract
<1>4. x = "cancelled" => c \in asked
  BY <1>2, <1>3 DEF AskedFor, Busy
<1>5. runs' = [runs EXCEPT ![c].at = "result", ![c].beat = FALSE, ![c].told = FALSE, ![c].seen = FALSE, ![c].result = x]
  BY <1>1
<1> HIDE DEF x
<1> QED
  BY <1>2, <1>3, <1>4, <1>5, ResultAdvances

LEMMA ExpireAdvances ==
  ASSUME JobsTypes, AskedFor, NEW c \in Claims, Expire(c)
  PROVE  Advances(c)
<1> DEFINE x == IF CancelFor(c) THEN "cancelled" ELSE "defer"
<1>1. x \in Results \cup {"none", "paused"} /\ (x = "cancelled" => c \in asked)
  BY CancelsFor DEF Results, Failures
<1>2. runs' = [runs EXCEPT ![c].at = "result", ![c].beat = FALSE, ![c].told = FALSE, ![c].seen = FALSE, ![c].result = x]
      /\ runs[c].at = "working"
  BY DEF Expire
<1> HIDE DEF x
<1> QED
  BY <1>1, <1>2, ResultAdvances

LEMMA RecordAdvances ==
  ASSUME JobsTypes, AskedFor, NEW c \in Claims, Record(c)
  PROVE  Advances(c)
<1>1. /\ runs[c] \in LiveRuns /\ runs \in [Claims -> LiveRuns \cup EndedRuns \cup {NoRun}]
      /\ runs[c].at = "result" /\ runs[c] # NoRun
  BY SlotShapes DEF JobsTypes, Busy, Record
<1> DEFINE kind == IF runs[c].result # "paused" THEN runs[c].result ELSE IF CancelFor(c) THEN "cancelled" ELSE "defer"
<1>2. /\ kind \in Results \cup {"none"} /\ kind # "paused"
      /\ kind = "cancelled" => c \in asked
  BY <1>1, CancelsFor DEF LiveRuns, Results, Failures, AskedFor, Busy
<1>3. PICK x \in {kind, "none"} : runs' = [runs EXCEPT ![c].at = "update", ![c].result = x]
  BY DEF Record
<1> HIDE DEF kind
<1> DEFINE q == [runs[c] EXCEPT !.at = "update", !.result = x]
<1>4. /\ q \in LiveRuns /\ q.job = runs[c].job /\ q.at = "update" /\ q.seen = runs[c].seen
      /\ q.result = x
  BY <1>1, <1>2 DEF LiveRuns, Busy
<1>5. runs' = [runs EXCEPT ![c] = q]
  BY <1>1, <1>3
<1>6. x # "paused" /\ (x = "cancelled" => c \in asked) /\ (runs[c].seen => c \in asked)
  BY <1>1, <1>2 DEF AskedFor, Busy
<1> HIDE DEF q
<1> QED
  BY <1>1, <1>4, <1>5, <1>6 DEF Advances

LEMMA UpdateAdvances ==
  ASSUME JobsTypes, AskedFor, NEW c \in Claims, Update(c)
  PROVE  Advances(c)
<1>1. /\ runs[c] \in LiveRuns /\ runs \in [Claims -> LiveRuns \cup EndedRuns \cup {NoRun}] /\ runs[c].at = "update"
      /\ runs[c].result # "paused" /\ records \in Seq(RecordTypes) /\ runs[c] # NoRun
  BY SlotShapes DEF JobsTypes, Busy, Update
<1>2. CASE runs' = [runs EXCEPT ![c] = Over(c)]
  BY <1>1, <1>2, IsOver DEF Busy
<1>3. CASE runs' = [runs EXCEPT ![c].at = "append", ![c].copy = records]
  <2> DEFINE q == [runs[c] EXCEPT !.at = "append", !.copy = records]
  <2>1. /\ q \in LiveRuns /\ q.job = runs[c].job /\ q.at = "append" /\ q.seen = runs[c].seen
        /\ q.result = runs[c].result
    BY <1>1 DEF LiveRuns, Busy
  <2>2. runs' = [runs EXCEPT ![c] = q]
    BY <1>1, <1>3
  <2> HIDE DEF q
  <2> QED
    BY <1>1, <2>1, <2>2 DEF Advances, AskedFor, Busy
<1> QED
  BY <1>2, <1>3 DEF Update

LEMMA DeferAdvances ==
  ASSUME JobsTypes, AskedFor, NEW c \in Claims, Defer(c)
  PROVE  Advances(c) /\ records' \in Seq(RecordTypes)
<1>1. runs[c] \in LiveRuns /\ runs[c].at = "append" /\ runs[c].result # "paused"
  BY SlotShapes DEF JobsTypes, Busy, Defer
<1>2. Advances(c)
  BY <1>1, IsOver DEF Defer, Busy
<1>3. /\ runs[c].copy \in Seq(RecordTypes) /\ runs[c].job \in Releases
      /\ runs[c].result \in Results \cup {"none"}
  BY <1>1 DEF LiveRuns
<1>4. CASE runs[c].result = "none"
  BY <1>2, <1>3, <1>4 DEF Defer
<1>5. CASE runs[c].result # "none"
  <2> DEFINE m == [job |-> runs[c].job, kind |-> runs[c].result]
  <2>1. m \in RecordTypes
    BY <1>3, <1>5 DEF RecordTypes
  <2>2. records' = Append(runs[c].copy, m)
    BY <1>5 DEF Defer
  <2> HIDE DEF m
  <2>3. records' \in Seq(RecordTypes)
    BY <1>3, <2>1, <2>2
  <2> QED
    BY <1>2, <2>3
<1> QED
  BY <1>4, <1>5

-----------------------------------------------------------------------------
(* What the steps do to the table. *)

\* A job that runs has been running for the same claim.
NoneStarts ==
  /\ jobs' \in [Releases -> JobTypes]
  /\ \A r \in Releases : jobs'[r].status = "running" => jobs[r].status = "running" /\ jobs'[r].by = jobs[r].by

\* Each write to the table starts nothing, except a claim.
LEMMA PutStarts ==
  ASSUME JobsTypes, NEW r \in Releases, NEW j \in JobTypes, Put(r, j),
         j.status = "running" => jobs[r].status = "running" /\ j.by = jobs[r].by
  PROVE  NoneStarts
  BY DEF JobsTypes, Put, NoneStarts

LEMMA QueuedIs ==
  ASSUME NEW due \in BOOLEAN, NEW safe \in BOOLEAN
  PROVE  /\ [Queued(0, due) EXCEPT !.safe = safe] \in JobTypes
         /\ [Queued(0, due) EXCEPT !.safe = safe].status = "queued"
<1>1. 0 \in 0..MaxClaims
  BY MikanJobsAssumption
<1> QED
  BY <1>1 DEF Queued, JobTypes, FinishedAs

LEMMA UpsertedIs ==
  ASSUME JobsTypes, NEW r \in Releases, NEW safe \in BOOLEAN
  PROVE  /\ Upserted(r, TRUE, safe) \in JobTypes
         /\ Upserted(r, TRUE, safe).status = "running" =>
              jobs[r].status = "running" /\ Upserted(r, TRUE, safe).by = jobs[r].by
         /\ jobs[r].status \in {"replaced", "terminal"} => Upserted(r, TRUE, safe) = jobs[r]
<1>1. jobs[r] \in JobTypes
  BY DEF JobsTypes
<1> DEFINE new == [Queued(0, TRUE) EXCEPT !.safe = safe]
           old == [jobs[r] EXCEPT !.status = "queued", !.safe = safe]
<1>2. new \in JobTypes /\ new.status = "queued"
  BY QueuedIs
<1>3. old \in JobTypes /\ old.status = "queued"
  BY <1>1 DEF JobTypes
<1>4. Upserted(r, TRUE, safe) \in {jobs[r], new, old}
  BY <1>1 DEF Upserted, JobTypes, FinishedAs
<1>5. jobs[r].status \in {"replaced", "terminal"} => Upserted(r, TRUE, safe) = jobs[r]
  BY DEF Upserted
<1> HIDE DEF new, old
<1> QED
  BY <1>1, <1>2, <1>3, <1>4, <1>5

LEMMA UpsertStarts ==
  ASSUME JobsTypes, PollUpsert
  PROVE  /\ NoneStarts
         /\ \A r \in Releases : jobs[r].status \in {"replaced", "terminal"} => jobs'[r] = jobs[r]
<1> DEFINE again == IF outputs THEN {} ELSE poll.tagged
           rows  == poll.torrents \ (poll.tagged \ again)
<1>1. PICK safe \in BOOLEAN : jobs' = [r \in Releases |-> IF r \in rows THEN Upserted(r, TRUE, safe) ELSE jobs[r]]
  BY DEF PollUpsert
<1> HIDE DEF rows
<1>2. \A r \in Releases : jobs'[r] \in {jobs[r], Upserted(r, TRUE, safe)}
  BY <1>1
<1>3. \A r \in Releases : jobs[r] \in JobTypes
  BY DEF JobsTypes
<1>4. jobs' \in [Releases -> JobTypes]
  BY <1>1, <1>3, UpsertedIs
<1> QED
  BY <1>2, <1>4, UpsertedIs DEF NoneStarts

\* A claim finishes, or queues again, only what runs for it.
LEMMA RecordedIs ==
  ASSUME JobsTypes, NEW c \in Claims, Record(c)
  PROVE  /\ NoneStarts /\ runs[c].job \in Releases
         /\ \/ UNCHANGED jobs
            \/ /\ Running(runs[c].job, c) /\ \A r \in Releases : r # runs[c].job => jobs'[r] = jobs[r]
               /\ jobs'[runs[c].job].status = "queued" \/ runs'[c].at = "update"
<1>1. /\ runs[c] \in LiveRuns /\ runs[c].job \in Releases
      /\ runs[c].result \in Results \cup {"none", "paused"}
  BY SlotShapes DEF Record, Busy, LiveRuns
<1> DEFINE r == runs[c].job
           kind == IF runs[c].result # "paused" THEN runs[c].result ELSE IF CancelFor(c) THEN "cancelled" ELSE "defer"
<1>2. kind \in Results \cup {"none"}
  BY <1>1 DEF Results, Failures
<1>3. jobs[r] \in JobTypes /\ 0 \in 0..MaxClaims
  BY <1>1, MikanJobsAssumption DEF JobsTypes
<1>4. \/ jobs' = [jobs EXCEPT ![r] = Requeued(r, c)]
      \/ jobs' = [jobs EXCEPT ![r] = Finished(r, c, kind)]
      \/ UNCHANGED jobs
  BY DEF Record, Put
<1> HIDE DEF kind
<1>5. Requeued(r, c) \in JobTypes /\ (~Running(r, c) => Requeued(r, c) = jobs[r])
      /\ (Running(r, c) => Requeued(r, c).status = "queued")
  BY <1>3 DEF Requeued, JobTypes
<1>6. FinalStatus(kind) \in FinishedAs
  BY DEF FinalStatus, FinishedAs, Retryable, Replaces
<1>7. Finished(r, c, kind) \in JobTypes /\ (~Running(r, c) => Finished(r, c, kind) = jobs[r])
      /\ (Running(r, c) => Finished(r, c, kind).status \in FinishedAs)
  BY <1>2, <1>3, <1>6 DEF Finished, JobTypes
<1>8. CASE UNCHANGED jobs
  BY <1>1, <1>8 DEF NoneStarts, JobsTypes
<1>9. ASSUME NEW j \in JobTypes, jobs' = [jobs EXCEPT ![r] = j], ~Running(r, c) => j = jobs[r],
             j.status # "running" \/ ~Running(r, c)
      PROVE  /\ NoneStarts
             /\ (UNCHANGED jobs \/ (Running(r, c) /\ \A s \in Releases : s # r => jobs'[s] = jobs[s]))
  BY <1>1, <1>9 DEF NoneStarts, JobsTypes
<1>10. runs'[c].at = "update"
  <2>1. runs \in [Claims -> LiveRuns \cup EndedRuns \cup {NoRun}]
    BY DEF JobsTypes
  <2>2. PICK x : runs' = [runs EXCEPT ![c].at = "update", ![c].result = x]
    BY DEF Record
  <2> DEFINE q == [runs[c] EXCEPT !.at = "update", !.result = x]
  <2>3. q.at = "update"
    BY <1>1 DEF LiveRuns
  <2>4. runs' = [runs EXCEPT ![c] = q]
    BY <2>1, <2>2
  <2> HIDE DEF q
  <2> QED
    BY <2>1, <2>3, <2>4
<1> QED
  BY <1>1, <1>4, <1>5, <1>7, <1>8, <1>9, <1>10 DEF FinishedAs

\* The leases, the operator and a restart start nothing.
LEMMA OthersStart ==
  ASSUME JobsTypes
  PROVE  /\ \A r \in Releases : LeaseEnds(r) \/ RequeueOne(r) => NoneStarts
         /\ RequeueFailed \/ WorkerRestarts => NoneStarts
<1>0. /\ jobs \in [Releases -> JobTypes] /\ (\A r \in Releases : jobs[r].safe \in BOOLEAN)
      /\ 0 \in 0..MaxClaims
  BY MikanJobsAssumption DEF JobsTypes, JobTypes
<1>1. ASSUME NEW r \in Releases, LeaseEnds(r) PROVE NoneStarts
  <2> DEFINE j == [jobs[r] EXCEPT !.due = TRUE]
  <2>1. j \in JobTypes /\ j.status = jobs[r].status /\ j.by = jobs[r].by
    BY <1>0 DEF JobTypes
  <2>2. Put(r, j)
    BY <1>1 DEF LeaseEnds
  <2> HIDE DEF j
  <2> QED
    BY <2>1, <2>2, PutStarts
<1>2. ASSUME NEW r \in Releases, RequeueOne(r) PROVE NoneStarts
  <2> DEFINE j == [Queued(0, TRUE) EXCEPT !.safe = jobs[r].safe]
  <2>1. j \in JobTypes /\ j.status = "queued"
    BY <1>0, QueuedIs
  <2>2. Put(r, j)
    BY <1>2 DEF RequeueOne
  <2> HIDE DEF j
  <2> QED
    BY <2>1, <2>2, PutStarts
<1>3. ASSUME RequeueFailed PROVE NoneStarts
  <2> DEFINE j(r) == [Queued(0, TRUE) EXCEPT !.safe = jobs[r].safe]
  <2>1. \A r \in Releases : j(r) \in JobTypes /\ j(r).status = "queued"
    BY <1>0, QueuedIs
  <2>2. PICK R : jobs' = [r \in Releases |-> IF r \in R THEN j(r) ELSE jobs[r]]
    <3> DEFINE R == {r \in Releases : \/ jobs[r].status = "failed" /\ jobs[r].kind \in Retryable
                                      \/ jobs[r].status = "running" /\ jobs[r].due}
    <3>1. jobs' = [r \in Releases |-> IF r \in R THEN j(r) ELSE jobs[r]]
      BY <1>3 DEF RequeueFailed
    <3> QED
      BY <3>1
  <2> HIDE DEF j
  <2> QED
    BY <1>0, <2>1, <2>2 DEF NoneStarts
<1>4. ASSUME WorkerRestarts PROVE NoneStarts
  <2> DEFINE j(r) == [jobs[r] EXCEPT !.status = "queued", !.by = 0, !.due = TRUE]
  <2>1. \A r \in Releases : j(r) \in JobTypes /\ j(r).status = "queued"
    BY <1>0 DEF JobTypes
  <2>2. jobs' = [r \in Releases |-> IF jobs[r].status = "running" THEN j(r) ELSE jobs[r]]
    BY <1>4 DEF WorkerRestarts
  <2> HIDE DEF j
  <2> QED
    BY <1>0, <2>1, <2>2 DEF NoneStarts
<1> QED
  BY <1>1, <1>2, <1>3, <1>4

\* A claim starts its job, or finds that it must not be done.
Begins(r, c) ==
  /\ runs[c] = NoRun /\ \A d \in 1..c-1 : runs[d] # NoRun
  /\ \E q \in LiveRuns : runs' = [runs EXCEPT ![c] = q] /\ q.job = r /\ q.at = "working" /\ ~q.seen /\ q.result = "none"
  /\ \E j \in JobTypes : jobs' = [jobs EXCEPT ![r] = j] /\ j.status = "running" /\ j.by = c

LEMMA ClaimBegins ==
  ASSUME JobsTypes, NEW r \in Releases, NEW c \in Claims, Claim(r, c)
  PROVE  Begins(r, c) \/ (NoneStarts /\ UNCHANGED runs)
<1>0. jobs[r] \in JobTypes /\ c \in 0..MaxClaims /\ 0 \in 0..MaxClaims
  BY MikanJobsAssumption DEF JobsTypes, Claims
<1>1. CASE jobs[r].safe
  <2> DEFINE j == [jobs[r] EXCEPT !.status = "running", !.by = c, !.due = FALSE]
             q == [job |-> r, at |-> "working", result |-> "none", beat |-> TRUE, told |-> FALSE, seen |-> FALSE,
                   copy |-> <<>>]
  <2>1. j \in JobTypes /\ j.status = "running" /\ j.by = c
    BY <1>0 DEF JobTypes
  <2>2. <<>> \in Seq(RecordTypes)
    OBVIOUS
  <2>3. q \in LiveRuns /\ q.job = r /\ q.at = "working" /\ ~q.seen /\ q.result = "none"
    BY <2>2 DEF LiveRuns, Busy
  <2>4. /\ jobs' = [jobs EXCEPT ![r] = j] /\ runs' = [runs EXCEPT ![c] = q]
        /\ runs[c] = NoRun
        /\ \A d \in 1..c-1 : runs[d] # NoRun
    BY <1>1 DEF Claim, Put
  <2> HIDE DEF j, q
  <2> QED
    BY <2>1, <2>3, <2>4 DEF Begins
<1>2. CASE ~jobs[r].safe
  <2> DEFINE j == [jobs[r] EXCEPT !.status = "terminal", !.by = 0, !.due = FALSE, !.kind = "unsafe"]
  <2>1. j \in JobTypes /\ j.status = "terminal"
    BY <1>0 DEF JobTypes, FinishedAs
  <2>2. Put(r, j) /\ UNCHANGED runs
    BY <1>2 DEF Claim
  <2> HIDE DEF j
  <2> QED
    BY <2>1, <2>2, PutStarts
<1> QED
  BY <1>1, <1>2

-----------------------------------------------------------------------------
(* The steps, by what they do to slots and table. *)

Restarted == runs' = [c \in Claims |-> IF runs[c] = NoRun THEN NoRun ELSE Over(c)]

\* Every step, by what it does to slots and table.
LEMMA JobSteps ==
  ASSUME JobsTypes, AskedFor, [JobsNext]_jobVars
  PROVE  /\ \/ NoneStarts /\ UNCHANGED runs
            \/ NoneStarts /\ \E c \in Claims : Advances(c)
            \/ NoneStarts /\ Restarted
            \/ \E c \in Claims, r \in Releases : Begins(r, c)
         /\ records' \in Seq(RecordTypes)
<1>0. records \in Seq(RecordTypes) /\ (UNCHANGED jobs => NoneStarts) /\ <<>> \in Seq(RecordTypes)
  BY DEF JobsTypes, NoneStarts
<1>1. ASSUME NEW c \in Claims, Beat(c) \/ Tell(c) \/ Extract(c) \/ Expire(c) \/ Update(c)
      PROVE  NoneStarts /\ Advances(c) /\ records' \in Seq(RecordTypes)
  BY <1>0, <1>1, BeatAdvances, TellAdvances, ExtractAdvances, ExpireAdvances, UpdateAdvances
     DEF Beat, Tell, Extract, Expire, Update
<1>2. ASSUME NEW c \in Claims, Defer(c)
      PROVE  NoneStarts /\ Advances(c) /\ records' \in Seq(RecordTypes)
  BY <1>0, <1>2, DeferAdvances DEF Defer
<1>3. ASSUME NEW c \in Claims, Record(c)
      PROVE  NoneStarts /\ Advances(c) /\ records' \in Seq(RecordTypes)
  <2>1. UNCHANGED records
    BY <1>3 DEF Record
  <2> QED
    BY <1>0, <1>3, <2>1, RecordAdvances, RecordedIs
<1>4. ASSUME NEW c \in Claims, NEW r \in Releases, Claim(r, c)
      PROVE  (Begins(r, c) \/ (NoneStarts /\ UNCHANGED runs)) /\ records' \in Seq(RecordTypes)
  <2>1. UNCHANGED records
    BY <1>4 DEF Claim
  <2> QED
    BY <1>0, <1>4, <2>1, ClaimBegins
<1>5. ASSUME NEW r \in Releases,
             Activate(r) \/ Download(r) \/ LeaseEnds(r) \/ AskCancel(r) \/ RequeueOne(r)
      PROVE  NoneStarts /\ UNCHANGED <<runs, records>>
  BY <1>0, <1>5, OthersStart DEF Activate, Download, LeaseEnds, AskCancel, RequeueOne
<1>6. ASSUME PollUpsert PROVE NoneStarts /\ UNCHANGED <<runs, records>>
  <2>1. UNCHANGED <<runs, records>>
    BY <1>6 DEF PollUpsert
  <2> QED
    BY <1>6, <2>1, UpsertStarts
<1>7. ASSUME RequeueFailed PROVE NoneStarts /\ UNCHANGED <<runs, records>>
  <2>1. UNCHANGED <<runs, records>>
    BY <1>7 DEF RequeueFailed
  <2> QED
    BY <1>7, <2>1, OthersStart
<1>8. ASSUME WorkerRestarts PROVE NoneStarts /\ Restarted /\ UNCHANGED records
  <2>1. Restarted /\ UNCHANGED records
    BY <1>8 DEF WorkerRestarts, Restarted
  <2> QED
    BY <1>8, <2>1, OthersStart
<1>9. ASSUME LoseOutputs \/ PollTorrents \/ PollEntry \/ Consume \/ ConsumeSave \/ UNCHANGED jobVars
      PROVE  UNCHANGED <<jobs, runs, records>>
  BY <1>9 DEF LoseOutputs, PollTorrents, PollEntry, Consume, ConsumeSave, jobVars
<1>10. ASSUME ConsumeUnlink PROVE UNCHANGED <<jobs, runs>> /\ records' = <<>>
  BY <1>10 DEF ConsumeUnlink
<1> QED
  BY <1>0, <1>1, <1>2, <1>3, <1>4, <1>5, <1>6, <1>7, <1>8, <1>9, <1>10 DEF JobsNext, Slot

-----------------------------------------------------------------------------
(* Every step keeps the invariant. *)

\* The clauses of the invariant, one by one.
LEMMA RequestsCount ==
  ASSUME JobsTypes, [JobsNext]_jobVars
  PROVE  requests' \in Nat
<1>1. requests' = requests \/ requests' = requests + 1
  BY DEF JobsNext, Slot, jobVars, Beat, Tell, Extract, Expire, Record, Update, Defer, Claim,
         Activate, Download, LeaseEnds, AskCancel, RequeueOne, LoseOutputs, PollTorrents, PollEntry,
         PollUpsert, Consume, ConsumeSave, ConsumeUnlink, RequeueFailed, WorkerRestarts, Request
<1> QED
  BY <1>1 DEF JobsTypes

LEMMA AskedSteps ==
  ASSUME JobsTypes, AskedFor, [JobsNext]_jobVars
  PROVE  /\ asked \subseteq asked' /\ cancel' \in 0..MaxClaims
         /\ cancel' # 0 => cancel' \in asked'
<1>1. ASSUME NEW r \in Releases, AskCancel(r)
      PROVE  asked \subseteq asked' /\ cancel' \in 0..MaxClaims /\ cancel' \in asked'
  BY <1>1 DEF AskCancel, JobsTypes, JobTypes
<1>2. ASSUME UNCHANGED asked, cancel' \in {cancel, 0}
      PROVE  /\ asked \subseteq asked' /\ cancel' \in 0..MaxClaims
             /\ (cancel' # 0 => cancel' \in asked')
  BY <1>2, MikanJobsAssumption DEF JobsTypes, AskedFor
<1>3. ASSUME NEW c \in Claims, Slot(c) PROVE UNCHANGED asked /\ cancel' \in {cancel, 0}
  BY <1>3 DEF Slot, Beat, Tell, Extract, Expire, Record, Update, Defer, Claim, Acknowledge
<1>4. ASSUME NEW r \in Releases, Activate(r) \/ Download(r) \/ LeaseEnds(r) \/ RequeueOne(r)
      PROVE  UNCHANGED <<asked, cancel>>
  BY <1>4 DEF Activate, Download, LeaseEnds, RequeueOne
<1>5. ASSUME \/ LoseOutputs \/ PollTorrents \/ PollEntry \/ PollUpsert \/ Consume \/ ConsumeSave \/ ConsumeUnlink
             \/ RequeueFailed \/ WorkerRestarts \/ UNCHANGED jobVars
      PROVE  UNCHANGED <<asked, cancel>>
  BY <1>5
     DEF LoseOutputs, PollTorrents, PollEntry, PollUpsert, Consume, ConsumeSave, ConsumeUnlink,
         RequeueFailed, WorkerRestarts, jobVars
<1> QED
  BY <1>1, <1>2, <1>3, <1>4, <1>5 DEF JobsNext

\* A slot's record after the step.
LEMMA SlotSteps ==
  ASSUME JobsTypes, AskedFor, [JobsNext]_jobVars
  PROVE  /\ runs' \in [Claims -> LiveRuns \cup EndedRuns \cup {NoRun}]
         /\ \A c \in Claims : runs'[c].at \in {"update", "append"} => runs'[c].result # "paused"
         /\ \A c \in Claims : runs'[c].at \in Busy /\ (runs'[c].seen \/ runs'[c].result = "cancelled") => c \in asked'
<1>0. runs \in [Claims -> LiveRuns \cup EndedRuns \cup {NoRun}] /\ asked \subseteq asked'
  BY AskedSteps DEF JobsTypes
<1>1. CASE UNCHANGED runs
  BY <1>0, <1>1 DEF JobsTypes, AskedFor
<1>2. ASSUME NEW c \in Claims, NEW q \in LiveRuns \cup EndedRuns, runs' = [runs EXCEPT ![c] = q],
             q.at \in Busy /\ (q.seen \/ q.result = "cancelled") => c \in asked,
             q.at \in {"update", "append"} => q.result # "paused"
      PROVE  /\ runs' \in [Claims -> LiveRuns \cup EndedRuns \cup {NoRun}]
             /\ \A d \in Claims : runs'[d].at \in {"update", "append"} => runs'[d].result # "paused"
             /\ \A d \in Claims : runs'[d].at \in Busy /\ (runs'[d].seen \/ runs'[d].result = "cancelled") => d \in asked'
  <2>1. \A d \in Claims : runs'[d] = IF d = c THEN q ELSE runs[d]
    BY <1>0, <1>2
  <2>2. runs' \in [Claims -> LiveRuns \cup EndedRuns \cup {NoRun}]
    BY <1>0, <1>2
  <2> QED
    BY <1>0, <1>2, <2>1, <2>2 DEF JobsTypes, AskedFor
<1>3. CASE Restarted
  <2>1. \A c \in Claims : runs[c] # NoRun => Over(c) \in EndedRuns /\ Over(c).at = "done"
    BY SlotShapes DEF Over, EndedRuns
  <2>2. \A c \in Claims : runs'[c] = IF runs[c] = NoRun THEN NoRun ELSE Over(c)
    BY <1>3 DEF Restarted
  <2>3. runs' \in [Claims -> LiveRuns \cup EndedRuns \cup {NoRun}]
    BY <1>3, <2>1 DEF Restarted
  <2>4. NoRun.at = "unused"
    BY DEF NoRun
  <2> QED
    BY <2>1, <2>2, <2>3, <2>4 DEF Busy
<1>4. ASSUME NEW c \in Claims, Advances(c)
      PROVE  \E q \in LiveRuns \cup EndedRuns :
               /\ runs' = [runs EXCEPT ![c] = q]
               /\ q.at \in Busy /\ (q.seen \/ q.result = "cancelled") => c \in asked
               /\ q.at \in {"update", "append"} => q.result # "paused"
  BY <1>4 DEF Advances
<1>5. ASSUME NEW c \in Claims, NEW r \in Releases, Begins(r, c)
      PROVE  \E q \in LiveRuns \cup EndedRuns :
               /\ runs' = [runs EXCEPT ![c] = q]
               /\ q.at \in Busy /\ (q.seen \/ q.result = "cancelled") => c \in asked
               /\ q.at \in {"update", "append"} => q.result # "paused"
  BY <1>5 DEF Begins
<1> QED
  BY <1>1, <1>2, <1>3, <1>4, <1>5, JobSteps

LEMMA LatestStep ==
  ASSUME JobsTypes, AskedFor, Latest, [JobsNext]_jobVars
  PROVE  Latest'
<1> DEFINE Order == \A c, d \in Claims : runs'[c] = NoRun /\ c < d => runs'[d] = NoRun
           ByLast  == \A r \in Releases : jobs'[r].status = "running" =>
                      /\ jobs'[r].by \in Claims /\ runs'[jobs'[r].by].job = r
                      /\ \A d \in Claims : runs'[d].job = r => d <= jobs'[r].by
<1>0. runs \in [Claims -> LiveRuns \cup EndedRuns \cup {NoRun}] /\ jobs \in [Releases -> JobTypes]
  BY DEF JobsTypes
<1>1. ASSUME NoneStarts,
             \A c \in Claims : runs'[c].job = runs[c].job /\ (runs'[c] = NoRun <=> runs[c] = NoRun)
      PROVE  Order /\ ByLast
  BY <1>1 DEF Latest, NoneStarts
<1>2. ASSUME UNCHANGED runs, NoneStarts PROVE Order /\ ByLast
  BY <1>1, <1>2
<1>3. ASSUME NEW c \in Claims, Advances(c), NoneStarts PROVE Order /\ ByLast
  <2>1. PICK q \in LiveRuns \cup EndedRuns : runs' = [runs EXCEPT ![c] = q] /\ q.job = runs[c].job /\ runs[c] # NoRun
    BY <1>3 DEF Advances
  <2>2. q # NoRun
    BY <2>1, SlotShapes
  <2> QED
    BY <1>0, <1>1, <1>3, <2>1, <2>2
<1>4. ASSUME Restarted, NoneStarts PROVE Order /\ ByLast
  <2>1. \A c \in Claims : runs[c] # NoRun => Over(c).job = runs[c].job /\ Over(c) # NoRun
    BY SlotShapes DEF Over, NoRun
  <2>2. \A c \in Claims : runs'[c] = IF runs[c] = NoRun THEN NoRun ELSE Over(c)
    BY <1>4 DEF Restarted
  <2> QED
    BY <1>1, <1>4, <2>1, <2>2
<1>5. ASSUME NEW c \in Claims, NEW r \in Releases, Begins(r, c) PROVE Order /\ ByLast
  <2>1. PICK q \in LiveRuns, j \in JobTypes :
          /\ runs' = [runs EXCEPT ![c] = q] /\ q.job = r /\ q.at = "working"
          /\ jobs' = [jobs EXCEPT ![r] = j] /\ j.status = "running" /\ j.by = c
    BY <1>5 DEF Begins
  <2>2. /\ \A d \in Claims : runs'[d] = IF d = c THEN q ELSE runs[d]
        /\ \A s \in Releases : jobs'[s] = IF s = r THEN j ELSE jobs[s]
    BY <1>0, <2>1
  <2>3. \A d \in Claims : d < c => runs[d] # NoRun
    <3>1. \A d \in Claims : d < c => d \in 1..c-1
      BY DEF Claims
    <3> QED
      BY <1>5, <3>1 DEF Begins
  <2>4. \A d \in Claims : c < d => runs[d] = NoRun
    BY <1>5 DEF Begins, Latest
  <2>5. q # NoRun /\ runs[c] = NoRun /\ \A s \in Releases : NoRun.job # s
    BY <1>5, <2>1, SlotShapes DEF Begins, LiveRuns, NoRun
  <2>6. Order
    <3> SUFFICES ASSUME NEW a \in Claims, NEW b \in Claims, runs'[a] = NoRun, a < b
                 PROVE  runs'[b] = NoRun
      OBVIOUS
    <3>1. a # c /\ runs[a] = NoRun
      BY <2>2, <2>5
    <3>2. c < a
      BY <2>3, <3>1 DEF Claims
    <3>3. c < b /\ b # c
      BY <3>2 DEF Claims
    <3> QED
      BY <2>2, <2>4, <3>3
  <2>7. ByLast
    <3> SUFFICES ASSUME NEW s \in Releases, jobs'[s].status = "running"
                 PROVE  /\ jobs'[s].by \in Claims /\ runs'[jobs'[s].by].job = s
                        /\ \A d \in Claims : runs'[d].job = s => d <= jobs'[s].by
      OBVIOUS
    <3>1. CASE s = r
      <4>1. \A d \in Claims : runs'[d].job = r => d <= c
        BY <2>2, <2>4, <2>5 DEF Claims
      <4> QED
        BY <2>1, <2>2, <3>1, <4>1
    <3>2. CASE s # r
      <4>1. jobs[s].status = "running" /\ jobs'[s].by = jobs[s].by
        BY <2>2, <3>2
      <4>2. jobs[s].by \in Claims /\ runs[jobs[s].by].job = s /\ jobs[s].by # c
        BY <2>5, <4>1 DEF Latest
      <4>3. \A d \in Claims : runs'[d].job = s => runs[d].job = s
        BY <2>1, <2>2, <3>2
      <4> QED
        BY <2>2, <4>1, <4>2, <4>3 DEF Latest
    <3> QED
      BY <3>1, <3>2
  <2> QED
    BY <2>6, <2>7
<1>6. Order /\ ByLast
  <2> HIDE DEF Order, ByLast
  <2> QED
    BY <1>2, <1>3, <1>4, <1>5, JobSteps
<1> QED
  BY <1>6 DEF Latest, NoRun

-----------------------------------------------------------------------------

\* The invariant holds at first and after every step.
LEMMA JobsBegin == JobsInit => JobsInv
<1> SUFFICES ASSUME JobsInit PROVE JobsInv
  OBVIOUS
<1>1. jobs \in [Releases -> JobTypes] /\ \A r \in Releases : jobs[r].status = "none"
  <2> DEFINE j == [Queued(0, FALSE) EXCEPT !.status = "none"]
  <2>1. 0 \in 0..MaxClaims
    BY MikanJobsAssumption
  <2>2. j \in JobTypes /\ j.status = "none"
    BY <2>1 DEF Queued, JobTypes
  <2>3. jobs = [r \in Releases |-> j]
    BY DEF JobsInit
  <2> HIDE DEF j
  <2> QED
    BY <2>2, <2>3
<1>2. runs = [c \in Claims |-> NoRun] /\ records = <<>> /\ cancel = 0 /\ requests = 0
  BY DEF JobsInit
<1>3. NoRun.at = "unused"
  BY DEF NoRun
<1>4. <<>> \in Seq(RecordTypes) /\ 0 \in 0..MaxClaims
  BY MikanJobsAssumption
<1> QED
  BY <1>1, <1>2, <1>3, <1>4 DEF JobsInv, JobsTypes, AskedFor, Latest, Busy

LEMMA JobsStep ==
  ASSUME JobsInv, [JobsNext]_jobVars
  PROVE  JobsInv'
<1>1. NoneStarts \/ \E c \in Claims, r \in Releases : Begins(r, c)
  BY JobSteps DEF JobsInv
<1>2. jobs' \in [Releases -> JobTypes]
  BY <1>1 DEF NoneStarts, Begins, JobsInv, JobsTypes
<1>3. JobsTypes'
  BY <1>2, JobSteps, SlotSteps, AskedSteps, RequestsCount DEF JobsInv, JobsTypes
<1>4. AskedFor'
  BY SlotSteps, AskedSteps DEF JobsInv, AskedFor
<1> QED
  BY <1>3, <1>4, LatestStep DEF JobsInv

\* The inductive invariant holds in every state: who stops was asked to, and a
\* job that runs runs for the last claim of it.
THEOREM JobsCorrect == JobsSpec => []JobsInv
<1>1. JobsInv /\ [JobsNext]_jobVars => JobsInv'
  BY JobsStep
<1> QED
  BY <1>1, JobsBegin, PTL DEF JobsSpec

\* A cancellation stops the claim it was meant for and no other, however late it
\* is noticed (mikan_worker.py, the cancellation of a running extraction).
THEOREM CancellationsHit == JobsSpec => []CancelHitsItsClaim
<1>1. JobsInv => CancelHitsItsClaim
  BY DEF JobsInv, AskedFor, CancelHitsItsClaim
<1> QED
  BY <1>1, JobsCorrect, PTL

\* Why a result is recorded by the last claim only.
LEMMA OnlyLatestRecords ==
  ASSUME JobsInv, [JobsNext]_jobVars, NEW c \in Claims, runs[c].at = "result",
         runs'[c].at # "result",
         jobs'[runs[c].job].status \in FinishedAs, jobs'[runs[c].job] # jobs[runs[c].job]
  PROVE  \A d \in Claims : runs[d].job = runs[c].job => d <= c
<1>0. JobsTypes /\ AskedFor /\ Latest /\ runs[c].job \in Releases /\ runs \in [Claims -> LiveRuns \cup EndedRuns \cup {NoRun}]
      /\ runs[c] # NoRun
  BY SlotShapes DEF JobsInv, JobsTypes, Busy
<1>1. CASE Record(c)
  <2>1. Running(runs[c].job, c)
    BY <1>0, <1>1, RecordedIs
  <2> QED
    BY <1>0, <2>1 DEF Latest, Running
<1>2. CASE WorkerRestarts
  <2>1. \A r \in Releases : jobs[r] \in JobTypes
    BY <1>0 DEF JobsTypes
  <2>2. \A r \in Releases : jobs'[r] = jobs[r] \/ jobs'[r].status = "queued"
    BY <1>2, <2>1 DEF WorkerRestarts, JobTypes
  <2> QED
    BY <1>0, <2>2 DEF FinishedAs
<1>3. ASSUME NEW d \in Claims, d # c, Advances(d) PROVE FALSE
  <2>1. runs'[c] = runs[c]
    BY <1>0, <1>3 DEF Advances
  <2> QED
    BY <2>1
<1>4. CASE UNCHANGED runs
  BY <1>4
<1>5. ASSUME NEW d \in Claims, NEW r \in Releases, Claim(r, d) PROVE FALSE
  <2>1. d # c
    BY <1>0, <1>5 DEF Claim
  <2>2. runs'[c] = runs[c]
    BY <1>0, <1>5, <2>1 DEF Claim
  <2> QED
    BY <2>2
<1>6. ASSUME NEW d \in Claims,
             Record(d) \/ Beat(d) \/ Tell(d) \/ Extract(d) \/ Expire(d) \/ Update(d) \/ Defer(d)
      PROVE  Advances(d)
  BY <1>0, <1>6, RecordAdvances, BeatAdvances, TellAdvances, ExtractAdvances, ExpireAdvances,
     UpdateAdvances, DeferAdvances
<1>7. ~(Beat(c) \/ Tell(c) \/ Extract(c) \/ Expire(c) \/ Update(c) \/ Defer(c))
  BY DEF Beat, Tell, Extract, Expire, Update, Defer
<1> QED
  BY <1>1, <1>2, <1>3, <1>4, <1>5, <1>6, <1>7
     DEF JobsNext, Slot, jobVars, Activate, Download, LeaseEnds, AskCancel, RequeueOne, LoseOutputs,
         PollTorrents, PollEntry, PollUpsert, Consume, ConsumeSave, ConsumeUnlink, RequeueFailed

\* A claim that was overtaken by a later one of its job records no result.
THEOREM OnlyTheLatestRecords == JobsSpec => LatestClaimRecords
<1>1. JobsInv /\ [JobsNext]_jobVars =>
        [\A c \in Claims :
           runs[c].at = "result" /\ runs'[c].at # "result" /\ jobs'[runs[c].job].status \in FinishedAs
             => \/ jobs'[runs[c].job] = jobs[runs[c].job]
                \/ \A d \in Claims : runs[d].job = runs[c].job => d <= c]_jobVars
  BY OnlyLatestRecords
<1> QED
  BY <1>1, JobsCorrect, PTL DEF JobsSpec, LatestClaimRecords

\* Why a release that was given up stays so.
LEMMA GivenUpStays ==
  ASSUME JobsInv, [JobsNext]_jobVars, NEW r \in Releases,
         jobs[r].status = "replaced" \/ (jobs[r].status = "terminal" /\ UNCHANGED requests)
  PROVE  jobs'[r] = jobs[r]
<1>0. JobsTypes /\ jobs \in [Releases -> JobTypes]
  BY DEF JobsInv, JobsTypes
<1>1. CASE UNCHANGED jobs
  BY <1>1
<1>2. ASSUME NEW c \in Claims, Record(c) PROVE jobs'[r] = jobs[r]
  BY <1>0, <1>2, RecordedIs DEF Running
<1>3. ASSUME NEW s \in Releases, NEW c \in Claims, Claim(s, c) PROVE jobs'[r] = jobs[r]
  <2>1. s # r /\ \E j : jobs' = [jobs EXCEPT ![s] = j]
    BY <1>3 DEF Claim, Due, Put
  <2> QED
    BY <1>0, <2>1
<1>4. ASSUME NEW s \in Releases, LeaseEnds(s) PROVE jobs'[r] = jobs[r]
  <2>1. s # r /\ \E j : jobs' = [jobs EXCEPT ![s] = j]
    BY <1>4 DEF LeaseEnds, Put
  <2> QED
    BY <1>0, <2>1
<1>5. CASE PollUpsert
  BY <1>0, <1>5, UpsertStarts
<1>6. ASSUME NEW s \in Releases, RequeueOne(s) PROVE jobs'[r] = jobs[r]
  <2>1. requests' # requests
    BY <1>0, <1>6 DEF RequeueOne, Request, JobsTypes
  <2>2. s # r /\ \E j : jobs' = [jobs EXCEPT ![s] = j]
    BY <1>6, <2>1 DEF RequeueOne, Put
  <2> QED
    BY <1>0, <2>2
<1>7. CASE RequeueFailed
  BY <1>7 DEF RequeueFailed
<1>8. CASE WorkerRestarts
  BY <1>8 DEF WorkerRestarts
<1> QED
  BY <1>1, <1>2, <1>3, <1>4, <1>5, <1>6, <1>7, <1>8
     DEF JobsNext, Slot, jobVars, Beat, Tell, Extract, Expire, Update, Defer, Activate, Download,
         AskCancel, LoseOutputs, PollTorrents, PollEntry, Consume, ConsumeSave, ConsumeUnlink

\* A release that was replaced stays so, and one that failed for good does until the
\* operator asks for it, whatever late claims, polls and restarts write.
THEOREM GivenUpReleasesStay == JobsSpec => GivenUpStaysSo
<1>1. JobsInv /\ [JobsNext]_jobVars =>
        [\A r \in Releases :
           /\ jobs[r].status = "replaced" => jobs'[r] = jobs[r]
           /\ jobs[r].status = "terminal" /\ requests' = requests => jobs'[r] = jobs[r]]_jobVars
  BY GivenUpStays
<1> QED
  BY <1>1, JobsCorrect, PTL DEF JobsSpec, GivenUpStaysSo
=============================================================================
