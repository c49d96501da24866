---------------------------- MODULE MikanEpisode ----------------------------
(***************************************************************************)
(* The downloads of one episode (mikan_worker.py): the enqueue thread that *)
(* chooses a release, adds it to qBittorrent and writes it down, or stores *)
(* it for later, beside the poll that reads the list of torrents once and  *)
(* then restores, fails and deletes by it, and the extraction.  Each       *)
(* section under the operation lock is one step; when the lock is taken    *)
(* the section is skipped.  A section that adds or deletes torrents needs  *)
(* the queue lock, which the enqueue thread keeps from the add to the end  *)
(* of its write.  How a result reaches the entry is MikanJobs' matter.     *)
(***************************************************************************)
EXTENDS Naturals, FiniteSets

CONSTANTS
  Sources,     \* releases of the episode, each with its torrent
  NoSource,
  MaxTroubles  \* bound: locks found taken, requests that fail, torrents removed by others

ASSUME EpisodeAssumption == NoSource \notin Sources /\ MaxTroubles \in Nat

VARIABLES
  active,     \* the release of the entry that is downloaded or extracted
  waiting,    \* the release stored for a later add
  finished,   \* terminal success
  dropped,    \* failed releases, by URL and hash
  why,        \* the last failure: a stall, the extraction, an error of the extraction
  known,      \* the seen file
  torrent,    \* what qBittorrent has of each release
  downloaded, \* the entry's progress is complete
  hopeless,   \* releases whose job is replaced or finally failed
  enq,        \* the enqueue thread
  pol,        \* the poll
  overlapped, \* history: a stored release was read before the episode was finished
  troubles

episodeVars == <<active, waiting, finished, dropped, why, known, torrent, downloaded, hopeless,
                 enq, pol, overlapped, troubles>>

Rest       == [at |-> "rest"]
Free       == enq.at \notin {"addedStored", "added"}
HasActive  == active # NoSource /\ ~finished
HasWaiting == waiting # NoSource /\ ~finished
Trouble    == troubles < MaxTroubles /\ troubles' = troubles + 1
Has(r)     == torrent[r] # "absent"
Add(r)     == torrent' = IF Has(r) THEN torrent ELSE [torrent EXCEPT ![r] = "loading"]
Delete(R)  == torrent' = [r \in Sources |-> IF r \in R THEN "absent" ELSE torrent[r]]

EpisodeInit ==
  /\ active = NoSource /\ waiting = NoSource /\ finished = FALSE
  /\ dropped = {} /\ why = "none" /\ known = {}
  /\ torrent = [r \in Sources |-> "absent"] /\ downloaded = FALSE /\ hopeless = {}
  /\ enq = Rest /\ pol = Rest
  /\ overlapped = FALSE /\ troubles = 0

\* A release becomes the active one of an entry that is not finished.
ActivateAlways(r) ==
  /\ active' = r /\ downloaded' = FALSE /\ why' = "none"
  /\ known' = known \cup {r}

MarkPending(r) ==
  /\ IF finished THEN UNCHANGED <<active, downloaded, why>>
                 ELSE active' = r /\ downloaded' = FALSE /\ why' = "none"
  /\ known' = known \cup {r}

-----------------------------------------------------------------------------
(* qBittorrent *)

Torrents ==
  /\ \E r \in Sources :
       \/ /\ torrent[r] = "loading" /\ torrent' = [torrent EXCEPT ![r] = "stalled"] /\ UNCHANGED troubles
       \/ /\ torrent[r] \in {"loading", "stalled"} /\ torrent' = [torrent EXCEPT ![r] = "complete"]
          /\ UNCHANGED troubles
       \/ /\ torrent[r] = "complete" /\ Trouble /\ torrent' = [torrent EXCEPT ![r] = "absent"]
  /\ UNCHANGED <<active, waiting, finished, dropped, why, known, downloaded, hopeless, enq, pol, overlapped>>

-----------------------------------------------------------------------------
(* enqueueing: first the stored release *)

\* The stored release is read under the operation lock; one that was seen
\* since is forgotten.  Without qBittorrent the step is left out.
ReadStored ==
  /\ enq.at = "rest"
  /\ \/ /\ HasWaiting /\ waiting \in known
        /\ waiting' = NoSource /\ enq' = [at |-> "expire", online |-> TRUE]
        /\ UNCHANGED troubles
     \/ /\ HasWaiting /\ waiting \notin known
        /\ enq' = [at |-> "stored", item |-> waiting] /\ UNCHANGED <<waiting, troubles>>
     \/ /\ ~HasWaiting /\ enq' = [at |-> "expire", online |-> TRUE] /\ UNCHANGED <<waiting, troubles>>
     \/ /\ Trouble /\ UNCHANGED waiting
        /\ \E online \in BOOLEAN : enq' = [at |-> IF online THEN "expire" ELSE "choose", online |-> online]
  /\ UNCHANGED <<active, finished, dropped, why, known, torrent, downloaded, hopeless, pol, overlapped>>

AddStored ==
  /\ enq.at = "stored"
  /\ \/ /\ enq.item \notin known /\ waiting = enq.item
        /\ Add(enq.item) /\ enq' = [enq EXCEPT !.at = "addedStored"] /\ UNCHANGED troubles
     \/ /\ IF enq.item \notin known /\ waiting = enq.item THEN Trouble ELSE UNCHANGED troubles
        /\ enq' = [at |-> "expire", online |-> TRUE] /\ UNCHANGED torrent
  /\ UNCHANGED <<active, waiting, finished, dropped, why, known, downloaded, hopeless, pol, overlapped>>

\* It is looked up again by its URL, not whether the episode is finished.
WriteStored ==
  /\ enq.at = "addedStored"
  /\ \/ /\ enq.item \notin known /\ waiting = enq.item
        /\ active' = enq.item /\ known' = known \cup {enq.item} /\ waiting' = NoSource
        /\ downloaded' = FALSE
        /\ overlapped' = (overlapped \/ finished)
        /\ UNCHANGED troubles
     \/ /\ IF enq.item \notin known /\ waiting = enq.item THEN Trouble ELSE UNCHANGED troubles
        /\ UNCHANGED <<active, known, waiting, downloaded, overlapped>>
  /\ enq' = [at |-> "expire", online |-> TRUE]
  /\ UNCHANGED <<finished, dropped, why, torrent, hopeless, pol>>

-----------------------------------------------------------------------------
(* then a new one *)

\* Releases that failed are left out, and those seen, unless the last failure
\* was an error of the extraction: then those that failed may come again.
Selectable(r, fails, seen, reason) ==
  IF reason = "error" THEN r \in fails \/ r \notin seen ELSE r \notin fails \cup seen

\* The entry and the seen file are read once, long before the add.
Choose ==
  /\ enq.at = "choose"
  /\ \/ \E r \in Sources :
          /\ ~HasActive /\ ~HasWaiting /\ ~finished
          /\ Selectable(r, dropped, known, why)
          /\ enq' = [at |-> "chosen", item |-> r, online |-> enq.online]
     \/ /\ \/ HasActive \/ HasWaiting \/ finished
           \/ \A r \in Sources : ~Selectable(r, dropped, known, why)
        /\ enq' = Rest
  /\ UNCHANGED <<active, waiting, finished, dropped, why, known, torrent, downloaded, hopeless, pol,
                 overlapped, troubles>>

Retried(r) == ~finished /\ why = "error" /\ r \in dropped

\* Read again before the add.
Queueable(r) == ~HasActive /\ ~HasWaiting /\ (r \in known => Retried(r))

\* Stored instead: qBittorrent or the queue lock is not available.
StoreChosen ==
  /\ enq.at = "chosen"
  /\ \/ ~enq.online /\ UNCHANGED troubles
     \/ enq.online /\ Trouble
  /\ (~enq.online => Queueable(enq.item))
  /\ waiting' = IF finished THEN waiting ELSE enq.item
  /\ enq' = Rest
  /\ UNCHANGED <<active, finished, dropped, why, known, torrent, downloaded, hopeless, pol, overlapped>>

AddChosen ==
  /\ enq.at = "chosen"
  /\ IF Queueable(enq.item) /\ enq.online
       THEN Add(enq.item) /\ enq' = [enq EXCEPT !.at = "added"]
       ELSE enq' = Rest /\ UNCHANGED torrent
  /\ (~enq.online => ~Queueable(enq.item))
  /\ UNCHANGED <<active, waiting, finished, dropped, why, known, downloaded, hopeless, pol, overlapped, troubles>>

\* If the operation lock is taken the torrent stays without an entry.
WriteChosen ==
  /\ enq.at = "added"
  /\ LET r == enq.item IN
     \/ /\ r \in known => Retried(r)
        /\ MarkPending(r) /\ UNCHANGED troubles
     \/ /\ IF r \in known => Retried(r) THEN Trouble ELSE UNCHANGED troubles
        /\ UNCHANGED <<active, downloaded, why, known>>
  /\ enq' = Rest
  /\ UNCHANGED <<waiting, finished, dropped, torrent, hopeless, pol, overlapped>>

-----------------------------------------------------------------------------
(* the poll: what it restores *)

\* One list of torrents serves the whole poll.
ViewTorrents ==
  /\ pol.at = "rest"
  /\ pol' = [at |-> "match", view |-> torrent]
  /\ UNCHANGED <<active, waiting, finished, dropped, why, known, torrent, downloaded, hopeless, enq,
                 overlapped, troubles>>

\* A stored release that is there already; one that failed by a stall and
\* completed after all; any other complete torrent of the episode.
Matches(r, how) ==
  /\ pol.view[r] # "absent" /\ r \notin hopeless
  /\ how = "stored" => r = waiting
  /\ how # "stored" => pol.view[r] = "complete"
  /\ how = "failed" => why = "stall" /\ r \in dropped

Match ==
  /\ pol.at = "match"
  /\ \/ \E r \in Sources, how \in {"stored", "failed", "found"} :
          /\ ~HasActive /\ ~finished /\ Matches(r, how)
          /\ pol' = [at |-> "restore", view |-> pol.view, item |-> r, how |-> how]
     \/ /\ ~\E r \in Sources, how \in {"stored", "failed", "found"} :
               ~HasActive /\ ~finished /\ Matches(r, how)
        /\ pol' = [pol EXCEPT !.at = "missing"]
  /\ UNCHANGED <<active, waiting, finished, dropped, why, known, torrent, downloaded, hopeless, enq,
                 overlapped, troubles>>

\* Looked at again under the operation lock.
Restorable ==
  /\ ~HasActive /\ ~finished
  /\ pol.how = "stored" => waiting = pol.item
  /\ pol.how = "failed" => pol.item \in dropped

Restore ==
  /\ pol.at = "restore"
  /\ \/ /\ Restorable
        /\ active' = pol.item /\ known' = known \cup {pol.item} /\ why' = "none"
        /\ downloaded' = (pol.view[pol.item] = "complete")
        /\ waiting' = IF pol.how = "found" THEN waiting ELSE NoSource
        /\ UNCHANGED troubles
     \/ /\ IF Restorable THEN Trouble ELSE UNCHANGED troubles
        /\ UNCHANGED <<active, known, why, downloaded, waiting>>
  /\ pol' = [at |-> "missing", view |-> pol.view]
  /\ UNCHANGED <<finished, dropped, torrent, hopeless, enq, overlapped>>

-----------------------------------------------------------------------------
(* the poll: what it gives up *)

GiveUpActive(reason) ==
  /\ dropped' = dropped \cup {active} /\ active' = NoSource /\ why' = reason /\ downloaded' = FALSE

\* The progress is written down; a complete one whose torrent is not in the
\* list any more has failed.
MissingTorrent ==
  /\ pol.at = "missing"
  /\ \/ /\ HasActive /\ pol.view[active] = "complete" /\ ~downloaded
        /\ downloaded' = TRUE /\ UNCHANGED <<dropped, active, why, troubles>>
     \/ /\ HasActive /\ pol.view[active] = "absent" /\ downloaded
        /\ GiveUpActive("extract") /\ UNCHANGED troubles
     \/ /\ IF HasActive /\ pol.view[active] = (IF downloaded THEN "absent" ELSE "complete")
             THEN Trouble ELSE UNCHANGED troubles
        /\ UNCHANGED <<dropped, active, why, downloaded>>
  /\ pol' = [pol EXCEPT !.at = "expire"]
  /\ UNCHANGED <<waiting, finished, known, torrent, hopeless, enq, overlapped>>

ExpiredStalled(view, orphans, locked) ==
  {r \in Sources : view[r] = "stalled" /\ locked /\ ((HasActive /\ r = active) \/ orphans)}

\* What expires by a list of torrents: the active release if it never started
\* or stalled, and stalled torrents that no entry has; what has a torrent
\* needs the queue lock to delete it.
Expired(view, orphans, locked) ==
  {r \in Sources :
     \/ HasActive /\ r = active /\ view[r] = "absent"
     \/ view[r] = "stalled" /\ locked /\ ((HasActive /\ r = active) \/ orphans)}

\* By the list of the poll, or by one that was read just now.
ExpireDelete ==
  /\ \/ /\ pol.at = "expire" /\ UNCHANGED enq
        /\ LET gone == Expired(pol.view, TRUE, Free) IN
             /\ pol' = IF gone = {} THEN Rest ELSE [at |-> "expired", gone |-> gone, url |-> active]
             /\ Delete(gone)
     \/ /\ enq.at = "expire" /\ UNCHANGED pol
        /\ LET gone == Expired(torrent, FALSE, TRUE) IN
             /\ enq' = IF gone = {} THEN [at |-> "choose", online |-> TRUE]
                       ELSE [at |-> "expired", gone |-> gone, url |-> active]
             /\ Delete(gone)
  /\ UNCHANGED <<active, waiting, finished, dropped, why, known, downloaded, hopeless, overlapped, troubles>>

\* The active release fails only if it is still the one that was judged; an
\* orphan counts as failed, and is not stored any more.
WriteExpired(e) ==
  LET same    == e.url # NoSource /\ active = e.url /\ e.url \in e.gone
      orphans == e.gone \ {e.url}
  IN /\ dropped' = dropped \cup orphans \cup (IF same THEN {e.url} ELSE {})
     /\ active' = IF same THEN NoSource ELSE active
     /\ downloaded' = IF same THEN FALSE ELSE downloaded
     /\ why' = IF same \/ orphans # {} THEN "stall" ELSE why
     /\ waiting' = IF waiting \in orphans THEN NoSource ELSE waiting

ExpireWrite ==
  /\ \/ pol.at = "expired" /\ pol' = Rest /\ UNCHANGED enq
        /\ \/ WriteExpired(pol) /\ UNCHANGED troubles
           \/ Trouble /\ UNCHANGED <<dropped, active, downloaded, why, waiting>>
     \/ enq.at = "expired" /\ enq' = [at |-> "choose", online |-> TRUE] /\ UNCHANGED pol
        /\ \/ WriteExpired(enq) /\ UNCHANGED troubles
           \/ Trouble /\ UNCHANGED <<dropped, active, downloaded, why, waiting>>
  /\ UNCHANGED <<finished, known, torrent, hopeless, overlapped>>

-----------------------------------------------------------------------------
(* the extraction *)

\* Of any complete torrent of the episode while it has an active release,
\* unless its job has ended for good.
Extracted ==
  /\ HasActive
  /\ \E r \in Sources \ hopeless :
       /\ torrent[r] = "complete"
       /\ \/ /\ finished' = TRUE /\ active' = NoSource /\ why' = "none" /\ downloaded' = FALSE
             /\ UNCHANGED <<dropped, hopeless>>
          \/ /\ hopeless' = hopeless \cup {r}
             /\ GiveUpActive("extract") \/ GiveUpActive("error")
             /\ UNCHANGED finished
  /\ UNCHANGED <<waiting, known, torrent, enq, pol, overlapped, troubles>>

Enqueueing == ReadStored \/ AddStored \/ WriteStored \/ Choose \/ StoreChosen \/ AddChosen \/ WriteChosen
Polling    == ViewTorrents \/ Match \/ Restore \/ MissingTorrent

EpisodeNext ==
  \/ Torrents \/ Enqueueing \/ Polling \/ ExpireDelete \/ ExpireWrite \/ Extracted

\* Both loops of the scheduler run again and again, whatever they skipped.
EpisodeFairness ==
  /\ WF_episodeVars(Enqueueing) /\ WF_episodeVars(Polling)
  /\ WF_episodeVars(ExpireDelete) /\ WF_episodeVars(ExpireWrite)

EpisodeSpec == EpisodeInit /\ [][EpisodeNext]_episodeVars /\ EpisodeFairness

-----------------------------------------------------------------------------
(* Properties *)

EpisodeTypeOK ==
  /\ {active, waiting} \subseteq Sources \cup {NoSource}
  /\ finished \in BOOLEAN /\ downloaded \in BOOLEAN /\ overlapped \in BOOLEAN
  /\ dropped \subseteq Sources /\ known \subseteq Sources /\ hopeless \subseteq Sources
  /\ why \in {"none", "stall", "extract", "error"}
  /\ torrent \in [Sources -> {"absent", "loading", "stalled", "complete"}]

\* A finished episode has no active release again, whatever the poll, the
\* enqueue thread or a late write had in hand, unless a stored release was
\* being added while another one finished it.
FinishedStaysDetached == finished /\ active # NoSource => overlapped

\* An active release whose torrent is not there any more, because a poll
\* deleted it or somebody else did, does not keep the episode from looking
\* for another one for ever.
GoneTorrentIsGivenUp ==
  \A r \in Sources :
    HasActive /\ active = r /\ ~Has(r) ~> finished \/ active # r \/ Has(r)
=============================================================================
