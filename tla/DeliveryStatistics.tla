------------------------ MODULE DeliveryStatistics ------------------------
(***************************************************************************)
(* The service level of the AI lane (scan_state.py): every release of a     *)
(* video that needs subtitles is an obligation with a deadline, walks of    *)
(* the library attest from time to time that none is missing, and a summary *)
(* judges the obligations whose deadline lies inside the unbroken chain of  *)
(* walks.  One video, one policy; the interleavings of a walk are those of  *)
(* InventoryEpochs, here a walk is one step.                                *)
(***************************************************************************)
EXTENDS Naturals, FiniteSets

CONSTANTS
  MaxReleases, \* bound: media identities of the video
  Deadline,    \* ticks from eligibility to deadline
  MaxGap,      \* ticks between two walks of one chain
  MaxClock,    \* bound: ticks
  MaxClaims    \* bound: attempts of one obligation

ASSUME StatisticsAssumption ==
  /\ {MaxReleases, Deadline, MaxClock, MaxClaims} \subseteq Nat
  /\ MaxGap \in Nat \ {0}

Releases == 1..MaxReleases
Ticks    == 1..MaxClock
NoProof  == [at |-> 0, by |-> 0]
Unowed   == [state |-> "none", eligible |-> 0, claims |-> 0, ended |-> 0]
NoWalk   == [state |-> "none", owed |-> {}]

VARIABLES
  clock,
  release,  \* the release on disk that needs AI subtitles, 0: none
  ledger,   \* the obligation of every release; ended: verified or excluded then
  walks,    \* the walk that ended at each tick, and the obligations it attested
  dirty,    \* the ledger changed outside of the last walk
  proof,    \* the Chinese subtitles published for a release: when, by which attempt
  counted   \* history: how the last summary that counted a release judged it

statisticsVars == <<clock, release, ledger, walks, dirty, proof, counted>>

StatisticsInit ==
  /\ clock = 1 /\ release = 0
  /\ ledger = [r \in Releases |-> Unowed]
  /\ walks = [t \in Ticks |-> NoWalk] /\ dirty = FALSE
  /\ proof = [r \in Releases |-> NoProof]
  /\ counted = [r \in Releases |-> "never"]

-----------------------------------------------------------------------------
(* the ledger *)

Walk(t) == t \in Ticks /\ walks[t].state = "completed"
LastWalk == CHOOSE t \in 0..MaxClock : /\ t = 0 \/ Walk(t)
                                     /\ \A u \in Ticks : Walk(u) => u <= t

\* New obligations are eligible from the end of the last walk, or from the
\* beginning of the measurement.
Bound == IF LastWalk = 0 THEN 1 ELSE LastWalk

Due(r)   == ledger[r].eligible + Deadline
Untried  == {r \in Releases : ledger[r].state = "open" /\ ledger[r].claims = 0}
Least(S) == CHOOSE t \in S : \A u \in S : t <= u

Excluded(l, rs) ==
  [r \in Releases |-> IF r \in rs /\ l[r].eligible <= clock /\ clock <= l[r].eligible + Deadline
                        THEN [l[r] EXCEPT !.state = "excluded", !.ended = clock] ELSE l[r]]

AdmittedAnew(o, at) ==
  IF o.state \in {"none", "excluded"} THEN [Unowed EXCEPT !.state = "open", !.eligible = at] ELSE o

\* A zero-attempt exclusion is reopened as it was, never with a new deadline.
Admitted(o, at) ==
  CASE o.state = "none" -> [Unowed EXCEPT !.state = "open", !.eligible = at]
    [] o.state = "excluded" -> [o EXCEPT !.state = "open", !.ended = 0]
    [] OTHER -> o

\* A release inherits the deadline of what it supersedes, which is excluded
\* unless it is overdue.
Assured(at) ==
  LET from  == IF Untried = {} THEN at ELSE Least({ledger[r].eligible : r \in Untried})
      added == [ledger EXCEPT ![release] = Admitted(@, from)]
  IN  IF added[release].state = "open" THEN Excluded(added, Untried \ {release}) ELSE added

\* What a classification of the video writes.
Reconciled(at) == IF release = 0 THEN Excluded(ledger, Untried) ELSE Assured(at)

\* Another file, the same one again, or nothing that needs subtitles.
Changed ==
  /\ release' \in ({0} \cup Releases) \ {release}
  /\ UNCHANGED <<clock, ledger, walks, dirty, proof, counted>>

\* A scan outside of a walk invalidates the last one when it finds news.
Seen ==
  /\ ledger' = Reconciled(clock) /\ ledger' # ledger
  /\ dirty' = TRUE
  /\ UNCHANGED <<clock, release, walks, proof, counted>>

\* The row of a reported file gets an obligation without news for the walk.
Backfills ==
  /\ release # 0 /\ ledger[release].state \in {"none", "excluded"}
  /\ ledger' = Assured(clock)
  /\ UNCHANGED <<clock, release, walks, dirty, proof, counted>>

\* A claim assures the obligation of what is on disk and begins an attempt.
Claimed ==
  /\ release # 0 /\ ledger[release].claims < MaxClaims
  /\ LET l == Assured(Bound) IN
       /\ l[release].state = "open"
       /\ ledger' = [l EXCEPT ![release].claims = @ + 1]
  /\ UNCHANGED <<clock, release, walks, dirty, proof, counted>>

\* The child publishes; a transcript in the source language proves nothing.
Published(r) ==
  /\ ledger[r].state = "open" /\ proof[r].by < ledger[r].claims
  /\ proof' = [proof EXCEPT ![r] = [at |-> clock, by |-> ledger[r].claims]]
  /\ UNCHANGED <<clock, release, ledger, walks, dirty, counted>>

\* A publication from before the attempt proves nothing for it.
Proven(r) == ledger[r].claims > 0 /\ proof[r].by = ledger[r].claims

\* The parent, or the next one after a crash, records what the attempt of the
\* obligation published, with the time of the publication.
Verified(r) ==
  /\ ledger[r].state = "open" /\ Proven(r)
  /\ ledger' = [ledger EXCEPT ![r].state = "succeeded", ![r].ended = proof[r].at]
  /\ UNCHANGED <<clock, release, walks, dirty, proof, counted>>

Passes ==
  /\ clock < MaxClock /\ clock' = clock + 1
  /\ UNCHANGED <<release, ledger, walks, dirty, proof, counted>>

-----------------------------------------------------------------------------
(* walks and their chain *)

\* The walk ends; what it saw first is eligible since the one before.
Walked ==
  /\ walks[clock] = NoWalk
  /\ ledger' = Reconciled(Bound)
  /\ walks' = [walks EXCEPT ![clock] =
       [state |-> "completed", owed |-> IF release = 0 THEN {} ELSE {release}]]
  /\ dirty' = FALSE
  /\ UNCHANGED <<clock, release, proof, counted>>

\* A walk fails, or is abandoned by a restart.
WalkFails ==
  /\ walks[clock] = NoWalk
  /\ walks' = [walks EXCEPT ![clock] = [state |-> "failed", owed |-> {}]]
  /\ UNCHANGED <<clock, release, ledger, dirty, proof, counted>>

\* The recount of what a walk attested, in the ledger as it is now.
Holds(t) == Walk(t) /\ \A r \in walks[t].owed : ledger[r].state \in {"open", "succeeded"}

\* Every later walk holds and follows soon enough on the one before.
Unbroken(t) ==
  /\ Holds(t)
  /\ \A u \in Ticks : t < u => walks[u] = NoWalk \/ Holds(u)
  /\ \A u \in Ticks : t <= u /\ Walk(u) /\ u < LastWalk =>
       \E w \in Ticks : Walk(w) /\ u < w /\ w - u <= MaxGap

AttestedNow == LastWalk # 0 /\ Unbroken(LastWalk) /\ ~dirty /\ clock - LastWalk <= MaxGap
Beginning   == Least({t \in Ticks : Unbroken(t)})

-----------------------------------------------------------------------------
(* the summary *)

\* Deadlines from the first one the chain watched in full to its last walk.
InCohort(r) == /\ ledger[r].state # "none"
               /\ Beginning + Deadline <= Due(r) /\ Due(r) < LastWalk

Judged(r) ==
  LET o == ledger[r] IN
  CASE o.state = "excluded" /\ o.claims = 0 /\ o.eligible <= o.ended /\ o.ended <= Due(r) -> "excluded"
    [] o.state = "succeeded" /\ o.ended <= Due(r) -> "on_time"
    [] OTHER -> "missed"

\* A miss whose proof lies on disk, not recorded yet, can still turn out well.
Unrecorded(r) == ledger[r].state = "open" /\ Proven(r) /\ proof[r].at <= Due(r)

Summarized ==
  /\ AttestedNow
  /\ counted' = [r \in Releases |->
       IF ~InCohort(r) THEN counted[r] ELSE IF Unrecorded(r) THEN "unrecorded" ELSE Judged(r)]
  /\ counted' # counted
  /\ UNCHANGED <<clock, release, ledger, walks, dirty, proof>>

StatisticsNext ==
  \/ Changed \/ Seen \/ Backfills \/ Claimed \/ Passes \/ Walked \/ WalkFails \/ Summarized
  \/ \E r \in Releases : Published(r) \/ Verified(r)

StatisticsSpec == StatisticsInit /\ [][StatisticsNext]_statisticsVars

-----------------------------------------------------------------------------
(* properties *)

\* What a summary has counted stays counted that way whatever happens to the
\* video afterwards: a delivery in time stays one, a miss stays a miss unless
\* the proof that it was in time lay on disk already, and an exclusion never
\* becomes a delivery in time (reopened, it is a miss).
VerdictsLast ==
  \A r \in Releases :
    /\ counted[r] = "on_time" => Judged(r) = "on_time"
    /\ counted[r] = "missed" => Judged(r) = "missed"
    /\ counted[r] = "excluded" => Judged(r) # "on_time"
=============================================================================
