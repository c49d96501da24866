------------------------- MODULE ResourceAdmission -------------------------
(***************************************************************************)
(* Resource admission of GPU work (resource_admission.py,                  *)
(* resource_runtime.py).  A launcher, a Worker process that goes through   *)
(* the queue, samples the host, decides, and replaces the state file; its  *)
(* child does the GPU work only under the decision the file then has.  The *)
(* file is read, changed and replaced without a lock, by every launcher    *)
(* and child of the host.  Time is two events: a plan outlives its minute, *)
(* the six hours after an out-of-memory end are over.                      *)
(***************************************************************************)
EXTENDS Naturals, Sequences

CONSTANTS
  Launchers,        \* the Worker processes of the host
  RecoverySamples,  \* equal samples before a worse tier is left
  MaxProbes,        \* bound: decisions that are persisted
  MaxOoms           \* bound: out-of-memory ends that are recorded

ASSUME AdmissionAssumption ==
  /\ RecoverySamples \in Nat \ {0}
  /\ MaxProbes \in Nat /\ MaxOoms \in Nat

VARIABLES
  admission,   \* the state file: its plan, tier, candidate, count and last out-of-memory
  launch,      \* what each launcher, or its child, is doing
  probes,      \* history: the decisions persisted
  ooms,        \* history: the out-of-memory ends recorded
  cooled,      \* those whose cooldown is over
  recentRaw,   \* history: the tiers of the last samples, as they were persisted
  raced        \* history: a writer replaced a state it had not read

admissionVars == <<admission, launch, probes, ooms, cooled, recentRaw, raced>>

Severity == [green |-> 0, yellow |-> 1, red |-> 2, unavailable |-> 3]
Steady(raw) == [tier |-> raw, candidate |-> "none", count |-> 0]

\* No file; a launcher between two videos.
NoAdmission == [plan |-> 0, hysteresis |-> Steady("none"), oom |-> 0]
NoLaunch == [step |-> "idle"]

AdmissionInit ==
  /\ admission = NoAdmission
  /\ launch = [w \in Launchers |-> NoLaunch]
  /\ probes = 0 /\ ooms = 0 /\ cooled = 0
  /\ recentRaw = <<>> /\ raced = FALSE

-----------------------------------------------------------------------------
(* The decision *)

\* A sample tells whether the host is calm, and which of the two routes of
\* the model, the primary and the lower one, the free memory of the GPU has
\* room for.  A collector that fails or is late makes it unavailable, and so
\* does a value that cannot be.
Unavailable == [available |-> FALSE]
Samples == [available : {TRUE}, host : {"calm", "pressed", "critical"},
            fits : {{"primary", "lower"}, {"lower"}, {}}] \cup {Unavailable}

\* After a recent out-of-memory end the primary route is no candidate.
ModelRoute(s, recentOom) ==
  CASE "primary" \in s.fits /\ ~recentOom -> "primary"
    [] "lower" \in s.fits /\ ("primary" \notin s.fits \/ recentOom) -> "lower"
    [] OTHER -> "none"

RawTier(s, recentOom) ==
  CASE ~s.available -> "unavailable"
    [] s.available /\ (s.host = "critical" \/ ModelRoute(s, recentOom) = "none") -> "red"
    [] s.available /\ s.host # "critical" /\ ModelRoute(s, recentOom) # "none" ->
         IF s.host = "pressed" \/ ModelRoute(s, recentOom) = "lower" THEN "yellow" ELSE "green"

\* A worse sample counts at once; a better one when it was seen often enough
\* in a row.
HysteresisKeepsCount(raw, h) ==   \* mutant: a setback leaves the count as it was
  IF h.tier = "none" THEN Steady(raw)
  ELSE IF Severity[raw] >= Severity[h.tier] THEN [h EXCEPT !.tier = raw]
  ELSE LET n == IF h.candidate = raw THEN h.count + 1 ELSE 1
       IN  IF n >= RecoverySamples THEN Steady(raw)
           ELSE [tier |-> h.tier, candidate |-> raw, count |-> n]
Hysteresis(raw, h) ==
  IF h.tier = "none" THEN Steady(raw)
  ELSE IF Severity[raw] >= Severity[h.tier] THEN Steady(raw)
  ELSE LET n == IF h.candidate = raw THEN h.count + 1 ELSE 1
       IN  IF n >= RecoverySamples THEN Steady(raw)
           ELSE [tier |-> h.tier, candidate |-> raw, count |-> n]

\* Pressure of the host defers new work whatever the tier.
Admits(s, recentOom, h) ==
  /\ s.available /\ s.host = "calm"
  /\ ModelRoute(s, recentOom) # "none"
  /\ h.tier \in {"green", "yellow"}

-----------------------------------------------------------------------------
(* A launcher's probe *)

LaunchAt(w, s) == launch[w].step = s
LaunchIs(w, r) == launch' = [launch EXCEPT ![w] = r]

\* The state is read before the collectors run, for seconds.
Reads(w, second) ==
  /\ probes < MaxProbes
  /\ LaunchIs(w, [step |-> "probing", second |-> second, read |-> admission, known |-> ooms])
  /\ UNCHANGED <<admission, probes, ooms, cooled, recentRaw, raced>>

BeginProbe(w) == LaunchAt(w, "idle") /\ Reads(w, FALSE)

\* A decision that the GPU's memory defers is taken once more when Ollama
\* gave memory back.
ProbeAfterUnload(w) == LaunchAt(w, "deferred") /\ launch[w].again /\ Reads(w, TRUE)

Latest(raws) == IF Len(raws) > RecoverySamples THEN Tail(raws) ELSE raws

\* The file is replaced with the decision and the out-of-memory time read
\* before it.  "hot" and "calm" remember what was known of the host then.
FinishProbe(w) ==
  /\ LaunchAt(w, "probing") /\ probes < MaxProbes
  /\ \E s \in Samples :
       LET l      == launch[w]
           recent == l.read.oom > cooled
           raw    == RawTier(s, recent)
           h      == Hysteresis(raw, l.read.hysteresis)
           short  == s.available /\ ((~recent /\ "primary" \notin s.fits) \/ s.fits = {})
       IN
       /\ admission' = [plan |-> probes + 1, hysteresis |-> h, oom |-> l.read.oom]
       /\ raced' = (raced \/ admission # l.read)
       /\ recentRaw' = Latest(Append(recentRaw, raw))
       /\ LaunchIs(w, IF Admits(s, recent, h)
                  THEN [step |-> "planned", id |-> probes + 1, fresh |-> TRUE,
                        route |-> ModelRoute(s, recent), hot |-> l.known > cooled,
                        calm |-> \A i \in DOMAIN recentRaw' : Severity[recentRaw'[i]] < 2]
                  ELSE [step |-> "deferred", again |-> short /\ ~l.second])
  /\ probes' = probes + 1
  /\ UNCHANGED <<ooms, cooled>>

\* The media file, a collector or the write fails: the item stays unclaimed.
ProbeFails(w) ==
  /\ LaunchAt(w, "probing")
  /\ LaunchIs(w, NoLaunch)
  /\ UNCHANGED <<admission, probes, ooms, cooled, recentRaw, raced>>

Defer(w) ==
  /\ LaunchAt(w, "deferred")
  /\ LaunchIs(w, NoLaunch)
  /\ UNCHANGED <<admission, probes, ooms, cooled, recentRaw, raced>>

-----------------------------------------------------------------------------
(* The child and its GPU work *)

\* The plan is in its minute and is still the one the file has.
Authorized(w) == launch[w].fresh /\ admission.plan = launch[w].id

\* The child reads its plan as it starts.
LoadPlan(w) ==
  /\ LaunchAt(w, "planned") /\ Authorized(w)
  /\ LaunchIs(w, [launch[w] EXCEPT !.step = "loaded"])
  /\ UNCHANGED <<admission, probes, ooms, cooled, recentRaw, raced>>

PlanAges(w) ==
  /\ launch[w].step \in {"planned", "loaded"} /\ launch[w].fresh
  /\ LaunchIs(w, [launch[w] EXCEPT !.fresh = FALSE])
  /\ UNCHANGED <<admission, probes, ooms, cooled, recentRaw, raced>>

\* The claim is blocked, the child does not start, its plan is refused, the
\* media file is another, or the lease was not free in time.
GiveUp(w) ==
  /\ launch[w].step \in {"planned", "loaded"}
  /\ LaunchIs(w, NoLaunch)
  /\ UNCHANGED <<admission, probes, ooms, cooled, recentRaw, raced>>

\* The child that records its out-of-memory end still has the lease.
HasGpu(w) == launch[w].step \in {"working", "recording"}

\* The route bounds the memory of what the job asks for and never raises it:
\* a repair that asks for less gets less.
AdjustedRoute(w, asked) ==
  IF launch[w].route = "primary" /\ asked = "primary" THEN "primary" ELSE "lower"

\* With the lease, the plan is checked once more.
StartGpuWork(w) ==
  /\ LaunchAt(w, "loaded") /\ \A x \in Launchers : ~HasGpu(x)
  /\ Authorized(w)
  /\ \E asked \in {"primary", "lower"} :
       LaunchIs(w, [step |-> "working", hot |-> launch[w].hot, calm |-> launch[w].calm,
                route |-> AdjustedRoute(w, asked)])
  /\ UNCHANGED <<admission, probes, ooms, cooled, recentRaw, raced>>

\* The job is done, has failed otherwise, or is terminated at its timeout.
EndGpuWork(w) ==
  /\ LaunchAt(w, "working")
  /\ LaunchIs(w, NoLaunch)
  /\ UNCHANGED <<admission, probes, ooms, cooled, recentRaw, raced>>

\* The child raises the GPU's out-of-memory error and reads the state.
RunOutOfMemory(w) ==
  /\ LaunchAt(w, "working") /\ ooms < MaxOoms
  /\ LaunchIs(w, [step |-> "recording", read |-> admission])
  /\ UNCHANGED <<admission, probes, ooms, cooled, recentRaw, raced>>

\* The kernel kills the child, which gives up the lease.  Its parent takes
\* the signal for an out-of-memory end.
IsKilled(w) ==
  /\ LaunchAt(w, "working") /\ ooms < MaxOoms
  /\ LaunchIs(w, [step |-> "killed"])
  /\ UNCHANGED <<admission, probes, ooms, cooled, recentRaw, raced>>

NoticeKill(w) ==
  /\ LaunchAt(w, "killed")
  /\ LaunchIs(w, [step |-> "reporting", read |-> admission])
  /\ UNCHANGED <<admission, probes, ooms, cooled, recentRaw, raced>>

RecordOom(w) ==
  /\ launch[w].step \in {"recording", "reporting"} /\ ooms < MaxOoms
  /\ ooms' = ooms + 1
  /\ admission' = [launch[w].read EXCEPT !.oom = ooms + 1]
  /\ raced' = (raced \/ admission # launch[w].read)
  /\ LaunchIs(w, NoLaunch)
  /\ UNCHANGED <<probes, cooled, recentRaw>>

\* A record that cannot be written does not hide the failure of the job.
RecordFails(w) ==
  /\ launch[w].step \in {"recording", "reporting"}
  /\ LaunchIs(w, NoLaunch)
  /\ UNCHANGED <<admission, probes, ooms, cooled, recentRaw, raced>>

CoolDown ==
  /\ cooled < ooms
  /\ cooled' = ooms
  /\ UNCHANGED <<admission, launch, probes, ooms, recentRaw, raced>>

AdmissionNext ==
  \/ \E w \in Launchers :
       \/ BeginProbe(w) \/ ProbeAfterUnload(w) \/ FinishProbe(w) \/ ProbeFails(w) \/ Defer(w)
       \/ LoadPlan(w) \/ PlanAges(w) \/ GiveUp(w) \/ StartGpuWork(w) \/ EndGpuWork(w)
       \/ RunOutOfMemory(w) \/ IsKilled(w) \/ NoticeKill(w) \/ RecordOom(w) \/ RecordFails(w)
  \/ CoolDown

AdmissionSpec == AdmissionInit /\ [][AdmissionNext]_admissionVars

-----------------------------------------------------------------------------
\* No GPU work runs that was admitted while one of the last samples found the
\* host exhausted or could not see it, and none on the primary route that was
\* planned when an out-of-memory end was recorded and not cooled down
\* (decide_resource_admission, record_resource_oom): unless one process
\* replaced the state another had just written.
LaunchIsCautious ==
  raced \/ \A w \in Launchers :
             LaunchAt(w, "working") =>
               launch[w].calm /\ (launch[w].route = "primary" => ~launch[w].hot)
=============================================================================
