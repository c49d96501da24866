---------------------------- MODULE MemoryOutbox ----------------------------
(***************************************************************************)
(* How the translation memory learns (translation_memory*.py, worker.py):   *)
(* a child looks one line up, translates or reuses it, publishes, records   *)
(* an intent before the marker of its publication goes, and learns after    *)
(* it; what is left is learned at the next start.  The line is the same in  *)
(* every episode of the series.  Its text is a member of a small set;       *)
(* hashes are equality, an obligation is an episode and a media revision    *)
(* (a policy changes like a medium).                                        *)
(***************************************************************************)
EXTENDS Naturals, FiniteSets

CONSTANTS
  Episodes,
  Wordings,        \* translations of the line
  Lanes,           \* children at a time
  Batch,           \* intents tried at a start
  MaxShown,        \* bound: publications
  MaxMedia,        \* bound: media replaced
  MaxMishaps       \* bound: deaths, lost outputs, damaged intents

ASSUME OutboxAssumption == {Lanes, Batch, MaxShown, MaxMedia, MaxMishaps} \subseteq Nat

NoWording  == "none"
NoDraft    == [text |-> NoWording, supplied |-> FALSE]
NoManifest == [no |-> 0, rev |-> 0, text |-> NoWording]
Resting    == [at |-> "off", byHand |-> FALSE, again |-> FALSE, plan |-> NoWording]
NoIntent   == [of |-> NoWording, rev |-> 0, no |-> 0, text |-> NoWording, supplied |-> FALSE, damaged |-> FALSE]

VARIABLES
  revs,      \* media revision of each episode
  child,     \* its job: where it is, started by hand, a recovery, what the memory supplies
  draft,     \* the cached translation, its lineage beside it
  shown,     \* the manifest on disk
  intact,    \* the published files are those it names
  pending,   \* publication marker
  intents,   \* the outbox
  memory,    \* lessons: obligation and text; one per obligation
  start,     \* the Worker's startup: intents it still tries, the one it has learned
  made,      \* history: episodes, revisions and texts a model made for them
  disturbed, \* history: episodes whose outputs were lost
  media, mishaps

memoryVars == <<revs, child, draft, shown, intact, pending, intents, memory, start, made, disturbed,
                media, mishaps>>

Key(i)      == <<i.of, i.rev>>
To(e, x)    == child' = [child EXCEPT ![e].at = x]
Ended(e)    == child' = [child EXCEPT ![e] = Resting]
In(e, x)    == child[e].at = x
Mishap      == mishaps < MaxMishaps /\ mishaps' = mishaps + 1
Current(e)  == shown[e] # NoManifest /\ shown[e].rev = revs[e]
Sound(e)    == Current(e) /\ intact[e]

MemoryInit ==
  /\ revs = [e \in Episodes |-> 1] /\ child = [e \in Episodes |-> Resting]
  /\ draft = [e \in Episodes |-> NoDraft] /\ shown = [e \in Episodes |-> NoManifest]
  /\ intact = [e \in Episodes |-> FALSE] /\ pending = [e \in Episodes |-> FALSE]
  /\ intents = {} /\ memory = {}
  /\ start = [at |-> "up", todo |-> {}, one |-> NoIntent]
  /\ made = {} /\ disturbed = {} /\ media = 0 /\ mishaps = 0

-----------------------------------------------------------------------------
(* translate *)

Take(e) ==
  /\ In(e, "off") /\ start.at = "up"
  /\ Cardinality({f \in Episodes : ~In(f, "off")}) < Lanes
  /\ \E m \in BOOLEAN : child' = [child EXCEPT ![e] = [Resting EXCEPT !.at = "look", !.byHand = m]]
  /\ UNCHANGED <<revs, draft, shown, intact, pending, intents, memory, start, made, disturbed, media, mishaps>>

LookRebuilds(e) ==
  /\ In(e, "look")
  /\ IF Sound(e) /\ ~pending[e] THEN draft' = [draft EXCEPT ![e] = NoDraft] /\ Ended(e)
     ELSE UNCHANGED draft /\ To(e, "plan")
  /\ UNCHANGED <<revs, shown, intact, pending, intents, memory, start, made, disturbed, media, mishaps>>

\* An interrupted publication that is complete is finished; one that stands is
\* left alone; anything else is made again.
Look(e) ==
  /\ In(e, "look")
  /\ IF Sound(e) /\ ~pending[e] THEN draft' = [draft EXCEPT ![e] = NoDraft] /\ Ended(e)
     ELSE /\ UNCHANGED draft
          /\ child' = [child EXCEPT ![e].at = IF Sound(e) THEN "record" ELSE "plan", ![e].again = Sound(e)]
  /\ UNCHANGED <<revs, shown, intact, pending, intents, memory, start, made, disturbed, media, mishaps>>

Candidates == {l.text : l \in memory}
Teachers(w) == {l.of : l \in {m \in memory : m.text = w}}
SupportOf(w) == {l \in memory : l.text = w}

AppliesBySupport(w) == Candidates = {w} /\ Cardinality(SupportOf(w)) >= 2

\* The only text there is, from two episodes at least.
Applies(w) == Candidates = {w} /\ Cardinality(Teachers(w)) >= 2

\* The lines the memory supplies, or none.
Split(w) == w # NoWording => Applies(w)

\* A conflict, or a memory that cannot be read, leaves everything to the model.
Plan(e) ==
  /\ In(e, "plan")
  /\ \E w \in Wordings \cup {NoWording} :
       /\ Split(w)
       /\ child' = [child EXCEPT ![e].at = IF draft[e] = NoDraft THEN "translate" ELSE "announce", ![e].plan = w]
  /\ UNCHANGED <<revs, draft, shown, intact, pending, intents, memory, start, made, disturbed, media, mishaps>>

\* Beside the text: whether the memory supplied the line.
Lineage(w, supplied) == [text |-> w, supplied |-> supplied]

Render(e) ==
  /\ In(e, "translate")
  /\ LET supplied == child[e].plan # NoWording IN
     \E w \in IF supplied THEN {child[e].plan} ELSE Wordings :
       /\ draft' = [draft EXCEPT ![e] = Lineage(w, supplied)]
       /\ made' = IF supplied THEN made ELSE made \cup {<<e, revs[e], w>>}
  /\ child' = [child EXCEPT ![e].at = "announce", ![e].plan = NoWording]
  /\ UNCHANGED <<revs, shown, intact, pending, intents, memory, start, disturbed, media, mishaps>>

-----------------------------------------------------------------------------
(* publish, and record the intent *)

Announced(e) ==
  /\ In(e, "announce")
  /\ pending' = [pending EXCEPT ![e] = TRUE] /\ intact' = [intact EXCEPT ![e] = FALSE]
  /\ To(e, "prove")
  /\ UNCHANGED <<revs, draft, shown, intents, memory, start, made, disturbed, media, mishaps>>

Shown == Cardinality({n \in 1..MaxShown : \E e \in Episodes : shown[e].no >= n})

\* A manifest is never the same twice.
Manifested(e) ==
  /\ In(e, "prove") /\ Shown < MaxShown
  /\ shown' = [shown EXCEPT ![e] = [no |-> Shown + 1, rev |-> revs[e], text |-> draft[e].text]]
  /\ intact' = [intact EXCEPT ![e] = TRUE]
  /\ To(e, "record")
  /\ UNCHANGED <<revs, draft, pending, intents, memory, start, made, disturbed, media, mishaps>>

\* The evidence itself, the cache it came from may go.
Snapshot(e) == draft[e].text
IntentOf(e) == [of |-> e, rev |-> shown[e].rev, no |-> shown[e].no, text |-> Snapshot(e),
                supplied |-> draft[e].supplied, damaged |-> FALSE]
Same(e)     == {i \in intents : Key(i) = <<e, revs[e]>>}
Legible(i)  == ~i.damaged

\* The lineage is about the text that was published.
LineageFits(e) == draft[e] # NoDraft /\ draft[e].text = shown[e].text
Teaches(e)     == ~child[e].byHand /\ LineageFits(e)

\* The same intent again changes nothing, another one under its name is
\* refused, a damaged one moved away, and so is one whose files are gone:
\* then the marker stays.
Record(e) ==
  /\ In(e, "record")
  /\ \/ ~Teaches(e) /\ To(e, "finish") /\ UNCHANGED intents
     \/ Teaches(e) /\ Same(e) = {} /\ Sound(e) /\ To(e, "finish") /\ intents' = intents \cup {IntentOf(e)}
     \/ Teaches(e) /\ Same(e) = {} /\ ~Sound(e) /\ Ended(e) /\ UNCHANGED intents
     \/ Teaches(e) /\ Same(e) = {IntentOf(e)} /\ To(e, "finish") /\ UNCHANGED intents
     \/ /\ Teaches(e) /\ Same(e) \notin {{}, {IntentOf(e)}} /\ Ended(e)
        /\ intents' = {i \in intents : i \in Same(e) => Legible(i)}
  /\ UNCHANGED <<revs, draft, shown, intact, pending, memory, start, made, disturbed, media, mishaps>>

\* With the marker gone the files are checked once more; a recovery that fails
\* puts the marker back.
Finished(e) ==
  /\ In(e, "finish")
  /\ pending' = [pending EXCEPT ![e] = ~Sound(e) /\ child[e].again]
  /\ intact' = [intact EXCEPT ![e] = Sound(e)]
  /\ IF Sound(e) THEN To(e, IF Teaches(e) THEN "learn" ELSE "tidy") ELSE Ended(e)
  /\ UNCHANGED <<revs, draft, shown, intents, memory, start, made, disturbed, media, mishaps>>

Tidied(e) ==
  /\ In(e, "tidy")
  /\ draft' = [draft EXCEPT ![e] = NoDraft] /\ Ended(e)
  /\ UNCHANGED <<revs, shown, intact, pending, intents, memory, start, made, disturbed, media, mishaps>>

-----------------------------------------------------------------------------
(* replay: by the child right after it published, by the Worker at its start *)

\* The publication the intent is about still stands.
Names(i) == shown[i.of].no = i.no
Ready(i) == Legible(i) /\ ~pending[i.of] /\ Names(i) /\ Sound(i.of)

\* What the memory supplied teaches nothing.
Teachable(i) == ~i.supplied

Lesson(i) == [of |-> i.of, rev |-> i.rev, text |-> i.text]
Obligation(x) == <<x.of, x.rev>>
Known(i)  == {l \in memory : Obligation(l) = Obligation(i)}

\* Different evidence for an obligation the memory knows is refused.
Replays(i) == Ready(i) /\ (Teachable(i) => Known(i) \subseteq {Lesson(i)})

\* One transaction.
Taught(i) == IF Teachable(i) /\ Known(i) = {} THEN memory \cup {Lesson(i)} ELSE memory

\* The acknowledgement reads the file again: an intent that was damaged
\* meanwhile is moved away.
Acknowledged(i) == intents' = {j \in intents : <<j.of, j.no>> # <<i.of, i.no>>}

Mine(e) == {i \in intents : i.of = e /\ i.no = shown[e].no}

ChildLearns(e) ==
  /\ In(e, "learn")
  /\ \E i \in Mine(e) : IF Replays(i) THEN memory' = Taught(i) /\ To(e, "acknowledge")
                                     ELSE UNCHANGED memory /\ To(e, "tidy")
  /\ UNCHANGED <<revs, draft, shown, intact, pending, intents, start, made, disturbed, media, mishaps>>

ChildAcknowledges(e) ==
  /\ In(e, "acknowledge")
  /\ \E i \in Mine(e) : Acknowledged(i)
  /\ To(e, "tidy")
  /\ UNCHANGED <<revs, draft, shown, intact, pending, memory, start, made, disturbed, media, mishaps>>

StartLearns ==
  /\ start.at = "batch" /\ start.one = NoIntent
  /\ \E i \in start.todo :
       IF Replays(i) THEN memory' = Taught(i) /\ start' = [start EXCEPT !.one = i]
       ELSE UNCHANGED memory /\ start' = [start EXCEPT !.todo = @ \ {i}]
  /\ UNCHANGED <<revs, child, draft, shown, intact, pending, intents, made, disturbed, media, mishaps>>

StartAcknowledges ==
  /\ start.at = "batch" /\ start.one # NoIntent
  /\ Acknowledged(start.one)
  /\ start' = [start EXCEPT !.todo = @ \ {start.one}, !.one = NoIntent]
  /\ UNCHANGED <<revs, child, draft, shown, intact, pending, memory, made, disturbed, media, mishaps>>

Started ==
  /\ start.at = "batch" /\ start.todo = {}
  /\ start' = [start EXCEPT !.at = "up"]
  /\ UNCHANGED <<revs, child, draft, shown, intact, pending, intents, memory, made, disturbed, media, mishaps>>

-----------------------------------------------------------------------------
(* mishaps *)

ChildDies(e) ==
  /\ ~In(e, "off") /\ Mishap /\ Ended(e)
  /\ UNCHANGED <<revs, draft, shown, intact, pending, intents, memory, start, made, disturbed, media>>

\* The Worker and its children stop; its next start tries the first intents by
\* name, and names are hashes.
Restart ==
  /\ Mishap
  /\ child' = [e \in Episodes |-> Resting]
  /\ \E some \in SUBSET intents :
       /\ Cardinality(some) = IF Cardinality(intents) < Batch THEN Cardinality(intents) ELSE Batch
       /\ start' = [at |-> "batch", todo |-> some, one |-> NoIntent]
  /\ UNCHANGED <<revs, draft, shown, intact, pending, intents, memory, made, disturbed, media>>

OutputLost(e) ==
  /\ Mishap /\ intact[e]
  /\ intact' = [intact EXCEPT ![e] = FALSE] /\ disturbed' = disturbed \cup {e}
  /\ UNCHANGED <<revs, child, draft, shown, pending, intents, memory, start, made, media>>

IntentDamaged ==
  /\ Mishap
  /\ \E i \in intents :
       ~i.damaged /\ intents' = (intents \ {i}) \cup {[i EXCEPT !.damaged = TRUE]}
  /\ UNCHANGED <<revs, child, draft, shown, intact, pending, memory, start, made, disturbed, media>>

\* Between two jobs; the cached translation of the old medium is not used.
MediaReplaced(e) ==
  /\ In(e, "off") /\ media < MaxMedia /\ media' = media + 1
  /\ revs' = [revs EXCEPT ![e] = @ + 1] /\ draft' = [draft EXCEPT ![e] = NoDraft]
  /\ UNCHANGED <<child, shown, intact, pending, intents, memory, start, made, disturbed, mishaps>>

MemoryNext ==
  \/ \E e \in Episodes :
       \/ Take(e) \/ Look(e) \/ Plan(e) \/ Render(e) \/ Announced(e) \/ Manifested(e) \/ Record(e)
       \/ Finished(e) \/ ChildLearns(e) \/ ChildAcknowledges(e) \/ Tidied(e)
       \/ ChildDies(e) \/ OutputLost(e) \/ MediaReplaced(e)
  \/ StartLearns \/ StartAcknowledges \/ Started \/ Restart \/ IntentDamaged

MemorySpec == MemoryInit /\ [][MemoryNext]_memoryVars

-----------------------------------------------------------------------------
(* properties *)

Makers(w) == {m[1] : m \in {n \in made : n[3] = w}}

\* The memory never feeds on itself: a lesson is a text a model made for just
\* that obligation, and a text is supplied only where models made it in two
\* episodes, whatever crashes, restarts and replays happened in between.
SuppliedIsIndependent ==
  /\ \A l \in memory : <<l.of, l.rev, l.text>> \in made
  /\ \A e \in Episodes :
       /\ child[e].plan # NoWording => Cardinality(Makers(child[e].plan)) >= 2
       /\ draft[e].supplied => Cardinality(Makers(draft[e].text)) >= 2

\* A publication that has to be finished never meets another one's intent under
\* its name, so that its marker does not stay for ever; only where published
\* files were lost is it made a second time and refused.
RetryFindsItsIntent ==
  \A e \in Episodes : In(e, "record") /\ Teaches(e) /\ e \notin disturbed =>
    \A i \in Same(e) : i.damaged \/ i = IntentOf(e)
=============================================================================
