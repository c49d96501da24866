------------------------- MODULE CompletedDelivery -------------------------
(***************************************************************************)
(* The completed MKV of one video (completed_delivery.py): a child muxes   *)
(* the medium and its published subtitles into a library of its own, with  *)
(* a marker before and a receipt after; the parent accepts the receipt     *)
(* (main.py).  A targeted line repair publishes, delivers the same way and *)
(* puts the old publication back when anything fails                       *)
(* (retranslate_ai_lines.py); a reprocess archives what was delivered and  *)
(* a restore brings it back, file by file (reprocess_ai_video.py).  Media, *)
(* policies and subtitle texts are numbered, a muxed file is what it was   *)
(* muxed from; the files of a publication are written in one step.  Left   *)
(* out: streams, titles and time limits of ffmpeg, the files a line repair *)
(* works on before it publishes, the row it was claimed from, and the      *)
(* command that delivers one video by hand without the lock of the video.  *)
(***************************************************************************)
EXTENDS Naturals, FiniteSets

CONSTANTS
  MaxSources,     \* bound: media that replace one another under the path
  Revisions,       \* policy revisions the operator switches between
  MaxWritten,     \* bound: subtitle texts written
  MaxTries,       \* bound: jobs and line repairs
  MaxEnds,        \* bound: deaths and failures
  MaxArchives     \* bound: archives begun

ASSUME DeliveryAssumption ==
  /\ {MaxSources, MaxWritten, MaxTries, MaxEnds, MaxArchives} \subseteq Nat
  /\ Revisions # {} /\ 0 \notin Revisions

Files  == {"subs", "proof", "film", "receipt"}
Absent == [text |-> 0]               \* no file
Bare   == [f \in Files |-> Absent]

VARIABLES
  medium,     \* the medium under the path of the video
  policy,     \* the policy revision in force
  onDisk,       \* subtitles, their manifest, the completed MKV and its receipt
  mark,       \* the marker of a delivery under way: what it delivers
  staged,     \* the file that marker names
  mux,        \* the one who holds the lock of the video
  accepted,   \* identities whose delivery the parent recorded
  aside,      \* what a reprocess or restore has moved away, a repair has copied
  store,      \* the last complete archive
  disowned,   \* history: somebody gave a completed MKV up
  written, tries, ends, archives

countVars == <<written, tries, ends, archives>>
completedVars == <<medium, policy, onDisk, mark, staged, mux, accepted, aside, store, disowned, countVars>>

Identity == [media |-> medium, rules |-> policy]
NoMux    == [by |-> "job", at |-> "off", try |-> 0, claim |-> Absent, text |-> 0, of |-> Absent]
There(f) == onDisk[f] # Absent
MuxAt(x) == mux.at = x
Step(x)  == mux' = [mux EXCEPT !.at = x]
Ends     == mux' = NoMux

\* What an error and a delivery lead to: a job ends, a repair goes on.
Raises  == IF mux.by = "job" THEN Ends ELSE Step("rollback")
Returns == Step(IF mux.by = "job" THEN "verdict" ELSE "result")

\* The manifest proves the subtitles as they are, for this medium and policy.
Strict ==
  /\ There("proof") /\ onDisk["proof"].target = Identity
  /\ onDisk["subs"] = [text |-> onDisk["proof"].text]

\* What a mux makes now, and what it must have made to deliver d.
Made     == [media |-> medium, text |-> onDisk["subs"].text]
Fruit(d) == [media |-> d.target.media, text |-> d.proof.text]

CompletedInit ==
  /\ medium = 1 /\ policy \in Revisions /\ onDisk = Bare
  /\ mark = Absent /\ staged = Absent /\ mux = NoMux /\ accepted = {}
  /\ aside = Bare /\ store = Bare /\ disowned = FALSE
  /\ written = 0 /\ tries = 0 /\ ends = 0 /\ archives = 0

-----------------------------------------------------------------------------
(* The child: deliver_completed_mkv *)

PublishSubs(t) ==
  /\ written' = t
  /\ onDisk' = [onDisk EXCEPT !["subs"] = [text |-> t], !["proof"] = [text |-> t, target |-> Identity]]

\* A job of the AI queue publishes unless a strict publication is there.
StartDelivery ==
  /\ MuxAt("off") /\ Identity \notin accepted /\ tries < MaxTries
  /\ tries' = tries + 1
  /\ mux' = [NoMux EXCEPT !.at = "publication", !.try = tries + 1, !.claim = Identity]
  /\ IF Strict THEN UNCHANGED <<onDisk, written>> ELSE written < MaxWritten /\ PublishSubs(written + 1)
  /\ UNCHANGED <<medium, policy, mark, staged, accepted, aside, store, disowned, ends, archives>>

\* A repair whose publication does not hold goes on without a delivery, or
\* fails when it is found out only in the delivery.
ReadPublication ==
  /\ MuxAt("publication")
  /\ IF Strict THEN mux' = [mux EXCEPT !.at = "identity", !.text = onDisk["subs"].text]
               ELSE Raises \/ (mux.by # "job" /\ Returns)
  /\ UNCHANGED <<medium, policy, onDisk, mark, staged, accepted, aside, store, disowned, countVars>>

\* The medium is read after the publication was found strict for it.
ReadIdentity ==
  /\ MuxAt("identity")
  /\ mux' = [mux EXCEPT !.at = "look", !.of = [target |-> Identity, proof |-> onDisk["proof"]]]
  /\ UNCHANGED <<medium, policy, onDisk, mark, staged, accepted, aside, store, disowned, countVars>>

Vouches(d) == There("receipt") /\ onDisk["receipt"].of = d

\* A receipt of this very delivery ends the job, if film and streams hold;
\* a film that neither it nor a marker accounts for is never overwritten.
LookAtReceipt ==
  /\ MuxAt("look")
  /\ IF Vouches(mux.of)
       THEN IF onDisk["receipt"].output = onDisk["film"] /\ onDisk["film"] = Made
              THEN mark' = Absent /\ Returns
              ELSE Raises /\ UNCHANGED mark
       ELSE /\ IF There("film") /\ (There("receipt") \/ mark = Absent) THEN Raises ELSE Step("mark")
            /\ UNCHANGED mark
  /\ UNCHANGED <<medium, policy, onDisk, staged, accepted, aside, store, disowned, countVars>>

WriteMarker ==
  /\ MuxAt("mark") /\ mark = Absent
  /\ mark' = mux.of /\ staged' = Absent /\ Step("make")
  /\ UNCHANGED <<medium, policy, onDisk, accepted, aside, store, disowned, countVars>>

ResumeMarker ==
  /\ MuxAt("mark") /\ mark = mux.of
  /\ Step("make")
  /\ UNCHANGED <<medium, policy, onDisk, mark, staged, accepted, aside, store, disowned, countVars>>

\* A marker of another delivery is removed first, and what it had linked
\* is a collision from then on.
DropMarker ==
  /\ MuxAt("mark") /\ mark \notin {Absent, mux.of}
  /\ mark' = Absent /\ staged' = Absent
  /\ disowned' = (disowned \/ There("film"))
  /\ IF There("film") THEN Raises ELSE UNCHANGED mux
  /\ UNCHANGED <<medium, policy, onDisk, accepted, aside, store, countVars>>

\* A film or a staged file that verifies is not made again.  A mux that
\* fails or dies leaves no staged file that would verify.
Make ==
  /\ MuxAt("make")
  /\ \/ /\ There("film") \/ staged = Made
        /\ UNCHANGED staged
     \/ /\ ~There("film") /\ staged # Made
        /\ staged' = Made
  /\ Step("verify")
  /\ UNCHANGED <<medium, policy, onDisk, mark, accepted, aside, store, disowned, countVars>>

VerifyOutput ==
  /\ MuxAt("verify")
  /\ IF Made = (IF There("film") THEN onDisk["film"] ELSE staged) THEN Step("assert") ELSE Raises
  /\ UNCHANGED <<medium, policy, onDisk, mark, staged, accepted, aside, store, disowned, countVars>>

\* Mutant: only the publication is looked at again.
AssertPublicationOnly ==
  /\ MuxAt("assert")
  /\ IF onDisk["proof"] = mux.of.proof /\ onDisk["subs"].text = mux.text
       THEN Step(IF There("film") THEN "receipt" ELSE "link") ELSE Raises
  /\ UNCHANGED <<medium, policy, onDisk, mark, staged, accepted, aside, store, disowned, countVars>>

\* Medium, manifest and subtitles are still those that were read.
AssertUnchanged ==
  /\ MuxAt("assert")
  /\ IF medium = mux.of.target.media /\ onDisk["proof"] = mux.of.proof /\ onDisk["subs"].text = mux.text
       THEN Step(IF There("film") THEN "receipt" ELSE "link") ELSE Raises
  /\ UNCHANGED <<medium, policy, onDisk, mark, staged, accepted, aside, store, disowned, countVars>>

Link ==
  /\ MuxAt("link") /\ ~There("film")
  /\ onDisk' = [onDisk EXCEPT !["film"] = staged] /\ Step("unlink")
  /\ UNCHANGED <<medium, policy, mark, staged, accepted, aside, store, disowned, countVars>>

Unstage ==
  /\ MuxAt("unlink")
  /\ staged' = Absent /\ Step("receipt")
  /\ UNCHANGED <<medium, policy, onDisk, mark, accepted, aside, store, disowned, countVars>>

WriteReceipt ==
  /\ MuxAt("receipt")
  /\ onDisk' = [onDisk EXCEPT !["receipt"] =
                [of |-> mux.of, output |-> onDisk["film"], try |-> mux.try]]
  /\ Step("unmark")
  /\ UNCHANGED <<medium, policy, mark, staged, accepted, aside, store, disowned, countVars>>

RemoveMarker ==
  /\ MuxAt("unmark")
  /\ mark' = Absent /\ Returns
  /\ UNCHANGED <<medium, policy, onDisk, staged, accepted, aside, store, disowned, countVars>>

-----------------------------------------------------------------------------
(* The parent: after the job, or at the restart after a death *)

\* Medium, policy and publication are those of the receipt, the film is
\* the one it names, and the attempt that claimed them committed it.
ReceiptProves ==
  /\ mark = Absent /\ Strict
  /\ Vouches([target |-> Identity, proof |-> onDisk["proof"]])
  /\ There("film") /\ onDisk["receipt"].output = onDisk["film"]
  /\ mux.claim = Identity /\ onDisk["receipt"].try >= mux.try

Verdict ==
  /\ MuxAt("verdict")
  /\ accepted' = IF ReceiptProves THEN accepted \cup {Identity} ELSE accepted
  /\ Ends
  /\ UNCHANGED <<medium, policy, onDisk, mark, staged, aside, store, disowned, countVars>>

-----------------------------------------------------------------------------
(* The targeted line repair: retranslate_lines *)

Copied == {"subs", "proof"}

\* The operator orders it, which claims the video and is refused once this
\* identity is delivered, or runs it by hand, which nobody accepts.  The
\* publication is copied before anything is written.
StartRepair ==
  /\ MuxAt("off") /\ tries < MaxTries
  /\ tries' = tries + 1
  /\ \E b \in {"order", "hand"} :
       /\ b = "order" => Identity \notin accepted
       /\ mux' = [NoMux EXCEPT !.by = b, !.at = "repair", !.try = tries + 1,
                              !.claim = IF b = "order" THEN Identity ELSE Absent]
  /\ aside' = [f \in Files |-> IF f \in Copied THEN onDisk[f] ELSE Absent]
  /\ UNCHANGED <<medium, policy, onDisk, mark, staged, accepted, store, disowned, written, ends, archives>>

\* The lines are translated and the new text is published, then delivered.
RetranslateLines ==
  /\ MuxAt("repair") /\ written < MaxWritten
  /\ PublishSubs(written + 1) /\ Step("publication")
  /\ UNCHANGED <<medium, policy, mark, staged, accepted, aside, store, disowned, tries, ends, archives>>

\* The result is on record, and the copies are of no more use.
FinishRepair ==
  /\ MuxAt("result")
  /\ aside' = Bare /\ Step("verdict")
  /\ UNCHANGED <<medium, policy, onDisk, mark, staged, accepted, store, disowned, countVars>>

\* The old publication comes back, marker and film stay as they are.  A file
\* that cannot be copied back, or a death, leaves the new one there.
CopyBack ==
  /\ MuxAt("rollback")
  /\ \E S \in SUBSET Copied :
       /\ ends' = ends + (IF S = Copied THEN 0 ELSE 1) /\ ends' <= MaxEnds
       /\ onDisk' = [f \in Files |-> IF f \in S THEN aside[f] ELSE onDisk[f]]
  /\ aside' = Bare /\ Ends
  /\ UNCHANGED <<medium, policy, mark, staged, accepted, store, disowned, written, tries, archives>>

-----------------------------------------------------------------------------
(* reprocess_video and restore_reprocess_manifest *)

\* A film is beside the receipt that names it.
Paired(s) == s["film"] # Absent => s["receipt"] # Absent /\ s["receipt"].output = s["film"]

\* Film and receipt are both there, of this medium, or both absent.
Manageable ==
  /\ mark = Absent /\ There("film") = There("receipt")
  /\ There("film") =>
       /\ onDisk["receipt"].of.target.media = medium
       /\ There("proof") => onDisk["receipt"].of.proof = onDisk["proof"]
       /\ onDisk["receipt"].output = onDisk["film"]

BeginArchive ==
  /\ MuxAt("off") /\ archives < MaxArchives /\ Identity \notin accepted /\ Manageable
  /\ Step("archive") /\ aside' = Bare
  /\ archives' = archives + 1
  /\ UNCHANGED <<medium, policy, onDisk, mark, staged, accepted, store, disowned, written, tries, ends>>

\* The receipt and the film of a restore need not be of this medium.
BeginRestore ==
  /\ MuxAt("off") /\ store # Bare /\ Manageable
  /\ Step("backup") /\ aside' = Bare
  /\ UNCHANGED <<medium, policy, onDisk, mark, staged, accepted, store, disowned, countVars>>

\* Paths are sorted, and in which order depends on where the roots are.
MoveOut ==
  /\ mux.at \in {"archive", "backup"}
  /\ \E f \in Files :
       /\ There(f)
       /\ aside' = [aside EXCEPT ![f] = onDisk[f]]
       /\ onDisk' = [onDisk EXCEPT ![f] = Absent]
  /\ UNCHANGED <<medium, policy, mark, staged, mux, accepted, store, disowned, countVars>>

\* The archive is complete, and the row is queued again.
Archived ==
  /\ MuxAt("archive") /\ onDisk = Bare
  /\ store' = aside /\ aside' = Bare /\ Ends
  /\ UNCHANGED <<medium, policy, onDisk, mark, staged, accepted, disowned, countVars>>

BackedUp ==
  /\ MuxAt("backup") /\ onDisk = Bare
  /\ Step("restore")
  /\ UNCHANGED <<medium, policy, onDisk, mark, staged, accepted, aside, store, disowned, countVars>>

BringBack ==
  /\ MuxAt("restore")
  /\ \E f \in Files :
       /\ store[f] # Absent
       /\ onDisk' = [onDisk EXCEPT ![f] = store[f]]
       /\ store' = [store EXCEPT ![f] = Absent]
  /\ UNCHANGED <<medium, policy, mark, staged, mux, accepted, aside, disowned, countVars>>

Restored ==
  /\ MuxAt("restore") /\ store = Bare
  /\ aside' = Bare /\ Ends
  /\ UNCHANGED <<medium, policy, onDisk, mark, staged, accepted, store, disowned, countVars>>

\* A move, a record or the queue fails: what moved is moved back, the
\* restored files first.
FailMove ==
  /\ mux.at \in {"archive", "backup", "restore"}
  /\ Step(IF MuxAt("restore") THEN "unrestore" ELSE "undo")
  /\ UNCHANGED <<medium, policy, onDisk, mark, staged, accepted, aside, store, disowned, countVars>>

UndoRestore ==
  /\ MuxAt("unrestore")
  /\ IF onDisk = Bare
       THEN Step("undo") /\ UNCHANGED <<onDisk, store>>
       ELSE /\ \E f \in Files :
                 /\ There(f)
                 /\ store' = [store EXCEPT ![f] = onDisk[f]]
                 /\ onDisk' = [onDisk EXCEPT ![f] = Absent]
            /\ UNCHANGED mux
  /\ UNCHANGED <<medium, policy, mark, staged, accepted, aside, disowned, countVars>>

\* A restored file that cannot be moved back stays, and of the former ones
\* those return whose place is free.
FailUndo ==
  /\ MuxAt("unrestore") /\ onDisk # Bare /\ ends < MaxEnds
  /\ ends' = ends + 1 /\ Ends
  /\ \E S \in SUBSET {f \in Files : ~There(f)} :
       onDisk' = [f \in Files |-> IF f \in S THEN aside[f] ELSE onDisk[f]]
  /\ disowned' = (disowned \/ ~Paired(onDisk'))
  /\ aside' = Bare /\ store' = Bare
  /\ UNCHANGED <<medium, policy, mark, staged, accepted, written, tries, archives>>

UndoMove ==
  /\ MuxAt("undo")
  /\ IF aside = Bare
       THEN Ends /\ UNCHANGED <<onDisk, aside>>
       ELSE /\ \E f \in Files :
                 /\ aside[f] # Absent
                 /\ onDisk' = [onDisk EXCEPT ![f] = aside[f]]
                 /\ aside' = [aside EXCEPT ![f] = Absent]
            /\ UNCHANGED mux
  /\ UNCHANGED <<medium, policy, mark, staged, accepted, store, disowned, countVars>>

-----------------------------------------------------------------------------
(* Deaths and surroundings *)

Delivering == {"publication", "identity", "look", "mark", "make", "verify", "assert",
               "link", "unlink", "receipt", "unmark"}
Moving     == {"archive", "backup", "restore", "unrestore", "undo"}

Repairing  == {"repair", "result", "rollback"}

\* The child raises, and one of the queue may die alone: the parent records
\* a failure.
FailJob ==
  /\ mux.at \in Delivering \cup {"repair", "result"} /\ ends < MaxEnds
  /\ ends' = ends + 1 /\ Raises
  /\ UNCHANGED <<medium, policy, onDisk, mark, staged, accepted, aside, store, disowned, written, tries, archives>>

\* All die; the restart looks for what the claimed attempt committed.
DieDelivering ==
  /\ mux.at \in Delivering /\ mux.by = "job" /\ ends < MaxEnds
  /\ ends' = ends + 1 /\ Step("verdict")
  /\ UNCHANGED <<medium, policy, onDisk, mark, staged, accepted, aside, store, disowned, written, tries, archives>>

\* A repair that is killed, when its 900 seconds are over too, puts nothing
\* back.  After a restart only an order whose stage is still that of the
\* repair is looked at, the others are given back to the operator.
DieRepairing ==
  /\ mux.at \in Delivering \cup Repairing \cup {"verdict"} /\ mux.by # "job" /\ ends < MaxEnds
  /\ ends' = ends + 1 /\ aside' = Bare
  /\ Ends \/ (mux.by = "order" /\ Step("verdict"))
  /\ UNCHANGED <<medium, policy, onDisk, mark, staged, accepted, store, disowned, written, tries, archives>>

\* What was moved so far stays where it is, after a death as after an undo
\* that fails, and no restore takes an incomplete archive.
DieMoving ==
  /\ mux.at \in Moving /\ ends < MaxEnds
  /\ ends' = ends + 1 /\ Ends
  /\ disowned' = (disowned \/ (There("film") /\ ~There("receipt")))
  /\ aside' = Bare
  /\ store' = IF mux.at \in {"restore", "unrestore"} /\ onDisk # Bare THEN Bare ELSE store
  /\ UNCHANGED <<medium, policy, onDisk, mark, staged, accepted, written, tries, archives>>

ReplaceSource ==
  /\ medium < MaxSources
  /\ medium' = medium + 1
  /\ UNCHANGED <<policy, onDisk, mark, staged, mux, accepted, aside, store, disowned, countVars>>

\* A process keeps the policy it started with.
ChangePolicy ==
  /\ MuxAt("off")
  /\ policy' \in Revisions \ {policy}
  /\ UNCHANGED <<medium, onDisk, mark, staged, mux, accepted, aside, store, disowned, countVars>>

\* The operator edits a published subtitle.
EditSubtitles ==
  /\ mux.at \notin Moving /\ There("subs") /\ written < MaxWritten
  /\ onDisk' = [onDisk EXCEPT !["subs"] = [text |-> written + 1]]
  /\ written' = written + 1
  /\ UNCHANGED <<medium, policy, mark, staged, mux, accepted, aside, store, disowned, tries, ends, archives>>

CompletedNext ==
  \/ StartDelivery \/ ReadPublication \/ ReadIdentity \/ LookAtReceipt
  \/ WriteMarker \/ ResumeMarker \/ DropMarker \/ Make \/ VerifyOutput
  \/ AssertUnchanged \/ Link \/ Unstage \/ WriteReceipt \/ RemoveMarker \/ Verdict
  \/ BeginArchive \/ BeginRestore \/ MoveOut \/ Archived \/ BackedUp
  \/ BringBack \/ Restored \/ FailMove \/ UndoRestore \/ FailUndo \/ UndoMove
  \/ StartRepair \/ RetranslateLines \/ FinishRepair \/ CopyBack
  \/ FailJob \/ DieDelivering \/ DieRepairing \/ DieMoving
  \/ ReplaceSource \/ ChangePolicy \/ EditSubtitles

CompletedSpec == CompletedInit /\ [][CompletedNext]_completedVars

-----------------------------------------------------------------------------
(* Properties *)

\* The film is what the receipt, or the marker of an unfinished delivery,
\* says it is.
Accounted ==
  \/ There("receipt") /\ onDisk["receipt"].output = onDisk["film"] /\ onDisk["film"] = Fruit(onDisk["receipt"].of)
  \/ mark # Absent /\ onDisk["film"] = Fruit(mark)

\* Wherever a job, a line repair or a reprocess fails or dies, the film in the
\* completed library was muxed from the very medium and subtitles its receipt
\* or marker names, although a repair takes back the publication it delivered.
\* Only two ways leave a film that nobody accounts for: the next delivery finds
\* the marker of an interrupted one and another medium, policy or publication
\* (a replaced one or one that was put back), or the moves of an archive or a
\* restore stop half way.
FilmAccounted ==
  mux.at \notin Moving => ~There("film") \/ Accounted \/ disowned

-----------------------------------------------------------------------------
(* Types, and what makes the property inductive *)

Targets  == [media : Nat, rules : Revisions]
SubFiles == [text : Nat]
Films    == [media : Nat, text : Nat] \cup {Absent}
Proofs   == [text : Nat, target : Targets] \cup {Absent}
Jobs     == [target : Targets, proof : Proofs]
Receipts == [of : Jobs \cup {Absent}, output : Films, try : Nat] \cup {Absent}
Shelves  == {s \in [Files -> SubFiles \cup Films \cup Proofs \cup Receipts] :
               /\ s["subs"] \in SubFiles /\ s["film"] \in Films
               /\ s["proof"] \in Proofs /\ s["receipt"] \in Receipts}
Places   == {"off", "verdict"} \cup Delivering \cup Repairing \cup Moving
Holders  == [by : {"job", "order", "hand"}, at : Places, try : Nat, claim : Targets \cup {Absent}, text : Nat, of : Jobs \cup {Absent}]

CompletedTypeOK ==
  /\ medium \in Nat /\ policy \in Revisions /\ written \in Nat /\ tries \in Nat
  /\ onDisk \in Shelves /\ aside \in Shelves /\ store \in Shelves
  /\ mark \in Jobs \cup {Absent} /\ staged \in Films /\ disowned \in BOOLEAN
  /\ mux \in Holders

\* A receipt was written for the film it names.
ReceiptTrue(s) == s["receipt"] # Absent => s["receipt"].output = Fruit(s["receipt"].of)
Joined(s, t)   == [f \in Files |-> IF s[f] # Absent THEN s[f] ELSE t[f]]
Disjoint(s, t) == \A f \in Files : s[f] = Absent \/ t[f] = Absent

\* Wherever the moves stand, film and receipt are together in what was moved
\* and what was not.
MovesPaired ==
  /\ mux.at \in Moving => mark = Absent
  /\ mux.at \in {"archive", "backup", "undo"} => Disjoint(onDisk, aside) /\ Paired(Joined(onDisk, aside))
  /\ mux.at \in {"restore", "unrestore"} =>
       Disjoint(onDisk, store) /\ Paired(Joined(onDisk, store)) /\ Paired(aside)
  /\ mux.at \notin {"restore", "unrestore"} => Paired(store)

\* What the child read is what it delivers: media and texts only get newer.
Subject == IF There("film") THEN onDisk["film"] ELSE staged
ReadIsDelivered ==
  /\ mux.text <= written /\ onDisk["subs"].text <= written
  /\ aside["subs"].text <= written /\ store["subs"].text <= written
  /\ MuxAt("identity") => onDisk["proof"].text = mux.text
  /\ mux.at \in {"identity", "look", "mark", "make", "verify", "assert"} => mux.text <= onDisk["subs"].text
  /\ mux.at \in {"look", "mark", "make", "verify", "assert"} =>
       mux.of # Absent /\ mux.of.proof.text = mux.text /\ mux.of.target.media <= medium
  /\ mux.at \in {"make", "verify", "assert", "link", "unlink", "receipt", "unmark"} =>
       mark = mux.of /\ mark # Absent
  /\ MuxAt("assert") =>
       /\ Subject # Absent
       /\ mux.of.target.media <= Subject.media /\ Subject.media <= medium
       /\ mux.text <= Subject.text /\ Subject.text <= onDisk["subs"].text
  /\ MuxAt("link") => ~There("film") /\ staged = Fruit(mux.of)
  /\ mux.at \in {"unlink", "receipt"} => There("film") /\ onDisk["film"] = Fruit(mux.of)
  /\ MuxAt("unmark") => There("receipt") /\ onDisk["receipt"].output = onDisk["film"]

CompletedInv ==
  /\ ReadIsDelivered /\ (\A s \in {onDisk, aside, store} : ReceiptTrue(s))
  /\ FilmAccounted /\ (MovesPaired \/ disowned)
=============================================================================
