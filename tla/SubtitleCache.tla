--------------------------- MODULE SubtitleCache ---------------------------
(***************************************************************************)
(* What the child does with the files of one video (worker.py): the        *)
(* Japanese transcript with its diagnostics, the translation with its      *)
(* sidecars, the published subtitles with manifest and marker, the outbox  *)
(* of the translation memory.  A step ends where a crash makes a           *)
(* difference; the next job starts from what the crashed one left.  Texts  *)
(* are numbered transcripts; a sidecar fits these files, an older state of *)
(* them, or is missing.  Audio, the language gate, other sources of        *)
(* subtitles and a disk that fails while texts are put back are left out.  *)
(***************************************************************************)
EXTENDS Naturals, Sequences

CONSTANTS
  MaxTexts,         \* bound: transcripts made of the video
  MaxPublications,  \* bound: publications begun
  MaxCrashes,       \* bound: deaths of a child
  MaxPolicies       \* bound: policies or media that replace one another

ASSUME CacheAssumption == {MaxTexts, MaxPublications, MaxCrashes, MaxPolicies} \subseteq Nat

Texts   == 1..MaxTexts
NoDiag  == [of |-> 0, ok |-> FALSE, tried |-> FALSE]
NoZh    == [of |-> 0, omits |-> FALSE]
NoJob   == [at |-> "off", manual |-> FALSE, regen |-> FALSE, tried |-> FALSE, escalated |-> FALSE,
            omits |-> FALSE, lineage |-> FALSE, passes |-> 0, kind |-> "none", old |-> <<>>, next |-> "off"]

VARIABLES
  ja,          \* the transcript in the cache, 0 if there is none
  diag,        \* its diagnostics: of which text, accepted or rejected
  asrHold,     \* the mark of an unfinished commit of a transcript
  zh,          \* the translation: of which text, with lines left out
  tw,          \* its Traditional form
  events,      \* sidecar of lines left out
  hold,        \* mark of an unfinished commit of a translation
  origin,      \* whether a lineage for the translation memory names these files
  ass,         \* the three published files, by publication
  pubs,        \* what each publication contains
  manifest,    \* the publication it proves, 0 if there is none
  current,     \* whether it was made for this media file and policy
  marker,      \* a publication is under way
  outbox,      \* publications with a recorded intent to learn
  job,         \* the child
  texts,       \* how many transcripts there were
  rejected,    \* history: those the diagnostics rejected
  kept,        \* those whose evidence a review may put back
  apart,       \* history: a crash came between a transcript's removal and its translation's
  handed,      \* history: a manual job finished another job's publication
  crashes, policies

asrVars   == <<ja, diag, asrHold, texts, rejected, kept>>
zhVars    == <<zh, tw, events, hold, origin>>
pubVars   == <<ass, pubs, manifest, current, marker, outbox>>
faultVars == <<apart, handed, crashes, policies>>
cacheVars == <<asrVars, zhVars, pubVars, faultVars, job>>

At(x)   == job.at = x
Goto(x) == job' = [job EXCEPT !.at = x]
Done    == job' = NoJob
\* What the job decided before does not matter from x on.
Enter(x) == job' = [NoJob EXCEPT !.at = x, !.manual = job.manual, !.regen = (job.regen /\ x \in {"pace", "convert"})]
Aged(s) == IF s = "these" THEN "stale" ELSE s

CacheInit ==
  /\ ja = 0 /\ diag = NoDiag /\ asrHold = FALSE
  /\ zh = NoZh /\ tw = "none" /\ events = "none" /\ hold = "none" /\ origin = FALSE
  /\ ass = <<0, 0, 0>> /\ pubs = <<>> /\ manifest = 0 /\ current = TRUE /\ marker = FALSE
  /\ outbox = {} /\ job = NoJob
  /\ texts = 0 /\ rejected = {} /\ kept = {}
  /\ apart = FALSE /\ handed = FALSE /\ crashes = 0 /\ policies = 0

\* A failure asks for a review of the transcript, or just ends the job.
Fails == Enter("review") \/ Done

\* The sidecars name the text they belong to by its content.
EventsFit == events # "stale"
HoldFits  == hold # "stale"
Omitting  == events = "these" /\ zh.omits

-----------------------------------------------------------------------------
(* The start of a job: an interrupted publication, an unfinished transcript *)

Begin ==
  /\ At("off")
  /\ \E m \in BOOLEAN : job' = [NoJob EXCEPT !.at = "recover", !.manual = m]
  /\ UNCHANGED <<asrVars, zhVars, pubVars, faultVars>>

\* The manifest names the files as they are, for this media file and policy.
Provable  == manifest # 0 /\ current /\ \A i \in 1..3 : ass[i] = manifest
Learnable == origin /\ ~job.manual

\* Mutant: what was finished is not recorded for learning.
RecoverUnlearned ==
  /\ At("recover")
  /\ IF marker /\ Provable
       THEN /\ handed' = (handed \/ (job.manual /\ ~pubs[manifest].manual))
            /\ Goto("settle")
       ELSE UNCHANGED handed /\ Goto("preflight")
  /\ UNCHANGED <<asrVars, zhVars, pubVars, apart, crashes, policies>>

\* What was published up to its manifest is finished, not made again.
Recover ==
  /\ At("recover")
  /\ IF marker /\ Provable
       THEN /\ Learnable => hold = "none" /\ events = "none"
            /\ outbox' = IF Learnable THEN outbox \cup {manifest} ELSE outbox
            /\ handed' = (handed \/ (job.manual /\ ~pubs[manifest].manual))
            /\ Goto("settle")
       ELSE UNCHANGED <<outbox, handed>> /\ Goto("preflight")
  /\ UNCHANGED <<asrVars, zhVars, ass, pubs, manifest, current, marker, apart, crashes, policies>>

SettleRecovered ==
  /\ At("settle")
  /\ marker' = FALSE /\ Goto("preflight")
  /\ UNCHANGED <<asrVars, zhVars, ass, pubs, manifest, current, outbox, faultVars>>

\* Nothing is left to do: only the transcript stays in the cache.
Preflight ==
  /\ At("preflight")
  /\ IF Provable /\ ~marker
       THEN zh' = NoZh /\ tw' = "none" /\ origin' = FALSE /\ Done
       ELSE UNCHANGED <<zh, tw, origin>> /\ Goto(IF asrHold THEN "unhold" ELSE "restore")
  /\ UNCHANGED <<asrVars, events, hold, pubVars, faultVars>>

\* Mutant: the translation stays, its sidecars go.
InvalidateKept ==
  /\ events' = "none" /\ hold' = "none" /\ origin' = FALSE
  /\ UNCHANGED <<zh, tw>>

Invalidate ==
  zh' = NoZh /\ tw' = "none" /\ events' = "none" /\ hold' = "none" /\ origin' = FALSE

\* The text goes first, the mark of its commit last, then its translation.
RecoverAsr ==
  \/ /\ At("unhold")
     /\ ja' = 0 /\ diag' = NoDiag /\ asrHold' = FALSE /\ origin' = FALSE
     /\ Goto("untranslate")
     /\ UNCHANGED <<texts, rejected, kept, zh, tw, events, hold, pubVars, faultVars>>
  \/ /\ At("untranslate")
     /\ Invalidate /\ Goto("restore")
     /\ UNCHANGED <<asrVars, pubVars, faultVars>>

\* Without a transcript the published one comes back, if it is fit for it.
Restore ==
  /\ At("restore")
  /\ IF ja = 0 /\ ass[1] # 0
       THEN /\ diag' = NoDiag /\ asrHold' = FALSE
            /\ ja' \in {0, pubs[ass[1]].ja}
       ELSE UNCHANGED <<ja, diag, asrHold>>
  /\ Goto("chain")
  /\ UNCHANGED <<texts, rejected, kept, zhVars, pubVars, faultVars>>

\* A commit that got as far as the translation is kept.  Only numbers and
\* times of the lines are compared: another text may have the same.
Chain ==
  /\ At("chain")
  /\ \/ /\ zh # NoZh /\ ja # 0
        /\ IF hold = "none" THEN EventsFit ELSE HoldFits /\ origin
        /\ tw' = IF hold = "none" THEN tw ELSE "none"
        /\ UNCHANGED <<zh, events, hold, origin>>
     \/ /\ \/ zh = NoZh \/ ja # zh.of
           \/ IF hold = "none" THEN ~EventsFit ELSE ~HoldFits \/ ~origin
        /\ Invalidate
  /\ Goto("cached")
  /\ UNCHANGED <<asrVars, pubVars, faultVars>>

-----------------------------------------------------------------------------
(* The transcript in the cache *)

Accepted  == diag = NoDiag \/ (diag.ok /\ diag.of = ja)
Rejected  == diag # NoDiag /\ ~diag.ok /\ diag.of = ja

\* What is there without a transcript is moved away, and one is made.
Quarantine ==
  /\ At("cached") /\ ja = 0
  /\ diag' = NoDiag /\ asrHold' = FALSE /\ Invalidate
  /\ Goto("transcribe")
  /\ UNCHANGED <<ja, texts, rejected, kept, pubVars, faultVars>>

\* One that no diagnostics reject is used, after a look at its opening.
UseText ==
  /\ At("cached") /\ ja # 0 /\ Accepted
  /\ \/ Goto("omissions")
     \/ job' = [job EXCEPT !.at = "commit", !.kind = "gap", !.next = "omissions"]
  /\ UNCHANGED <<asrVars, zhVars, pubVars, faultVars>>

\* Diagnostics that do not fit it, or lack what a repair needs, ask for a review.
Distrust ==
  /\ At("cached") /\ ja # 0 /\ ~Accepted
  /\ Enter("review")
  /\ UNCHANGED <<asrVars, zhVars, pubVars, faultVars>>

\* A rejected one is repaired once, which its diagnostics remember.
ClaimRepair ==
  /\ At("cached") /\ ja # 0 /\ Rejected /\ ~diag.tried
  /\ diag' = [diag EXCEPT !.tried = TRUE]
  /\ job' = [job EXCEPT !.at = "select", !.next = "omissions"]
  /\ UNCHANGED <<ja, asrHold, texts, rejected, kept, zhVars, pubVars, faultVars>>

\* Of another medium or repaired before, it is replaced as a whole.
Rebuild ==
  /\ At("cached") /\ ja # 0 /\ Rejected
  /\ job' = [job EXCEPT !.at = "archive", !.next = "omissions"]
  /\ UNCHANGED <<asrVars, zhVars, pubVars, faultVars>>

\* Some ranges are heard again, beside the cache.
Select ==
  /\ At("select")
  /\ \/ job' = [job EXCEPT !.at = "commit", !.kind = "part", !.old = [text |-> ja, diag |-> diag]]
     \/ Goto("archive")
  /\ UNCHANGED <<asrVars, zhVars, pubVars, faultVars>>

\* Mutant: the diagnostics go first.
ArchiveDiagnosticsFirst ==
  \/ /\ At("archive")
     /\ zh' = NoZh /\ tw' = "none" /\ events' = "none" /\ hold' = Aged(hold)
     /\ diag' = NoDiag /\ asrHold' = FALSE /\ Goto("archived")
     /\ UNCHANGED <<ja, texts, rejected, kept, origin, pubVars, faultVars>>
  \/ /\ At("archived")
     /\ ja' = 0 /\ origin' = FALSE /\ Goto("whole")
     /\ UNCHANGED <<diag, asrHold, texts, rejected, kept, zh, tw, events, hold, pubVars, faultVars>>

\* Copies are kept; the text goes first, its diagnostics after what was made
\* of it.  The mark of an unfinished translation stays behind.
Archive ==
  \/ /\ At("archive")
     /\ ja' = 0 /\ origin' = FALSE /\ Goto("archived")
     /\ UNCHANGED <<diag, asrHold, texts, rejected, kept, zh, tw, events, hold, pubVars, faultVars>>
  \/ /\ At("archived")
     /\ zh' = NoZh /\ tw' = "none" /\ events' = "none" /\ hold' = Aged(hold)
     /\ diag' = NoDiag /\ asrHold' = FALSE
     /\ Goto("whole")
     /\ UNCHANGED <<ja, texts, rejected, kept, origin, pubVars, faultVars>>

\* All is heard again, beside the cache.
Whole ==
  /\ At("whole")
  /\ job' = [job EXCEPT !.at = "commit", !.kind = "whole"] \/ Fails
  /\ UNCHANGED <<asrVars, zhVars, pubVars, faultVars>>

-----------------------------------------------------------------------------
(* The commit of a new text under its mark: the text, its diagnostics, then  *)
(* what was made of the old one goes, then the mark.                         *)

BeginCommit ==
  /\ At("commit")
  /\ asrHold' = TRUE /\ Goto("put")
  /\ UNCHANGED <<ja, diag, texts, rejected, kept, zhVars, pubVars, faultVars>>

Put ==
  /\ At("put") /\ texts < MaxTexts
  /\ ja' = texts + 1 /\ texts' = texts + 1 /\ origin' = FALSE
  /\ Goto("diagnose")
  /\ UNCHANGED <<diag, asrHold, rejected, kept, zh, tw, events, hold, pubVars, faultVars>>

Diagnose ==
  /\ At("diagnose")
  /\ diag' = IF job.kind = "gap" THEN NoDiag ELSE [of |-> ja, ok |-> TRUE, tried |-> FALSE]
  /\ Goto("tidy")
  /\ UNCHANGED <<ja, asrHold, texts, rejected, kept, zhVars, pubVars, faultVars>>

Tidy ==
  /\ At("tidy")
  /\ Invalidate /\ Goto("unmark")
  /\ UNCHANGED <<asrVars, pubVars, faultVars>>

\* The opening holds no more speech, or is as it was.
NothingNew ==
  /\ At("put") /\ job.kind = "gap"
  /\ Goto("unmark")
  /\ UNCHANGED <<asrVars, zhVars, pubVars, faultVars>>

EndCommit ==
  /\ At("unmark")
  /\ asrHold' = FALSE /\ job' = [job EXCEPT !.at = job.next, !.kind = "none", !.old = <<>>]
  /\ UNCHANGED <<ja, diag, texts, rejected, kept, zhVars, pubVars, faultVars>>

Committing == job.at \in {"put", "diagnose", "tidy"}

\* A failed selective repair puts back what it had, and all is heard again.
GiveBack ==
  /\ \/ /\ Committing /\ job.kind = "part"
        /\ ja' = job.old.text /\ diag' = job.old.diag /\ origin' = FALSE /\ Goto("giveBack")
        /\ UNCHANGED asrHold
     \/ /\ At("giveBack")
        /\ asrHold' = FALSE /\ Goto("archive")
        /\ UNCHANGED <<ja, diag, origin>>
  /\ UNCHANGED <<texts, rejected, kept, zh, tw, events, hold, pubVars, faultVars>>

\* Any other failure leaves no text.
FailClosed ==
  /\ Committing /\ job.kind # "part"
  /\ ja' = 0 /\ diag' = NoDiag /\ origin' = FALSE
  /\ IF job.kind = "gap" THEN Goto("gapFailed") /\ UNCHANGED asrHold
                         ELSE Fails /\ asrHold' = FALSE
  /\ UNCHANGED <<texts, rejected, kept, zh, tw, events, hold, pubVars, faultVars>>

\* The probe of the opening takes the translation along, then the mark; where
\* it says that the text is bad, all is heard again.
GapFails ==
  /\ \/ At("gapFailed") /\ Invalidate /\ asrHold' = FALSE /\ Fails
     \/ job.at \in {"put", "diagnose"} /\ job.kind = "gap"
        /\ Goto("archive") /\ UNCHANGED <<asrHold, zhVars>>
  /\ UNCHANGED <<ja, diag, texts, rejected, kept, pubVars, faultVars>>

-----------------------------------------------------------------------------
(* The first transcript: the primary model, the ranges it is unsure of, the  *)
(* fallback models, each writing in place under one mark.                    *)

BeginTranscript ==
  /\ At("transcribe")
  /\ asrHold' = TRUE /\ diag' = NoDiag /\ Goto("hear")
  /\ UNCHANGED <<ja, texts, rejected, kept, zhVars, pubVars, faultVars>>

\* The diagnostics say whether the text may be used.
Hear ==
  /\ At("hear") /\ texts < MaxTexts
  /\ ja' = texts + 1 /\ texts' = texts + 1
  /\ \E ok \in BOOLEAN : /\ diag' = [of |-> ja', ok |-> ok, tried |-> FALSE]
                         /\ rejected' = IF ok THEN rejected ELSE rejected \cup {ja'}
  /\ Goto("heard")
  /\ UNCHANGED <<asrHold, kept, zhVars, pubVars, faultVars>>

EndTranscript ==
  /\ At("heard") /\ diag.ok
  /\ job' = [job EXCEPT !.at = "unmark", !.next = "omissions"]
  /\ UNCHANGED <<asrVars, zhVars, pubVars, faultVars>>

HearAgain ==
  /\ At("heard") /\ ~diag.ok
  /\ ja' = 0 /\ diag' = NoDiag /\ Goto("hear")
  /\ UNCHANGED <<asrHold, texts, rejected, kept, zhVars, pubVars, faultVars>>

\* The last rejected text is kept as evidence before the cache is cleared.
TranscriptFails ==
  /\ At("heard") /\ ~diag.ok
  /\ kept' = kept \cup {ja}
  /\ ja' = 0 /\ diag' = NoDiag /\ asrHold' = FALSE
  /\ Fails
  /\ UNCHANGED <<texts, rejected, zhVars, pubVars, faultVars>>

-----------------------------------------------------------------------------
(* The translation *)

\* Sidecars of another text, and lines left out of one, make the translation
\* go; without either it stays as it is.
OmissionsChecked ==
  /\ At("omissions")
  /\ \/ ~EventsFit /\ Invalidate
     \/ Omitting /\ ja # zh.of /\ Invalidate
     \/ EventsFit /\ zh = NoZh
        /\ events' = "none" /\ UNCHANGED <<zh, tw, hold, origin>>
     \/ EventsFit /\ (events = "these" => zh # NoZh /\ ~zh.omits) /\ UNCHANGED zhVars
  /\ Goto("translate")
  /\ UNCHANGED <<asrVars, pubVars, faultVars>>

\* Lines left out are translated again; another text may have the same lines.
RetranslateOmissions ==
  /\ At("omissions") /\ Omitting
  /\ tw' = "none"
  /\ \E o \in BOOLEAN :
       job' = [job EXCEPT !.at = "guard", !.next = "rebind", !.omits = o, !.tried = TRUE, !.regen = TRUE,
                          !.lineage = origin]
  /\ UNCHANGED <<asrVars, zh, events, hold, origin, pubVars, faultVars>>

UseTranslation ==
  /\ At("translate") /\ zh # NoZh
  /\ Goto("gate")
  /\ UNCHANGED <<asrVars, zhVars, pubVars, faultVars>>

\* A line no model translates is left out of the text.
Translate ==
  /\ At("translate") /\ zh = NoZh /\ job.passes < 2
  /\ origin' = FALSE
  /\ \E o \in BOOLEAN :
       job' = [job EXCEPT !.at = "guard", !.next = "fresh", !.omits = o, !.passes = @ + 1, !.regen = TRUE]
  /\ UNCHANGED <<asrVars, zh, tw, events, hold, pubVars, faultVars>>

GiveUpTranslating ==
  /\ At("translate") /\ zh = NoZh
  /\ Done
  /\ UNCHANGED <<asrVars, zhVars, pubVars, faultVars>>

\* The sidecar for a text is there before the text; a mark leaves the events
\* of the text before in place.
Guard ==
  /\ At("guard")
  /\ IF job.omits THEN events' = "stale" /\ UNCHANGED hold ELSE hold' = "stale" /\ UNCHANGED events
  /\ Goto("write")
  /\ UNCHANGED <<asrVars, zh, tw, origin, pubVars, faultVars>>

Write ==
  /\ At("write")
  /\ zh' = [of |-> IF zh = NoZh THEN ja ELSE zh.of, omits |-> job.omits]
  /\ tw' = Aged(tw)
  /\ events' = IF job.omits THEN "these" ELSE Aged(events)
  /\ hold' = IF job.omits THEN Aged(hold) ELSE "these"
  /\ origin' = (job.next = "fresh")
  /\ Goto(job.next)
  /\ UNCHANGED <<asrVars, pubVars, faultVars>>

\* The lineage follows a repair, unless a line it names was repaired.
Rebind ==
  /\ At("rebind")
  /\ origin' \in IF job.lineage THEN BOOLEAN ELSE {origin}
  /\ IF ~job.omits THEN Goto("translate")
     ELSE IF job.escalated THEN Done
     ELSE job' = [job EXCEPT !.at = "select", !.next = "translate", !.escalated = TRUE]
  /\ UNCHANGED <<asrVars, zh, tw, events, hold, pubVars, faultVars>>

\* What a new translation leaves out, by its sidecar.
Fresh ==
  /\ At("fresh")
  /\ IF ~EventsFit THEN Done
     ELSE IF ~zh.omits THEN Goto("gate")
     ELSE IF job.tried /\ ~job.escalated THEN Done
     ELSE Goto("omissions")
  /\ UNCHANGED <<asrVars, zhVars, pubVars, faultVars>>

\* Without a mark no line may be left out.
Gate ==
  /\ At("gate")
  /\ IF ~HoldFits \/ (hold = "none" /\ (~EventsFit \/ Omitting))
       THEN Done ELSE Enter("pace")
  /\ UNCHANGED <<asrVars, zhVars, pubVars, faultVars>>

\* Lines too long to be read are translated again, twice at most; the lineage
\* ends with the first time.
Pace ==
  /\ \/ /\ At("pace") /\ (Enter("convert") \/ Done)
        /\ UNCHANGED <<tw, origin>>
     \/ /\ At("pace") /\ job.passes < 2 /\ tw' = "none"
        /\ job' = [job EXCEPT !.at = "guard", !.next = "unlearn", !.omits = FALSE, !.passes = @ + 1, !.regen = TRUE]
        /\ UNCHANGED origin
     \/ /\ At("unlearn") /\ origin' = FALSE /\ Goto("pace") /\ UNCHANGED tw
  /\ UNCHANGED <<asrVars, zh, events, hold, pubVars, faultVars>>

Convert ==
  /\ At("convert")
  /\ tw' = IF job.regen \/ tw = "none" THEN "these" ELSE tw
  /\ Goto("finalize")
  /\ UNCHANGED <<asrVars, zh, events, hold, origin, pubVars, faultVars>>

\* The commit ends when both texts are there: the old events, then the mark.
Finalize ==
  /\ At("finalize")
  /\ IF hold = "these" THEN events' = "none" /\ hold' = "none" ELSE UNCHANGED <<events, hold>>
  /\ IF HoldFits THEN Enter("announce") ELSE Done
  /\ UNCHANGED <<asrVars, zh, tw, origin, pubVars, faultVars>>

-----------------------------------------------------------------------------
(* The publication *)

Announce ==
  /\ At("announce")
  /\ marker' = TRUE /\ Goto("check")
  /\ UNCHANGED <<asrVars, zhVars, ass, pubs, manifest, current, outbox, faultVars>>

Publishable ==
  /\ ~asrHold /\ Accepted
  /\ hold = "none" /\ EventsFit /\ ~Omitting

\* Texts whose times collide are moved alike, under the mark of a transcript;
\* without the old times they lose their lineage.  A failure puts all back.
Retime ==
  /\ \/ /\ At("check") /\ Publishable /\ job.next = "off"
        /\ asrHold' = TRUE /\ origin' = FALSE
        /\ job' = [job EXCEPT !.at = "retime", !.lineage = @ \/ origin]
     \/ /\ At("retime")
        /\ asrHold' = FALSE
        /\ \/ Goto("check") /\ UNCHANGED origin
           \/ Fails /\ origin' = job.lineage
  /\ UNCHANGED <<ja, diag, texts, rejected, kept, zh, tw, events, hold, pubVars, faultVars>>

\* Words and punctuation are corrected in place; the lineage follows later.
Correct ==
  /\ At("check") /\ Publishable /\ origin
  /\ origin' = FALSE /\ job' = [job EXCEPT !.lineage = TRUE, !.next = "rebind"]
  /\ UNCHANGED <<asrVars, zh, tw, events, hold, pubVars, faultVars>>

\* The gates, and the quality check of the staged files.
Check ==
  /\ At("check")
  /\ \/ /\ Publishable /\ Len(pubs) < MaxPublications
        /\ pubs' = Append(pubs, [ja |-> ja, of |-> zh.of, whole |-> tw = "these" /\ ~zh.omits,
                                 manual |-> job.manual, lineage |-> FALSE])
        /\ job' = [job EXCEPT !.at = "replace", !.old = ass]
        /\ UNCHANGED origin
     \/ Fails /\ origin' = (origin \/ job.lineage) /\ UNCHANGED pubs
  /\ UNCHANGED <<asrVars, zh, tw, events, hold, ass, manifest, current, marker, outbox, faultVars>>

\* One file after the other; a failure puts back those before, and the texts.
Replace ==
  /\ At("replace")
  /\ LET left == {i \in 1..3 : ass[i] # Len(pubs)} IN
     \/ /\ left # {}
        /\ \E i \in left : /\ \A k \in left : i <= k
                           /\ ass' = [ass EXCEPT ![i] = Len(pubs)]
        /\ UNCHANGED <<job, origin>>
     \/ left # {} /\ ass' = job.old /\ origin' = (origin \/ job.lineage) /\ Done
     \/ left = {} /\ Goto("prove") /\ UNCHANGED <<ass, origin>>
  /\ UNCHANGED <<asrVars, zh, tw, events, hold, pubs, manifest, current, marker, outbox, faultVars>>

\* The lineage is bound to corrected words, then the manifest names it.
Prove ==
  /\ At("prove")
  /\ manifest' = Len(pubs) /\ current' = TRUE
  /\ origin' = (origin \/ job.next = "rebind")
  /\ pubs' = [pubs EXCEPT ![Len(pubs)].lineage = origin']
  /\ Goto("learn")
  /\ UNCHANGED <<asrVars, zh, tw, events, hold, ass, marker, outbox, faultVars>>

\* Before the marker goes: an intent that cannot be recorded leaves it.
Learn ==
  /\ At("learn")
  /\ outbox' = IF Learnable THEN outbox \cup {manifest} ELSE outbox
  /\ Goto("finish")
  /\ UNCHANGED <<asrVars, zhVars, ass, pubs, manifest, current, marker, faultVars>>

Finish ==
  /\ At("finish")
  /\ marker' = FALSE /\ Goto("clean")
  /\ UNCHANGED <<asrVars, zhVars, ass, pubs, manifest, current, outbox, faultVars>>

Clean ==
  /\ At("clean")
  /\ zh' = NoZh /\ tw' = "none" /\ origin' = FALSE /\ Done
  /\ UNCHANGED <<asrVars, events, hold, pubVars, faultVars>>

-----------------------------------------------------------------------------
(* Reviews, crashes, other policies *)

\* Everything is moved into the archive of the review, file by file in the
\* order of the paths: published files, transcript, the rest.
ReviewArchive ==
  \/ /\ At("review") /\ ass' = <<0, 0, 0>> /\ Goto("reviewText")
     /\ UNCHANGED <<asrVars, zhVars, pubs, manifest, current, marker, outbox, faultVars>>
  \/ /\ At("reviewText") /\ ja' = 0 /\ origin' = FALSE /\ Goto("reviewRest")
     /\ UNCHANGED <<diag, asrHold, texts, rejected, kept, zh, tw, events, hold, pubVars, faultVars>>
  \/ /\ At("reviewRest") /\ diag' = NoDiag /\ asrHold' = FALSE /\ Invalidate /\ Done
     /\ UNCHANGED <<ja, texts, rejected, kept, pubVars, faultVars>>

\* The kept evidence comes back for a selective repair: the diagnostics first,
\* the text last; all of it goes where the queue refuses.
PutBack ==
  /\ \/ /\ At("off") /\ ja = 0
        /\ \E t \in kept : /\ diag' = [of |-> t, ok |-> FALSE, tried |-> FALSE]
                          /\ diag \in {NoDiag, diag'}
        /\ Goto("putText")
        /\ UNCHANGED ja
     \/ /\ At("putText") /\ Done
        /\ \/ ja' = diag.of /\ UNCHANGED diag
           \/ diag' = NoDiag /\ UNCHANGED ja
  /\ UNCHANGED <<asrHold, texts, rejected, kept, zhVars, pubVars, faultVars>>

\* Between these two steps the transcript is gone and what was made of it is
\* still there.
Crash ==
  /\ ~At("off") /\ crashes < MaxCrashes
  /\ Done /\ crashes' = crashes + 1
  /\ apart' = (apart \/ (job.at \in {"untranslate", "archived", "reviewRest"} /\ zh # NoZh))
  /\ UNCHANGED <<asrVars, zhVars, pubVars, handed, policies>>

Reconfigure ==
  /\ At("off") /\ policies < MaxPolicies /\ current
  /\ current' = FALSE /\ policies' = policies + 1
  /\ UNCHANGED <<asrVars, zhVars, ass, pubs, manifest, marker, outbox, job, apart, handed, crashes>>

CachedText  == Quarantine \/ UseText \/ Distrust \/ ClaimRepair \/ Rebuild \/ Select \/ Archive \/ Whole
Committed   == BeginCommit \/ Put \/ Diagnose \/ Tidy \/ NothingNew \/ EndCommit \/ GiveBack \/ FailClosed \/ GapFails
Transcribed == BeginTranscript \/ Hear \/ EndTranscript \/ HearAgain \/ TranscriptFails
Repaired    == Chain \/ OmissionsChecked \/ RetranslateOmissions \/ Guard \/ Write \/ Rebind \/ Pace
Translated  == UseTranslation \/ Translate \/ GiveUpTranslating \/ Fresh \/ Gate \/ Convert \/ Finalize
Remediated  == Retime \/ Correct
Publication == Recover \/ SettleRecovered \/ Preflight \/ Announce \/ Check \/ Replace \/ Prove \/ Learn \/ Finish \/ Clean

CacheNext ==
  \/ Begin \/ RecoverAsr \/ Restore \/ CachedText \/ Committed \/ Transcribed
  \/ Repaired \/ Translated \/ Remediated \/ Publication \/ ReviewArchive \/ PutBack
  \/ Crash \/ Reconfigure

CacheSpec == CacheInit /\ [][CacheNext]_cacheVars

-----------------------------------------------------------------------------
(* Properties *)

Sidecars == {"none", "these", "stale"}

CacheTypeOK ==
  /\ ja \in 0..MaxTexts /\ texts \in 0..MaxTexts /\ asrHold \in BOOLEAN
  /\ diag \in [of : 0..MaxTexts, ok : BOOLEAN, tried : BOOLEAN] /\ zh \in [of : 0..MaxTexts, omits : BOOLEAN]
  /\ {tw, events, hold} \subseteq Sidecars /\ origin \in BOOLEAN
  /\ ass \in [1..3 -> 0..MaxPublications] /\ manifest \in 0..MaxPublications
  /\ outbox \subseteq 1..MaxPublications /\ {rejected, kept} \subseteq SUBSET Texts

Standing == Provable /\ ~marker

\* What stands as delivered was made of a transcript that no check rejected,
\* with no line left out and with a Traditional text of that translation,
\* whatever crashed and came back before.
DeliveredIsSound ==
  Standing => pubs[manifest].whole /\ pubs[manifest].ja \notin rejected

\* Transcript and translation of a delivery belong together, unless a crash
\* came between the removal of a transcript and that of its translation.
DeliveredTogether == Standing /\ ~apart => pubs[manifest].of = pubs[manifest].ja

\* What is learned is what was published with its lineage by no manual job;
\* and nothing of it is lost, unless a manual job finished the publication.
LessonsKept ==
  /\ \A p \in outbox : pubs[p].lineage
  /\ Standing /\ pubs[manifest].lineage /\ ~pubs[manifest].manual /\ ~handed => manifest \in outbox
=============================================================================
