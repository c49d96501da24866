------------------------- MODULE PublicationProofs --------------------------
(***************************************************************************)
(* Theorems about how a child publishes its subtitles: SubtitleCache for   *)
(* any number of transcripts, publications and attempts; MemoryOutbox for  *)
(* any episodes and wordings and any number of replacements and            *)
(* restarts.                                                               *)
(***************************************************************************)
EXTENDS SubtitleCache, MemoryOutbox, SequenceTheorems, FiniteSetTheorems, TLAPS

-----------------------------------------------------------------------------
(* SubtitleCache.  The inductive invariant CacheInv follows a child        *)
(* through its job: where it is says which files, marks, sidecars and      *)
(* diagnostics it has left behind if it dies there.                        *)

\* Types of the texts, the diagnostics, the publications and a child's job.
Numbers == 0..MaxTexts
Diags   == [of : Numbers, ok : BOOLEAN, tried : BOOLEAN]
Zhs     == [of : Numbers, omits : BOOLEAN]
Pubs    == [ja : Numbers, of : Numbers, whole : BOOLEAN, manual : BOOLEAN, lineage : BOOLEAN]
Files   == [1..3 -> 0..MaxPublications]
Olds    == {<<>>} \cup [text : Numbers, diag : Diags] \cup Files

\* Where a child may be: before it knows whether anything is left to do, when
\* it has published, and between.
Idle      == {"off", "putText"}
Opening   == {"recover", "settle", "preflight"}
Closing   == {"learn", "finish", "clean"}
Hearing   == {"transcribe", "hear", "heard"}
Texting   == {"cached", "select", "archive", "archived", "whole", "commit", "put", "diagnose", "tidy",
              "unmark", "giveBack", "gapFailed"}
Reading   == {"omissions", "translate", "guard", "write", "rebind", "fresh", "gate", "pace", "unlearn",
              "convert", "finalize", "announce", "check", "retime", "replace", "prove"}
Clearing  == {"unhold", "untranslate", "restore", "chain", "review", "reviewText", "reviewRest"}
Working   == Hearing \cup Texting \cup Reading \cup Clearing
Stages    == Idle \cup Opening \cup Closing \cup Working
Jobs == [at : Stages, manual : BOOLEAN, regen : BOOLEAN, tried : BOOLEAN, escalated : BOOLEAN,
         omits : BOOLEAN, lineage : BOOLEAN, passes : Nat, kind : {"none", "gap", "part", "whole"},
         old : Olds, next : {"off", "omissions", "translate", "rebind", "fresh", "unlearn"}]

TextTypes == /\ ja \in 0..texts /\ texts \in Numbers /\ asrHold \in BOOLEAN /\ diag \in Diags
             /\ kept \subseteq rejected /\ rejected \subseteq 1..texts
FileTypes == /\ zh \in Zhs /\ {tw, events, hold} \subseteq Sidecars
             /\ origin \in BOOLEAN /\ apart \in BOOLEAN /\ handed \in BOOLEAN
PubTypes  == /\ pubs \in Seq(Pubs) /\ Len(pubs) <= MaxPublications
             /\ ass \in Files /\ \A i \in 1..3 : ass[i] <= Len(pubs)
             /\ manifest \in 0..Len(pubs)
             /\ current \in BOOLEAN /\ marker \in BOOLEAN /\ outbox \subseteq 1..Len(pubs)
Types == TextTypes /\ FileTypes /\ PubTypes /\ job \in Jobs

\* A rejected transcript stands beside the diagnostics that reject it, in the
\* cache and in what a repair would put back.
Told(t, d) == t \in rejected => d # NoDiag /\ ~(d.ok /\ d.of = t)
Repairing  == job.kind = "part" /\ job.at \in {"commit", "put", "diagnose", "tidy"}
RejectedIsTold ==
  /\ Told(ja, diag)
  /\ job.at \in {"diagnose", "tidy"} => ja \notin rejected
  /\ job.at \in {"archived", "transcribe", "hear", "reviewRest", "putText"} => ja = 0
  /\ job.at = "putText" => diag.of \in kept /\ ~diag.ok
  /\ job.at = "heard" /\ ~diag.ok => ja \in rejected
  /\ Repairing => job.old \in [text : 0..texts, diag : Diags] /\ Told(job.old.text, job.old.diag)
  /\ \A i \in 1..Len(pubs) : pubs[i].ja \in (0..texts) \ rejected

\* A text with lines left out has their sidecar and no finished mark; the
\* Traditional form is made before the publication of the text it is made of.
Marked ==
  /\ zh.omits => events # "none" /\ hold # "these"
  /\ tw # "stale"
  /\ zh = NoZh => tw = "none"
  /\ zh # NoZh => zh.of # 0
  /\ job.at \in {"guard", "write"} => tw = "none" /\ job.next \in {"rebind", "fresh", "unlearn"}
  /\ job.at \in {"fresh", "gate", "pace", "unlearn", "convert", "finalize"} => zh # NoZh
  /\ job.at \in {"finalize", "announce", "check", "retime"} => tw = "these"
  /\ \A i \in 1..Len(pubs) : pubs[i].whole

\* Where a transcript is needed there is one.
Heard ==
  /\ job.at \in Reading \cup {"diagnose", "tidy", "unmark", "heard"} => ja # 0
  /\ job.at \in {"commit", "put"} /\ job.kind = "gap" => ja # 0
  /\ job.at \in {"commit", "put", "diagnose", "tidy"} => job.kind # "none"
  /\ job.at \in Texting \ {"cached", "gapFailed"} => job.next \in {"omissions", "translate"}

\* The translation is one of the transcript, unless a mark or the next step
\* takes it away.
Together == zh = NoZh \/ zh.of = ja \/ apart
Belongs ==
  /\ \/ Together
     \/ asrHold /\ job.at \in Idle \cup Opening \cup {"unhold", "diagnose", "tidy", "gapFailed", "archive"}
     \/ job.at \in {"untranslate", "archived", "reviewRest"}
  /\ job.at \in Hearing \cup {"whole"} => zh = NoZh
  /\ job.at \in {"commit"} \cup {"put", "diagnose", "tidy"} /\ job.kind = "whole" => zh = NoZh
  /\ Repairing => zh = NoZh \/ zh.of = job.old.text \/ apart
  /\ job.at \in {"put", "diagnose", "tidy"} => asrHold
  /\ job.at \in {"untranslate", "restore", "chain"} => ~asrHold
  /\ \A i \in 1..Len(pubs) : pubs[i].of = pubs[i].ja \/ apart

\* What is standing was there when the child began, or it is the child's own.
Underway ==
  /\ job.at \in Working => ~Provable
  /\ job.at = "preflight" => ~(Provable /\ marker)
  /\ job.at = "settle" => Provable /\ marker
  /\ job.at \in {"learn", "finish"} => Provable /\ marker /\ pubs[manifest].manual = job.manual
  /\ job.at = "clean" => Provable /\ ~marker
  /\ job.at \in {"check", "retime", "replace", "prove"} => marker

\* A lineage that is not recorded yet is still beside the files.
Lessons ==
  /\ \A p \in outbox : pubs[p].lineage
  /\ job.at \in {"replace", "prove"} =>
       Len(pubs) > 0 /\ Len(pubs) \notin outbox /\ pubs[Len(pubs)].manual = job.manual
  /\ marker /\ Provable => pubs[manifest].lineage = origin
  /\ job.at \in {"settle", "finish"} /\ pubs[manifest].lineage /\ ~pubs[manifest].manual /\ ~handed
       => manifest \in outbox
  /\ LessonsKept

\* A publication replaces files of publications before it.
Replacing ==
  /\ job.at = "replace" =>
       /\ job.old \in Files /\ \A i \in 1..3 : job.old[i] < Len(pubs)
       /\ \A i \in 1..3 : ass[i] \in {job.old[i], Len(pubs)}
       /\ ~(manifest # 0 /\ current /\ \A i \in 1..3 : job.old[i] = manifest)
  /\ job.at \in {"replace", "prove"} => manifest < Len(pubs)
  /\ job.at = "prove" => \A i \in 1..3 : ass[i] = Len(pubs)

CacheInv == /\ Types /\ RejectedIsTold /\ Marked /\ Heard /\ Belongs /\ Underway /\ Lessons
            /\ Replacing

\* Each stage is one.
LEMMA AllStages ==
  {"off", "putText", "recover", "settle", "preflight", "learn", "finish", "clean", "transcribe",
   "hear", "heard", "cached", "select", "archive", "archived", "whole", "commit", "put", "diagnose",
   "tidy", "unmark", "giveBack", "gapFailed", "omissions", "translate", "guard", "write", "rebind",
   "fresh", "gate", "pace", "unlearn", "convert", "finalize", "announce", "check", "retime", "replace",
   "prove", "unhold", "untranslate", "restore", "chain", "review", "reviewText", "reviewRest"}
   \subseteq Stages
  BY DEF Stages, Working, Idle, Opening, Closing, Hearing, Texting, Reading, Clearing

\* A job moves from stage to stage within its type.
LEMMA JobFits ==
  /\ NoJob \in Jobs
  /\ job \in Jobs => /\ \A x \in Stages : [job EXCEPT !.at = x] \in Jobs
                     /\ \A x \in Stages : Enter(x) => job' \in Jobs
<1>1. NoJob \in Jobs
  BY AllStages DEF NoJob, Jobs, Olds
<1>2. ASSUME job \in Jobs, NEW x \in Stages, Enter(x) PROVE job' \in Jobs
  <2>1. (job.regen /\ x \in {"pace", "convert"}) \in BOOLEAN
    OBVIOUS
  <2> QED
    BY <1>1, <1>2, <2>1 DEF Jobs, NoJob, Enter
<1> QED
  BY <1>1, <1>2 DEF Jobs

\* Types of the values that are written.
LEMMA DataFits == 0 \in Numbers /\ NoDiag \in Diags /\ NoZh \in Zhs
<1>1. 0 \in Numbers
  BY CacheAssumption DEF Numbers
<1>2. NoDiag \in Diags
  BY <1>1 DEF NoDiag, Diags
<1>3. NoZh \in Zhs
  BY <1>1 DEF NoZh, Zhs
<1> QED
  BY <1>1, <1>2, <1>3

LEMMA DiagFits == ASSUME NEW n \in Numbers, NEW o \in BOOLEAN, NEW t \in BOOLEAN
  PROVE [of |-> n, ok |-> o, tried |-> t] \in Diags
  BY DEF Diags

\* One more text, and those there are.
LEMMA OneMore ==
  ASSUME texts \in Numbers, texts < MaxTexts PROVE texts \in Nat /\ texts + 1 \in Numbers
  BY CacheAssumption DEF Numbers

LEMMA Smaller ==
  ASSUME texts \in Numbers PROVE texts \in Nat /\ 0 \in 0..texts /\ 0..texts \subseteq Numbers
  BY CacheAssumption DEF Numbers

\* A publication changes, is added, or stands for its files.
LEMMA PubChanges ==
  ASSUME pubs \in Seq(Pubs), NEW p \in Pubs
  PROVE  /\ Append(pubs, p) \in Seq(Pubs) /\ Len(Append(pubs, p)) = Len(pubs) + 1
         /\ \A i \in 1..Len(pubs) : Append(pubs, p)[i] = pubs[i]
         /\ Append(pubs, p)[Len(pubs) + 1] = p
  OBVIOUS

\* What a publication is made with.
LEMMA PubFits ==
  ASSUME Types
  PROVE  [ja |-> ja, of |-> zh.of, whole |-> tw = "these" /\ ~zh.omits, manual |-> job.manual,
          lineage |-> FALSE] \in Pubs
<1>1. ja \in Numbers /\ zh.of \in Numbers /\ job.manual \in BOOLEAN
  BY Smaller DEF Types, TextTypes, FileTypes, Zhs, Jobs
<1>2. (tw = "these" /\ ~zh.omits) \in BOOLEAN
  OBVIOUS
<1> QED
  BY <1>1, <1>2 DEF Pubs

\* The last publication gets its lineage.
LEMMA PubProven ==
  ASSUME pubs \in Seq(Pubs), NEW b \in BOOLEAN, Len(pubs) > 0,
         NEW q, q = [pubs EXCEPT ![Len(pubs)].lineage = b]
  PROVE  /\ q \in Seq(Pubs) /\ Len(q) = Len(pubs)
         /\ \A i \in 1..Len(pubs) : i # Len(pubs) => q[i] = pubs[i]
         /\ \A i \in 1..Len(pubs) : q[i].ja = pubs[i].ja /\ q[i].of = pubs[i].of /\ q[i].whole = pubs[i].whole
                                    /\ q[i].manual = pubs[i].manual
         /\ q[Len(pubs)].lineage = b
<1> DEFINE r == [pubs[Len(pubs)] EXCEPT !.lineage = b]
<1>1. pubs[Len(pubs)] \in Pubs
  OBVIOUS
<1>2. r \in Pubs /\ r.ja = pubs[Len(pubs)].ja /\ r.of = pubs[Len(pubs)].of /\ r.whole = pubs[Len(pubs)].whole
      /\ r.manual = pubs[Len(pubs)].manual /\ r.lineage = b
  BY <1>1 DEF Pubs
<1>3. q = [pubs EXCEPT ![Len(pubs)] = r]
  OBVIOUS
<1>4. q[Len(pubs)] = r /\ \A i \in 1..Len(pubs) : i # Len(pubs) => q[i] = pubs[i]
  BY <1>3
<1>5. q \in Seq(Pubs) /\ Len(q) = Len(pubs)
  BY <1>2, <1>3, ExceptSeq
<1> HIDE DEF r
<1> QED
  BY <1>2, <1>4, <1>5

\* Each clause of the invariant is kept by each action of CacheNext: the types of
\* the texts,
LEMMA TextTypesStep ==
  ASSUME Types, RejectedIsTold, CacheNext PROVE TextTypes'
<1> texts \in Nat /\ 0 \in 0..texts /\ NoDiag \in Diags
  BY Smaller, DataFits DEF Types, TextTypes
<1> USE DEF Types, TextTypes, RejectedIsTold, Repairing
<1>1. CASE RecoverAsr
  BY <1>1 DEF RecoverAsr, At, Invalidate, asrVars, faultVars, pubVars
<1>2. CASE Restore
  <2>1. CASE ja = 0 /\ ass[1] # 0
    <3>1. ass[1] \in 1..Len(pubs)
      BY <2>1 DEF PubTypes, Files
    <3>2. pubs[ass[1]].ja \in 0..texts
      BY <3>1
    <3>3. /\ ja' \in 0..texts /\ diag' = NoDiag /\ asrHold' = FALSE
          /\ UNCHANGED <<texts, rejected, kept>>
      BY <1>2, <2>1, <3>2 DEF Restore
    <3> QED
      BY <3>3
  <2>2. CASE UNCHANGED asrVars
    BY <2>2 DEF asrVars
  <2> QED
    BY <1>2, <2>1, <2>2 DEF Restore, asrVars
<1>3. CASE Quarantine
  BY <1>3 DEF Quarantine, At, Invalidate, faultVars, pubVars
<1>4. CASE ClaimRepair
  <2>1. diag' \in Diags
    BY <1>4 DEF ClaimRepair, Diags
  <2> QED
    BY <1>4, <2>1 DEF ClaimRepair
<1>5. CASE Archive
  BY <1>5 DEF Archive, At, Aged, faultVars, pubVars
<1>6. CASE BeginCommit
  BY <1>6 DEF BeginCommit, At, faultVars, pubVars, zhVars
<1>7. CASE Put
  <2>1. texts + 1 \in Numbers /\ texts + 1 \in 0..(texts + 1) /\ rejected \subseteq 1..(texts + 1)
    BY <1>7, OneMore DEF Put
  <2> QED
    BY <1>7, <2>1 DEF Put
<1>8. CASE Diagnose
  <2>1. ja \in Numbers
    BY Smaller
  <2>2. diag' \in Diags
    BY <1>8, <2>1, DiagFits DEF Diagnose
  <2> QED
    BY <1>8, <2>2 DEF Diagnose
<1>9. CASE EndCommit
  BY <1>9 DEF EndCommit, At, faultVars, pubVars, zhVars
<1>10. CASE GiveBack
  BY <1>10 DEF GiveBack, At, Committing, faultVars, pubVars
<1>11. CASE FailClosed
  BY <1>11 DEF FailClosed, Committing, faultVars, pubVars
<1>12. CASE GapFails
  BY <1>12 DEF GapFails, At, Invalidate, faultVars, pubVars, zhVars
<1>13. CASE BeginTranscript
  BY <1>13 DEF BeginTranscript, At, faultVars, pubVars, zhVars
<1>14. CASE Hear
  <2>1. /\ texts + 1 \in Numbers /\ texts + 1 \in 0..(texts + 1)
        /\ rejected \cup {texts + 1} \subseteq 1..(texts + 1)
    BY <1>14, OneMore DEF Hear
  <2>2. diag' \in Diags
    BY <1>14, <2>1, DiagFits DEF Hear
  <2>3. rejected' \in {rejected, rejected \cup {texts + 1}}
    BY <1>14 DEF Hear
  <2>4. texts' = texts + 1 /\ ja' = texts + 1 /\ asrHold' = asrHold /\ kept' = kept
    BY <1>14 DEF Hear
  <2> QED
    BY <2>1, <2>2, <2>3, <2>4
<1>15. CASE HearAgain
  BY <1>15 DEF HearAgain, At, faultVars, pubVars, zhVars
<1>16. CASE TranscriptFails
  <2>1. ja \in rejected
    BY <1>16 DEF TranscriptFails, At
  <2> QED
    BY <1>16, <2>1 DEF TranscriptFails
<1>17. CASE ReviewArchive
  BY <1>17 DEF ReviewArchive, At, Invalidate, asrVars, faultVars, pubVars, zhVars
<1>18. CASE PutBack
  <2>1. CASE At("off") /\ ja = 0 /\ UNCHANGED <<ja, asrHold, texts, rejected, kept>>
    <3>1. PICK t \in kept : diag' = [of |-> t, ok |-> FALSE, tried |-> FALSE]
      BY <1>18, <2>1 DEF PutBack, At
    <3>2. t \in Numbers
      BY Smaller
    <3> QED
      BY <2>1, <3>1, <3>2, DiagFits
  <2>2. CASE At("putText") /\ UNCHANGED <<asrHold, texts, rejected, kept>>
    <3>1. diag.of \in kept
      BY <2>2 DEF At
    <3>2. diag.of \in 1..texts
      BY <3>1 DEF Types, TextTypes
    <3>4. diag.of \in 0..texts
      BY <3>2, texts \in Nat
    <3>3. ja' \in {ja, diag.of} /\ diag' \in {diag, NoDiag}
      BY <1>18, <2>2 DEF PutBack, At
    <3> QED
      BY <2>2, <3>4, <3>3
  <2> QED
    BY <1>18, <2>1, <2>2 DEF PutBack
<1>19. CASE Begin \/ UseText \/ Distrust \/ Rebuild \/ Select \/ Whole \/ Tidy \/ NothingNew \/
        EndTranscript \/ Chain
  BY <1>19 DEF Begin, At, asrVars, faultVars, pubVars, zhVars, UseText, Accepted, Distrust, Rebuild,
        Rejected, Select, Whole, Tidy, Invalidate, NothingNew, EndTranscript, Chain, EventsFit, HoldFits
<1>20. CASE OmissionsChecked \/ RetranslateOmissions \/ Guard \/ Write \/ Rebind \/ Pace \/
        UseTranslation \/ Translate \/ GiveUpTranslating \/ Fresh
  BY <1>20 DEF OmissionsChecked, At, Invalidate, EventsFit, Omitting, asrVars, faultVars, pubVars,
        zhVars, RetranslateOmissions, Guard, Write, Aged, Rebind, Pace, UseTranslation, Translate,
        GiveUpTranslating, Fresh
<1>21. CASE Gate \/ Convert \/ Finalize \/ Recover \/ SettleRecovered \/ Preflight \/ Announce \/
        Check \/ Replace \/ Prove
  BY <1>21
     DEF Gate, At, EventsFit, HoldFits, Omitting, asrVars, faultVars, pubVars, zhVars, Convert,
        Finalize, Recover, Learnable, SettleRecovered, Preflight, Announce, Check, Publishable,
        Accepted, Replace, Prove
<1>22. CASE Learn \/ Finish \/ Clean \/ Crash \/ Reconfigure
  BY <1>22 DEF Learn, At, Learnable, asrVars, faultVars, zhVars, Finish, Clean, pubVars, Crash,
        Reconfigure
<1>23. CASE Retime
  BY <1>23 DEF Retime, pubVars, faultVars
<1>24. CASE Correct
  BY <1>24 DEF Correct, asrVars
<1> QED
  BY <1>1, <1>2, <1>3, <1>4, <1>5, <1>6, <1>7, <1>8, <1>9, <1>10, <1>11, <1>12, <1>13, <1>14, <1>15,
        <1>16, <1>17, <1>18, <1>19, <1>20, <1>21, <1>22, <1>23, <1>24
     DEF CacheNext, CachedText, Committed, Transcribed, Repaired, Translated, Remediated, Publication

\* of the files,
LEMMA FileTypesStep ==
  ASSUME Types, CacheNext PROVE FileTypes'
<1> NoZh \in Zhs
  BY DataFits
<1> USE DEF Types, TextTypes, FileTypes, Sidecars
<1>1. CASE RecoverAsr
  BY <1>1 DEF RecoverAsr, At, Invalidate, asrVars, faultVars, pubVars
<1>2. CASE Quarantine
  BY <1>2 DEF Quarantine, At, Invalidate, faultVars, pubVars
<1>3. CASE Archive
  BY <1>3 DEF Archive, At, Aged, faultVars, pubVars
<1>4. CASE Put
  BY <1>4 DEF Put, At, faultVars, pubVars
<1>5. CASE Tidy
  BY <1>5 DEF Tidy, At, Invalidate, asrVars, faultVars, pubVars
<1>6. CASE GiveBack
  BY <1>6 DEF GiveBack, At, Committing, faultVars, pubVars
<1>7. CASE FailClosed
  BY <1>7 DEF FailClosed, Committing, faultVars, pubVars
<1>8. CASE GapFails
  BY <1>8 DEF GapFails, At, Invalidate, faultVars, pubVars, zhVars
<1>9. CASE Chain
  BY <1>9 DEF Chain, At, Invalidate, EventsFit, HoldFits, asrVars, faultVars, pubVars
<1>10. CASE OmissionsChecked
  BY <1>10 DEF OmissionsChecked, At, Invalidate, EventsFit, Omitting, asrVars, faultVars, pubVars,
        zhVars
<1>11. CASE RetranslateOmissions
  BY <1>11 DEF RetranslateOmissions, At, Omitting, asrVars, faultVars, pubVars
<1>12. CASE Guard
  BY <1>12 DEF Guard, At, asrVars, faultVars, pubVars
<1>13. CASE Write
  <2>1. ja \in Numbers /\ zh.of \in Numbers /\ job.omits \in BOOLEAN
    BY Smaller DEF Zhs, Jobs
  <2>2. zh' \in Zhs
    BY <1>13, <2>1 DEF Write, Zhs
  <2> QED
    BY <1>13, <2>2 DEF Write, Aged, asrVars, faultVars, pubVars
<1>14. CASE Rebind
  BY <1>14 DEF Rebind, At, asrVars, faultVars, pubVars
<1>15. CASE Pace
  BY <1>15 DEF Pace, At, asrVars, faultVars, pubVars
<1>16. CASE Translate
  BY <1>16 DEF Translate, At, asrVars, faultVars, pubVars
<1>17. CASE Convert
  BY <1>17 DEF Convert, At, asrVars, faultVars, pubVars
<1>18. CASE Finalize
  BY <1>18 DEF Finalize, At, HoldFits, asrVars, faultVars, pubVars
<1>19. CASE Recover
  BY <1>19 DEF Recover, At, Learnable, asrVars, zhVars
<1>20. CASE Preflight
  BY <1>20 DEF Preflight, At, asrVars, faultVars, pubVars
<1>21. CASE Clean
  BY <1>21 DEF Clean, At, asrVars, faultVars, pubVars
<1>22. CASE ReviewArchive
  BY <1>22 DEF ReviewArchive, At, Invalidate, asrVars, faultVars, pubVars, zhVars
<1>23. CASE Crash
  BY <1>23 DEF Crash, At, asrVars, pubVars, zhVars
<1>24. CASE Begin \/ Restore \/ UseText \/ Distrust \/ ClaimRepair \/ Rebuild \/ Select \/
        Whole \/ BeginCommit \/ Diagnose
  BY <1>24 DEF Begin, At, asrVars, faultVars, pubVars, zhVars, Restore, UseText, Accepted, Distrust,
        ClaimRepair, Rejected, Rebuild, Select, Whole, BeginCommit, Diagnose
<1>25. CASE NothingNew \/ EndCommit \/ BeginTranscript \/ Hear \/ EndTranscript \/ HearAgain \/
        TranscriptFails \/ UseTranslation \/ GiveUpTranslating \/ Fresh
  BY <1>25
     DEF NothingNew, At, asrVars, faultVars, pubVars, zhVars, EndCommit, BeginTranscript, Hear,
        EndTranscript, HearAgain, TranscriptFails, UseTranslation, GiveUpTranslating, Fresh, EventsFit
<1>26. CASE Gate \/ SettleRecovered \/ Announce \/ Check \/ Replace \/ Prove \/ Learn \/
        Finish \/ PutBack \/ Reconfigure
  BY <1>26 DEF Gate, At, EventsFit, HoldFits, Omitting, asrVars, faultVars, pubVars, zhVars,
        SettleRecovered, Announce, Check, Publishable, Accepted, Replace, Prove, Learn, Learnable,
        Finish, PutBack, Reconfigure
<1>27. CASE Retime
  BY <1>27 DEF Retime, pubVars, faultVars, Jobs
<1>28. CASE Correct
  BY <1>28 DEF Correct, pubVars, faultVars
<1> QED
  BY <1>1, <1>2, <1>3, <1>4, <1>5, <1>6, <1>7, <1>8, <1>9, <1>10, <1>11, <1>12, <1>13, <1>14, <1>15,
        <1>16, <1>17, <1>18, <1>19, <1>20, <1>21, <1>22, <1>23, <1>24, <1>25, <1>26, <1>27, <1>28
     DEF CacheNext, CachedText, Committed, Transcribed, Repaired, Translated, Remediated, Publication

\* of the job,
LEMMA JobStep ==
  ASSUME Types, Heard, Marked, CacheNext PROVE (job \in Jobs)'
<1> USE DEF Types
<1>1. CASE Begin
  <2>1. {"recover"} \subseteq Stages
    BY AllStages

  <2> QED
    BY <1>1, <2>1, JobFits DEF Begin, Jobs, NoJob
<1>2. CASE RecoverAsr
  BY <1>2, JobFits, AllStages
     DEF RecoverAsr, Goto, At, Invalidate, asrVars, faultVars, pubVars, Jobs
<1>3. CASE Restore
  BY <1>3, JobFits, AllStages DEF Restore, Goto, At, faultVars, pubVars, zhVars, Jobs
<1>4. CASE Quarantine
  BY <1>4, JobFits, AllStages DEF Quarantine, Goto, At, Invalidate, faultVars, pubVars, Jobs
<1>5. CASE UseText
  <2>1. {"commit", "omissions"} \subseteq Stages
    BY AllStages

  <2> QED
    BY <1>5, <2>1 DEF UseText, Jobs, Goto
<1>6. CASE Distrust
  BY <1>6, JobFits, AllStages
     DEF Distrust, Enter, At, Accepted, asrVars, faultVars, pubVars, zhVars, Jobs
<1>7. CASE ClaimRepair
  BY <1>7, JobFits, AllStages DEF ClaimRepair, At, Rejected, faultVars, pubVars, zhVars, Jobs
<1>8. CASE Rebuild
  BY <1>8, JobFits, AllStages DEF Rebuild, At, Rejected, asrVars, faultVars, pubVars, zhVars, Jobs
<1>9. CASE Select
  <2>1. {"commit", "archive"} \subseteq Stages
    BY AllStages

  <2>2. [text |-> ja, diag |-> diag] \in Olds
    BY Smaller DEF TextTypes, Olds
  <2> QED
    BY <1>9, <2>1, <2>2 DEF Select, Jobs, Goto
<1>10. CASE Archive
  BY <1>10, JobFits, AllStages DEF Archive, Goto, At, Aged, faultVars, pubVars, Jobs
<1>11. CASE Whole
  <2>1. {"commit", "review"} \subseteq Stages
    BY AllStages

  <2>2. CASE Fails
    BY <2>1, <2>2, JobFits DEF Fails, Done
  <2> QED
    BY <1>11, <2>1, <2>2 DEF Whole, Jobs
<1>12. CASE BeginCommit
  BY <1>12, JobFits, AllStages DEF BeginCommit, Goto, At, faultVars, pubVars, zhVars, Jobs
<1>13. CASE Put
  BY <1>13, JobFits, AllStages DEF Put, Goto, At, faultVars, pubVars, Jobs
<1>14. CASE Diagnose
  BY <1>14, JobFits, AllStages DEF Diagnose, Goto, At, faultVars, pubVars, zhVars, Jobs
<1>15. CASE Tidy
  BY <1>15, JobFits, AllStages DEF Tidy, Goto, At, Invalidate, asrVars, faultVars, pubVars, Jobs
<1>16. CASE NothingNew
  BY <1>16, JobFits, AllStages DEF NothingNew, Goto, At, asrVars, faultVars, pubVars, zhVars, Jobs
<1>17. CASE EndCommit
  <2>1. {"omissions", "translate"} \subseteq Stages
    BY AllStages

  <2>2. job.next \in Stages /\ <<>> \in Olds
    BY <1>17, <2>1 DEF EndCommit, At, Heard, Texting, Olds
  <2> QED
    BY <1>17, <2>2 DEF EndCommit, Jobs
<1>18. CASE GiveBack
  BY <1>18, JobFits, AllStages DEF GiveBack, Goto, At, Committing, faultVars, pubVars, Jobs
<1>19. CASE FailClosed
  <2>1. {"gapFailed", "review"} \subseteq Stages
    BY AllStages

  <2>2. CASE Fails
    BY <2>1, <2>2, JobFits DEF Fails, Done
  <2> QED
    BY <1>19, <2>1, <2>2, JobFits DEF FailClosed, Goto
<1>20. CASE GapFails
  BY <1>20, JobFits, AllStages
     DEF GapFails, Fails, Goto, At, Invalidate, faultVars, pubVars, zhVars, Enter, Done, Jobs
<1>21. CASE BeginTranscript
  BY <1>21, JobFits, AllStages DEF BeginTranscript, Goto, At, faultVars, pubVars, zhVars, Jobs
<1>22. CASE Hear
  BY <1>22, JobFits, AllStages DEF Hear, Goto, At, faultVars, pubVars, zhVars, Jobs
<1>23. CASE EndTranscript
  BY <1>23, JobFits, AllStages DEF EndTranscript, At, asrVars, faultVars, pubVars, zhVars, Jobs
<1>24. CASE HearAgain
  BY <1>24, JobFits, AllStages DEF HearAgain, Goto, At, faultVars, pubVars, zhVars, Jobs
<1>25. CASE TranscriptFails
  BY <1>25, JobFits, AllStages
     DEF TranscriptFails, Fails, At, faultVars, pubVars, zhVars, Enter, Done, Jobs
<1>26. CASE Chain
  BY <1>26, JobFits, AllStages
     DEF Chain, Goto, At, Invalidate, EventsFit, HoldFits, asrVars, faultVars, pubVars, Jobs
<1>27. CASE OmissionsChecked
  BY <1>27, JobFits, AllStages
     DEF OmissionsChecked, Goto, At, Invalidate, EventsFit, Omitting, asrVars, faultVars, pubVars,
         zhVars, Jobs
<1>28. CASE RetranslateOmissions
  <2>1. {"guard"} \subseteq Stages
    BY AllStages

  <2> QED
    BY <1>28, <2>1 DEF RetranslateOmissions, Jobs, FileTypes
<1>29. CASE Guard
  BY <1>29, JobFits, AllStages DEF Guard, Goto, At, asrVars, faultVars, pubVars, Jobs
<1>30. CASE Write
  BY <1>30, JobFits, AllStages DEF Write, Goto, At, Aged, asrVars, faultVars, pubVars, Jobs
<1>31. CASE Rebind
  <2>1. {"translate", "select"} \subseteq Stages
    BY AllStages

  <2> QED
    BY <1>31, <2>1, JobFits DEF Rebind, Jobs, Goto, Done
<1>32. CASE Pace
  <2>1. {"convert", "guard", "pace"} \subseteq Stages
    BY AllStages
  <2>2. CASE Enter("convert") \/ Done
    BY <2>1, <2>2, JobFits DEF Done
  <2>3. CASE Goto("pace")
    BY <2>1, <2>3, JobFits DEF Goto
  <2>4. CASE job' = [job EXCEPT !.at = "guard", !.next = "unlearn", !.omits = FALSE, !.passes = @ + 1, !.regen = TRUE]
    <3>1. job.passes + 1 \in Nat
      BY DEF Jobs
    <3> QED
      BY <2>1, <2>4, <3>1 DEF Jobs
  <2> QED
    BY <1>32, <2>2, <2>3, <2>4 DEF Pace
<1>33. CASE UseTranslation
  BY <1>33, JobFits, AllStages
     DEF UseTranslation, Goto, At, asrVars, faultVars, pubVars, zhVars, Jobs
<1>34. CASE Translate
  <2>1. {"guard"} \subseteq Stages
    BY AllStages

  <2>2. PICK o \in BOOLEAN :
          job' = [job EXCEPT !.at = "guard", !.next = "fresh", !.omits = o, !.passes = @ + 1, !.regen = TRUE]
    BY <1>34 DEF Translate
  <2>3. job.passes + 1 \in Nat
    BY DEF Jobs
  <2> QED
    BY <2>1, <2>2, <2>3 DEF Jobs
<1>35. CASE GiveUpTranslating
  BY <1>35, JobFits, AllStages DEF GiveUpTranslating, Done, At, asrVars, faultVars, pubVars, zhVars,
        Jobs
<1>36. CASE Fresh
  BY <1>36, JobFits, AllStages DEF Fresh, Goto, Done, At, EventsFit, asrVars, faultVars, pubVars,
        zhVars, Jobs
<1>37. CASE Gate
  BY <1>37, JobFits, AllStages DEF Gate, Enter, Done, At, EventsFit, HoldFits, Omitting, asrVars,
        faultVars, pubVars, zhVars, Jobs
<1>38. CASE Convert
  BY <1>38, JobFits, AllStages DEF Convert, Goto, At, asrVars, faultVars, pubVars, Jobs
<1>39. CASE Finalize
  BY <1>39, JobFits, AllStages DEF Finalize, Enter, Done, At, HoldFits, asrVars, faultVars, pubVars,
        Jobs
<1>40. CASE Recover
  BY <1>40, JobFits, AllStages DEF Recover, Goto, At, Learnable, asrVars, zhVars, Jobs
<1>41. CASE SettleRecovered
  BY <1>41, JobFits, AllStages DEF SettleRecovered, Goto, At, asrVars, faultVars, zhVars, Jobs
<1>42. CASE Preflight
  BY <1>42, JobFits, AllStages DEF Preflight, Goto, Done, At, asrVars, faultVars, pubVars, Jobs
<1>43. CASE Announce
  BY <1>43, JobFits, AllStages DEF Announce, Goto, At, asrVars, faultVars, zhVars, Jobs
<1>44. CASE Check
  <2>1. {"replace", "review"} \subseteq Stages
    BY AllStages

  <2>2. ass \in Olds
    BY DEF PubTypes, Olds
  <2>3. CASE Fails
    BY <2>1, <2>3, JobFits DEF Fails, Done
  <2> QED
    BY <1>44, <2>1, <2>2, <2>3 DEF Check, Jobs
<1>45. CASE Replace
  BY <1>45, JobFits, AllStages DEF Replace, Goto, Done, At, asrVars, faultVars, zhVars, Jobs
<1>46. CASE Prove
  BY <1>46, JobFits, AllStages DEF Prove, Goto, At, asrVars, faultVars, zhVars, Jobs
<1>47. CASE Learn
  BY <1>47, JobFits, AllStages DEF Learn, Goto, At, Learnable, asrVars, faultVars, zhVars, Jobs
<1>48. CASE Finish
  BY <1>48, JobFits, AllStages DEF Finish, Goto, At, asrVars, faultVars, zhVars, Jobs
<1>49. CASE Clean
  BY <1>49, JobFits, AllStages DEF Clean, Done, At, asrVars, faultVars, pubVars, Jobs
<1>50. CASE ReviewArchive
  BY <1>50, JobFits, AllStages DEF ReviewArchive, Goto, Done, At, Invalidate, asrVars, faultVars,
        pubVars, zhVars, Jobs
<1>51. CASE PutBack
  BY <1>51, JobFits, AllStages DEF PutBack, Goto, Done, At, faultVars, pubVars, zhVars, Jobs
<1>52. CASE Crash
  BY <1>52, JobFits, AllStages DEF Crash, Done, At, asrVars, pubVars, zhVars, Jobs
<1>53. CASE Reconfigure
  BY <1>53, JobFits, AllStages DEF Reconfigure, At, asrVars, zhVars, Jobs
<1>54. CASE Retime
  <2>1. {"check", "retime", "review"} \subseteq Stages /\ origin \in BOOLEAN
    BY AllStages DEF FileTypes
  <2>2. CASE Fails
    BY <2>1, <2>2, JobFits DEF Fails, Done
  <2>3. CASE job' = [job EXCEPT !.at = "retime", !.lineage = @ \/ origin]
    <3>1. (job.lineage \/ origin) \in BOOLEAN
      BY <2>1 DEF Jobs
    <3> QED
      BY <2>1, <2>3, <3>1 DEF Jobs
  <2>4. CASE Goto("check")
    BY <2>1, <2>4, JobFits DEF Goto
  <2> QED
    BY <1>54, <2>2, <2>3, <2>4 DEF Retime
<1>55. CASE Correct
  BY <1>55 DEF Correct, Jobs
<1> QED
  BY <1>1, <1>2, <1>3, <1>4, <1>5, <1>6, <1>7, <1>8, <1>9, <1>10, <1>11, <1>12, <1>13, <1>14, <1>15,
        <1>16, <1>17, <1>18, <1>19, <1>20, <1>21, <1>22, <1>23, <1>24, <1>25, <1>26, <1>27, <1>28,
        <1>29, <1>30, <1>31, <1>32, <1>33, <1>34, <1>35, <1>36, <1>37, <1>38, <1>39, <1>40, <1>41,
        <1>42, <1>43, <1>44, <1>45, <1>46, <1>47, <1>48, <1>49, <1>50, <1>51, <1>52, <1>53, <1>54, <1>55
     DEF CacheNext, CachedText, Committed, Transcribed, Repaired, Translated, Remediated, Publication

\* and of the publications.
LEMMA PubTypesStep ==
  ASSUME Types, Underway, Replacing, Lessons, CacheNext PROVE PubTypes'
<1> USE DEF Types, PubTypes
<1>1. CASE Recover
  <2>1. CASE marker /\ Provable
    <3>1. manifest \in 1..Len(pubs)
      BY <2>1 DEF Provable
    <3>2. outbox' \subseteq 1..Len(pubs) /\ UNCHANGED <<ass, pubs, manifest, current, marker>>
      BY <1>1, <2>1, <3>1 DEF Recover
    <3> QED
      BY <3>2
  <2>2. CASE ~(marker /\ Provable)
    BY <1>1, <2>2 DEF Recover
  <2> QED
    BY <2>1, <2>2
<1>2. CASE Announce
  BY <1>2 DEF Announce, At, asrVars, faultVars, zhVars
<1>3. CASE Check
  <2>1. CASE UNCHANGED pubVars
    BY <2>1 DEF pubVars
  <2>2. CASE /\ Len(pubs) < MaxPublications
             /\ pubs' = Append(pubs, [ja |-> ja, of |-> zh.of, whole |-> tw = "these" /\ ~zh.omits,
                                      manual |-> job.manual, lineage |-> FALSE])
             /\ UNCHANGED <<ass, manifest, current, marker, outbox>>
    <3>1. /\ pubs' \in Seq(Pubs) /\ Len(pubs') = Len(pubs) + 1
      BY <2>2, PubFits, PubChanges
    <3>2. Len(pubs) \in Nat /\ Len(pubs') <= MaxPublications
      BY <2>2, <3>1, CacheAssumption
    <3>3. \A i \in 1..3 : ass[i] \in Nat
      BY CacheAssumption DEF Files
    <3> QED
      BY <2>2, <3>1, <3>2, <3>3
  <2> QED
    BY <1>3, <2>1, <2>2 DEF Check, pubVars
<1>4. CASE Replace
  <2>1. CASE UNCHANGED ass
    BY <1>4, <2>1 DEF Replace
  <2>2. CASE \E i \in 1..3 : ass' = [ass EXCEPT ![i] = Len(pubs)]
    <3>1. Len(pubs) \in 0..MaxPublications
      BY CacheAssumption
    <3>2. ass' \in Files /\ \A i \in 1..3 : ass'[i] <= Len(pubs')
      BY <1>4, <2>2, <3>1 DEF Replace, Files
    <3> QED
      BY <1>4, <3>2 DEF Replace
  <2>3. CASE ass' = job.old
    <3>1. Len(pubs) \in Nat /\ job.old \in Files /\ \A i \in 1..3 : job.old[i] < Len(pubs)
      BY <1>4 DEF Replace, Replacing, At
    <3>2. \A i \in 1..3 : job.old[i] \in Nat
      BY <3>1, CacheAssumption DEF Files
    <3>3. ass' \in Files /\ \A i \in 1..3 : ass'[i] <= Len(pubs')
      BY <1>4, <2>3, <3>1, <3>2 DEF Replace
    <3> QED
      BY <1>4, <3>3 DEF Replace
  <2> QED
    BY <1>4, <2>1, <2>2, <2>3 DEF Replace
<1>5. CASE Prove
  <2>1. Len(pubs) > 0 /\ pubs' = [pubs EXCEPT ![Len(pubs)].lineage = origin']
    BY <1>5 DEF Prove, Lessons, At
  <2>2. origin' \in BOOLEAN
    BY <1>5 DEF Prove, FileTypes
  <2>3. pubs' \in Seq(Pubs) /\ Len(pubs') = Len(pubs)
    BY <2>1, <2>2, PubProven
  <2> QED
    BY <1>5, <2>1, <2>3 DEF Prove
<1>6. CASE Learn
  <2>1. manifest \in 1..Len(pubs)
    BY <1>6 DEF Learn, Underway, Provable, At
  <2> QED
    BY <1>6, <2>1 DEF Learn
<1>7. CASE ReviewArchive
  <2>1. <<0, 0, 0>> \in Files /\ \A i \in 1..3 : <<0, 0, 0>>[i] = 0
    BY CacheAssumption DEF Files
  <2>2. ass' \in {ass, <<0, 0, 0>>} /\ UNCHANGED <<pubs, manifest, current, marker, outbox>>
    BY <1>7 DEF ReviewArchive, pubVars
  <2>3. \A i \in 1..3 : ass'[i] <= Len(pubs)
    BY <2>1, <2>2
  <2> QED
    BY <2>1, <2>2, <2>3
<1>8. CASE Begin \/ RecoverAsr \/ Restore \/ Quarantine \/ UseText \/ Distrust \/ ClaimRepair \/
        Rebuild \/ Select \/ Archive
  BY <1>8 DEF Begin, At, asrVars, faultVars, pubVars, zhVars, RecoverAsr, Invalidate, Restore,
        Quarantine, UseText, Accepted, Distrust, ClaimRepair, Rejected, Rebuild, Select, Archive, Aged
<1>9. CASE Whole \/ BeginCommit \/ Put \/ Diagnose \/ Tidy \/ NothingNew \/ EndCommit \/
        GiveBack \/ FailClosed \/ GapFails
  BY <1>9 DEF Whole, At, asrVars, faultVars, pubVars, zhVars, BeginCommit, Put, Diagnose, Tidy,
        Invalidate, NothingNew, EndCommit, GiveBack, Committing, FailClosed, GapFails
<1>10. CASE BeginTranscript \/ Hear \/ EndTranscript \/ HearAgain \/ TranscriptFails \/ Chain \/
        OmissionsChecked \/ RetranslateOmissions \/ Guard \/ Write
  BY <1>10
     DEF BeginTranscript, At, faultVars, pubVars, zhVars, Hear, EndTranscript, asrVars, HearAgain,
        TranscriptFails, Chain, Invalidate, EventsFit, HoldFits, OmissionsChecked, Omitting,
        RetranslateOmissions, Guard, Write, Aged
<1>11. CASE Rebind \/ Pace \/ UseTranslation \/ Translate \/ GiveUpTranslating \/ Fresh \/
        Gate \/ Convert \/ Finalize \/ SettleRecovered
  BY <1>11 DEF Rebind, At, asrVars, faultVars, pubVars, Pace, UseTranslation, zhVars, Translate,
        GiveUpTranslating, Fresh, EventsFit, Gate, HoldFits, Omitting, Convert, Finalize,
        SettleRecovered
<1>12. CASE Preflight \/ Finish \/ Clean \/ PutBack \/ Crash \/ Reconfigure
  BY <1>12 DEF Preflight, At, asrVars, faultVars, pubVars, Finish, zhVars, Clean, PutBack, Crash,
        Reconfigure
<1>13. CASE Retime
  BY <1>13 DEF Retime, pubVars
<1>14. CASE Correct
  BY <1>14 DEF Correct, pubVars
<1> QED
  BY <1>1, <1>2, <1>3, <1>4, <1>5, <1>6, <1>7, <1>8, <1>9, <1>10, <1>11, <1>12, <1>13, <1>14
     DEF CacheNext, CachedText, Committed, Transcribed, Repaired, Translated, Remediated, Publication

\* What the moves of a job leave.
LEMMA AfterGoto ==
  ASSUME job \in Jobs, NEW x, Goto(x)
  PROVE  job'.at = x /\ UNCHANGED <<job.kind, job.next, job.old, job.manual>>
  BY DEF Jobs, Goto

LEMMA AfterDone ==
  ASSUME Done
  PROVE  job'.at = "off" /\ job'.kind = "none" /\ job'.next = "off"
  BY DEF Done, NoJob

LEMMA AfterEnter ==
  ASSUME NEW x, Enter(x)
  PROVE  job'.at = x /\ job'.kind = "none" /\ job'.next = "off" /\ job'.manual = job.manual
  BY DEF Enter, NoJob

LEMMA AfterFails ==
  ASSUME Fails
  PROVE  job'.at \in {"review", "off"} /\ job'.kind = "none" /\ job'.next = "off"
  BY AfterDone, AfterEnter DEF Fails

LEMMA AfterPace ==
  ASSUME job \in Jobs, Pace
  PROVE  /\ job.at \in {"pace", "unlearn"} /\ UNCHANGED <<asrVars, zh, events, hold, pubVars, faultVars>>
         /\ \/ job'.at \in {"convert", "off", "pace"} /\ UNCHANGED tw
            \/ job'.at = "guard" /\ job'.next = "unlearn" /\ tw' = "none"
<1>1. CASE At("pace") /\ (Enter("convert") \/ Done) /\ UNCHANGED <<tw, origin>>
  BY <1>1, AfterEnter, AfterDone DEF Pace, At
<1>2. CASE /\ At("pace") /\ tw' = "none"
           /\ job' = [job EXCEPT !.at = "guard", !.next = "unlearn", !.omits = FALSE, !.passes = @ + 1, !.regen = TRUE]
  BY <1>2 DEF Pace, At, Jobs
<1>3. CASE At("unlearn") /\ Goto("pace") /\ UNCHANGED tw
  BY <1>3, AfterGoto DEF Pace, At
<1> QED
  BY <1>1, <1>2, <1>3 DEF Pace

LEMMA AfterRetime ==
  ASSUME job \in Jobs, Retime
  PROVE  /\ UNCHANGED <<ja, diag, texts, rejected, kept, zh, tw, events, hold, pubVars, faultVars>>
         /\ \/ job.at = "check" /\ job'.at = "retime"
            \/ job.at = "retime" /\ job'.at \in {"check", "review", "off"} /\ asrHold' = FALSE
<1>1. CASE At("check") /\ job' = [job EXCEPT !.at = "retime", !.lineage = @ \/ origin]
  BY <1>1 DEF Retime, At, Jobs
<1>2. CASE At("retime") /\ asrHold' = FALSE /\ (Goto("check") \/ Fails)
  BY <1>2, AfterGoto, AfterFails DEF Retime, At
<1> QED
  BY <1>1, <1>2 DEF Retime

\* A step of a child that works on what does not stand disturbs no lesson.
LEMMA LessonsStay ==
  ASSUME Types, Underway, Lessons, UNCHANGED <<pubVars, handed>>,
         job.at \in Working \/ UNCHANGED origin,
         job'.at \notin {"replace", "prove", "settle", "finish"}
  PROVE  Lessons'
<1>1. Provable' = Provable
  BY DEF Provable, pubVars
<1>2. marker /\ Provable => UNCHANGED origin
  BY DEF Underway
<1> QED
  BY <1>1, <1>2 DEF Lessons, LessonsKept, Standing, pubVars

\* What is rejected is told so.
LEMMA ToldStep ==
  ASSUME Types, RejectedIsTold, Heard, CacheNext PROVE RejectedIsTold'
<1> 0 \notin rejected /\ texts + 1 \notin rejected /\ texts \in Nat /\ 0 \in 0..texts
  BY Smaller DEF Types, TextTypes
<1> USE DEF Types, RejectedIsTold, Repairing, Told, Jobs, NoJob
<1>1. CASE Begin
  BY <1>1 DEF Begin, At, asrVars, faultVars, pubVars, zhVars
<1>2. CASE RecoverAsr
  BY <1>2, AfterGoto DEF RecoverAsr, At, Invalidate, asrVars, faultVars, pubVars
<1>3. CASE Restore
  <2>1. ja' \in (0..texts) \ rejected \/ UNCHANGED <<ja, diag>>
    <3>1. CASE ja = 0 /\ ass[1] # 0
      <4>1. ass[1] \in 1..Len(pubs)
        BY <3>1 DEF PubTypes, Files
      <4> QED
        BY <1>3, <3>1, <4>1 DEF Restore
    <3> QED
      BY <1>3, <3>1 DEF Restore
  <2>2. UNCHANGED <<texts, rejected, kept, pubs>> /\ job'.at = "chain" /\ ~Repairing'
    BY <1>3, AfterGoto DEF Restore, pubVars
  <2> QED
    BY <2>1, <2>2
<1>4. CASE Quarantine
  BY <1>4, AfterGoto DEF Quarantine, At, Invalidate, faultVars, pubVars
<1>5. CASE UseText
  BY <1>5 DEF UseText, Goto, At, Accepted, asrVars, faultVars, pubVars, zhVars
<1>6. CASE Distrust
  BY <1>6, AfterEnter DEF Distrust, At, Accepted, asrVars, faultVars, pubVars, zhVars
<1>7. CASE ClaimRepair
  <2>1. diag' # NoDiag /\ ~(diag'.ok /\ diag'.of = ja)
    BY <1>7 DEF ClaimRepair, Rejected, TextTypes, Diags, NoDiag
  <2>2. UNCHANGED <<ja, texts, rejected, kept, pubs>> /\ job'.at = "select"
    BY <1>7 DEF ClaimRepair, pubVars
  <2> QED
    BY <2>1, <2>2
<1>8. CASE Rebuild
  BY <1>8 DEF Rebuild, At, Rejected, asrVars, faultVars, pubVars, zhVars
<1>9. CASE Select
  <2>1. UNCHANGED <<ja, diag, texts, rejected, kept, pubs>>
    BY <1>9 DEF Select, asrVars, pubVars
  <2>2. CASE job' = [job EXCEPT !.at = "commit", !.kind = "part", !.old = [text |-> ja, diag |-> diag]]
    <3>1. job'.at = "commit" /\ job'.old = [text |-> ja, diag |-> diag]
      BY <2>2
    <3>2. job'.old \in [text : 0..texts, diag : Diags] /\ job'.old.text = ja /\ job'.old.diag = diag
      BY <3>1 DEF TextTypes
    <3> QED
      BY <2>1, <3>1, <3>2
  <2>3. CASE Goto("archive")
    BY <2>1, <2>3, AfterGoto
  <2> QED
    BY <1>9, <2>2, <2>3 DEF Select
<1>10. CASE Archive
  BY <1>10, AfterGoto DEF Archive, At, Aged, faultVars, pubVars
<1>11. CASE Whole
  BY <1>11, AfterFails DEF Whole, At, asrVars, faultVars, pubVars, zhVars
<1>12. CASE BeginCommit
  BY <1>12, AfterGoto DEF BeginCommit, At, faultVars, pubVars, zhVars
<1>13. CASE Put
  BY <1>13, AfterGoto DEF Put, At, faultVars, pubVars
<1>14. CASE Diagnose
  BY <1>14, AfterGoto DEF Diagnose, At, faultVars, pubVars, zhVars
<1>15. CASE Tidy
  BY <1>15, AfterGoto DEF Tidy, At, Invalidate, asrVars, faultVars, pubVars
<1>16. CASE NothingNew
  BY <1>16, AfterGoto DEF NothingNew, At, asrVars, faultVars, pubVars, zhVars
<1>17. CASE EndCommit
  BY <1>17 DEF EndCommit, At, faultVars, pubVars, zhVars
<1>18. CASE GiveBack
  BY <1>18, AfterGoto DEF GiveBack, At, Committing, faultVars, pubVars
<1>19. CASE FailClosed
  BY <1>19, AfterGoto, AfterFails DEF FailClosed, Committing, faultVars, pubVars
<1>20. CASE GapFails
  BY <1>20, AfterGoto, AfterFails DEF GapFails, At, Invalidate, faultVars, pubVars, zhVars
<1>21. CASE BeginTranscript
  BY <1>21, AfterGoto DEF BeginTranscript, At, faultVars, pubVars, zhVars
<1>22. CASE Hear
  <2>1. /\ ja' = texts + 1 /\ texts' = texts + 1 /\ UNCHANGED <<kept, pubs>> /\ job'.at = "heard"
        /\ \/ rejected' = rejected /\ diag'.ok
           \/ rejected' = rejected \cup {ja'} /\ ~diag'.ok /\ diag'.of = ja'
    BY <1>22, AfterGoto DEF Hear, pubVars
  <2>2. Told(ja, diag)' /\ (~diag'.ok => ja' \in rejected')
    BY <2>1 DEF NoDiag
  <2>3. \A i \in 1..Len(pubs) : pubs[i].ja \in (0..texts') \ rejected'
    BY <2>1
  <2> QED
    BY <2>1, <2>2, <2>3
<1>23. CASE EndTranscript
  BY <1>23 DEF EndTranscript, At, asrVars, faultVars, pubVars, zhVars
<1>24. CASE HearAgain
  BY <1>24, AfterGoto DEF HearAgain, At, faultVars, pubVars, zhVars
<1>25. CASE TranscriptFails
  BY <1>25, AfterFails DEF TranscriptFails, At, faultVars, pubVars, zhVars
<1>26. CASE Chain
  BY <1>26, AfterGoto DEF Chain, At, Invalidate, EventsFit, HoldFits, asrVars, faultVars, pubVars
<1>27. CASE OmissionsChecked
  BY <1>27, AfterGoto DEF OmissionsChecked, At, Invalidate, EventsFit, Omitting, asrVars, faultVars,
        pubVars, zhVars
<1>28. CASE RetranslateOmissions
  BY <1>28 DEF RetranslateOmissions, At, Omitting, asrVars, faultVars, pubVars
<1>29. CASE Guard
  BY <1>29, AfterGoto DEF Guard, At, asrVars, faultVars, pubVars
<1>30. CASE Write
  BY <1>30, AfterGoto DEF Write, At, Aged, asrVars, faultVars, pubVars
<1>31. CASE Rebind
  <2>1. \/ Goto("translate") \/ Done
        \/ job' = [job EXCEPT !.at = "select", !.next = "translate", !.escalated = TRUE]
    BY <1>31 DEF Rebind
  <2>2. job'.at \in {"translate", "off", "select"}
    BY <2>1, AfterGoto, AfterDone
  <2>3. UNCHANGED <<ja, diag, texts, rejected, kept, pubs>>
    BY <1>31 DEF Rebind, asrVars, pubVars
  <2> QED
    BY <2>2, <2>3
<1>32. CASE Pace
  BY <1>32, AfterPace DEF asrVars, faultVars, pubVars
<1>33. CASE UseTranslation
  BY <1>33, AfterGoto DEF UseTranslation, At, asrVars, faultVars, pubVars, zhVars
<1>34. CASE Translate
  BY <1>34 DEF Translate, At, asrVars, faultVars, pubVars
<1>35. CASE GiveUpTranslating
  BY <1>35, AfterDone DEF GiveUpTranslating, At, asrVars, faultVars, pubVars, zhVars
<1>36. CASE Fresh
  BY <1>36, AfterGoto, AfterDone DEF Fresh, At, EventsFit, asrVars, faultVars, pubVars, zhVars
<1>37. CASE Gate
  BY <1>37, AfterDone, AfterEnter DEF Gate, At, EventsFit, HoldFits, Omitting, asrVars, faultVars,
        pubVars, zhVars
<1>38. CASE Convert
  BY <1>38, AfterGoto DEF Convert, At, asrVars, faultVars, pubVars
<1>39. CASE Finalize
  BY <1>39, AfterDone, AfterEnter DEF Finalize, At, HoldFits, asrVars, faultVars, pubVars
<1>40. CASE Recover
  BY <1>40, AfterGoto DEF Recover, At, Learnable, asrVars, zhVars
<1>41. CASE SettleRecovered
  BY <1>41, AfterGoto DEF SettleRecovered, At, asrVars, faultVars, zhVars
<1>42. CASE Preflight
  BY <1>42, AfterGoto, AfterDone DEF Preflight, At, asrVars, faultVars, pubVars
<1>43. CASE Announce
  BY <1>43, AfterGoto DEF Announce, At, asrVars, faultVars, zhVars
<1>44. CASE Check
  <2>1. UNCHANGED <<ja, diag, texts, rejected, kept>> /\ job'.at \in {"replace", "review", "off"}
    BY <1>44, AfterFails DEF Check, asrVars
  <2>2. CASE UNCHANGED pubs
    BY <2>1, <2>2
  <2>3. CASE /\ Publishable
             /\ pubs' = Append(pubs, [ja |-> ja, of |-> zh.of, whole |-> tw = "these" /\ ~zh.omits,
                                      manual |-> job.manual, lineage |-> FALSE])
    <3>1. ja \in (0..texts) \ rejected
      BY <2>3 DEF Publishable, Accepted, TextTypes
    <3>2. \A i \in 1..Len(pubs') : (i \in 1..Len(pubs) /\ pubs'[i] = pubs[i]) \/ pubs'[i].ja = ja
      BY <2>3, PubFits, PubChanges DEF PubTypes
    <3> QED
      BY <2>1, <3>1, <3>2
  <2> QED
    BY <1>44, <2>2, <2>3 DEF Check
<1>45. CASE Replace
  BY <1>45, AfterGoto, AfterDone DEF Replace, At, asrVars, faultVars, zhVars
<1>46. CASE Prove
  BY <1>46, AfterGoto DEF Prove, At, asrVars, faultVars, zhVars
<1>47. CASE Learn
  BY <1>47, AfterGoto DEF Learn, At, Learnable, asrVars, faultVars, zhVars
<1>48. CASE Finish
  BY <1>48, AfterGoto DEF Finish, At, asrVars, faultVars, zhVars
<1>49. CASE Clean
  BY <1>49, AfterDone DEF Clean, At, asrVars, faultVars, pubVars
<1>50. CASE ReviewArchive
  BY <1>50, AfterGoto, AfterDone
     DEF ReviewArchive, At, Invalidate, asrVars, faultVars, pubVars, zhVars
<1>51. CASE PutBack
  <2>1. UNCHANGED <<texts, rejected, kept, pubs>>
    BY <1>51 DEF PutBack, pubVars
  <2>2. CASE At("off") /\ ja = 0 /\ Goto("putText") /\ UNCHANGED ja
    <3>1. PICK t \in kept : diag' = [of |-> t, ok |-> FALSE, tried |-> FALSE]
      BY <1>51, <2>2 DEF PutBack, At
    <3> QED
      BY <2>1, <2>2, <3>1, AfterGoto
  <2>3. CASE At("putText") /\ Done
    <3>1. \/ ja' = diag.of /\ diag' = diag
          \/ ja' = 0 /\ diag' = NoDiag
      BY <1>51, <2>3 DEF PutBack, At
    <3>2. diag.of # 0 /\ ~diag.ok
      BY <2>3 DEF At, TextTypes
    <3>3. Told(ja, diag)'
      BY <2>1, <3>1, <3>2 DEF NoDiag
    <3> QED
      BY <2>1, <2>3, <3>3, AfterDone
  <2> QED
    BY <1>51, <2>2, <2>3 DEF PutBack
<1>52. CASE Crash
  BY <1>52, AfterDone DEF Crash, At, asrVars, pubVars, zhVars
<1>53. CASE Reconfigure
  BY <1>53 DEF Reconfigure, At, asrVars, zhVars
<1>54. CASE Retime
  BY <1>54, AfterRetime DEF pubVars, faultVars
<1>55. CASE Correct
  BY <1>55 DEF Correct, At, Jobs, asrVars, pubVars, faultVars
<1> QED
  BY <1>1, <1>2, <1>3, <1>4, <1>5, <1>6, <1>7, <1>8, <1>9, <1>10, <1>11, <1>12, <1>13, <1>14, <1>15,
        <1>16, <1>17, <1>18, <1>19, <1>20, <1>21, <1>22, <1>23, <1>24, <1>25, <1>26, <1>27, <1>28,
        <1>29, <1>30, <1>31, <1>32, <1>33, <1>34, <1>35, <1>36, <1>37, <1>38, <1>39, <1>40, <1>41,
        <1>42, <1>43, <1>44, <1>45, <1>46, <1>47, <1>48, <1>49, <1>50, <1>51, <1>52, <1>53, <1>54, <1>55
     DEF CacheNext, CachedText, Committed, Transcribed, Repaired, Translated, Remediated, Publication

\* Marks and sidecars.
LEMMA MarkedStep ==
  ASSUME Types, Marked, Heard, CacheNext PROVE Marked'
<1> USE DEF Types, Marked, FileTypes, Sidecars, Jobs, NoJob, Zhs, NoZh
<1>1. CASE Begin
  BY <1>1 DEF Begin, At, asrVars, faultVars, pubVars, zhVars
<1>2. CASE RecoverAsr
  BY <1>2, AfterGoto DEF RecoverAsr, At, Invalidate, asrVars, faultVars, pubVars
<1>3. CASE Restore
  BY <1>3, AfterGoto DEF Restore, At, faultVars, pubVars, zhVars
<1>4. CASE Quarantine
  BY <1>4, AfterGoto DEF Quarantine, At, Invalidate, faultVars, pubVars
<1>5. CASE UseText
  BY <1>5 DEF UseText, Goto, At, Accepted, asrVars, faultVars, pubVars, zhVars
<1>6. CASE Distrust
  BY <1>6, AfterEnter DEF Distrust, At, Accepted, asrVars, faultVars, pubVars, zhVars
<1>7. CASE ClaimRepair
  BY <1>7 DEF ClaimRepair, At, Rejected, faultVars, pubVars, zhVars
<1>8. CASE Rebuild
  BY <1>8 DEF Rebuild, At, Rejected, asrVars, faultVars, pubVars, zhVars
<1>9. CASE Select
  BY <1>9 DEF Select, Goto, At, asrVars, faultVars, pubVars, zhVars
<1>10. CASE Archive
  BY <1>10, AfterGoto DEF Archive, At, Aged, faultVars, pubVars
<1>11. CASE Whole
  BY <1>11, AfterFails DEF Whole, At, asrVars, faultVars, pubVars, zhVars
<1>12. CASE BeginCommit
  BY <1>12, AfterGoto DEF BeginCommit, At, faultVars, pubVars, zhVars
<1>13. CASE Put
  BY <1>13, AfterGoto DEF Put, At, faultVars, pubVars
<1>14. CASE Diagnose
  BY <1>14, AfterGoto DEF Diagnose, At, faultVars, pubVars, zhVars
<1>15. CASE Tidy
  BY <1>15, AfterGoto DEF Tidy, At, Invalidate, asrVars, faultVars, pubVars
<1>16. CASE NothingNew
  BY <1>16, AfterGoto DEF NothingNew, At, asrVars, faultVars, pubVars, zhVars
<1>17. CASE EndCommit
  <2>1. job.next \in {"omissions", "translate"}
    BY <1>17 DEF EndCommit, At, Heard, Texting
  <2>2. job'.at \in {"omissions", "translate"}
    BY <1>17, <2>1 DEF EndCommit
  <2> QED
    BY <1>17, <2>2 DEF EndCommit, zhVars, pubVars
<1>18. CASE GiveBack
  BY <1>18, AfterGoto DEF GiveBack, At, Committing, faultVars, pubVars
<1>19. CASE FailClosed
  BY <1>19, AfterGoto, AfterFails DEF FailClosed, Committing, faultVars, pubVars
<1>20. CASE GapFails
  BY <1>20, AfterGoto, AfterFails DEF GapFails, At, Invalidate, faultVars, pubVars, zhVars
<1>21. CASE BeginTranscript
  BY <1>21, AfterGoto DEF BeginTranscript, At, faultVars, pubVars, zhVars
<1>22. CASE Hear
  BY <1>22, AfterGoto DEF Hear, At, faultVars, pubVars, zhVars
<1>23. CASE EndTranscript
  BY <1>23 DEF EndTranscript, At, asrVars, faultVars, pubVars, zhVars
<1>24. CASE HearAgain
  BY <1>24, AfterGoto DEF HearAgain, At, faultVars, pubVars, zhVars
<1>25. CASE TranscriptFails
  BY <1>25, AfterFails DEF TranscriptFails, At, faultVars, pubVars, zhVars
<1>26. CASE Chain
  BY <1>26, AfterGoto DEF Chain, At, Invalidate, EventsFit, HoldFits, asrVars, faultVars, pubVars
<1>27. CASE OmissionsChecked
  BY <1>27, AfterGoto DEF OmissionsChecked, At, Invalidate, EventsFit, Omitting, asrVars, faultVars,
        pubVars, zhVars
<1>28. CASE RetranslateOmissions
  BY <1>28 DEF RetranslateOmissions, At, Omitting, asrVars, faultVars, pubVars
<1>29. CASE Guard
  BY <1>29, AfterGoto DEF Guard, At, asrVars, faultVars, pubVars
<1>30. CASE Write
  <2>1. ja # 0 /\ job.next \in {"rebind", "fresh", "unlearn"}
    BY <1>30 DEF Write, At, Heard, Reading
  <2>2. job'.at = job.next
    BY <1>30, AfterGoto DEF Write
  <2>3. zh'.of = (IF zh = NoZh THEN ja ELSE zh.of) /\ zh'.omits = job.omits
    BY <1>30 DEF Write
  <2>4. zh'.of # 0 /\ zh' # NoZh
    BY <2>1, <2>3
  <2>5. tw' = "none"
    BY <1>30 DEF Write, At, Aged
  <2>6. zh'.omits => events' = "these" /\ hold' # "these"
    BY <1>30, <2>3 DEF Write, Aged
  <2> QED
    BY <1>30, <2>1, <2>2, <2>4, <2>5, <2>6 DEF Write, pubVars
<1>31. CASE Rebind
  <2>1. \/ Goto("translate") \/ Done
        \/ job' = [job EXCEPT !.at = "select", !.next = "translate", !.escalated = TRUE]
    BY <1>31 DEF Rebind
  <2>2. job'.at \in {"translate", "off", "select"}
    BY <2>1, AfterGoto, AfterDone
  <2> QED
    BY <1>31, <2>2 DEF Rebind, pubVars
<1>32. CASE Pace
  BY <1>32, AfterPace DEF asrVars, faultVars, pubVars
<1>33. CASE UseTranslation
  BY <1>33, AfterGoto DEF UseTranslation, At, asrVars, faultVars, pubVars, zhVars
<1>34. CASE Translate
  BY <1>34 DEF Translate, At, asrVars, faultVars, pubVars
<1>35. CASE GiveUpTranslating
  BY <1>35, AfterDone DEF GiveUpTranslating, At, asrVars, faultVars, pubVars, zhVars
<1>36. CASE Fresh
  BY <1>36, AfterGoto, AfterDone DEF Fresh, At, EventsFit, asrVars, faultVars, pubVars, zhVars
<1>37. CASE Gate
  BY <1>37, AfterDone, AfterEnter DEF Gate, At, EventsFit, HoldFits, Omitting, asrVars, faultVars,
        pubVars, zhVars
<1>38. CASE Convert
  BY <1>38, AfterGoto DEF Convert, At, asrVars, faultVars, pubVars
<1>39. CASE Finalize
  BY <1>39, AfterDone, AfterEnter DEF Finalize, At, HoldFits, asrVars, faultVars, pubVars
<1>40. CASE Recover
  BY <1>40, AfterGoto DEF Recover, At, Learnable, asrVars, zhVars
<1>41. CASE SettleRecovered
  BY <1>41, AfterGoto DEF SettleRecovered, At, asrVars, faultVars, zhVars
<1>42. CASE Preflight
  BY <1>42, AfterGoto, AfterDone DEF Preflight, At, asrVars, faultVars, pubVars
<1>43. CASE Announce
  BY <1>43, AfterGoto DEF Announce, At, asrVars, faultVars, zhVars
<1>44. CASE Check
  <2>1. UNCHANGED <<zh, tw, events, hold>> /\ job'.at \in {"replace", "review", "off"}
    BY <1>44, AfterFails DEF Check, zhVars
  <2>2. CASE UNCHANGED pubs
    BY <2>1, <2>2
  <2>3. CASE /\ Publishable
             /\ pubs' = Append(pubs, [ja |-> ja, of |-> zh.of, whole |-> tw = "these" /\ ~zh.omits,
                                      manual |-> job.manual, lineage |-> FALSE])
    <3>1. tw = "these" /\ ~zh.omits
      BY <1>44, <2>3 DEF Check, At, Publishable, Omitting, EventsFit
    <3> DEFINE p == [ja |-> ja, of |-> zh.of, whole |-> tw = "these" /\ ~zh.omits, manual |-> job.manual,
                     lineage |-> FALSE]
    <3>2. p \in Pubs /\ p.whole
      BY <3>1, PubFits
    <3>3. pubs' = Append(pubs, p)
      BY <2>3
    <3> HIDE DEF p
    <3>4. \A i \in 1..Len(pubs') : (i \in 1..Len(pubs) /\ pubs'[i] = pubs[i]) \/ pubs'[i].whole
      BY <3>2, <3>3, PubChanges DEF PubTypes
    <3> QED
      BY <2>1, <3>4
  <2> QED
    BY <1>44, <2>2, <2>3 DEF Check
<1>45. CASE Replace
  BY <1>45, AfterGoto, AfterDone DEF Replace, At, asrVars, faultVars, zhVars
<1>46. CASE Prove
  BY <1>46, AfterGoto DEF Prove, At, asrVars, faultVars, zhVars
<1>47. CASE Learn
  BY <1>47, AfterGoto DEF Learn, At, Learnable, asrVars, faultVars, zhVars
<1>48. CASE Finish
  BY <1>48, AfterGoto DEF Finish, At, asrVars, faultVars, zhVars
<1>49. CASE Clean
  BY <1>49, AfterDone DEF Clean, At, asrVars, faultVars, pubVars
<1>50. CASE ReviewArchive
  BY <1>50, AfterGoto, AfterDone
     DEF ReviewArchive, At, Invalidate, asrVars, faultVars, pubVars, zhVars
<1>51. CASE PutBack
  BY <1>51, AfterGoto, AfterDone DEF PutBack, At, faultVars, pubVars, zhVars
<1>52. CASE Crash
  BY <1>52, AfterDone DEF Crash, At, asrVars, pubVars, zhVars
<1>53. CASE Reconfigure
  BY <1>53 DEF Reconfigure, At, asrVars, zhVars
<1>54. CASE Retime
  BY <1>54, AfterRetime DEF pubVars, faultVars
<1>55. CASE Correct
  BY <1>55 DEF Correct, At, Jobs, asrVars, pubVars, faultVars
<1> QED
  BY <1>1, <1>2, <1>3, <1>4, <1>5, <1>6, <1>7, <1>8, <1>9, <1>10, <1>11, <1>12, <1>13, <1>14, <1>15,
        <1>16, <1>17, <1>18, <1>19, <1>20, <1>21, <1>22, <1>23, <1>24, <1>25, <1>26, <1>27, <1>28,
        <1>29, <1>30, <1>31, <1>32, <1>33, <1>34, <1>35, <1>36, <1>37, <1>38, <1>39, <1>40, <1>41,
        <1>42, <1>43, <1>44, <1>45, <1>46, <1>47, <1>48, <1>49, <1>50, <1>51, <1>52, <1>53, <1>54, <1>55
     DEF CacheNext, CachedText, Committed, Transcribed, Repaired, Translated, Remediated, Publication

\* Transcripts where they are needed.
LEMMA HeardStep ==
  ASSUME Types, Heard, RejectedIsTold, CacheNext PROVE Heard'
<1> USE DEF Types, Heard, Reading, Texting, Jobs, NoJob
<1>1. CASE Begin
  BY <1>1 DEF Begin, At, asrVars, faultVars, pubVars, zhVars
<1>2. CASE RecoverAsr
  BY <1>2, AfterGoto DEF RecoverAsr, At, Invalidate, asrVars, faultVars, pubVars
<1>3. CASE Restore
  BY <1>3, AfterGoto DEF Restore, At, faultVars, pubVars, zhVars
<1>4. CASE Quarantine
  BY <1>4, AfterGoto DEF Quarantine, At, Invalidate, faultVars, pubVars
<1>5. CASE UseText
  BY <1>5 DEF UseText, Goto, At, Accepted, asrVars, faultVars, pubVars, zhVars
<1>6. CASE Distrust
  BY <1>6, AfterEnter DEF Distrust, At, Accepted, asrVars, faultVars, pubVars, zhVars
<1>7. CASE ClaimRepair
  BY <1>7 DEF ClaimRepair, At, Rejected, faultVars, pubVars, zhVars
<1>8. CASE Rebuild
  BY <1>8 DEF Rebuild, At, Rejected, asrVars, faultVars, pubVars, zhVars
<1>9. CASE Select
  BY <1>9 DEF Select, Goto, At, asrVars, faultVars, pubVars, zhVars
<1>10. CASE Archive
  BY <1>10, AfterGoto DEF Archive, At, Aged, faultVars, pubVars
<1>11. CASE Whole
  BY <1>11, AfterFails DEF Whole, At, asrVars, faultVars, pubVars, zhVars
<1>12. CASE BeginCommit
  BY <1>12, AfterGoto DEF BeginCommit, At, faultVars, pubVars, zhVars
<1>13. CASE Put
  <2>1. texts + 1 # 0
    BY Smaller DEF TextTypes
  <2> QED
    BY <1>13, <2>1, AfterGoto DEF Put, At
<1>14. CASE Diagnose
  BY <1>14, AfterGoto DEF Diagnose, At, faultVars, pubVars, zhVars
<1>15. CASE Tidy
  BY <1>15, AfterGoto DEF Tidy, At, Invalidate, asrVars, faultVars, pubVars
<1>16. CASE NothingNew
  BY <1>16, AfterGoto DEF NothingNew, At, asrVars, faultVars, pubVars, zhVars
<1>17. CASE EndCommit
  BY <1>17 DEF EndCommit, At, faultVars, pubVars, zhVars
<1>18. CASE GiveBack
  BY <1>18, AfterGoto DEF GiveBack, At, Committing, faultVars, pubVars
<1>19. CASE FailClosed
  BY <1>19, AfterGoto, AfterFails DEF FailClosed, Committing, faultVars, pubVars
<1>20. CASE GapFails
  BY <1>20, AfterGoto, AfterFails DEF GapFails, At, Invalidate, faultVars, pubVars, zhVars
<1>21. CASE BeginTranscript
  BY <1>21, AfterGoto DEF BeginTranscript, At, faultVars, pubVars, zhVars
<1>22. CASE Hear
  <2>1. texts + 1 # 0
    BY Smaller DEF TextTypes
  <2> QED
    BY <1>22, <2>1, AfterGoto DEF Hear, At
<1>23. CASE EndTranscript
  BY <1>23 DEF EndTranscript, At, asrVars, faultVars, pubVars, zhVars
<1>24. CASE HearAgain
  BY <1>24, AfterGoto DEF HearAgain, At, faultVars, pubVars, zhVars
<1>25. CASE TranscriptFails
  BY <1>25, AfterFails DEF TranscriptFails, At, faultVars, pubVars, zhVars
<1>26. CASE Chain
  BY <1>26, AfterGoto DEF Chain, At, Invalidate, EventsFit, HoldFits, asrVars, faultVars, pubVars
<1>27. CASE OmissionsChecked
  BY <1>27, AfterGoto DEF OmissionsChecked, At, Invalidate, EventsFit, Omitting, asrVars, faultVars,
        pubVars, zhVars
<1>28. CASE RetranslateOmissions
  BY <1>28 DEF RetranslateOmissions, At, Omitting, asrVars, faultVars, pubVars
<1>29. CASE Guard
  BY <1>29, AfterGoto DEF Guard, At, asrVars, faultVars, pubVars
<1>30. CASE Write
  BY <1>30, AfterGoto DEF Write, At, Aged, asrVars, faultVars, pubVars
<1>31. CASE Rebind
  <2>1. UNCHANGED ja /\ job.at = "rebind"
    BY <1>31 DEF Rebind, At, asrVars
  <2>2. CASE Goto("translate")
    BY <2>1, <2>2, AfterGoto
  <2>3. CASE Done
    BY <2>1, <2>3, AfterDone
  <2>4. CASE job' = [job EXCEPT !.at = "select", !.next = "translate", !.escalated = TRUE]
    BY <2>1, <2>4
  <2> QED
    BY <1>31, <2>2, <2>3, <2>4 DEF Rebind
<1>32. CASE Pace
  BY <1>32, AfterPace DEF asrVars, faultVars, pubVars
<1>33. CASE UseTranslation
  BY <1>33, AfterGoto DEF UseTranslation, At, asrVars, faultVars, pubVars, zhVars
<1>34. CASE Translate
  BY <1>34 DEF Translate, At, asrVars, faultVars, pubVars
<1>35. CASE GiveUpTranslating
  BY <1>35, AfterDone DEF GiveUpTranslating, At, asrVars, faultVars, pubVars, zhVars
<1>36. CASE Fresh
  BY <1>36, AfterGoto, AfterDone DEF Fresh, At, EventsFit, asrVars, faultVars, pubVars, zhVars
<1>37. CASE Gate
  BY <1>37, AfterDone, AfterEnter DEF Gate, At, EventsFit, HoldFits, Omitting, asrVars, faultVars,
        pubVars, zhVars
<1>38. CASE Convert
  BY <1>38, AfterGoto DEF Convert, At, asrVars, faultVars, pubVars
<1>39. CASE Finalize
  BY <1>39, AfterDone, AfterEnter DEF Finalize, At, HoldFits, asrVars, faultVars, pubVars
<1>40. CASE Recover
  BY <1>40, AfterGoto DEF Recover, At, Learnable, asrVars, zhVars
<1>41. CASE SettleRecovered
  BY <1>41, AfterGoto DEF SettleRecovered, At, asrVars, faultVars, zhVars
<1>42. CASE Preflight
  BY <1>42, AfterGoto, AfterDone DEF Preflight, At, asrVars, faultVars, pubVars
<1>43. CASE Announce
  BY <1>43, AfterGoto DEF Announce, At, asrVars, faultVars, zhVars
<1>44. CASE Check
  BY <1>44, AfterFails DEF Check, At, Publishable, asrVars, faultVars, zhVars, EventsFit, Omitting,
        Accepted
<1>45. CASE Replace
  BY <1>45, AfterGoto, AfterDone DEF Replace, At, asrVars, faultVars, zhVars
<1>46. CASE Prove
  BY <1>46, AfterGoto DEF Prove, At, asrVars, faultVars, zhVars
<1>47. CASE Learn
  BY <1>47, AfterGoto DEF Learn, At, Learnable, asrVars, faultVars, zhVars
<1>48. CASE Finish
  BY <1>48, AfterGoto DEF Finish, At, asrVars, faultVars, zhVars
<1>49. CASE Clean
  BY <1>49, AfterDone DEF Clean, At, asrVars, faultVars, pubVars
<1>50. CASE ReviewArchive
  BY <1>50, AfterGoto, AfterDone
     DEF ReviewArchive, At, Invalidate, asrVars, faultVars, pubVars, zhVars
<1>51. CASE PutBack
  BY <1>51, AfterGoto, AfterDone DEF PutBack, At, faultVars, pubVars, zhVars
<1>52. CASE Crash
  BY <1>52, AfterDone DEF Crash, At, asrVars, pubVars, zhVars
<1>53. CASE Reconfigure
  BY <1>53 DEF Reconfigure, At, asrVars, zhVars
<1>54. CASE Retime
  BY <1>54, AfterRetime DEF pubVars, faultVars
<1>55. CASE Correct
  BY <1>55 DEF Correct, At, Jobs, asrVars, pubVars, faultVars
<1> QED
  BY <1>1, <1>2, <1>3, <1>4, <1>5, <1>6, <1>7, <1>8, <1>9, <1>10, <1>11, <1>12, <1>13, <1>14, <1>15,
        <1>16, <1>17, <1>18, <1>19, <1>20, <1>21, <1>22, <1>23, <1>24, <1>25, <1>26, <1>27, <1>28,
        <1>29, <1>30, <1>31, <1>32, <1>33, <1>34, <1>35, <1>36, <1>37, <1>38, <1>39, <1>40, <1>41,
        <1>42, <1>43, <1>44, <1>45, <1>46, <1>47, <1>48, <1>49, <1>50, <1>51, <1>52, <1>53, <1>54, <1>55
     DEF CacheNext, CachedText, Committed, Transcribed, Repaired, Translated, Remediated, Publication

\* Translation and transcript.
LEMMA BelongsStep ==
  ASSUME Types, Belongs, Heard, RejectedIsTold, Marked, CacheNext PROVE Belongs'
<1> USE DEF Types, Belongs, Together, Idle, Opening, Hearing, Repairing, Jobs, NoJob, Zhs
<1>1. CASE Begin
  BY <1>1 DEF Begin, At, asrVars, faultVars, pubVars, zhVars
<1>2. CASE RecoverAsr
  BY <1>2, AfterGoto DEF RecoverAsr, At, Invalidate, asrVars, faultVars, pubVars
<1>3. CASE Restore
  <2>1. zh = NoZh \/ apart \/ ja # 0
    BY <1>3 DEF Restore, At, NoZh, Marked
  <2>2. ja' = ja \/ ja = 0
    BY <1>3 DEF Restore
  <2>3. UNCHANGED <<zh, apart, pubs>> /\ job'.at = "chain" /\ ~asrHold'
    BY <1>3, AfterGoto DEF Restore, At, zhVars, pubVars, faultVars
  <2>4. zh = NoZh \/ apart \/ zh.of = ja
    BY <1>3 DEF Restore, At
  <2> QED
    BY <2>1, <2>2, <2>3, <2>4
<1>4. CASE Quarantine
  BY <1>4, AfterGoto DEF Quarantine, At, Invalidate, faultVars, pubVars
<1>5. CASE UseText
  BY <1>5 DEF UseText, Goto, At, Accepted, asrVars, faultVars, pubVars, zhVars
<1>6. CASE Distrust
  BY <1>6, AfterEnter DEF Distrust, At, Accepted, asrVars, faultVars, pubVars, zhVars
<1>7. CASE ClaimRepair
  BY <1>7 DEF ClaimRepair, At, Rejected, faultVars, pubVars, zhVars
<1>8. CASE Rebuild
  BY <1>8 DEF Rebuild, At, Rejected, asrVars, faultVars, pubVars, zhVars
<1>9. CASE Select
  <2>1. UNCHANGED <<ja, zh, apart, pubs, asrHold>>
    BY <1>9 DEF Select, asrVars, zhVars, pubVars, faultVars
  <2>2. zh = NoZh \/ zh.of = ja \/ apart
    BY <1>9 DEF Select, At
  <2>3. CASE job' = [job EXCEPT !.at = "commit", !.kind = "part", !.old = [text |-> ja, diag |-> diag]]
    <3>1. job'.at = "commit" /\ job'.kind = "part" /\ job'.old.text = ja
      BY <2>3
    <3> QED
      BY <2>1, <2>2, <3>1
  <2>4. CASE Goto("archive")
    BY <2>1, <2>2, <2>4, AfterGoto
  <2> QED
    BY <1>9, <2>3, <2>4 DEF Select
<1>10. CASE Archive
  BY <1>10, AfterGoto DEF Archive, At, Aged, faultVars, pubVars
<1>11. CASE Whole
  BY <1>11, AfterFails DEF Whole, At, asrVars, faultVars, pubVars, zhVars
<1>12. CASE BeginCommit
  BY <1>12, AfterGoto DEF BeginCommit, At, faultVars, pubVars, zhVars
<1>13. CASE Put
  BY <1>13, AfterGoto DEF Put, At, faultVars, pubVars
<1>14. CASE Diagnose
  BY <1>14, AfterGoto DEF Diagnose, At, faultVars, pubVars, zhVars
<1>15. CASE Tidy
  BY <1>15, AfterGoto DEF Tidy, At, Invalidate, asrVars, faultVars, pubVars
<1>16. CASE NothingNew
  BY <1>16, AfterGoto DEF NothingNew, At, asrVars, faultVars, pubVars, zhVars
<1>17. CASE EndCommit
  BY <1>17 DEF EndCommit, At, faultVars, pubVars, zhVars
<1>18. CASE GiveBack
  BY <1>18, AfterGoto DEF GiveBack, At, Committing, faultVars, pubVars
<1>19. CASE FailClosed
  <2>1. UNCHANGED <<zh, apart, pubs>> /\ ja' = 0
    BY <1>19 DEF FailClosed, pubVars, faultVars
  <2>2. CASE job.kind = "gap"
    <3>1. Goto("gapFailed") /\ UNCHANGED asrHold /\ asrHold
      BY <1>19, <2>2 DEF FailClosed, Committing
    <3> QED
      BY <2>1, <3>1, AfterGoto
  <2>3. CASE job.kind # "gap"
    <3>1. job.kind = "whole"
      BY <1>19, <2>3 DEF FailClosed, Committing, Heard
    <3>2. zh = NoZh
      BY <1>19, <3>1 DEF FailClosed, Committing
    <3>3. Fails
      BY <1>19, <2>3 DEF FailClosed
    <3> QED
      BY <2>1, <3>2, <3>3, AfterFails
  <2> QED
    BY <2>2, <2>3
<1>20. CASE GapFails
  BY <1>20, AfterGoto, AfterFails DEF GapFails, At, Invalidate, faultVars, pubVars, zhVars
<1>21. CASE BeginTranscript
  BY <1>21, AfterGoto DEF BeginTranscript, At, faultVars, pubVars, zhVars
<1>22. CASE Hear
  BY <1>22, AfterGoto DEF Hear, At, faultVars, pubVars, zhVars
<1>23. CASE EndTranscript
  BY <1>23 DEF EndTranscript, At, asrVars, faultVars, pubVars, zhVars
<1>24. CASE HearAgain
  BY <1>24, AfterGoto DEF HearAgain, At, faultVars, pubVars, zhVars
<1>25. CASE TranscriptFails
  BY <1>25, AfterFails DEF TranscriptFails, At, faultVars, pubVars, zhVars
<1>26. CASE Chain
  BY <1>26, AfterGoto DEF Chain, At, Invalidate, EventsFit, HoldFits, asrVars, faultVars, pubVars
<1>27. CASE OmissionsChecked
  BY <1>27, AfterGoto DEF OmissionsChecked, At, Invalidate, EventsFit, Omitting, asrVars, faultVars,
        pubVars, zhVars
<1>28. CASE RetranslateOmissions
  BY <1>28 DEF RetranslateOmissions, At, Omitting, asrVars, faultVars, pubVars
<1>29. CASE Guard
  BY <1>29, AfterGoto DEF Guard, At, asrVars, faultVars, pubVars
<1>30. CASE Write
  BY <1>30, AfterGoto DEF Write, At, Aged, asrVars, faultVars, pubVars
<1>31. CASE Rebind
  <2>1. UNCHANGED <<ja, zh, asrHold, apart, pubs>> /\ job.at = "rebind"
    BY <1>31 DEF Rebind, At, asrVars, pubVars, faultVars
  <2>2. CASE Goto("translate")
    BY <2>1, <2>2, AfterGoto
  <2>3. CASE Done
    BY <2>1, <2>3, AfterDone
  <2>4. CASE job' = [job EXCEPT !.at = "select", !.next = "translate", !.escalated = TRUE]
    BY <2>1, <2>4
  <2> QED
    BY <1>31, <2>2, <2>3, <2>4 DEF Rebind
<1>32. CASE Pace
  BY <1>32, AfterPace DEF asrVars, faultVars, pubVars
<1>33. CASE UseTranslation
  BY <1>33, AfterGoto DEF UseTranslation, At, asrVars, faultVars, pubVars, zhVars
<1>34. CASE Translate
  BY <1>34 DEF Translate, At, asrVars, faultVars, pubVars
<1>35. CASE GiveUpTranslating
  BY <1>35, AfterDone DEF GiveUpTranslating, At, asrVars, faultVars, pubVars, zhVars
<1>36. CASE Fresh
  BY <1>36, AfterGoto, AfterDone DEF Fresh, At, EventsFit, asrVars, faultVars, pubVars, zhVars
<1>37. CASE Gate
  BY <1>37, AfterDone, AfterEnter DEF Gate, At, EventsFit, HoldFits, Omitting, asrVars, faultVars,
        pubVars, zhVars
<1>38. CASE Convert
  BY <1>38, AfterGoto DEF Convert, At, asrVars, faultVars, pubVars
<1>39. CASE Finalize
  BY <1>39, AfterDone, AfterEnter DEF Finalize, At, HoldFits, asrVars, faultVars, pubVars
<1>40. CASE Recover
  BY <1>40, AfterGoto DEF Recover, At, Learnable, asrVars, zhVars
<1>41. CASE SettleRecovered
  BY <1>41, AfterGoto DEF SettleRecovered, At, asrVars, faultVars, zhVars
<1>42. CASE Preflight
  BY <1>42, AfterGoto, AfterDone DEF Preflight, At, asrVars, faultVars, pubVars
<1>43. CASE Announce
  BY <1>43, AfterGoto DEF Announce, At, asrVars, faultVars, zhVars
<1>44. CASE Check
  <2>1. UNCHANGED <<ja, zh, asrHold, apart>> /\ job'.at \in {"replace", "review", "off"}
    BY <1>44, AfterFails DEF Check, asrVars, zhVars, faultVars
  <2>2. zh = NoZh \/ zh.of = ja \/ apart
    BY <1>44 DEF Check, At
  <2>3. CASE UNCHANGED pubs
    BY <2>1, <2>2, <2>3
  <2>4. CASE pubs' = Append(pubs, [ja |-> ja, of |-> zh.of, whole |-> tw = "these" /\ ~zh.omits,
                                      manual |-> job.manual, lineage |-> FALSE])
    <3> DEFINE p == [ja |-> ja, of |-> zh.of, whole |-> tw = "these" /\ ~zh.omits, manual |-> job.manual,
                     lineage |-> FALSE]
    <3>1. p \in Pubs /\ p.ja = ja /\ p.of = zh.of
      BY PubFits
    <3>2. pubs' = Append(pubs, p)
      BY <2>4
    <3> HIDE DEF p
    <3>3. zh.of = ja \/ apart
      BY <1>44, <2>2 DEF Check, At, Marked
    <3>4. \A i \in 1..Len(pubs') : (i \in 1..Len(pubs) /\ pubs'[i] = pubs[i]) \/ pubs'[i] = p
      BY <3>1, <3>2, PubChanges DEF PubTypes
    <3> QED
      BY <2>1, <2>2, <3>1, <3>3, <3>4
  <2> QED
    BY <1>44, <2>3, <2>4 DEF Check
<1>45. CASE Replace
  BY <1>45, AfterGoto, AfterDone DEF Replace, At, asrVars, faultVars, zhVars
<1>46. CASE Prove
  BY <1>46, AfterGoto DEF Prove, At, asrVars, faultVars, zhVars
<1>47. CASE Learn
  BY <1>47, AfterGoto DEF Learn, At, Learnable, asrVars, faultVars, zhVars
<1>48. CASE Finish
  BY <1>48, AfterGoto DEF Finish, At, asrVars, faultVars, zhVars
<1>49. CASE Clean
  BY <1>49, AfterDone DEF Clean, At, asrVars, faultVars, pubVars
<1>50. CASE ReviewArchive
  BY <1>50, AfterGoto, AfterDone
     DEF ReviewArchive, At, Invalidate, asrVars, faultVars, pubVars, zhVars
<1>51. CASE PutBack
  <2>1. UNCHANGED <<zh, apart, pubs, asrHold>> /\ job'.at \in {"off", "putText"}
    BY <1>51, AfterGoto, AfterDone DEF PutBack, zhVars, pubVars, faultVars
  <2>2. job.at \in {"off", "putText"} /\ ja = 0
    BY <1>51 DEF PutBack, At, RejectedIsTold
  <2>3. zh = NoZh \/ apart \/ asrHold
    BY <2>2 DEF NoZh, Marked
  <2> QED
    BY <2>1, <2>2, <2>3
<1>52. CASE Crash
  BY <1>52, AfterDone DEF Crash, At, asrVars, pubVars, zhVars
<1>53. CASE Reconfigure
  BY <1>53 DEF Reconfigure, At, asrVars, zhVars
<1>54. CASE Retime
  BY <1>54, AfterRetime DEF pubVars, faultVars
<1>55. CASE Correct
  BY <1>55 DEF Correct, At, Jobs, asrVars, pubVars, faultVars
<1> QED
  BY <1>1, <1>2, <1>3, <1>4, <1>5, <1>6, <1>7, <1>8, <1>9, <1>10, <1>11, <1>12, <1>13, <1>14, <1>15,
        <1>16, <1>17, <1>18, <1>19, <1>20, <1>21, <1>22, <1>23, <1>24, <1>25, <1>26, <1>27, <1>28,
        <1>29, <1>30, <1>31, <1>32, <1>33, <1>34, <1>35, <1>36, <1>37, <1>38, <1>39, <1>40, <1>41,
        <1>42, <1>43, <1>44, <1>45, <1>46, <1>47, <1>48, <1>49, <1>50, <1>51, <1>52, <1>53, <1>54, <1>55
     DEF CacheNext, CachedText, Committed, Transcribed, Repaired, Translated, Remediated, Publication

\* What stands while a child works.
LEMMA UnderwayStep ==
  ASSUME Types, Underway, Replacing, Lessons, Heard, Marked, CacheNext PROVE Underway'
<1> USE DEF Types, Underway, Working, Hearing, Texting, Reading, Clearing, Provable, Jobs, NoJob
<1>1. CASE Begin
  BY <1>1 DEF Begin, At, asrVars, faultVars, pubVars, zhVars
<1>2. CASE RecoverAsr
  BY <1>2, AfterGoto DEF RecoverAsr, At, Invalidate, asrVars, faultVars, pubVars
<1>3. CASE Restore
  BY <1>3, AfterGoto DEF Restore, At, faultVars, pubVars, zhVars
<1>4. CASE Quarantine
  BY <1>4, AfterGoto DEF Quarantine, At, Invalidate, faultVars, pubVars
<1>5. CASE UseText
  BY <1>5 DEF UseText, Goto, At, Accepted, asrVars, faultVars, pubVars, zhVars
<1>6. CASE Distrust
  BY <1>6, AfterEnter DEF Distrust, At, Accepted, asrVars, faultVars, pubVars, zhVars
<1>7. CASE ClaimRepair
  BY <1>7 DEF ClaimRepair, At, Rejected, faultVars, pubVars, zhVars
<1>8. CASE Rebuild
  BY <1>8 DEF Rebuild, At, Rejected, asrVars, faultVars, pubVars, zhVars
<1>9. CASE Select
  BY <1>9 DEF Select, Goto, At, asrVars, faultVars, pubVars, zhVars
<1>10. CASE Archive
  BY <1>10, AfterGoto DEF Archive, At, Aged, faultVars, pubVars
<1>11. CASE Whole
  BY <1>11, AfterFails DEF Whole, At, asrVars, faultVars, pubVars, zhVars
<1>12. CASE BeginCommit
  BY <1>12, AfterGoto DEF BeginCommit, At, faultVars, pubVars, zhVars
<1>13. CASE Put
  BY <1>13, AfterGoto DEF Put, At, faultVars, pubVars
<1>14. CASE Diagnose
  BY <1>14, AfterGoto DEF Diagnose, At, faultVars, pubVars, zhVars
<1>15. CASE Tidy
  BY <1>15, AfterGoto DEF Tidy, At, Invalidate, asrVars, faultVars, pubVars
<1>16. CASE NothingNew
  BY <1>16, AfterGoto DEF NothingNew, At, asrVars, faultVars, pubVars, zhVars
<1>17. CASE EndCommit
  BY <1>17 DEF EndCommit, At, faultVars, pubVars, zhVars
<1>18. CASE GiveBack
  BY <1>18, AfterGoto DEF GiveBack, At, Committing, faultVars, pubVars
<1>19. CASE FailClosed
  BY <1>19, AfterGoto, AfterFails DEF FailClosed, Committing, faultVars, pubVars
<1>20. CASE GapFails
  BY <1>20, AfterGoto, AfterFails DEF GapFails, At, Invalidate, faultVars, pubVars, zhVars
<1>21. CASE BeginTranscript
  BY <1>21, AfterGoto DEF BeginTranscript, At, faultVars, pubVars, zhVars
<1>22. CASE Hear
  BY <1>22, AfterGoto DEF Hear, At, faultVars, pubVars, zhVars
<1>23. CASE EndTranscript
  BY <1>23 DEF EndTranscript, At, asrVars, faultVars, pubVars, zhVars
<1>24. CASE HearAgain
  BY <1>24, AfterGoto DEF HearAgain, At, faultVars, pubVars, zhVars
<1>25. CASE TranscriptFails
  BY <1>25, AfterFails DEF TranscriptFails, At, faultVars, pubVars, zhVars
<1>26. CASE Chain
  BY <1>26, AfterGoto DEF Chain, At, Invalidate, EventsFit, HoldFits, asrVars, faultVars, pubVars
<1>27. CASE OmissionsChecked
  BY <1>27, AfterGoto DEF OmissionsChecked, At, Invalidate, EventsFit, Omitting, asrVars, faultVars,
        pubVars, zhVars
<1>28. CASE RetranslateOmissions
  BY <1>28 DEF RetranslateOmissions, At, Omitting, asrVars, faultVars, pubVars
<1>29. CASE Guard
  BY <1>29, AfterGoto DEF Guard, At, asrVars, faultVars, pubVars
<1>30. CASE Write
  BY <1>30, AfterGoto DEF Write, At, Aged, asrVars, faultVars, pubVars
<1>31. CASE Rebind
  <2>1. \/ Goto("translate") \/ Done
        \/ job' = [job EXCEPT !.at = "select", !.next = "translate", !.escalated = TRUE]
    BY <1>31 DEF Rebind
  <2>2. job'.at \in {"translate", "off", "select"}
    BY <2>1, AfterGoto, AfterDone
  <2> QED
    BY <1>31, <2>2 DEF Rebind, At, asrVars, pubVars, faultVars
<1>32. CASE Pace
  BY <1>32, AfterPace DEF asrVars, faultVars, pubVars
<1>33. CASE UseTranslation
  BY <1>33, AfterGoto DEF UseTranslation, At, asrVars, faultVars, pubVars, zhVars
<1>34. CASE Translate
  BY <1>34 DEF Translate, At, asrVars, faultVars, pubVars
<1>35. CASE GiveUpTranslating
  BY <1>35, AfterDone DEF GiveUpTranslating, At, asrVars, faultVars, pubVars, zhVars
<1>36. CASE Fresh
  BY <1>36, AfterGoto, AfterDone DEF Fresh, At, EventsFit, asrVars, faultVars, pubVars, zhVars
<1>37. CASE Gate
  BY <1>37, AfterDone, AfterEnter DEF Gate, At, EventsFit, HoldFits, Omitting, asrVars, faultVars,
        pubVars, zhVars
<1>38. CASE Convert
  BY <1>38, AfterGoto DEF Convert, At, asrVars, faultVars, pubVars
<1>39. CASE Finalize
  BY <1>39, AfterDone, AfterEnter DEF Finalize, At, HoldFits, asrVars, faultVars, pubVars
<1>40. CASE Recover
  BY <1>40, AfterGoto DEF Recover, At, Learnable, asrVars, zhVars
<1>41. CASE SettleRecovered
  BY <1>41, AfterGoto DEF SettleRecovered, At, asrVars, faultVars, zhVars
<1>42. CASE Preflight
  BY <1>42, AfterGoto, AfterDone DEF Preflight, At, asrVars, faultVars, pubVars
<1>43. CASE Announce
  BY <1>43, AfterGoto DEF Announce, At, asrVars, faultVars, zhVars
<1>44. CASE Check
  BY <1>44, AfterFails DEF Check, At, Publishable, asrVars, faultVars, zhVars, EventsFit, Omitting,
        Accepted
<1>45. CASE Replace
  <2>1. UNCHANGED <<pubs, manifest, current, marker>> /\ job.at = "replace"
    BY <1>45 DEF Replace, At
  <2>2. manifest < Len(pubs) /\ manifest # Len(pubs)
    BY <2>1 DEF Replacing, PubTypes
  <2>3. CASE job' = job /\ \E i \in 1..3 : ass' = [ass EXCEPT ![i] = Len(pubs)]
    <3>1. \E i \in 1..3 : ass'[i] = Len(pubs)
      BY <2>3 DEF PubTypes, Files
    <3> QED
      BY <2>1, <2>2, <2>3, <3>1
  <2>4. CASE Done
    BY <2>4, AfterDone
  <2>5. CASE Goto("prove") /\ UNCHANGED ass /\ ass[1] = Len(pubs)
    BY <2>1, <2>2, <2>5, AfterGoto
  <2> QED
    BY <1>45, <2>3, <2>4, <2>5 DEF Replace
<1>46. CASE Prove
  <2>1. /\ job.at = "prove" /\ job'.at = "learn" /\ job'.manual = job.manual
        /\ UNCHANGED <<ass, marker>>
    BY <1>46, AfterGoto DEF Prove, At
  <2>2. /\ Len(pubs) > 0 /\ pubs' = [pubs EXCEPT ![Len(pubs)].lineage = origin'] /\ origin' \in BOOLEAN
        /\ pubs[Len(pubs)].manual = job.manual
    BY <1>46, <2>1 DEF Prove, Lessons
  <2>3. pubs'[Len(pubs)].manual = job.manual
    BY <2>2, PubProven DEF PubTypes, FileTypes
  <2>4. manifest' = Len(pubs) /\ current' /\ \A i \in 1..3 : ass'[i] = manifest'
    BY <1>46, <2>1 DEF Prove, Replacing
  <2> QED
    BY <2>1, <2>2, <2>3, <2>4
<1>47. CASE Learn
  BY <1>47, AfterGoto DEF Learn, At, Learnable, asrVars, faultVars, zhVars
<1>48. CASE Finish
  BY <1>48, AfterGoto DEF Finish, At, asrVars, faultVars, zhVars
<1>49. CASE Clean
  BY <1>49, AfterDone DEF Clean, At, asrVars, faultVars, pubVars
<1>50. CASE ReviewArchive
  BY <1>50, AfterGoto, AfterDone
     DEF ReviewArchive, At, Invalidate, asrVars, faultVars, pubVars, zhVars
<1>51. CASE PutBack
  BY <1>51, AfterGoto, AfterDone DEF PutBack, At, faultVars, pubVars, zhVars
<1>52. CASE Crash
  BY <1>52, AfterDone DEF Crash, At, asrVars, pubVars, zhVars
<1>53. CASE Reconfigure
  BY <1>53 DEF Reconfigure, At, asrVars, zhVars
<1>54. CASE Retime
  <2>1. UNCHANGED pubVars /\ job.at \in {"check", "retime"}
        /\ job'.at \in {"check", "retime", "review", "off"}
    BY <1>54, AfterRetime
  <2>2. ~Provable /\ (job'.at \in {"check", "retime"} => marker)
    BY <1>54, AfterRetime DEF Working, Reading
  <2> QED
    BY <2>1, <2>2 DEF pubVars
<1>55. CASE Correct
  BY <1>55 DEF Correct, At, Jobs, asrVars, pubVars, faultVars
<1> QED
  BY <1>1, <1>2, <1>3, <1>4, <1>5, <1>6, <1>7, <1>8, <1>9, <1>10, <1>11, <1>12, <1>13, <1>14, <1>15,
        <1>16, <1>17, <1>18, <1>19, <1>20, <1>21, <1>22, <1>23, <1>24, <1>25, <1>26, <1>27, <1>28,
        <1>29, <1>30, <1>31, <1>32, <1>33, <1>34, <1>35, <1>36, <1>37, <1>38, <1>39, <1>40, <1>41,
        <1>42, <1>43, <1>44, <1>45, <1>46, <1>47, <1>48, <1>49, <1>50, <1>51, <1>52, <1>53, <1>54, <1>55
     DEF CacheNext, CachedText, Committed, Transcribed, Repaired, Translated, Remediated, Publication

\* Lineages and lessons.
LEMMA LessonsStep ==
  ASSUME Types, Underway, Replacing, Lessons, Heard, Marked, CacheNext PROVE Lessons'
<1> USE DEF Types, Jobs, NoJob
<1>1. CASE Begin
  <2>2. job'.at \notin {"replace", "prove", "settle", "finish"}
    BY <1>1 DEF Begin, At
  <2>3. UNCHANGED <<pubVars, handed, origin>>
    BY <1>1 DEF Begin, At, asrVars, faultVars, pubVars, zhVars
  <2> QED
    BY <2>2, <2>3, LessonsStay
<1>2. CASE RecoverAsr
  <2>2. job'.at \notin {"replace", "prove", "settle", "finish"}
    BY <1>2, AfterGoto DEF RecoverAsr, At, Invalidate
  <2>3. UNCHANGED <<pubVars, handed>> /\ job.at \in Working
    BY <1>2 DEF RecoverAsr, At, Invalidate, asrVars, faultVars, pubVars, Working, Hearing, Texting,
        Reading, Clearing
  <2> QED
    BY <2>2, <2>3, LessonsStay
<1>3. CASE Restore
  <2>2. job'.at \notin {"replace", "prove", "settle", "finish"}
    BY <1>3, AfterGoto DEF Restore, At
  <2>3. UNCHANGED <<pubVars, handed>> /\ job.at \in Working
    BY <1>3
       DEF Restore, At, faultVars, zhVars, pubVars, Working, Hearing, Texting, Reading, Clearing
  <2> QED
    BY <2>2, <2>3, LessonsStay
<1>4. CASE Quarantine
  <2>2. job'.at \notin {"replace", "prove", "settle", "finish"}
    BY <1>4, AfterGoto DEF Quarantine, At, Invalidate
  <2>3. UNCHANGED <<pubVars, handed>> /\ job.at \in Working
    BY <1>4 DEF Quarantine, At, Invalidate, faultVars, pubVars, Working, Hearing, Texting, Reading,
        Clearing
  <2> QED
    BY <2>2, <2>3, LessonsStay
<1>5. CASE UseText
  <2>2. job'.at \notin {"replace", "prove", "settle", "finish"}
    BY <1>5 DEF UseText, Goto, At, Accepted
  <2>3. UNCHANGED <<pubVars, handed>> /\ job.at \in Working
    BY <1>5
       DEF UseText, At, Accepted, asrVars, faultVars, zhVars, pubVars, Working, Hearing, Texting,
        Reading, Clearing
  <2> QED
    BY <2>2, <2>3, LessonsStay
<1>6. CASE Distrust
  <2>2. job'.at \notin {"replace", "prove", "settle", "finish"}
    BY <1>6, AfterEnter DEF Distrust, At, Accepted
  <2>3. UNCHANGED <<pubVars, handed>> /\ job.at \in Working
    BY <1>6
       DEF Distrust, At, Accepted, asrVars, faultVars, zhVars, pubVars, Working, Hearing, Texting,
        Reading, Clearing
  <2> QED
    BY <2>2, <2>3, LessonsStay
<1>7. CASE ClaimRepair
  <2>2. job'.at \notin {"replace", "prove", "settle", "finish"}
    BY <1>7 DEF ClaimRepair, At, Rejected
  <2>3. UNCHANGED <<pubVars, handed>> /\ job.at \in Working
    BY <1>7
       DEF ClaimRepair, At, Rejected, faultVars, zhVars, pubVars, Working, Hearing, Texting,
           Reading, Clearing
  <2> QED
    BY <2>2, <2>3, LessonsStay
<1>8. CASE Rebuild
  <2>2. job'.at \notin {"replace", "prove", "settle", "finish"}
    BY <1>8 DEF Rebuild, At, Rejected
  <2>3. UNCHANGED <<pubVars, handed>> /\ job.at \in Working
    BY <1>8
       DEF Rebuild, At, Rejected, asrVars, faultVars, zhVars, pubVars, Working, Hearing, Texting,
        Reading, Clearing
  <2> QED
    BY <2>2, <2>3, LessonsStay
<1>9. CASE Select
  <2>2. job'.at \notin {"replace", "prove", "settle", "finish"}
    BY <1>9 DEF Select, Goto, At
  <2>3. UNCHANGED <<pubVars, handed>> /\ job.at \in Working
    BY <1>9 DEF Select, At, asrVars, faultVars, zhVars, pubVars, Working, Hearing, Texting, Reading,
        Clearing
  <2> QED
    BY <2>2, <2>3, LessonsStay
<1>10. CASE Archive
  <2>2. job'.at \notin {"replace", "prove", "settle", "finish"}
    BY <1>10, AfterGoto DEF Archive, At, Aged
  <2>3. UNCHANGED <<pubVars, handed>> /\ job.at \in Working
    BY <1>10 DEF Archive, At, Aged, faultVars, pubVars, Working, Hearing, Texting, Reading, Clearing
  <2> QED
    BY <2>2, <2>3, LessonsStay
<1>11. CASE Whole
  <2>2. job'.at \notin {"replace", "prove", "settle", "finish"}
    BY <1>11, AfterDone, AfterEnter, AfterFails DEF Whole, At
  <2>3. UNCHANGED <<pubVars, handed>> /\ job.at \in Working
    BY <1>11 DEF Whole, At, asrVars, faultVars, zhVars, pubVars, Working, Hearing, Texting, Reading,
        Clearing
  <2> QED
    BY <2>2, <2>3, LessonsStay
<1>12. CASE BeginCommit
  <2>2. job'.at \notin {"replace", "prove", "settle", "finish"}
    BY <1>12, AfterGoto DEF BeginCommit, At
  <2>3. UNCHANGED <<pubVars, handed>> /\ job.at \in Working
    BY <1>12
       DEF BeginCommit, At, faultVars, zhVars, pubVars, Working, Hearing, Texting, Reading, Clearing
  <2> QED
    BY <2>2, <2>3, LessonsStay
<1>13. CASE Put
  <2>2. job'.at \notin {"replace", "prove", "settle", "finish"}
    BY <1>13, AfterGoto DEF Put, At
  <2>3. UNCHANGED <<pubVars, handed>> /\ job.at \in Working
    BY <1>13 DEF Put, At, faultVars, pubVars, Working, Hearing, Texting, Reading, Clearing
  <2> QED
    BY <2>2, <2>3, LessonsStay
<1>14. CASE Diagnose
  <2>2. job'.at \notin {"replace", "prove", "settle", "finish"}
    BY <1>14, AfterGoto DEF Diagnose, At
  <2>3. UNCHANGED <<pubVars, handed>> /\ job.at \in Working
    BY <1>14
       DEF Diagnose, At, faultVars, zhVars, pubVars, Working, Hearing, Texting, Reading, Clearing
  <2> QED
    BY <2>2, <2>3, LessonsStay
<1>15. CASE Tidy
  <2>2. job'.at \notin {"replace", "prove", "settle", "finish"}
    BY <1>15, AfterGoto DEF Tidy, At, Invalidate
  <2>3. UNCHANGED <<pubVars, handed>> /\ job.at \in Working
    BY <1>15
       DEF Tidy, At, Invalidate, asrVars, faultVars, pubVars, Working, Hearing, Texting, Reading,
        Clearing
  <2> QED
    BY <2>2, <2>3, LessonsStay
<1>16. CASE NothingNew
  <2>2. job'.at \notin {"replace", "prove", "settle", "finish"}
    BY <1>16, AfterGoto DEF NothingNew, At
  <2>3. UNCHANGED <<pubVars, handed>> /\ job.at \in Working
    BY <1>16
       DEF NothingNew, At, asrVars, faultVars, zhVars, pubVars, Working, Hearing, Texting, Reading,
        Clearing
  <2> QED
    BY <2>2, <2>3, LessonsStay
<1>17. CASE EndCommit
  <2>2. job'.at \notin {"replace", "prove", "settle", "finish"}
    BY <1>17 DEF EndCommit, At, Heard, Texting
  <2>3. UNCHANGED <<pubVars, handed>> /\ job.at \in Working
    BY <1>17
       DEF EndCommit, At, faultVars, zhVars, pubVars, Working, Hearing, Texting, Reading, Clearing
  <2> QED
    BY <2>2, <2>3, LessonsStay
<1>18. CASE GiveBack
  <2>2. job'.at \notin {"replace", "prove", "settle", "finish"}
    BY <1>18, AfterGoto DEF GiveBack, At, Committing
  <2>3. UNCHANGED <<pubVars, handed>> /\ job.at \in Working
    BY <1>18
       DEF GiveBack, At, Committing, faultVars, pubVars, Working, Hearing, Texting, Reading,
           Clearing
  <2> QED
    BY <2>2, <2>3, LessonsStay
<1>19. CASE FailClosed
  <2>2. job'.at \notin {"replace", "prove", "settle", "finish"}
    BY <1>19, AfterGoto, AfterDone, AfterEnter, AfterFails DEF FailClosed, Committing
  <2>3. UNCHANGED <<pubVars, handed>> /\ job.at \in Working
    BY <1>19
       DEF FailClosed, Committing, faultVars, pubVars, Working, Hearing, Texting, Reading, Clearing
  <2> QED
    BY <2>2, <2>3, LessonsStay
<1>20. CASE GapFails
  <2>2. job'.at \notin {"replace", "prove", "settle", "finish"}
    BY <1>20, AfterGoto, AfterDone, AfterEnter, AfterFails DEF GapFails, At, Invalidate
  <2>3. UNCHANGED <<pubVars, handed>> /\ job.at \in Working
    BY <1>20
       DEF GapFails, At, Invalidate, faultVars, zhVars, pubVars, Working, Hearing, Texting, Reading,
        Clearing
  <2> QED
    BY <2>2, <2>3, LessonsStay
<1>21. CASE BeginTranscript
  <2>2. job'.at \notin {"replace", "prove", "settle", "finish"}
    BY <1>21, AfterGoto DEF BeginTranscript, At
  <2>3. UNCHANGED <<pubVars, handed>> /\ job.at \in Working
    BY <1>21
       DEF BeginTranscript, At, faultVars, zhVars, pubVars, Working, Hearing, Texting, Reading,
        Clearing
  <2> QED
    BY <2>2, <2>3, LessonsStay
<1>22. CASE Hear
  <2>2. job'.at \notin {"replace", "prove", "settle", "finish"}
    BY <1>22, AfterGoto DEF Hear, At
  <2>3. UNCHANGED <<pubVars, handed>> /\ job.at \in Working
    BY <1>22 DEF Hear, At, faultVars, zhVars, pubVars, Working, Hearing, Texting, Reading, Clearing
  <2> QED
    BY <2>2, <2>3, LessonsStay
<1>23. CASE EndTranscript
  <2>2. job'.at \notin {"replace", "prove", "settle", "finish"}
    BY <1>23 DEF EndTranscript, At
  <2>3. UNCHANGED <<pubVars, handed>> /\ job.at \in Working
    BY <1>23 DEF EndTranscript, At, asrVars, faultVars, zhVars, pubVars, Working, Hearing, Texting,
        Reading, Clearing
  <2> QED
    BY <2>2, <2>3, LessonsStay
<1>24. CASE HearAgain
  <2>2. job'.at \notin {"replace", "prove", "settle", "finish"}
    BY <1>24, AfterGoto DEF HearAgain, At
  <2>3. UNCHANGED <<pubVars, handed>> /\ job.at \in Working
    BY <1>24
       DEF HearAgain, At, faultVars, zhVars, pubVars, Working, Hearing, Texting, Reading, Clearing
  <2> QED
    BY <2>2, <2>3, LessonsStay
<1>25. CASE TranscriptFails
  <2>2. job'.at \notin {"replace", "prove", "settle", "finish"}
    BY <1>25, AfterDone, AfterEnter, AfterFails DEF TranscriptFails, At
  <2>3. UNCHANGED <<pubVars, handed>> /\ job.at \in Working
    BY <1>25
       DEF TranscriptFails, At, faultVars, zhVars, pubVars, Working, Hearing, Texting, Reading,
        Clearing
  <2> QED
    BY <2>2, <2>3, LessonsStay
<1>26. CASE Chain
  <2>2. job'.at \notin {"replace", "prove", "settle", "finish"}
    BY <1>26, AfterGoto DEF Chain, At, Invalidate, EventsFit, HoldFits
  <2>3. UNCHANGED <<pubVars, handed>> /\ job.at \in Working
    BY <1>26
       DEF Chain, At, Invalidate, EventsFit, HoldFits, asrVars, faultVars, pubVars, Working,
           Hearing, Texting, Reading, Clearing
  <2> QED
    BY <2>2, <2>3, LessonsStay
<1>27. CASE OmissionsChecked
  <2>2. job'.at \notin {"replace", "prove", "settle", "finish"}
    BY <1>27, AfterGoto DEF OmissionsChecked, At, Invalidate, EventsFit, Omitting
  <2>3. UNCHANGED <<pubVars, handed>> /\ job.at \in Working
    BY <1>27 DEF OmissionsChecked, At, Invalidate, EventsFit, Omitting, asrVars, faultVars, zhVars,
        pubVars, Working, Hearing, Texting, Reading, Clearing
  <2> QED
    BY <2>2, <2>3, LessonsStay
<1>28. CASE RetranslateOmissions
  <2>2. job'.at \notin {"replace", "prove", "settle", "finish"}
    BY <1>28 DEF RetranslateOmissions, At, Omitting
  <2>3. UNCHANGED <<pubVars, handed>> /\ job.at \in Working
    BY <1>28 DEF RetranslateOmissions, At, Omitting, asrVars, faultVars, pubVars, Working, Hearing,
        Texting, Reading, Clearing
  <2> QED
    BY <2>2, <2>3, LessonsStay
<1>29. CASE Guard
  <2>2. job'.at \notin {"replace", "prove", "settle", "finish"}
    BY <1>29, AfterGoto DEF Guard, At
  <2>3. UNCHANGED <<pubVars, handed>> /\ job.at \in Working
    BY <1>29
       DEF Guard, At, asrVars, faultVars, pubVars, Working, Hearing, Texting, Reading, Clearing
  <2> QED
    BY <2>2, <2>3, LessonsStay
<1>30. CASE Write
  <2>2. job'.at \notin {"replace", "prove", "settle", "finish"}
    BY <1>30, AfterGoto DEF Write, At, Aged, Marked
  <2>3. UNCHANGED <<pubVars, handed>> /\ job.at \in Working
    BY <1>30
       DEF Write, At, Aged, asrVars, faultVars, pubVars, Working, Hearing, Texting, Reading,
           Clearing
  <2> QED
    BY <2>2, <2>3, LessonsStay
<1>31. CASE Rebind
  <2>1. \/ Goto("translate") \/ Done
        \/ job' = [job EXCEPT !.at = "select", !.next = "translate", !.escalated = TRUE]
    BY <1>31 DEF Rebind
  <2>2. job'.at \in {"translate", "off", "select"}
    BY <2>1, AfterGoto, AfterDone
  <2>3. UNCHANGED <<pubVars, handed>> /\ job.at \in Working
    BY <1>31
       DEF Rebind, At, asrVars, faultVars, pubVars, Working, Hearing, Texting, Reading, Clearing
  <2> QED
    BY <2>2, <2>3, LessonsStay
<1>32. CASE Pace
  <2>2. job'.at \notin {"replace", "prove", "settle", "finish"}
    BY <1>32, AfterPace
  <2>3. UNCHANGED <<pubVars, handed>> /\ job.at \in Working
    BY <1>32 DEF Pace, At, asrVars, faultVars, pubVars, Working, Hearing, Texting, Reading, Clearing
  <2> QED
    BY <2>2, <2>3, LessonsStay
<1>33. CASE UseTranslation
  <2>2. job'.at \notin {"replace", "prove", "settle", "finish"}
    BY <1>33, AfterGoto DEF UseTranslation, At
  <2>3. UNCHANGED <<pubVars, handed>> /\ job.at \in Working
    BY <1>33 DEF UseTranslation, At, asrVars, faultVars, zhVars, pubVars, Working, Hearing, Texting,
        Reading, Clearing
  <2> QED
    BY <2>2, <2>3, LessonsStay
<1>34. CASE Translate
  <2>2. job'.at \notin {"replace", "prove", "settle", "finish"}
    BY <1>34 DEF Translate, At
  <2>3. UNCHANGED <<pubVars, handed>> /\ job.at \in Working
    BY <1>34
       DEF Translate, At, asrVars, faultVars, pubVars, Working, Hearing, Texting, Reading, Clearing
  <2> QED
    BY <2>2, <2>3, LessonsStay
<1>35. CASE GiveUpTranslating
  <2>2. job'.at \notin {"replace", "prove", "settle", "finish"}
    BY <1>35, AfterDone DEF GiveUpTranslating, At
  <2>3. UNCHANGED <<pubVars, handed>> /\ job.at \in Working
    BY <1>35
       DEF GiveUpTranslating, At, asrVars, faultVars, zhVars, pubVars, Working, Hearing, Texting,
        Reading, Clearing
  <2> QED
    BY <2>2, <2>3, LessonsStay
<1>36. CASE Fresh
  <2>2. job'.at \notin {"replace", "prove", "settle", "finish"}
    BY <1>36, AfterGoto, AfterDone DEF Fresh, At, EventsFit
  <2>3. UNCHANGED <<pubVars, handed>> /\ job.at \in Working
    BY <1>36
       DEF Fresh, At, EventsFit, asrVars, faultVars, zhVars, pubVars, Working, Hearing, Texting,
        Reading, Clearing
  <2> QED
    BY <2>2, <2>3, LessonsStay
<1>37. CASE Gate
  <2>2. job'.at \notin {"replace", "prove", "settle", "finish"}
    BY <1>37, AfterDone, AfterEnter DEF Gate, At, EventsFit, HoldFits, Omitting
  <2>3. UNCHANGED <<pubVars, handed>> /\ job.at \in Working
    BY <1>37
       DEF Gate, At, EventsFit, HoldFits, Omitting, asrVars, faultVars, zhVars, pubVars, Working,
        Hearing, Texting, Reading, Clearing
  <2> QED
    BY <2>2, <2>3, LessonsStay
<1>38. CASE Convert
  <2>2. job'.at \notin {"replace", "prove", "settle", "finish"}
    BY <1>38, AfterGoto DEF Convert, At
  <2>3. UNCHANGED <<pubVars, handed>> /\ job.at \in Working
    BY <1>38
       DEF Convert, At, asrVars, faultVars, pubVars, Working, Hearing, Texting, Reading, Clearing
  <2> QED
    BY <2>2, <2>3, LessonsStay
<1>39. CASE Finalize
  <2>2. job'.at \notin {"replace", "prove", "settle", "finish"}
    BY <1>39, AfterDone, AfterEnter DEF Finalize, At, HoldFits
  <2>3. UNCHANGED <<pubVars, handed>> /\ job.at \in Working
    BY <1>39
       DEF Finalize, At, HoldFits, asrVars, faultVars, pubVars, Working, Hearing, Texting, Reading,
        Clearing
  <2> QED
    BY <2>2, <2>3, LessonsStay
<1>40. CASE Recover
  <2>1. CASE marker /\ Provable
    <3>1. /\ UNCHANGED <<ass, pubs, manifest, current, marker, origin>>
          /\ outbox' = (IF Learnable THEN outbox \cup {manifest} ELSE outbox)
          /\ handed' = (handed \/ (job.manual /\ ~pubs[manifest].manual))
      BY <1>40, <2>1 DEF Recover, zhVars
    <3>2. job'.at = "settle" /\ Provable' = Provable
      BY <1>40, <2>1, <3>1, AfterGoto DEF Recover, Provable
    <3>3. pubs[manifest].lineage = origin
      BY <2>1 DEF Lessons
    <3>4. \A p \in outbox' : pubs'[p].lineage
      BY <3>1, <3>3 DEF Lessons, Learnable
    <3>5. pubs[manifest].lineage /\ ~pubs[manifest].manual /\ ~handed' => manifest \in outbox'
      BY <3>1, <3>3 DEF Learnable
    <3> QED
      BY <2>1, <3>1, <3>2, <3>3, <3>4, <3>5 DEF Lessons, LessonsKept, Standing
  <2>2. CASE ~(marker /\ Provable)
    BY <1>40, <2>2, AfterGoto, LessonsStay DEF Recover, pubVars, zhVars
  <2> QED
    BY <2>1, <2>2
<1>41. CASE SettleRecovered
  <2>1. /\ job.at = "settle" /\ job'.at = "preflight" /\ marker' = FALSE
        /\ UNCHANGED <<ass, pubs, manifest, current, outbox, handed>>
    BY <1>41, AfterGoto DEF SettleRecovered, At, faultVars
  <2> QED
    BY <2>1 DEF Lessons, LessonsKept, Standing
<1>42. CASE Preflight
  <2>1. UNCHANGED <<pubVars, handed>> /\ job'.at \notin {"replace", "prove", "settle", "finish"}
    BY <1>42, AfterGoto, AfterDone DEF Preflight, faultVars
  <2>2. marker => UNCHANGED origin
    BY <1>42 DEF Preflight
  <2>3. Provable' = Provable
    BY <2>1 DEF Provable, pubVars
  <2> QED
    BY <2>1, <2>2, <2>3 DEF Lessons, LessonsKept, Standing, pubVars
<1>43. CASE Announce
  <2>1. /\ UNCHANGED <<ass, pubs, manifest, current, outbox, handed>> /\ marker' = TRUE
        /\ job'.at = "check" /\ job.at = "announce"
    BY <1>43, AfterGoto DEF Announce, At, faultVars
  <2>2. ~Provable'
    BY <2>1 DEF Underway, Working, Reading, Provable
  <2> QED
    BY <2>1, <2>2 DEF Lessons, LessonsKept, Standing
<1>44. CASE Check
  <2>1. UNCHANGED <<ass, manifest, current, marker, outbox, handed>> /\ job.at = "check"
    BY <1>44 DEF Check, At, faultVars, zhVars
  <2>2. CASE Fails /\ UNCHANGED pubs
    BY <2>1, <2>2, AfterFails, LessonsStay DEF pubVars, Working, Reading
  <2>3. CASE /\ pubs' = Append(pubs, [ja |-> ja, of |-> zh.of, whole |-> tw = "these" /\ ~zh.omits,
                                      manual |-> job.manual, lineage |-> FALSE])
             /\ job' = [job EXCEPT !.at = "replace", !.old = ass]
    <3> DEFINE p == [ja |-> ja, of |-> zh.of, whole |-> tw = "these" /\ ~zh.omits, manual |-> job.manual,
                     lineage |-> FALSE]
    <3>1. p \in Pubs /\ p.manual = job.manual
      BY PubFits
    <3>2. pubs' = Append(pubs, p)
      BY <2>3
    <3> HIDE DEF p
    <3>3. /\ Len(pubs') = Len(pubs) + 1 /\ pubs'[Len(pubs')] = p
          /\ \A i \in 1..Len(pubs) : pubs'[i] = pubs[i]
      BY <3>1, <3>2, PubChanges DEF PubTypes
    <3>4. job'.at = "replace" /\ job'.manual = job.manual
      BY <2>3
    <3>5. marker /\ ~Provable'
      BY <2>1 DEF Underway, Working, Reading, Provable
    <3>6. \A q \in outbox : q \in 1..Len(pubs)
      BY DEF PubTypes
    <3>7. Len(pubs) \in Nat
      BY DEF PubTypes
    <3> QED
      BY <2>1, <3>1, <3>3, <3>4, <3>5, <3>6, <3>7 DEF Lessons, LessonsKept, Standing
  <2> QED
    BY <1>44, <2>2, <2>3 DEF Check
<1>45. CASE Replace
  <2>1. UNCHANGED <<pubs, manifest, current, marker, outbox, handed>> /\ job.at = "replace"
    BY <1>45 DEF Replace, At, faultVars, zhVars
  <2>2. marker /\ manifest # Len(pubs)
    BY <2>1 DEF Underway, Replacing, PubTypes
  <2>3. /\ ~Provable' /\ job'.at \in {"replace", "prove", "off"}
        /\ job'.at \in {"replace", "prove"} => job'.manual = job.manual
    <3>1. CASE job' = job /\ \E i \in 1..3 : ass' = [ass EXCEPT ![i] = Len(pubs)]
      BY <2>1, <2>2, <3>1 DEF Provable, PubTypes, Files
    <3>2. CASE ass' = job.old /\ Done
      BY <2>1, <3>2, AfterDone DEF Provable, Replacing
    <3>3. CASE Goto("prove") /\ UNCHANGED ass /\ ass[1] = Len(pubs)
      BY <2>1, <2>2, <3>3, AfterGoto DEF Provable
    <3> QED
      BY <1>45, <3>1, <3>2, <3>3 DEF Replace
  <2> QED
    BY <2>1, <2>2, <2>3 DEF Lessons, LessonsKept, Standing
<1>46. CASE Prove
  <2>1. /\ UNCHANGED <<ass, marker, outbox, handed>> /\ job.at = "prove" /\ job'.at = "learn"
        /\ manifest' = Len(pubs) /\ pubs' = [pubs EXCEPT ![Len(pubs)].lineage = origin'] /\ origin' \in BOOLEAN
    BY <1>46, AfterGoto DEF Prove, At, faultVars, FileTypes
  <2>2. /\ \A i \in 1..Len(pubs) : i # Len(pubs) => pubs'[i] = pubs[i]
        /\ pubs'[manifest'].lineage = origin'
    BY <2>1, PubProven DEF Lessons, PubTypes
  <2>3. marker /\ Len(pubs) \notin outbox /\ outbox \subseteq 1..Len(pubs)
    BY <2>1 DEF Underway, Lessons, PubTypes
  <2> QED
    BY <2>1, <2>2, <2>3 DEF Lessons, LessonsKept, Standing
<1>47. CASE Learn
  <2>1. /\ UNCHANGED <<ass, pubs, manifest, current, marker, handed, origin>>
        /\ outbox' = (IF Learnable THEN outbox \cup {manifest} ELSE outbox)
        /\ job.at = "learn" /\ job'.at = "finish"
    BY <1>47, AfterGoto DEF Learn, At, faultVars, zhVars
  <2>2. /\ Provable /\ Provable' /\ marker
        /\ pubs[manifest].manual = job.manual /\ pubs[manifest].lineage = origin
    BY <2>1 DEF Underway, Lessons, Provable
  <2> QED
    BY <2>1, <2>2 DEF Lessons, LessonsKept, Standing, Learnable
<1>48. CASE Finish
  <2>1. /\ UNCHANGED <<ass, pubs, manifest, current, outbox, handed>>
        /\ marker' = FALSE /\ job.at = "finish" /\ job'.at = "clean"
    BY <1>48, AfterGoto DEF Finish, At, faultVars
  <2> QED
    BY <2>1 DEF Lessons, LessonsKept, Standing
<1>49. CASE Clean
  <2>1. UNCHANGED <<pubVars, handed>> /\ job.at = "clean" /\ job'.at = "off"
    BY <1>49, AfterDone DEF Clean, At, faultVars
  <2>2. ~marker /\ Provable' = Provable
    BY <2>1 DEF Underway, Provable, pubVars
  <2> QED
    BY <2>1, <2>2 DEF Lessons, LessonsKept, Standing, pubVars
<1>50. CASE ReviewArchive
  <2>1. /\ UNCHANGED handed /\ job.at \in Working
        /\ job'.at \notin {"replace", "prove", "settle", "finish"}
    BY <1>50, AfterGoto, AfterDone DEF ReviewArchive, At, faultVars, Working, Clearing
  <2>2. CASE UNCHANGED pubVars
    BY <2>1, <2>2, LessonsStay
  <2>3. CASE ass' = <<0, 0, 0>> /\ UNCHANGED <<pubs, manifest, current, marker, outbox>>
    <3>1. ~Provable'
      BY <2>3 DEF Provable
    <3> QED
      BY <2>1, <2>3, <3>1 DEF Lessons, LessonsKept, Standing
  <2> QED
    BY <1>50, <2>2, <2>3 DEF ReviewArchive
<1>51. CASE PutBack
  <2>2. job'.at \notin {"replace", "prove", "settle", "finish"}
    BY <1>51, AfterGoto, AfterDone DEF PutBack, At
  <2>3. UNCHANGED <<pubVars, handed, origin>>
    BY <1>51 DEF PutBack, At, faultVars, pubVars, zhVars, zhVars, faultVars, pubVars
  <2> QED
    BY <2>2, <2>3, LessonsStay
<1>52. CASE Crash
  <2>1. UNCHANGED <<pubVars, handed, origin>> /\ job'.at = "off"
    BY <1>52, AfterDone DEF Crash, zhVars
  <2> QED
    BY <2>1, LessonsStay
<1>53. CASE Reconfigure
  <2>1. /\ UNCHANGED <<pubs, manifest, marker, outbox, handed>> /\ job' = job
        /\ job.at = "off" /\ ~Provable'
    BY <1>53 DEF Reconfigure, At, Provable
  <2> QED
    BY <2>1 DEF Lessons, LessonsKept, Standing
<1>54. CASE Retime
  <2>1. job'.at \in {"retime", "check", "review", "off"}
    BY <1>54, AfterRetime
  <2>2. UNCHANGED <<pubVars, handed>> /\ job.at \in Working
    BY <1>54 DEF Retime, At, faultVars, Working, Reading
  <2> QED
    BY <2>1, <2>2, LessonsStay
<1>55. CASE Correct
  <2>1. job'.at = "check"
    BY <1>55 DEF Correct, At, Jobs
  <2>2. UNCHANGED <<pubVars, handed>> /\ job.at \in Working
    BY <1>55 DEF Correct, At, faultVars, Working, Reading
  <2> QED
    BY <2>1, <2>2, LessonsStay
<1> QED
  BY <1>1, <1>2, <1>3, <1>4, <1>5, <1>6, <1>7, <1>8, <1>9, <1>10, <1>11, <1>12, <1>13, <1>14, <1>15,
        <1>16, <1>17, <1>18, <1>19, <1>20, <1>21, <1>22, <1>23, <1>24, <1>25, <1>26, <1>27, <1>28,
        <1>29, <1>30, <1>31, <1>32, <1>33, <1>34, <1>35, <1>36, <1>37, <1>38, <1>39, <1>40, <1>41,
        <1>42, <1>43, <1>44, <1>45, <1>46, <1>47, <1>48, <1>49, <1>50, <1>51, <1>52, <1>53, <1>54, <1>55
     DEF CacheNext, CachedText, Committed, Transcribed, Repaired, Translated, Remediated, Publication

\* Files replaced by a publication.
LEMMA ReplacingStep ==
  ASSUME Types, Underway, Replacing, CacheNext PROVE Replacing'
<1> USE DEF Types, Replacing, Jobs, NoJob
<1>1. CASE Begin
  BY <1>1 DEF Begin, At, asrVars, faultVars, pubVars, zhVars
<1>2. CASE RecoverAsr
  BY <1>2, AfterGoto DEF RecoverAsr, At, Invalidate, asrVars, faultVars, pubVars
<1>3. CASE Restore
  BY <1>3, AfterGoto DEF Restore, At, faultVars, pubVars, zhVars
<1>4. CASE Quarantine
  BY <1>4, AfterGoto DEF Quarantine, At, Invalidate, faultVars, pubVars
<1>5. CASE UseText
  BY <1>5 DEF UseText, Goto, At, Accepted, asrVars, faultVars, pubVars, zhVars
<1>6. CASE Distrust
  BY <1>6, AfterEnter DEF Distrust, At, Accepted, asrVars, faultVars, pubVars, zhVars
<1>7. CASE ClaimRepair
  BY <1>7 DEF ClaimRepair, At, Rejected, faultVars, pubVars, zhVars
<1>8. CASE Rebuild
  BY <1>8 DEF Rebuild, At, Rejected, asrVars, faultVars, pubVars, zhVars
<1>9. CASE Select
  BY <1>9 DEF Select, Goto, At, asrVars, faultVars, pubVars, zhVars
<1>10. CASE Archive
  BY <1>10, AfterGoto DEF Archive, At, Aged, faultVars, pubVars
<1>11. CASE Whole
  BY <1>11, AfterFails DEF Whole, At, asrVars, faultVars, pubVars, zhVars
<1>12. CASE BeginCommit
  BY <1>12, AfterGoto DEF BeginCommit, At, faultVars, pubVars, zhVars
<1>13. CASE Put
  BY <1>13, AfterGoto DEF Put, At, faultVars, pubVars
<1>14. CASE Diagnose
  BY <1>14, AfterGoto DEF Diagnose, At, faultVars, pubVars, zhVars
<1>15. CASE Tidy
  BY <1>15, AfterGoto DEF Tidy, At, Invalidate, asrVars, faultVars, pubVars
<1>16. CASE NothingNew
  BY <1>16, AfterGoto DEF NothingNew, At, asrVars, faultVars, pubVars, zhVars
<1>17. CASE EndCommit
  BY <1>17 DEF EndCommit, At, faultVars, pubVars, zhVars
<1>18. CASE GiveBack
  BY <1>18, AfterGoto DEF GiveBack, At, Committing, faultVars, pubVars
<1>19. CASE FailClosed
  BY <1>19, AfterGoto, AfterFails DEF FailClosed, Committing, faultVars, pubVars
<1>20. CASE GapFails
  BY <1>20, AfterGoto, AfterFails DEF GapFails, At, Invalidate, faultVars, pubVars, zhVars
<1>21. CASE BeginTranscript
  BY <1>21, AfterGoto DEF BeginTranscript, At, faultVars, pubVars, zhVars
<1>22. CASE Hear
  BY <1>22, AfterGoto DEF Hear, At, faultVars, pubVars, zhVars
<1>23. CASE EndTranscript
  BY <1>23 DEF EndTranscript, At, asrVars, faultVars, pubVars, zhVars
<1>24. CASE HearAgain
  BY <1>24, AfterGoto DEF HearAgain, At, faultVars, pubVars, zhVars
<1>25. CASE TranscriptFails
  BY <1>25, AfterFails DEF TranscriptFails, At, faultVars, pubVars, zhVars
<1>26. CASE Chain
  BY <1>26, AfterGoto DEF Chain, At, Invalidate, EventsFit, HoldFits, asrVars, faultVars, pubVars
<1>27. CASE OmissionsChecked
  BY <1>27, AfterGoto DEF OmissionsChecked, At, Invalidate, EventsFit, Omitting, asrVars, faultVars,
        pubVars, zhVars
<1>28. CASE RetranslateOmissions
  BY <1>28 DEF RetranslateOmissions, At, Omitting, asrVars, faultVars, pubVars
<1>29. CASE Guard
  BY <1>29, AfterGoto DEF Guard, At, asrVars, faultVars, pubVars
<1>30. CASE Write
  BY <1>30, AfterGoto DEF Write, At, Aged, asrVars, faultVars, pubVars
<1>31. CASE Rebind
  <2>1. \/ Goto("translate") \/ Done
        \/ job' = [job EXCEPT !.at = "select", !.next = "translate", !.escalated = TRUE]
    BY <1>31 DEF Rebind
  <2>2. job'.at \in {"translate", "off", "select"}
    BY <2>1, AfterGoto, AfterDone
  <2> QED
    BY <1>31, <2>2 DEF Rebind, At, asrVars, pubVars, faultVars
<1>32. CASE Pace
  BY <1>32, AfterPace DEF asrVars, faultVars, pubVars
<1>33. CASE UseTranslation
  BY <1>33, AfterGoto DEF UseTranslation, At, asrVars, faultVars, pubVars, zhVars
<1>34. CASE Translate
  BY <1>34 DEF Translate, At, asrVars, faultVars, pubVars
<1>35. CASE GiveUpTranslating
  BY <1>35, AfterDone DEF GiveUpTranslating, At, asrVars, faultVars, pubVars, zhVars
<1>36. CASE Fresh
  BY <1>36, AfterGoto, AfterDone DEF Fresh, At, EventsFit, asrVars, faultVars, pubVars, zhVars
<1>37. CASE Gate
  BY <1>37, AfterDone, AfterEnter DEF Gate, At, EventsFit, HoldFits, Omitting, asrVars, faultVars,
        pubVars, zhVars
<1>38. CASE Convert
  BY <1>38, AfterGoto DEF Convert, At, asrVars, faultVars, pubVars
<1>39. CASE Finalize
  BY <1>39, AfterDone, AfterEnter DEF Finalize, At, HoldFits, asrVars, faultVars, pubVars
<1>40. CASE Recover
  BY <1>40, AfterGoto DEF Recover, At, Learnable, asrVars, zhVars
<1>41. CASE SettleRecovered
  BY <1>41, AfterGoto DEF SettleRecovered, At, asrVars, faultVars, zhVars
<1>42. CASE Preflight
  BY <1>42, AfterGoto, AfterDone DEF Preflight, At, asrVars, faultVars, pubVars
<1>43. CASE Announce
  BY <1>43, AfterGoto DEF Announce, At, asrVars, faultVars, zhVars
<1>44. CASE Check
  <2>1. CASE Fails
    BY <2>1, AfterFails
  <2>2. CASE /\ pubs' = Append(pubs, [ja |-> ja, of |-> zh.of, whole |-> tw = "these" /\ ~zh.omits,
                                      manual |-> job.manual, lineage |-> FALSE])
             /\ job' = [job EXCEPT !.at = "replace", !.old = ass]
    <3>1. Len(pubs') = Len(pubs) + 1
      BY <2>2, PubFits, PubChanges DEF PubTypes
    <3>2. job'.at = "replace" /\ job'.old = ass /\ UNCHANGED <<ass, manifest, current>>
      BY <1>44, <2>2 DEF Check
    <3>3. \A i \in 1..3 : ass[i] < Len(pubs')
      BY <3>1, CacheAssumption DEF PubTypes, Files
    <3>4. ~Provable
      BY <1>44 DEF Check, At, Underway, Working, Reading
    <3>5. manifest < Len(pubs')
      BY <3>1 DEF PubTypes
    <3> QED
      BY <3>2, <3>3, <3>4, <3>5 DEF Provable, PubTypes
  <2> QED
    BY <1>44, <2>1, <2>2 DEF Check
<1>45. CASE Replace
  <2>1. UNCHANGED <<pubs, manifest, current>> /\ job.at = "replace"
    BY <1>45 DEF Replace, At
  <2>2. CASE job' = job /\ \E i \in 1..3 : ass' = [ass EXCEPT ![i] = Len(pubs)]
    <3>1. \A i \in 1..3 : ass'[i] \in {ass[i], Len(pubs)}
      BY <2>2 DEF PubTypes, Files
    <3> QED
      BY <2>1, <2>2, <3>1
  <2>3. CASE Done
    BY <2>3, AfterDone
  <2>4. CASE Goto("prove") /\ UNCHANGED ass /\ \A i \in 1..3 : ass[i] = Len(pubs)
    BY <2>1, <2>4, AfterGoto
  <2> QED
    BY <1>45, <2>2, <2>3, <2>4 DEF Replace
<1>46. CASE Prove
  BY <1>46, AfterGoto DEF Prove, At, asrVars, faultVars, zhVars
<1>47. CASE Learn
  BY <1>47, AfterGoto DEF Learn, At, Learnable, asrVars, faultVars, zhVars
<1>48. CASE Finish
  BY <1>48, AfterGoto DEF Finish, At, asrVars, faultVars, zhVars
<1>49. CASE Clean
  BY <1>49, AfterDone DEF Clean, At, asrVars, faultVars, pubVars
<1>50. CASE ReviewArchive
  BY <1>50, AfterGoto, AfterDone
     DEF ReviewArchive, At, Invalidate, asrVars, faultVars, pubVars, zhVars
<1>51. CASE PutBack
  BY <1>51, AfterGoto, AfterDone DEF PutBack, At, faultVars, pubVars, zhVars
<1>52. CASE Crash
  BY <1>52, AfterDone DEF Crash, At, asrVars, pubVars, zhVars
<1>53. CASE Reconfigure
  BY <1>53 DEF Reconfigure, At, asrVars, zhVars
<1>54. CASE Retime
  BY <1>54, AfterRetime DEF pubVars, faultVars
<1>55. CASE Correct
  BY <1>55 DEF Correct, At, Jobs, asrVars, pubVars, faultVars
<1> QED
  BY <1>1, <1>2, <1>3, <1>4, <1>5, <1>6, <1>7, <1>8, <1>9, <1>10, <1>11, <1>12, <1>13, <1>14, <1>15,
        <1>16, <1>17, <1>18, <1>19, <1>20, <1>21, <1>22, <1>23, <1>24, <1>25, <1>26, <1>27, <1>28,
        <1>29, <1>30, <1>31, <1>32, <1>33, <1>34, <1>35, <1>36, <1>37, <1>38, <1>39, <1>40, <1>41,
        <1>42, <1>43, <1>44, <1>45, <1>46, <1>47, <1>48, <1>49, <1>50, <1>51, <1>52, <1>53, <1>54, <1>55
     DEF CacheNext, CachedText, Committed, Transcribed, Repaired, Translated, Remediated, Publication

\* The invariant holds at first and after every step.
LEMMA CacheInit0 == CacheInit => CacheInv
<1> SUFFICES ASSUME CacheInit PROVE CacheInv
  OBVIOUS
<1>1. TextTypes
  <2>1. ja = 0 /\ texts = 0 /\ asrHold = FALSE /\ diag = NoDiag /\ kept = {} /\ rejected = {}
    BY DEF CacheInit
  <2>2. ja \in 0..texts /\ texts \in Numbers
    BY <2>1, DataFits
  <2>3. kept \subseteq rejected /\ rejected \subseteq 1..texts
    BY <2>1
  <2>4. asrHold \in BOOLEAN /\ diag \in Diags
    BY DataFits DEF CacheInit
  <2> QED
    BY <2>2, <2>3, <2>4 DEF TextTypes
<1>2. FileTypes
  BY DataFits DEF CacheInit, FileTypes, Sidecars
<1>3. PubTypes
  <2>1. ass = <<0, 0, 0>> /\ pubs = <<>> /\ manifest = 0 /\ current /\ ~marker /\ outbox = {}
    BY DEF CacheInit
  <2>2. 0 \in 0..MaxPublications /\ Len(pubs) = 0 /\ pubs \in Seq(Pubs)
    BY <2>1, CacheAssumption
  <2>3. ass \in Files /\ \A i \in 1..3 : ass[i] = 0
    BY <2>1, <2>2 DEF Files
  <2>4. current \in BOOLEAN /\ marker \in BOOLEAN
    BY DEF CacheInit
  <2> QED
    BY <2>1, <2>2, <2>3, <2>4, CacheAssumption DEF PubTypes
<1> USE DEF CacheInit
<1>4. job \in Jobs /\ job.at = "off" /\ job.kind = "none"
  BY JobFits DEF NoJob
<1>5. RejectedIsTold
  BY <1>4 DEF RejectedIsTold, Told, Repairing
<1>6. Marked /\ Heard
  BY <1>4 DEF Marked, Heard, NoZh, Reading, Texting
<1>7. Belongs
  BY <1>4 DEF Belongs, Together, Repairing, Hearing, Idle
<1>8. Underway
  BY <1>4 DEF Underway, Working, Hearing, Texting, Reading, Clearing
<1>9. Lessons
  BY <1>4 DEF Lessons, LessonsKept, Standing, Provable
<1>10. Replacing
  BY <1>4 DEF Replacing
<1> QED
  BY <1>1, <1>2, <1>3, <1>4, <1>5, <1>6, <1>7, <1>8, <1>9, <1>10 DEF CacheInv, Types

LEMMA CacheStep == CacheInv /\ [CacheNext]_cacheVars => CacheInv'
<1>1. ASSUME CacheInv, CacheNext PROVE CacheInv'
  BY <1>1, TextTypesStep, FileTypesStep, PubTypesStep, JobStep, ToldStep, MarkedStep, HeardStep,
     BelongsStep, UnderwayStep, LessonsStep, ReplacingStep DEF CacheInv, Types
<1>2. ASSUME CacheInv, UNCHANGED cacheVars PROVE CacheInv'
  <2>1. TextTypes' /\ FileTypes' /\ PubTypes' /\ (job \in Jobs)'
    BY <1>2 DEF CacheInv, Types, TextTypes, FileTypes, PubTypes, cacheVars, asrVars, zhVars,
                pubVars, faultVars
  <2>2. RejectedIsTold' /\ Marked' /\ Heard'
    BY <1>2
       DEF CacheInv, RejectedIsTold, Told, Repairing, Marked, Heard, cacheVars, asrVars, zhVars,
           pubVars
  <2>3. Belongs' /\ Replacing'
    BY <1>2 DEF CacheInv, Belongs, Together, Repairing, Replacing, cacheVars, asrVars,
                zhVars, pubVars, faultVars
  <2>4. Underway' /\ Lessons'
    BY <1>2 DEF CacheInv, Underway, Provable, Lessons, LessonsKept, Standing, cacheVars,
                zhVars, pubVars, faultVars
  <2> QED
    BY <2>1, <2>2, <2>3, <2>4 DEF CacheInv, Types
<1> QED
  BY <1>1, <1>2

\* The inductive invariant: where a child may be in its job says what files,
\* marks, sidecars and diagnostics it has left behind, whenever it dies.
THEOREM CacheCorrect == CacheSpec => []CacheInv
  BY CacheInit0, CacheStep, PTL DEF CacheSpec

\* The files, the cache and the publications keep their types.
THEOREM CacheTypeCorrect == CacheSpec => []CacheTypeOK
<1>1. CacheInv => CacheTypeOK
  <2> SUFFICES ASSUME CacheInv PROVE CacheTypeOK
    OBVIOUS
  <2> USE CacheAssumption DEF CacheInv, Types
  <2>1. 0..texts \subseteq 0..MaxTexts /\ 1..texts \subseteq Texts /\ texts \in 0..MaxTexts
    BY DEF TextTypes, Numbers, Texts
  <2>2. 0..Len(pubs) \subseteq 0..MaxPublications /\ 1..Len(pubs) \subseteq 1..MaxPublications
    BY DEF PubTypes
  <2>3. /\ ja \in 0..MaxTexts /\ asrHold \in BOOLEAN /\ diag \in [of : 0..MaxTexts, ok : BOOLEAN, tried : BOOLEAN]
        /\ {rejected, kept} \subseteq SUBSET Texts
    BY <2>1 DEF TextTypes, Diags, Numbers
  <2>4. /\ zh \in [of : 0..MaxTexts, omits : BOOLEAN]
        /\ {tw, events, hold} \subseteq Sidecars /\ origin \in BOOLEAN
    BY DEF FileTypes, Zhs, Numbers
  <2>5. /\ ass \in [1..3 -> 0..MaxPublications] /\ manifest \in 0..MaxPublications
        /\ outbox \subseteq 1..MaxPublications
    BY <2>2 DEF PubTypes, Files
  <2> QED
    BY <2>1, <2>3, <2>4, <2>5 DEF CacheTypeOK
<1> QED
  BY <1>1, CacheCorrect, PTL

\* What stands as delivered was made of a transcript that no check rejected,
\* whole, whatever crashed and came back before (worker.py, the gates before a
\* publication and the recovery of an interrupted one).
THEOREM DeliveriesAreSound == CacheSpec => []DeliveredIsSound
<1>1. CacheInv => DeliveredIsSound
  <2> SUFFICES ASSUME CacheInv, Standing
               PROVE  pubs[manifest].whole /\ pubs[manifest].ja \notin rejected
    BY DEF DeliveredIsSound
  <2>1. manifest \in 1..Len(pubs)
    BY DEF CacheInv, Types, PubTypes, Standing, Provable
  <2> QED
    BY <2>1 DEF CacheInv, RejectedIsTold, Marked
<1> QED
  BY <1>1, CacheCorrect, PTL

\* Transcript and translation of a delivery belong together, unless a crash
\* came between the removal of one and of the other.
THEOREM DeliveriesBelongTogether == CacheSpec => []DeliveredTogether
<1>1. CacheInv => DeliveredTogether
  <2> SUFFICES ASSUME CacheInv, Standing, ~apart PROVE pubs[manifest].of = pubs[manifest].ja
    BY DEF DeliveredTogether
  <2>1. manifest \in 1..Len(pubs)
    BY DEF CacheInv, Types, PubTypes, Standing, Provable
  <2> QED
    BY <2>1 DEF CacheInv, Belongs
<1> QED
  BY <1>1, CacheCorrect, PTL

\* What is learned was published with its lineage, and no lesson is lost to a
\* crash between the proof of a publication and its record.
THEOREM LessonsAreKept == CacheSpec => []LessonsKept
<1>1. CacheInv => LessonsKept
  BY DEF CacheInv, Lessons
<1> QED
  BY <1>1, CacheCorrect, PTL

-----------------------------------------------------------------------------
(* MemoryOutbox.  The inductive invariant OutboxInv follows a text from    *)
(* its making to the memory: what is drafted, intended or learned as       *)
(* original was made by a run for its medium, what is supplied has two     *)
(* makers, and an intent stands for the manifest it was recorded beside.   *)

\* Types of a child, its draft, the manifests, the intents and the Worker's batch.
WordingTypes == Wordings \cup {NoWording}
Places == {"off", "look", "plan", "translate", "announce", "prove", "record", "finish", "learn", "acknowledge", "tidy"}
ChildTypes == [at : Places, byHand : BOOLEAN, again : BOOLEAN, plan : WordingTypes]
DraftTypes == [text : WordingTypes, supplied : BOOLEAN]
ManifestTypes == [no : Nat, rev : Nat, text : WordingTypes]
IntentTypes == [of : Episodes, rev : Nat, no : Nat, text : WordingTypes, supplied : BOOLEAN, damaged : BOOLEAN]
LessonTypes == [of : Episodes, rev : Nat, text : WordingTypes]
StartTypes == [at : {"up", "batch"}, todo : SUBSET IntentTypes, one : IntentTypes \cup {NoIntent}]

MemoryTypes ==
  /\ revs \in [Episodes -> Nat]
  /\ child \in [Episodes -> ChildTypes]
  /\ draft \in [Episodes -> DraftTypes] /\ shown \in [Episodes -> ManifestTypes]
  /\ intact \in [Episodes -> BOOLEAN] /\ pending \in [Episodes -> BOOLEAN]
  /\ intents \subseteq IntentTypes /\ memory \subseteq LessonTypes
  /\ start \in StartTypes
  /\ \A w \in WordingTypes : IsFiniteSet(Makers(w))

\* A text that a run made for the medium it is of.
Original(x) == <<x.of, x.rev, x.text>> \in made
Originals ==
  /\ \A e \in Episodes : draft[e] # NoDraft /\ ~draft[e].supplied => <<e, revs[e], draft[e].text>> \in made
  /\ \A i \in intents : ~i.supplied => Original(i)
  /\ \A i \in start.todo : ~i.supplied => Original(i)
  /\ \A l \in memory : Original(l)

\* Models made it in two episodes.
Independent(w) == Cardinality(Makers(w)) >= 2
Supplies ==
  \A e \in Episodes :
    /\ child[e].plan # NoWording => Independent(child[e].plan)
    /\ draft[e].supplied => Independent(draft[e].text)

\* Where a child replaces the files that an intent may stand for.
Rewriting == {"plan", "translate", "announce", "prove"}

\* The manifest and the draft of the publication an intent was recorded for.
Stands(i) ==
  /\ Sound(i.of) /\ i.no = shown[i.of].no /\ i.text = shown[i.of].text
  /\ child[i.of].at \notin Rewriting
  /\ draft[i.of] = NoDraft \/ draft[i.of].supplied = i.supplied

IntentsStand ==
  \A i \in intents :
    /\ i.rev <= revs[i.of]
    /\ ~i.damaged /\ i.of \notin disturbed /\ i.rev = revs[i.of] => Stands(i)

OutboxInv == MemoryTypes /\ Originals /\ Supplies /\ IntentsStand

-----------------------------------------------------------------------------
(* What the actions do to a child and to its episode. *)

\* The places and the empty values.
LEMMA PlacesKnown ==
  /\ \A x \in {"off", "look", "plan", "translate", "announce", "prove", "record", "finish", "learn", "acknowledge", "tidy"} :
       x \in Places
  /\ Rewriting \subseteq Places
  BY DEF Places, Rewriting

LEMMA Nothing ==
  /\ Resting \in ChildTypes /\ Resting.at = "off" /\ Resting.plan = NoWording
  /\ NoDraft \in DraftTypes /\ ~NoDraft.supplied
  /\ NoManifest \in ManifestTypes /\ NoWording \in WordingTypes
  BY DEF Resting, ChildTypes, Places, WordingTypes, NoDraft, DraftTypes, NoManifest, ManifestTypes

\* A child goes on, or ends.
LEMMA Goes ==
  ASSUME child \in [Episodes -> ChildTypes], NEW e \in Episodes, NEW x \in Places, To(e, x)
  PROVE  /\ child' \in [Episodes -> ChildTypes]
         /\ child'[e].at = x /\ child'[e].plan = child[e].plan
         /\ \A f \in Episodes : f # e => child'[f] = child[f]
<1> DEFINE r == [child[e] EXCEPT !.at = x]
<1>1. r \in ChildTypes /\ r.at = x /\ r.plan = child[e].plan
  BY DEF ChildTypes
<1>2. child' = [child EXCEPT ![e] = r]
  BY DEF To
<1> HIDE DEF r
<1> QED
  BY <1>1, <1>2

LEMMA Ends ==
  ASSUME child \in [Episodes -> ChildTypes], NEW e \in Episodes, Ended(e)
  PROVE  /\ child' \in [Episodes -> ChildTypes] /\ child'[e] = Resting
         /\ \A f \in Episodes : f # e => child'[f] = child[f]
  BY Nothing DEF Ended

\* Where an episode's action takes its child: into a rewriting only from there,
\* or from a look that found nothing sound.
Turns(e) ==
  /\ child' \in [Episodes -> ChildTypes]
  /\ \A f \in Episodes : f # e => child'[f] = child[f]
  /\ child'[e].at \in Rewriting => child[e].at \in Rewriting \/ ~Sound(e)

\* The actions of a child: it takes an episode,
LEMMA TakeTurns ==
  ASSUME MemoryTypes, NEW e \in Episodes, Take(e)
  PROVE  Turns(e) /\ child'[e].plan = NoWording
<1>1. PICK m \in BOOLEAN : child' = [child EXCEPT ![e] = [Resting EXCEPT !.at = "look", !.byHand = m]]
  BY DEF Take
<1> DEFINE r == [Resting EXCEPT !.at = "look", !.byHand = m]
<1>2. r \in ChildTypes /\ r.at = "look" /\ r.plan = NoWording
  BY Nothing, PlacesKnown DEF ChildTypes
<1> HIDE DEF r
<1>3. /\ child' \in [Episodes -> ChildTypes] /\ child'[e] = r
      /\ \A f \in Episodes : f # e => child'[f] = child[f]
  BY <1>1, <1>2 DEF MemoryTypes, r
<1> QED
  BY <1>2, <1>3 DEF Turns, Rewriting

\* looks for a sound publication,
LEMMA LookTurns ==
  ASSUME MemoryTypes, NEW e \in Episodes, Look(e)
  PROVE  Turns(e) /\ (child'[e].plan = child[e].plan \/ child'[e].plan = NoWording)
<1>1. CASE Ended(e)
  BY <1>1, Ends, Nothing DEF MemoryTypes, Turns, Rewriting
<1>2. CASE ~Ended(e)
  <2> DEFINE x == IF Sound(e) THEN "record" ELSE "plan"
             r == [child[e] EXCEPT !.at = x, !.again = Sound(e)]
  <2>1. child' = [child EXCEPT ![e].at = x, ![e].again = Sound(e)]
    BY <1>2 DEF Look
  <2>2. child[e] \in ChildTypes /\ child \in [Episodes -> ChildTypes]
    BY DEF MemoryTypes
  <2>3. Sound(e) \in BOOLEAN /\ x \in Places
    BY PlacesKnown DEF Sound, Current, MemoryTypes
  <2>4. child' = [child EXCEPT ![e] = r]
    BY <2>1, <2>2
  <2> HIDE DEF x
  <2>5. r \in ChildTypes /\ r.at = x /\ r.plan = child[e].plan
    BY <2>2, <2>3 DEF ChildTypes
  <2> HIDE DEF r
  <2>6. /\ child' \in [Episodes -> ChildTypes] /\ child'[e] = r
        /\ \A f \in Episodes : f # e => child'[f] = child[f]
    BY <2>2, <2>4, <2>5
  <2> QED
    BY <2>5, <2>6 DEF Turns, Rewriting, x
<1> QED
  BY <1>1, <1>2

\* plans its translation,
LEMMA PlanTurns ==
  ASSUME MemoryTypes, NEW e \in Episodes, Plan(e)
  PROVE  Turns(e) /\ \E w \in WordingTypes : Split(w) /\ child'[e].plan = w
<1>1. PICK w \in WordingTypes : Split(w) /\ child' =
        [child EXCEPT ![e].at = IF draft[e] = NoDraft THEN "translate" ELSE "announce", ![e].plan = w]
  BY DEF Plan, WordingTypes
<1> DEFINE x == IF draft[e] = NoDraft THEN "translate" ELSE "announce"
           r == [child[e] EXCEPT !.at = x, !.plan = w]
<1>2. child[e] \in ChildTypes /\ child \in [Episodes -> ChildTypes] /\ child[e].at = "plan"
  BY DEF MemoryTypes, Plan, In
<1>3. x \in Places
  BY PlacesKnown
<1>4. child' = [child EXCEPT ![e] = r]
  BY <1>1, <1>2
<1> HIDE DEF x
<1>5. r \in ChildTypes /\ r.plan = w
  BY <1>2, <1>3 DEF ChildTypes
<1> HIDE DEF r
<1>6. /\ child' \in [Episodes -> ChildTypes] /\ child'[e] = r
      /\ \A f \in Episodes : f # e => child'[f] = child[f]
  BY <1>2, <1>4, <1>5
<1> QED
  BY <1>1, <1>2, <1>5, <1>6 DEF Turns, Rewriting

\* renders it,
LEMMA RenderTurns ==
  ASSUME MemoryTypes, NEW e \in Episodes, Render(e)
  PROVE  Turns(e) /\ child'[e].plan = NoWording
<1> DEFINE r == [child[e] EXCEPT !.at = "announce", !.plan = NoWording]
<1>2. child[e] \in ChildTypes /\ child \in [Episodes -> ChildTypes] /\ child[e].at = "translate"
  BY DEF MemoryTypes, Render, In
<1>4. child' = [child EXCEPT ![e] = r]
  BY <1>2 DEF Render
<1>5. r \in ChildTypes /\ r.plan = NoWording
  BY <1>2, PlacesKnown, Nothing DEF ChildTypes
<1> HIDE DEF r
<1>6. /\ child' \in [Episodes -> ChildTypes] /\ child'[e] = r
      /\ \A f \in Episodes : f # e => child'[f] = child[f]
  BY <1>2, <1>4, <1>5
<1> QED
  BY <1>2, <1>5, <1>6 DEF Turns, Rewriting

\* The others go on, or end.
Onward(e) == Announced(e) \/ Manifested(e) \/ Record(e) \/ Finished(e) \/ ChildLearns(e) \/ ChildAcknowledges(e)
               \/ Tidied(e) \/ ChildDies(e)

LEMMA OnwardTurns ==
  ASSUME MemoryTypes, NEW e \in Episodes, Onward(e)
  PROVE  Turns(e) /\ (child'[e].plan = child[e].plan \/ child'[e].plan = NoWording)
<1>1. \/ Ended(e)
      \/ \E x \in {"record", "finish", "learn", "acknowledge", "tidy"} : To(e, x)
      \/ child[e].at = "announce" /\ To(e, "prove")
  BY DEF Onward, Announced, Manifested, Record, Finished, ChildLearns, ChildAcknowledges, Tidied,
         ChildDies, In
<1>2. CASE Ended(e)
  BY <1>2, Ends, Nothing DEF MemoryTypes, Turns, Rewriting
<1>3. ASSUME NEW x \in {"record", "finish", "learn", "acknowledge", "tidy"}, To(e, x)
      PROVE  Turns(e) /\ child'[e].plan = child[e].plan
  BY <1>3, Goes, PlacesKnown DEF MemoryTypes, Turns, Rewriting
<1>4. ASSUME child[e].at = "announce", To(e, "prove")
      PROVE  Turns(e) /\ child'[e].plan = child[e].plan
  BY <1>4, Goes, PlacesKnown DEF MemoryTypes, Turns, Rewriting
<1> QED
  BY <1>1, <1>2, <1>3, <1>4

LEMMA ShownCounts == Shown \in Nat
<1>1. {n \in 1..MaxShown : \E e \in Episodes : shown[e].no >= n} \subseteq 1..MaxShown
  OBVIOUS
<1>2. IsFiniteSet(1..MaxShown)
  BY FS_Interval, OutboxAssumption
<1> QED
  BY <1>1, <1>2, FS_Subset, FS_CardinalityType DEF Shown

-----------------------------------------------------------------------------
(* Makers. *)

\* A text stays independent, and is so when it is applied.
LEMMA IndependentLasts ==
  ASSUME NEW w \in WordingTypes, Independent(w), made \subseteq made',
         \A t \in WordingTypes : IsFiniteSet(Makers(t)'),
         \A t \in WordingTypes : IsFiniteSet(Makers(t))
  PROVE  Independent(w)'
<1>1. PICK M : M = Makers(w)
  OBVIOUS
<1>2. PICK N : N = Makers(w)'
  OBVIOUS
<1>3. M \subseteq N
  BY <1>1, <1>2 DEF Makers
<1>4. IsFiniteSet(N) /\ IsFiniteSet(M)
  BY <1>1, <1>2
<1>5. Cardinality(M) <= Cardinality(N) /\ Cardinality(M) \in Nat /\ Cardinality(N) \in Nat
  BY <1>3, <1>4, FS_Subset, FS_CardinalityType
<1>6. Cardinality(M) >= 2
  BY <1>1 DEF Independent
<1> QED
  BY <1>2, <1>5, <1>6 DEF Independent

LEMMA AppliesIndependent ==
  ASSUME MemoryTypes, Originals, NEW w \in WordingTypes, Applies(w)
  PROVE  Independent(w)
<1>1. PICK T : T = Teachers(w)
  OBVIOUS
<1>2. PICK N : N = Makers(w)
  OBVIOUS
<1>3. ASSUME NEW t \in T PROVE t \in N
  <2>1. PICK l \in memory : l.text = w /\ l.of = t
    BY <1>1 DEF Teachers
  <2> DEFINE m == <<l.of, l.rev, l.text>>
  <2>2. m \in made /\ m[1] = t /\ m[3] = w
    BY <2>1 DEF Originals, Original
  <2> HIDE DEF m
  <2> QED
    BY <1>2, <2>2 DEF Makers
<1>4. IsFiniteSet(N)
  BY <1>2 DEF MemoryTypes
<1>5. Cardinality(T) <= Cardinality(N) /\ Cardinality(T) \in Nat /\ Cardinality(N) \in Nat
  <2>1. T \subseteq N
    BY <1>3
  <2> QED
    BY <1>4, <2>1, FS_Subset, FS_CardinalityType
<1>6. Cardinality(T) >= 2
  BY <1>1 DEF Applies
<1> QED
  BY <1>2, <1>5, <1>6 DEF Independent

\* One more text is made.
LEMMA MadeGrows ==
  ASSUME MemoryTypes, NEW x, made' = made \cup {x}
  PROVE  made \subseteq made' /\ \A w \in WordingTypes : IsFiniteSet(Makers(w)')
<1> SUFFICES ASSUME NEW w \in WordingTypes PROVE IsFiniteSet(Makers(w)')
  OBVIOUS
<1>1. PICK M : M = Makers(w)
  OBVIOUS
<1>2. PICK N : N = Makers(w)'
  OBVIOUS
<1>3. N \subseteq M \cup {x[1]}
  BY <1>1, <1>2 DEF Makers
<1>4. IsFiniteSet(M \cup {x[1]})
  BY <1>1, FS_AddElement DEF MemoryTypes
<1>5. IsFiniteSet(N)
  BY <1>3, <1>4, FS_Subset
<1> QED
  BY <1>2, <1>5

-----------------------------------------------------------------------------
(* Every step keeps the invariant. *)

\* The actions, by what they change.
LEMMA MemoryActions ==
  ASSUME [MemoryNext]_memoryVars
  PROVE  \/ UNCHANGED memoryVars
         \/ \E e \in Episodes : \/ Take(e) \/ Look(e) \/ Plan(e) \/ Render(e) \/ Announced(e) \/ Manifested(e) \/ Record(e)
                                \/ Finished(e) \/ ChildLearns(e) \/ ChildAcknowledges(e) \/ Tidied(e)
                                \/ ChildDies(e) \/ OutputLost(e) \/ MediaReplaced(e)
         \/ StartLearns \/ StartAcknowledges \/ Started \/ Restart \/ IntentDamaged
  BY DEF MemoryNext

\* Intents are damaged, acknowledged, moved away; only a record adds one.
LEMMA IntentsFew ==
  ASSUME MemoryTypes, [MemoryNext]_memoryVars
  PROVE  \/ intents' \subseteq intents
         \/ \E e \in Episodes : /\ Record(e) /\ Teaches(e) /\ Same(e) = {} /\ Sound(e)
                                /\ intents' = intents \cup {IntentOf(e)}
         \/ IntentDamaged
<1>1. ASSUME NEW e \in Episodes, Record(e)
      PROVE  \/ intents' \subseteq intents
             \/ Teaches(e) /\ Same(e) = {} /\ Sound(e) /\ intents' = intents \cup {IntentOf(e)}
  BY <1>1 DEF Record
<1>2. ASSUME NEW e \in Episodes, ChildAcknowledges(e) PROVE intents' \subseteq intents
  BY <1>2 DEF ChildAcknowledges, Acknowledged
<1>3. ASSUME StartAcknowledges PROVE intents' \subseteq intents
  BY <1>3 DEF StartAcknowledges, Acknowledged
<1>4. CASE UNCHANGED intents
  BY <1>4
<1> QED
  BY <1>1, <1>2, <1>3, <1>4, MemoryActions
     DEF memoryVars, Take, Look, Plan, Render, Announced, Manifested, Finished, ChildLearns, Tidied,
         ChildDies, OutputLost, MediaReplaced, StartLearns, Started, Restart

\* Damage leaves what an intent is of.
LEMMA DamagedIntents ==
  ASSUME MemoryTypes, IntentDamaged
  PROVE  \E i \in intents : \E j \in IntentTypes :
           /\ intents' = (intents \ {i}) \cup {j}
           /\ j.damaged /\ j.of = i.of /\ j.rev = i.rev /\ j.text = i.text
           /\ j.supplied = i.supplied
<1>1. PICK i \in intents : intents' = (intents \ {i}) \cup {[i EXCEPT !.damaged = TRUE]}
  BY DEF IntentDamaged
<1> DEFINE j == [i EXCEPT !.damaged = TRUE]
<1>2. i \in IntentTypes
  BY DEF MemoryTypes
<1>3. /\ j \in IntentTypes /\ j.damaged /\ j.of = i.of /\ j.rev = i.rev /\ j.text = i.text
      /\ j.supplied = i.supplied
  BY <1>2 DEF IntentTypes
<1> HIDE DEF j
<1> QED
  BY <1>1, <1>3 DEF j

\* What an intent is recorded with.
LEMMA IntentIs ==
  ASSUME MemoryTypes, NEW e \in Episodes
  PROVE  /\ IntentOf(e) \in IntentTypes
         /\ IntentOf(e).of = e /\ IntentOf(e).rev = shown[e].rev /\ IntentOf(e).no = shown[e].no
         /\ IntentOf(e).text = draft[e].text /\ IntentOf(e).supplied = draft[e].supplied
         /\ ~IntentOf(e).damaged
<1>1. shown[e] \in ManifestTypes /\ draft[e] \in DraftTypes
  BY DEF MemoryTypes
<1> QED
  BY <1>1 DEF IntentOf, Snapshot, IntentTypes, ManifestTypes, DraftTypes

\* What is learned was not supplied.
LEMMA Learned ==
  ASSUME MemoryTypes, Originals, [MemoryNext]_memoryVars
  PROVE  memory' = memory \/ \E i \in intents \cup start.todo : ~i.supplied /\ memory' = memory \cup {Lesson(i)}
<1>1. ASSUME NEW i \in intents \cup start.todo, memory' = Taught(i)
      PROVE  memory' = memory \/ (~i.supplied /\ memory' = memory \cup {Lesson(i)})
  BY <1>1 DEF Taught, Teachable
<1>2. ASSUME NEW e \in Episodes, ChildLearns(e)
      PROVE  memory' = memory \/ \E i \in intents : memory' = Taught(i)
  BY <1>2 DEF ChildLearns, Mine
<1>3. ASSUME StartLearns PROVE memory' = memory \/ \E i \in start.todo : memory' = Taught(i)
  BY <1>3 DEF StartLearns
<1>4. ASSUME ~StartLearns, ~\E e \in Episodes : ChildLearns(e) PROVE memory' = memory
  BY <1>4, MemoryActions
     DEF memoryVars, Take, Look, Plan, Render, Announced, Manifested, Record, Finished,
         ChildAcknowledges, Tidied, ChildDies, OutputLost, MediaReplaced, StartAcknowledges,
         Started, Restart, IntentDamaged
<1> QED
  BY <1>1, <1>2, <1>3, <1>4

\* What is learned of an intent.
LEMMA LessonIs ==
  ASSUME NEW i \in IntentTypes
  PROVE  /\ Lesson(i) \in LessonTypes /\ Lesson(i).of = i.of /\ Lesson(i).rev = i.rev
         /\ Lesson(i).text = i.text
  BY DEF Lesson, LessonTypes, IntentTypes

\* The Worker's batch only shrinks, or is made of intents.
LEMMA Batches ==
  ASSUME MemoryTypes, [MemoryNext]_memoryVars
  PROVE  /\ start' \in StartTypes
         /\ (start'.todo \subseteq start.todo \/ start'.todo \subseteq intents)
<1>0. start \in StartTypes
  BY DEF MemoryTypes
<1>1. CASE Restart
  <2>1. PICK some \in SUBSET intents : start' = [at |-> "batch", todo |-> some, one |-> NoIntent]
    BY <1>1 DEF Restart
  <2>2. some \in SUBSET IntentTypes
    BY DEF MemoryTypes
  <2> QED
    BY <2>1, <2>2 DEF StartTypes
<1>2. CASE UNCHANGED start
  BY <1>0, <1>2
<1>3. CASE StartLearns
  <2>1. PICK i \in start.todo : start' = [start EXCEPT !.one = i] \/ start' = [start EXCEPT !.todo = @ \ {i}]
    BY <1>3 DEF StartLearns
  <2>2. i \in IntentTypes /\ start.todo \ {i} \in SUBSET IntentTypes
    BY <1>0 DEF StartTypes
  <2>3. CASE start' = [start EXCEPT !.one = i]
    BY <1>0, <2>2, <2>3 DEF StartTypes
  <2>4. CASE start' = [start EXCEPT !.todo = @ \ {i}]
    BY <1>0, <2>2, <2>4 DEF StartTypes
  <2> QED
    BY <2>1, <2>3, <2>4
<1>4. CASE StartAcknowledges
  <2>1. start.todo \ {start.one} \in SUBSET IntentTypes
    BY <1>0 DEF StartTypes
  <2> QED
    BY <1>0, <1>4, <2>1 DEF StartAcknowledges, StartTypes
<1>5. CASE Started
  BY <1>0, <1>5 DEF Started, StartTypes
<1> QED
  BY <1>1, <1>2, <1>3, <1>4, <1>5, MemoryActions
     DEF memoryVars, Take, Look, Plan, Render, Announced, Manifested, Record, Finished, ChildLearns,
         ChildAcknowledges, Tidied, ChildDies, OutputLost, MediaReplaced, IntentDamaged

\* The Worker's batch consists of intents.
LEMMA TodoTyped ==
  ASSUME MemoryTypes
  PROVE  start.todo \subseteq IntentTypes
  BY DEF MemoryTypes, StartTypes

\* What every kind of step does to the drafts.
LEMMA Drafts ==
  ASSUME MemoryTypes, [MemoryNext]_memoryVars
  PROVE  \/ UNCHANGED <<draft, made>>
         \/ UNCHANGED made /\ \E e \in Episodes : draft' = [draft EXCEPT ![e] = NoDraft]
         \/ \E e \in Episodes : Render(e)
  BY MemoryActions
     DEF memoryVars, Take, Look, Plan, Announced, Manifested, Record, Finished, ChildLearns,
         ChildAcknowledges, Tidied, ChildDies, OutputLost, MediaReplaced, StartLearns,
         StartAcknowledges, Started, Restart, IntentDamaged

\* What is noted beside a draft.
LEMMA LineageIs ==
  ASSUME NEW w \in WordingTypes, NEW s \in BOOLEAN
  PROVE  Lineage(w, s) \in DraftTypes /\ Lineage(w, s).text = w /\ Lineage(w, s).supplied = s
  BY DEF Lineage, DraftTypes

\* A rendering writes what is supplied, or makes a text and says so.
LEMMA Renders ==
  ASSUME MemoryTypes, NEW e \in Episodes, Render(e)
  PROVE  \E w \in WordingTypes : \E s \in BOOLEAN :
           /\ draft' = [draft EXCEPT ![e] = Lineage(w, s)]
           /\ made' = IF s THEN made ELSE made \cup {<<e, revs[e], w>>}
           /\ s => child[e].plan # NoWording /\ w = child[e].plan
<1> DEFINE s == child[e].plan # NoWording
<1>1. child[e].plan \in WordingTypes
  BY DEF MemoryTypes, ChildTypes
<1>2. PICK w \in IF s THEN {child[e].plan} ELSE Wordings :
        draft' = [draft EXCEPT ![e] = Lineage(w, s)] /\ made' = IF s THEN made ELSE made \cup {<<e, revs[e], w>>}
  BY DEF Render
<1>3. w \in WordingTypes /\ (s => w = child[e].plan)
  BY <1>1, <1>2 DEF WordingTypes
<1>4. s \in BOOLEAN
  OBVIOUS
<1> QED
  BY <1>2, <1>3, <1>4

\* What was made stays made.
LEMMA MadeLasts ==
  ASSUME MemoryTypes, [MemoryNext]_memoryVars
  PROVE  made \subseteq made' /\ \A w \in WordingTypes : IsFiniteSet(Makers(w)')
<1>1. CASE UNCHANGED made
  BY <1>1 DEF MemoryTypes, Makers
<1>2. ASSUME NEW e \in Episodes, Render(e) PROVE made' = made \/ \E x : made' = made \cup {x}
  BY <1>2 DEF Render
<1> QED
  BY <1>1, <1>2, Drafts, MadeGrows

\* What becomes of the media, the manifests and the markers.
LEMMA Others ==
  ASSUME MemoryTypes, [MemoryNext]_memoryVars
  PROVE  /\ revs' \in [Episodes -> Nat] /\ shown' \in [Episodes -> ManifestTypes]
         /\ intact' \in [Episodes -> BOOLEAN] /\ pending' \in [Episodes -> BOOLEAN]
<1>1. UNCHANGED revs \/ \E e \in Episodes : MediaReplaced(e)
  BY MemoryActions
     DEF memoryVars, Take, Look, Plan, Render, Announced, Manifested, Record, Finished, ChildLearns,
         ChildAcknowledges, Tidied, ChildDies, OutputLost, StartLearns, StartAcknowledges, Started,
         Restart, IntentDamaged
<1>2. revs' \in [Episodes -> Nat]
  BY <1>1 DEF MemoryTypes, MediaReplaced
<1>3. UNCHANGED shown \/ \E e \in Episodes : Manifested(e)
  BY MemoryActions
     DEF memoryVars, Take, Look, Plan, Render, Announced, Record, Finished, ChildLearns,
         ChildAcknowledges, Tidied, ChildDies, OutputLost, MediaReplaced, StartLearns,
         StartAcknowledges, Started, Restart, IntentDamaged
<1>4. ASSUME NEW e \in Episodes, Manifested(e) PROVE shown' \in [Episodes -> ManifestTypes]
  <2> DEFINE m == [no |-> Shown + 1, rev |-> revs[e], text |-> draft[e].text]
  <2>1. Shown \in Nat
    BY ShownCounts
  <2>2. revs[e] \in Nat /\ draft[e].text \in WordingTypes
    BY DEF MemoryTypes, DraftTypes
  <2>3. m \in ManifestTypes
    BY <2>1, <2>2 DEF ManifestTypes
  <2>4. shown' = [shown EXCEPT ![e] = m]
    BY <1>4 DEF Manifested
  <2> HIDE DEF m
  <2> QED
    BY <2>3, <2>4 DEF MemoryTypes
<1>5. shown' \in [Episodes -> ManifestTypes]
  BY <1>3, <1>4 DEF MemoryTypes
<1>6. UNCHANGED intact \/ \E e \in Episodes : \E b \in BOOLEAN : intact' = [intact EXCEPT ![e] = b]
  <2>1. ASSUME NEW e \in Episodes, Finished(e)
        PROVE  \E b \in BOOLEAN : intact' = [intact EXCEPT ![e] = b]
    <3>1. Sound(e) \in BOOLEAN
      BY DEF Sound, Current, MemoryTypes
    <3> QED
      BY <2>1, <3>1 DEF Finished
  <2> QED
    BY <2>1, MemoryActions
     DEF memoryVars, Take, Look, Plan, Render, Announced, Manifested, Record, ChildLearns,
         ChildAcknowledges, Tidied, ChildDies, OutputLost, MediaReplaced, StartLearns,
         StartAcknowledges, Started, Restart, IntentDamaged
<1>7. UNCHANGED pending \/ \E e \in Episodes : \E b \in BOOLEAN : pending' = [pending EXCEPT ![e] = b]
  <2>1. ASSUME NEW e \in Episodes, Finished(e)
        PROVE  \E b \in BOOLEAN : pending' = [pending EXCEPT ![e] = b]
    <3> DEFINE b == ~Sound(e) /\ child[e].again
    <3>1. Sound(e) \in BOOLEAN /\ child[e].again \in BOOLEAN
      BY DEF Sound, Current, MemoryTypes, ChildTypes
    <3>2. b \in BOOLEAN /\ pending' = [pending EXCEPT ![e] = b]
      BY <2>1, <3>1 DEF Finished
    <3> QED
      BY <3>2
  <2> QED
    BY <2>1, MemoryActions
     DEF memoryVars, Take, Look, Plan, Render, Announced, Manifested, Record, ChildLearns,
         ChildAcknowledges, Tidied, ChildDies, OutputLost, MediaReplaced, StartLearns,
         StartAcknowledges, Started, Restart, IntentDamaged
<1> QED
  BY <1>2, <1>5, <1>6, <1>7 DEF MemoryTypes

\* Every child either stands still, or turns by its own action; a restart stops all.
LEMMA Children ==
  ASSUME MemoryTypes, [MemoryNext]_memoryVars
  PROVE  \/ UNCHANGED child
         \/ \E e \in Episodes :
              /\ Turns(e)
              /\ \/ child'[e].plan = child[e].plan \/ child'[e].plan = NoWording
                 \/ \E w \in WordingTypes : Split(w) /\ child'[e].plan = w
         \/ Restart
<1>1. ASSUME NEW e \in Episodes, Take(e) \/ Render(e)
      PROVE  Turns(e) /\ child'[e].plan = NoWording
  BY <1>1, TakeTurns, RenderTurns
<1>2. ASSUME NEW e \in Episodes, Look(e) \/ Onward(e)
      PROVE  Turns(e) /\ (child'[e].plan = child[e].plan \/ child'[e].plan = NoWording)
  BY <1>2, LookTurns, OnwardTurns
<1>3. ASSUME NEW e \in Episodes, Plan(e)
      PROVE  Turns(e) /\ \E w \in WordingTypes : Split(w) /\ child'[e].plan = w
  BY <1>3, PlanTurns
<1>4. \/ UNCHANGED child \/ Restart
      \/ \E e \in Episodes : Take(e) \/ Render(e) \/ Look(e) \/ Onward(e) \/ Plan(e)
  BY MemoryActions
     DEF memoryVars, Onward, OutputLost, MediaReplaced, StartLearns, StartAcknowledges, Started,
         IntentDamaged
<1> QED
  BY <1>1, <1>2, <1>3, <1>4

\* The clauses of the invariant, one by one.
LEMMA ChildTyped ==
  ASSUME MemoryTypes, [MemoryNext]_memoryVars
  PROVE  child' \in [Episodes -> ChildTypes]
<1>1. CASE Restart
  BY <1>1, Nothing DEF Restart
<1> QED
  BY <1>1, Children DEF MemoryTypes, Turns

LEMMA MemoryTypesStep ==
  ASSUME MemoryTypes, Originals, [MemoryNext]_memoryVars
  PROVE  MemoryTypes'
<1>1. child' \in [Episodes -> ChildTypes]
  BY ChildTyped
<1>2. draft' \in [Episodes -> DraftTypes]
  <2>1. ASSUME NEW e \in Episodes, Render(e) PROVE draft' \in [Episodes -> DraftTypes]
    BY <2>1, Renders, LineageIs DEF MemoryTypes
  <2> QED
    BY <2>1, Drafts, Nothing DEF MemoryTypes
<1>3. intents' \subseteq IntentTypes
  BY IntentsFew, IntentIs, DamagedIntents DEF MemoryTypes
<1>4. memory' \subseteq LessonTypes
  BY Learned, LessonIs, TodoTyped DEF MemoryTypes
<1> QED
  BY <1>1, <1>2, <1>3, <1>4, Others, Batches, MadeLasts DEF MemoryTypes

LEMMA OriginalsStep ==
  ASSUME MemoryTypes, Originals, Supplies, IntentsStand, [MemoryNext]_memoryVars
  PROVE  Originals'
<1>1. made \subseteq made'
  BY MadeLasts
<1>2. ASSUME NEW e \in Episodes, draft'[e] # NoDraft, ~draft'[e].supplied
      PROVE  <<e, revs'[e], draft'[e].text>> \in made'
  <2>1. CASE UNCHANGED draft /\ UNCHANGED revs
    BY <1>1, <1>2, <2>1 DEF Originals
  <2>2. ASSUME NEW f \in Episodes, draft' = [draft EXCEPT ![f] = NoDraft],
               \A g \in Episodes : g # f => revs'[g] = revs[g]
        PROVE  <<e, revs'[e], draft'[e].text>> \in made'
    BY <1>1, <1>2, <2>2 DEF Originals, MemoryTypes
  <2>3. ASSUME NEW f \in Episodes, Render(f)
        PROVE  <<e, revs'[e], draft'[e].text>> \in made'
    <3>1. PICK w \in WordingTypes, s \in BOOLEAN :
           /\ draft' = [draft EXCEPT ![f] = Lineage(w, s)]
           /\ made' = IF s THEN made ELSE made \cup {<<f, revs[f], w>>}
      BY <2>3, Renders
    <3>2. UNCHANGED revs
      BY <2>3 DEF Render
    <3>3. CASE e = f
      <4>1. draft'[e].text = w /\ ~s
        BY <1>2, <3>1, <3>3, LineageIs DEF MemoryTypes
      <4> QED
        BY <3>1, <3>2, <3>3, <4>1
    <3>4. CASE e # f
      BY <1>1, <1>2, <3>1, <3>2, <3>4 DEF Originals, MemoryTypes
    <3> QED
      BY <3>3, <3>4
  <2>4. \/ UNCHANGED <<draft, revs>>
        \/ \E f \in Episodes : draft' = [draft EXCEPT ![f] = NoDraft] /\ \A g \in Episodes : g # f => revs'[g] = revs[g]
        \/ \E f \in Episodes : Render(f)
    BY MemoryActions
       DEF memoryVars, MemoryTypes, Take, Look, Plan, Announced, Manifested, Record, Finished,
           ChildLearns, ChildAcknowledges, Tidied, ChildDies, OutputLost, MediaReplaced,
           StartLearns, StartAcknowledges, Started, Restart, IntentDamaged
  <2> QED
    BY <2>1, <2>2, <2>3, <2>4
<1>3. ASSUME NEW i \in intents', ~i.supplied PROVE <<i.of, i.rev, i.text>> \in made'
  <2>1. CASE intents' \subseteq intents
    BY <1>1, <1>3, <2>1 DEF Originals, Original
  <2>2. ASSUME NEW e \in Episodes, Teaches(e), Sound(e), intents' = intents \cup {IntentOf(e)}
        PROVE  <<i.of, i.rev, i.text>> \in made'
    <3>1. CASE i = IntentOf(e)
      <4>1. /\ i.of = e /\ i.rev = revs[e] /\ i.text = draft[e].text /\ ~draft[e].supplied
            /\ draft[e] # NoDraft
        BY <1>3, <2>2, <3>1, IntentIs DEF Sound, Current, Teaches, LineageFits
      <4> QED
        BY <1>1, <4>1 DEF Originals
    <3> QED
      BY <1>1, <1>3, <2>2, <3>1 DEF Originals, Original
  <2>3. CASE IntentDamaged
    BY <1>1, <1>3, <2>3, DamagedIntents DEF Originals, Original
  <2> QED
    BY <2>1, <2>2, <2>3, IntentsFew
<1>4. ASSUME NEW i \in start'.todo, ~i.supplied PROVE <<i.of, i.rev, i.text>> \in made'
  BY <1>1, <1>4, Batches DEF Originals, Original
<1>5. ASSUME NEW l \in memory' PROVE <<l.of, l.rev, l.text>> \in made'
  <2>1. CASE l \in memory
    BY <1>1, <2>1 DEF Originals, Original
  <2>2. ASSUME NEW i \in intents \cup start.todo, ~i.supplied, l = Lesson(i)
        PROVE  <<l.of, l.rev, l.text>> \in made'
    <3>1. i \in IntentTypes
      BY TodoTyped DEF MemoryTypes
    <3> QED
      BY <1>1, <2>2, <3>1, LessonIs DEF Originals, Original
  <2> QED
    BY <1>5, <2>1, <2>2, Learned
<1> QED
  BY <1>2, <1>3, <1>4, <1>5 DEF Originals, Original

LEMMA SuppliesStep ==
  ASSUME MemoryTypes, Originals, Supplies, [MemoryNext]_memoryVars
  PROVE  Supplies'
<1>1. /\ made \subseteq made' /\ (\A t \in WordingTypes : IsFiniteSet(Makers(t)))
      /\ \A t \in WordingTypes : IsFiniteSet(Makers(t)')
  BY MadeLasts DEF MemoryTypes
<1>2. ASSUME NEW w \in WordingTypes, Independent(w) PROVE Independent(w)'
  BY <1>1, <1>2, IndependentLasts
<1>3. ASSUME NEW w \in WordingTypes, Applies(w) PROVE Independent(w)'
  BY <1>2, <1>3, AppliesIndependent
<1>4. ASSUME NEW e \in Episodes, child'[e].plan # NoWording
      PROVE  \E w \in WordingTypes : w = child'[e].plan /\ Independent(w)'
  <2>1. child[e].plan \in WordingTypes
    BY DEF MemoryTypes, ChildTypes
  <2>2. CASE child'[e].plan = child[e].plan
    <3>1. Independent(child[e].plan)
      BY <1>4, <2>2 DEF Supplies
    <3>2. PICK w \in WordingTypes : w = child[e].plan
      BY <2>1
    <3>3. Independent(w)'
      BY <1>2, <3>1, <3>2
    <3>4. w = child'[e].plan
      BY <2>2, <3>2
    <3> QED
      BY <3>3, <3>4
  <2>3. ASSUME NEW w \in WordingTypes, Split(w), child'[e].plan = w
        PROVE  \E v \in WordingTypes : v = child'[e].plan /\ Independent(v)'
    <3>1. Independent(w)'
      BY <1>3, <1>4, <2>3 DEF Split
    <3> QED
      BY <2>3, <3>1
  <2>4. CASE Restart
    BY <1>4, <2>4, Nothing DEF Restart
  <2>5. child'[e].plan = child[e].plan \/ (\E w \in WordingTypes : Split(w) /\ child'[e].plan = w) \/ Restart
    <3>1. CASE UNCHANGED child
      BY <3>1
    <3>2. ASSUME NEW f \in Episodes, Turns(f),
                 \/ child'[f].plan = child[f].plan \/ child'[f].plan = NoWording
                 \/ \E w \in WordingTypes : Split(w) /\ child'[f].plan = w
          PROVE  child'[e].plan = child[e].plan \/ (\E w \in WordingTypes : Split(w) /\ child'[e].plan = w)
      BY <1>4, <3>2 DEF Turns
    <3> QED
      BY <3>1, <3>2, Children
  <2> QED
    BY <2>2, <2>3, <2>4, <2>5
<1>5. ASSUME NEW e \in Episodes, draft'[e].supplied
      PROVE  \E w \in WordingTypes : w = draft'[e].text /\ Independent(w)'
  <2>1. CASE draft'[e] = draft[e]
    <3>1. PICK w \in WordingTypes : w = draft[e].text
      BY DEF MemoryTypes, DraftTypes
    <3>2. Independent(w)
      BY <1>5, <2>1, <3>1 DEF Supplies
    <3>3. Independent(w)' /\ w = draft'[e].text
      BY <1>2, <2>1, <3>1, <3>2
    <3> QED
      BY <3>3
  <2>2. ASSUME NEW w \in WordingTypes, NEW s \in BOOLEAN,
               s => child[e].plan # NoWording /\ w = child[e].plan,
               draft'[e] = Lineage(w, s)
        PROVE  \E v \in WordingTypes : v = draft'[e].text /\ Independent(v)'
    <3>1. s /\ draft'[e].text = w
      BY <1>5, <2>2, LineageIs
    <3>2. Independent(w)
      BY <2>2, <3>1 DEF Supplies
    <3>3. Independent(w)'
      BY <1>2, <3>2
    <3> QED
      BY <3>1, <3>3
  <2>3. \/ draft'[e] = draft[e]
        \/ draft'[e] = NoDraft
        \/ \E w \in WordingTypes : \E s \in BOOLEAN :
             (s => child[e].plan # NoWording /\ w = child[e].plan) /\ draft'[e] = Lineage(w, s)
    <3>1. ASSUME NEW f \in Episodes, Render(f)
          PROVE  \/ draft'[e] = draft[e]
                 \/ \E w \in WordingTypes : \E s \in BOOLEAN :
                      (s => child[e].plan # NoWording /\ w = child[e].plan) /\ draft'[e] = Lineage(w, s)
      <4>1. PICK w \in WordingTypes, s \in BOOLEAN :
              draft' = [draft EXCEPT ![f] = Lineage(w, s)] /\ (s => child[f].plan # NoWording /\ w = child[f].plan)
        BY <3>1, Renders
      <4>2. CASE f = e
        BY <4>1, <4>2 DEF MemoryTypes
      <4>3. CASE f # e
        BY <4>1, <4>3 DEF MemoryTypes
      <4> QED
        BY <4>2, <4>3
    <3> QED
      BY <3>1, Drafts DEF MemoryTypes
  <2> QED
    BY <1>5, <2>1, <2>2, <2>3, Nothing
<1> QED
  BY <1>4, <1>5 DEF Supplies, Independent, Makers

-----------------------------------------------------------------------------
(* What an intent stands for. *)

\* What a step does to what an intent stands for: its medium, its manifest, its
\* draft, its child, its disturbance.
LEMMA StandsKept ==
  ASSUME MemoryTypes, [MemoryNext]_memoryVars, NEW e \in Episodes, e \notin disturbed',
         revs'[e] = revs[e], Sound(e),
         child[e].at \notin Rewriting
  PROVE  /\ shown'[e] = shown[e] /\ Sound(e)' /\ e \notin disturbed
         /\ draft'[e] = draft[e] \/ draft'[e] = NoDraft
         /\ child'[e].at \notin Rewriting
<1> DEFINE Kept(f) == /\ shown'[f] = shown[f] /\ intact'[f] = intact[f]
                      /\ draft'[f] = draft[f] \/ draft'[f] = NoDraft
<1>1. e \notin disturbed
  BY MemoryActions
     DEF memoryVars, Take, Look, Plan, Render, Announced, Manifested, Record, Finished, ChildLearns,
         ChildAcknowledges, Tidied, ChildDies, OutputLost, MediaReplaced, StartLearns,
         StartAcknowledges, Started, Restart, IntentDamaged
<1>2. Kept(e)
  <2>0. /\ draft \in [Episodes -> DraftTypes] /\ shown \in [Episodes -> ManifestTypes] /\ intact \in [Episodes -> BOOLEAN]
        /\ disturbed' = disturbed \/ \E f \in Episodes : OutputLost(f)
    BY MemoryActions
       DEF memoryVars, MemoryTypes, Take, Look, Plan, Render, Announced, Manifested, Record,
           Finished, ChildLearns, ChildAcknowledges, Tidied, ChildDies, MediaReplaced, StartLearns,
           StartAcknowledges, Started, Restart, IntentDamaged
  <2>1. ASSUME NEW f \in Episodes, Render(f) \/ Announced(f) \/ Manifested(f) PROVE Kept(e)
    <3>1. f # e
      BY <2>1 DEF Render, Announced, Manifested, In, Rewriting
    <3> QED
      BY <2>0, <2>1, <3>1 DEF Render, Announced, Manifested
  <2>2. ASSUME NEW f \in Episodes, Finished(f) PROVE Kept(e)
    <3>1. CASE f = e
      <4>1. intact' = [intact EXCEPT ![e] = Sound(e)] /\ intact[e] = TRUE
        BY <2>0, <2>2, <3>1 DEF Finished, Sound
      <4>2. intact'[e] = TRUE
        BY <2>0, <4>1
      <4> QED
        BY <2>2, <4>1, <4>2 DEF Finished
    <3>2. CASE f # e
      BY <2>0, <2>2, <3>2 DEF Finished
    <3> QED
      BY <3>1, <3>2
  <2>3. ASSUME NEW f \in Episodes, OutputLost(f) PROVE Kept(e)
    BY <2>0, <2>3 DEF OutputLost
  <2>4. ASSUME NEW f \in Episodes, Look(f) \/ Tidied(f) \/ MediaReplaced(f) PROVE Kept(e)
    BY <2>0, <2>4 DEF Look, Tidied, MediaReplaced
  <2>5. CASE UNCHANGED <<shown, intact, draft>>
    BY <2>5
  <2> HIDE DEF Kept
  <2> QED
    BY <2>1, <2>2, <2>3, <2>4, <2>5, MemoryActions
       DEF memoryVars, Take, Plan, Record, ChildLearns, ChildAcknowledges, ChildDies,
           StartLearns, StartAcknowledges, Started, Restart, IntentDamaged
<1>3. Sound(e)'
  BY <1>2 DEF Sound, Current
<1>4. child'[e].at \notin Rewriting
  <2>1. CASE UNCHANGED child
    BY <2>1
  <2>2. CASE Restart
    BY <2>2, Nothing DEF Restart, Rewriting
  <2>3. ASSUME NEW f \in Episodes, Turns(f) PROVE child'[e].at \notin Rewriting
    BY <2>3 DEF Turns
  <2> QED
    BY <2>1, <2>2, <2>3, Children
<1> QED
  BY <1>1, <1>2, <1>3, <1>4

\* A medium changes by a replacement only, and then it is a later one.
LEMMA RevsGrow ==
  ASSUME MemoryTypes, [MemoryNext]_memoryVars, NEW e \in Episodes
  PROVE  /\ revs[e] \in Nat /\ revs'[e] \in Nat /\ revs[e] <= revs'[e]
         /\ revs'[e] # revs[e] => revs[e] < revs'[e]
<1>1. UNCHANGED revs \/ \E f \in Episodes : MediaReplaced(f)
  BY MemoryActions
     DEF memoryVars, Take, Look, Plan, Render, Announced, Manifested, Record, Finished, ChildLearns,
         ChildAcknowledges, Tidied, ChildDies, OutputLost, StartLearns, StartAcknowledges, Started,
         Restart, IntentDamaged
<1> QED
  BY <1>1 DEF MemoryTypes, MediaReplaced

LEMMA StandingStep ==
  ASSUME MemoryTypes, Originals, IntentsStand, [MemoryNext]_memoryVars
  PROVE  IntentsStand'
<1> SUFFICES ASSUME NEW i \in intents'
             PROVE  /\ i.rev <= revs'[i.of]
                    /\ (~i.damaged /\ i.of \notin disturbed' /\ i.rev = revs'[i.of]) =>
                         /\ Sound(i.of)' /\ i.no = shown'[i.of].no /\ i.text = shown'[i.of].text
                         /\ child'[i.of].at \notin Rewriting
                         /\ draft'[i.of] = NoDraft \/ draft'[i.of].supplied = i.supplied
  <2>1. \A i \in intents' : Sound(i.of)' <=> (shown'[i.of] # NoManifest /\ shown'[i.of].rev = revs'[i.of] /\ intact'[i.of])
    BY DEF Sound, Current
  <2> QED
    BY <2>1 DEF IntentsStand, Stands, Sound, Current
<1>1. \/ \E j \in intents : j.of = i.of /\ j.rev = i.rev /\ (~i.damaged => i = j)
      \/ \E e \in Episodes : Record(e) /\ Teaches(e) /\ Sound(e) /\ i = IntentOf(e)
  <2>1. CASE IntentDamaged
    BY <2>1, DamagedIntents
  <2> QED
    BY <2>1, IntentsFew
<1>2. ASSUME NEW j \in intents, j.of = i.of, j.rev = i.rev, ~i.damaged => i = j
      PROVE  /\ i.rev <= revs'[i.of]
             /\ (~i.damaged /\ i.of \notin disturbed' /\ i.rev = revs'[i.of]) =>
                  /\ Sound(i.of)' /\ i.no = shown'[i.of].no /\ i.text = shown'[i.of].text
                  /\ child'[i.of].at \notin Rewriting
                  /\ draft'[i.of] = NoDraft \/ draft'[i.of].supplied = i.supplied
  <2>1. j.of \in Episodes /\ j.rev \in Nat
    BY DEF MemoryTypes, IntentTypes
  <2>2. j.rev <= revs[j.of]
    BY DEF IntentsStand
  <2>3. i.rev <= revs'[i.of]
    BY <1>2, <2>1, <2>2, RevsGrow
  <2>4. ASSUME ~i.damaged, i.of \notin disturbed', i.rev = revs'[i.of]
        PROVE  /\ Sound(i.of)' /\ i.no = shown'[i.of].no /\ i.text = shown'[i.of].text
               /\ child'[i.of].at \notin Rewriting
               /\ draft'[i.of] = NoDraft \/ draft'[i.of].supplied = i.supplied
    <3>1. PICK e \in Episodes : e = i.of
      BY <1>2, <2>1
    <3>2. revs'[e] = revs[e] /\ i.rev = revs[e]
      BY <1>2, <2>1, <2>2, <2>4, <3>1, RevsGrow
    <3>3. i = j
      BY <1>2, <2>4
    <3>4. e \notin disturbed
      BY <2>4, <3>1, MemoryActions
         DEF memoryVars, Take, Look, Plan, Render, Announced, Manifested, Record, Finished,
             ChildLearns, ChildAcknowledges, Tidied, ChildDies, OutputLost, MediaReplaced,
             StartLearns, StartAcknowledges, Started, Restart, IntentDamaged
    <3>5. Stands(i)
      BY <2>4, <3>1, <3>2, <3>3, <3>4 DEF IntentsStand
    <3>6. Sound(e) /\ child[e].at \notin Rewriting
      BY <3>1, <3>5 DEF Stands
    <3>7. /\ shown'[e] = shown[e] /\ Sound(e)' /\ (draft'[e] = draft[e] \/ draft'[e] = NoDraft)
          /\ child'[e].at \notin Rewriting
      BY <2>4, <3>1, <3>2, <3>6, StandsKept
    <3>8. Sound(i.of)'
      BY <3>1, <3>7 DEF Sound, Current
    <3> QED
      BY <3>1, <3>5, <3>7, <3>8 DEF Stands
  <2> QED
    BY <2>3, <2>4
<1>3. ASSUME NEW e \in Episodes, Record(e), Teaches(e), Sound(e), i = IntentOf(e)
      PROVE  /\ i.rev <= revs'[i.of]
             /\ /\ Sound(i.of)' /\ i.no = shown'[i.of].no /\ i.text = shown'[i.of].text
                /\ child'[i.of].at \notin Rewriting
                /\ draft'[i.of] = NoDraft \/ draft'[i.of].supplied = i.supplied
  <2>1. UNCHANGED <<revs, draft, shown, intact>> /\ child[e].at = "record"
    BY <1>3 DEF Record, In
  <2>2. /\ i.of = e /\ i.rev = revs[e] /\ i.no = shown[e].no /\ i.text = shown[e].text
        /\ i.supplied = draft[e].supplied
    BY <1>3, IntentIs DEF Sound, Current, Teaches, LineageFits
  <2>3. revs[e] \in Nat
    BY DEF MemoryTypes
  <2>4. Sound(i.of)'
    BY <1>3, <2>1, <2>2 DEF Sound, Current
  <2>5. child'[e].at \notin Rewriting
    BY <1>3, <2>1, OnwardTurns DEF Onward, Turns, Rewriting
  <2> QED
    BY <2>1, <2>2, <2>3, <2>4, <2>5
<1> QED
  BY <1>1, <1>2, <1>3

-----------------------------------------------------------------------------

\* The invariant holds at first and after every step.
LEMMA OutboxInit == MemoryInit => OutboxInv
<1> SUFFICES ASSUME MemoryInit PROVE OutboxInv
  OBVIOUS
<1>1. \A w \in WordingTypes : Makers(w) = {}
  BY DEF MemoryInit, Makers
<1>2. start \in StartTypes
  BY DEF MemoryInit, StartTypes
<1>3. \A w \in WordingTypes : IsFiniteSet(Makers(w))
  BY <1>1, FS_EmptySet
<1>4. \A e \in Episodes : child[e] = Resting /\ draft[e] = NoDraft
  BY DEF MemoryInit
<1> QED
  BY <1>2, <1>3, <1>4, Nothing
     DEF MemoryInit, OutboxInv, MemoryTypes, Originals, Supplies, IntentsStand, StartTypes

LEMMA OutboxNext ==
  ASSUME OutboxInv, [MemoryNext]_memoryVars
  PROVE  OutboxInv'
  BY MemoryTypesStep, OriginalsStep, SuppliesStep, StandingStep DEF OutboxInv

\* The inductive invariant holds in every state: nothing is learned, intended or
\* drafted as original that no run made, and an intent that is neither damaged
\* nor disturbed stands for its manifest.
THEOREM OutboxCorrect == MemorySpec => []OutboxInv
<1>1. OutboxInv /\ [MemoryNext]_memoryVars => OutboxInv'
  BY OutboxNext
<1> QED
  BY <1>1, OutboxInit, PTL DEF MemorySpec

\* Only texts that models made are learned, and a text is supplied only where
\* they made it in two episodes: no crash, retry or restart lets the memory learn
\* from what it supplied itself (translation_memory.py).
THEOREM MemoryIsIndependent == MemorySpec => []SuppliedIsIndependent
<1>1. OutboxInv => SuppliedIsIndependent
  BY DEF OutboxInv, Originals, Original, Supplies, Independent, SuppliedIsIndependent
<1> QED
  BY <1>1, OutboxCorrect, PTL

\* A publication that has to be finished finds no other intent under its name
\* than its own or a damaged one, unless published files were lost (translation_memory.py, the outbox).
THEOREM RetriesFindTheirIntent == MemorySpec => []RetryFindsItsIntent
<1>1. OutboxInv => RetryFindsItsIntent
  <2> SUFFICES ASSUME OutboxInv, NEW e \in Episodes, In(e, "record"), Teaches(e),
                      e \notin disturbed,
                      NEW i \in Same(e), ~i.damaged
               PROVE  i = IntentOf(e)
    BY DEF RetryFindsItsIntent
  <2>1. i \in intents /\ i.of = e /\ i.rev = revs[e] /\ i \in IntentTypes
    BY DEF Same, Key, OutboxInv, MemoryTypes
  <2>2. Stands(i)
    BY <2>1 DEF OutboxInv, IntentsStand
  <2>3. /\ i.no = shown[e].no /\ i.text = draft[e].text /\ i.supplied = draft[e].supplied
        /\ i.rev = shown[e].rev
    BY <2>1, <2>2 DEF Stands, Sound, Current, Teaches, LineageFits
  <2>4. IntentOf(e) \in IntentTypes /\ i.damaged = FALSE
    BY <2>1, IntentIs DEF OutboxInv, IntentTypes
  <2>5. i = [of |-> e, rev |-> shown[e].rev, no |-> shown[e].no, text |-> draft[e].text,
             supplied |-> draft[e].supplied, damaged |-> FALSE]
    BY <2>1, <2>3, <2>4 DEF IntentTypes
  <2> QED
    BY <2>5 DEF IntentOf, Snapshot
<1> QED
  BY <1>1, OutboxCorrect, PTL
=============================================================================
