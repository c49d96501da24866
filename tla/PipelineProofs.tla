--------------------------- MODULE PipelineProofs ---------------------------
(***************************************************************************)
(* Theorems about the passes of a job: Transcription for any number of     *)
(* jobs and repairs, TranslationRun for any transcript and size of its     *)
(* batches, ReviewAutopilot for any failures and budgets.                  *)
(***************************************************************************)
EXTENDS Transcription, TranslationRun, ReviewAutopilot, FiniteSetTheorems, TLAPS

-----------------------------------------------------------------------------
(* Transcription.  The inductive invariant TranscriptInv follows a text    *)
(* through the attempts, the gates, the repair and the swap of a job.      *)

\* Types of the texts, the verdicts on them, what the user is told, and a job's record.
SrtTypes     == [job : 0..MaxJobs, way : Ways \cup {"none", "blank"}, sound : BOOLEAN, wrapped : BOOLEAN]
VerdictTypes == [of : SrtTypes, accepted : BOOLEAN]
ToldTypes    == [of : SrtTypes, omits : BOOLEAN]
FormerTypes  == [srt : SrtTypes, told : ToldTypes]
Steps        == {"off", "recover", "cached", "passed", "fresh", "hear", "judge", "refused", "merge",
                 "finalize", "renew", "attest", "check", "settle", "fail", "retry", "told", "escalate",
                 "swap", "promote", "drop", "unmark", "back"}
Whys         == {"none", "low", "memory", "other"}
Attempted    == Ways \cup {"none"}
RunTypes     == [at : Steps, way : Attempted, why : Whys, vocals : BOOLEAN, prompted : BOOLEAN,
                 doubted : BOOLEAN, escalated : BOOLEAN, repairs : Nat,
                 former : FormerTypes, verdict : VerdictTypes]

TranscriptTypes ==
  /\ TranscriptionTypeOK /\ verdict \in VerdictTypes /\ told \in ToldTypes /\ run \in RunTypes

\* A text that may be read was passed by its gates.
Passable(s) == s \in {NoSrt, Blank} \/ s.sound

\* Where a job is: hearing, swapping the mended text in, going on to the
\* translation, or before that.
Hearing == {"fresh", "hear", "judge", "refused", "merge", "finalize", "renew", "attest", "check", "settle", "fail"}
Swapping == {"swap", "promote", "drop", "unmark", "back"}
Going    == {"passed", "told", "escalate"}
Early    == {"recover", "cached", "retry"} \cup Hearing

\* Without a mark, a text that its gates did not pass is told to be bad.
MarkedOrPassable == marked \/ Passable(srt) \/ (verdict # NoVerdict /\ ~(verdict.accepted /\ verdict.of = srt))

\* While an attempt or a swap is under way its mark is set.
MarkHeld ==
  /\ run.at \in Hearing \cup Swapping => marked
  /\ run.at \in Going \cup {"cached"} => ~marked
  /\ run.at = "retry" => marked \/ srt = NoSrt

\* What goes on was passed by its gates, and so was what a swap puts back.
TextPassed ==
  /\ run.at \in {"attest", "check", "settle"} => srt.sound
  /\ run.at \in Going => Passable(srt)
  /\ run.at = "escalate" => srt.sound
  /\ run.at \in Swapping => srt.sound /\ run.former.srt.sound

\* What is told is told of the text that stands, or of the one swapped out.
ToldOf ==
  /\ run.at \in Early \cup {"passed", "unmark"} => told = NotTold
  /\ run.at = "told" => \/ told.of = srt \/ told = NotTold \/ ~Trusted \/ ~Readable \/ helpless
  /\ run.at = "told" /\ ~run.escalated => told.of = srt
  /\ run.at = "escalate" => told.of = srt
  /\ run.at \in Swapping \cup {"escalate"} => run.escalated
  /\ run.at = "swap" => told.of = srt /\ srt = run.former.srt
  /\ run.at \in {"promote", "drop"} => told.of = run.former.srt
  /\ run.at = "back" => told = NotTold \/ told.of = run.former.srt

\* An audio that was doubted is not heard with a prompt again.
Prompts ==
  /\ run.at \in {"hear", "judge", "merge", "finalize", "renew"} /\ run.doubted => ~run.prompted
  /\ run.at = "refused" /\ run.doubted /\ run.prompted => run.why = "low"

-----------------------------------------------------------------------------
(* What a text and a job can be. *)

\* Each step, way and reason is one of its kind.
LEMMA AllSteps ==
  /\ "off" \in Steps /\ "recover" \in Steps /\ "cached" \in Steps /\ "passed" \in Steps /\ "fresh" \in Steps
  /\ "hear" \in Steps /\ "judge" \in Steps /\ "refused" \in Steps /\ "merge" \in Steps
  /\ "finalize" \in Steps /\ "renew" \in Steps /\ "attest" \in Steps /\ "check" \in Steps
  /\ "settle" \in Steps /\ "fail" \in Steps /\ "retry" \in Steps /\ "told" \in Steps
  /\ "escalate" \in Steps /\ "swap" \in Steps /\ "promote" \in Steps /\ "drop" \in Steps
  /\ "unmark" \in Steps /\ "back" \in Steps
  /\ "none" \in Attempted /\ "primary" \in Attempted /\ "fallback" \in Attempted
  /\ "memory" \in Attempted /\ "last" \in Attempted
  /\ "none" \in Whys /\ "low" \in Whys /\ "memory" \in Whys /\ "other" \in Whys
  BY DEF Steps, Attempted, Ways, Whys

\* The empty values are what their types and the gates say.
LEMMA EmptyTypes ==
  /\ NoSrt \in SrtTypes /\ Blank \in SrtTypes /\ ~NoSrt.sound /\ ~Blank.sound /\ NoSrt # Blank
  /\ NoVerdict \in VerdictTypes /\ NotTold \in ToldTypes /\ NoRun \in RunTypes
  /\ NoVerdict.accepted = FALSE /\ NotTold.omits = FALSE /\ NotTold.of = NoSrt /\ NoVerdict.of = NoSrt
  /\ Nothing \in FormerTypes /\ Nothing.srt = NoSrt /\ Nothing.told = NotTold
<1>1. NoSrt \in SrtTypes /\ Blank \in SrtTypes /\ ~NoSrt.sound /\ ~Blank.sound /\ NoSrt # Blank
  <2>1. 0 \in 0..MaxJobs
    BY TranscriptionAssumption
  <2>2. NoSrt \in SrtTypes /\ ~NoSrt.sound /\ NoSrt.way = "none"
    BY <2>1 DEF NoSrt, SrtTypes
  <2>3. Blank \in SrtTypes /\ Blank.sound = NoSrt.sound /\ Blank.way = "blank"
    BY <2>2 DEF Blank, SrtTypes
  <2> QED
    BY <2>2, <2>3
<1>2. NoVerdict \in VerdictTypes /\ NotTold \in ToldTypes /\ NoVerdict.accepted = FALSE
      /\ NotTold.omits = FALSE /\ NotTold.of = NoSrt /\ NoVerdict.of = NoSrt
  BY <1>1 DEF NoVerdict, NotTold, VerdictTypes, ToldTypes
<1>3. Nothing \in FormerTypes /\ Nothing.srt = NoSrt /\ Nothing.told = NotTold
  BY <1>1, <1>2 DEF Nothing, FormerTypes
<1>4. NoRun \in RunTypes
  <2>1. PICK f \in FormerTypes, v \in VerdictTypes : f = Nothing /\ v = NoVerdict
    BY <1>2, <1>3
  <2>2. NoRun = [at |-> "off", way |-> "none", why |-> "none", vocals |-> FALSE, prompted |-> FALSE,
                 doubted |-> FALSE, escalated |-> FALSE, repairs |-> 0, former |-> f, verdict |-> v]
    BY <2>1 DEF NoRun
  <2> QED
    BY <2>1, <2>2, AllSteps DEF RunTypes
<1> QED
  BY <1>1, <1>2, <1>3, <1>4

\* Closing a text leaves it, empties it, or tells it to be bad.
LEMMA ClosedText ==
  ASSUME NEW s \in SrtTypes, verdict \in VerdictTypes, NEW c \in Closed(s)
  PROVE  /\ c[1] \in SrtTypes /\ c[2] \in VerdictTypes
         /\ \/ c[1] \in {NoSrt, Blank}
            \/ c = <<s, verdict>> /\ c[1] = s /\ c[2] = verdict
            \/ c[1] = s /\ c[2] # NoVerdict /\ ~c[2].accepted /\ c[2].of = s
<1>1. [of |-> s, accepted |-> FALSE] \in VerdictTypes
  BY DEF VerdictTypes
<1>2. s # NoSrt => [of |-> s, accepted |-> FALSE] # NoVerdict
  BY EmptyTypes
<1>3. \/ c = <<NoSrt, NoVerdict>> \/ c = <<NoSrt, verdict>> \/ c = <<Blank, verdict>> \/ c = <<s, verdict>>
      \/ s # NoSrt /\ c = <<s, [of |-> s, accepted |-> FALSE]>>
  BY DEF Closed
<1>4. c[1] \in SrtTypes /\ c[2] \in VerdictTypes
  <2>1. c[1] \in {NoSrt, Blank, s}
    BY <1>3
  <2>2. c[2] \in {NoVerdict, verdict, [of |-> s, accepted |-> FALSE]}
    BY <1>3
  <2> QED
    BY <1>1, <2>1, <2>2, EmptyTypes
<1> QED
  BY <1>2, <1>3, <1>4

LEMMA JudgementTypes ==
  ASSUME verdict \in VerdictTypes, NEW s \in SrtTypes, NEW oks \in SUBSET BOOLEAN,
         NEW v \in Judgements(s, oks)
  PROVE  v \in VerdictTypes
  BY DEF Judgements, Says, VerdictTypes

LEMMA AllWays == "merged" \in Ways /\ "mended" \in Ways /\ "heardAgain" \in Ways
  BY DEF Ways

\* A text an attempt writes is none of the empty ones.
LEMMA NewText ==
  ASSUME jobs \in 0..MaxJobs, NEW w \in Ways, NEW b \in BOOLEAN
  PROVE  /\ [job |-> jobs, way |-> w, sound |-> b, wrapped |-> FALSE] \in SrtTypes
         /\ [job |-> jobs, way |-> w, sound |-> b, wrapped |-> FALSE] \notin {NoSrt, Blank}
  BY DEF SrtTypes, NoSrt, Blank, Ways

\* What becomes of the record of the job.
LEMMA Proceeds ==
  ASSUME run \in RunTypes, NEW x \in Steps, Proceed(x)
  PROVE  /\ run' \in RunTypes /\ run'.at = x
         /\ run'.way = run.way /\ run'.why = run.why /\ run'.prompted = run.prompted
         /\ run'.doubted = run.doubted /\ run'.escalated = run.escalated /\ run'.former = run.former
         /\ run'.verdict = run.verdict
  BY DEF RunTypes, Proceed

\* A job that ends leaves no record.
LEMMA Ended == ASSUME JobEnds PROVE run' \in RunTypes /\ run'.at = "off"
<1>1. NoRun.at = "off"
  BY DEF NoRun
<1> QED
  BY <1>1, EmptyTypes DEF JobEnds

\* A refusal notes its reason, and that the audio is doubted.
LEMMA RefusedTypes ==
  ASSUME run \in RunTypes, NEW w \in {"low", "memory", "other"}, Refused(w)
  PROVE  /\ run' \in RunTypes /\ run'.at = "refused" /\ run'.why = w /\ run'.prompted = run.prompted
         /\ run'.doubted = (run.doubted \/ w = "low")
<1> DEFINE d == run.doubted \/ w = "low"
<1>1. d \in BOOLEAN /\ run' = [run EXCEPT !.at = "refused", !.why = w, !.doubted = d]
  BY DEF Refused, RunTypes
<1> HIDE DEF d
<1>2. w \in Whys
  BY AllSteps
<1>3. /\ run' \in RunTypes /\ run'.at = "refused" /\ run'.why = w
      /\ run'.prompted = run.prompted /\ run'.doubted = d
  BY <1>1, <1>2, AllSteps DEF RunTypes
<1> QED
  BY <1>3 DEF d

\* The next attempt has no prompt after a refusal for low confidence.
LEMMA Falls ==
  ASSUME run \in RunTypes, FallJapanese \/ FallOther
  PROVE  /\ run.at = "refused" /\ run' \in RunTypes /\ run'.at \in {"renew", "merge"}
         /\ run'.prompted => run.prompted /\ run.why # "low"
         /\ run'.doubted = run.doubted
         /\ UNCHANGED <<srtFiles, jobFixed, told, given, helpless>>
<1>1. PICK to \in {"renew", "merge"}, p \in BOOLEAN :
        /\ run' = [run EXCEPT !.at = to, !.way = "fallback", !.prompted = p]
        /\ p => run.prompted /\ run.why # "low"
  <2>1. CASE FallJapanese
    <3> DEFINE p == run.prompted /\ run.why # "low"
    <3>1. p \in BOOLEAN /\ (p => run.prompted /\ run.why # "low")
      BY DEF RunTypes
    <3>2. \E to \in {"renew", "merge"} : run' = [run EXCEPT !.at = to, !.way = "fallback", !.prompted = p]
      BY <2>1 DEF FallJapanese, Fall
    <3> HIDE DEF p
    <3> QED
      BY <3>1, <3>2
  <2>2. CASE FallOther
    BY <2>2 DEF FallOther, Fall
  <2> QED
    BY <2>1, <2>2
<1>2. run.at = "refused" /\ UNCHANGED <<srtFiles, jobFixed, told, given, helpless>>
  BY DEF FallJapanese, FallOther, Fall, Is
<1>3. run' \in RunTypes /\ run'.at = to /\ run'.prompted = p /\ run'.doubted = run.doubted
  BY <1>1, AllSteps DEF RunTypes
<1> QED
  BY <1>1, <1>2, <1>3

\* A job starts with nothing told.
LEMMA Starts ==
  ASSUME StartJob
  PROVE  /\ run.at = "off" /\ run' \in RunTypes /\ run'.at = "recover" /\ told' = NotTold /\ given = Nothing
         /\ jobs < MaxJobs /\ jobs' = jobs + 1
         /\ UNCHANGED <<srtFiles, japanese, diagnosing, given, helpless>>
<1>1. PICK v \in BOOLEAN : run' = [NoRun EXCEPT !.at = "recover", !.vocals = v]
  BY DEF StartJob
<1>2. run' \in RunTypes /\ run'.at = "recover"
  BY <1>1, EmptyTypes, AllSteps DEF RunTypes
<1> QED
  BY <1>2 DEF StartJob, Is

\* The gates pass a sound text only.
LEMMA Judges ==
  ASSUME run \in RunTypes, Judge
  PROVE  /\ run.at = "judge" /\ run' \in RunTypes
         /\ \/ srt.sound /\ srt' = srt /\ run'.at \in {"attest", "check"}
            \/ srt' \in {srt, NoSrt} /\ run'.at = "refused" /\ (run'.doubted => run.doubted \/ run'.why = "low")
         /\ run'.prompted = run.prompted
         /\ UNCHANGED <<marked, jobFixed, told, given, helpless>>
<1>1. run.at = "judge" /\ UNCHANGED <<marked, jobFixed, told, given, helpless>>
  BY DEF Judge, Is
<1>2. CASE srt.sound /\ srt' = srt /\ (Proceed("attest") \/ Proceed("check"))
  BY <1>1, <1>2, Proceeds, AllSteps
<1>3. CASE srt' \in {srt, NoSrt} /\ (Refused("low") \/ Refused("other"))
  BY <1>1, <1>3, RefusedTypes
<1> QED
  BY <1>2, <1>3 DEF Judge

\* The repair of lines ends, or escalates once.
LEMMA LinesRepaired ==
  ASSUME run \in RunTypes, RepairLines
  PROVE  /\ run.at = "told" /\ told.omits /\ run' \in RunTypes
         /\ UNCHANGED <<srtFiles, jobFixed, given, helpless>>
         /\ \/ run'.at = "off" /\ told' \in {told, NotTold}
            \/ /\ Readable /\ \E o \in BOOLEAN : told' = [told EXCEPT !.omits = o]
               /\ run'.at \in {"told", "escalate"} /\ run'.escalated
               /\ run'.at = "escalate" => ~run.escalated
<1>1. run.at = "told" /\ told.omits /\ UNCHANGED <<srtFiles, jobFixed, given, helpless>>
  BY DEF RepairLines, Is
<1>2. CASE ~run.escalated /\ Readable
           /\ \E o \in BOOLEAN : /\ told' = [told EXCEPT !.omits = o]
                                 /\ run' = [run EXCEPT !.at = IF o THEN "escalate" ELSE "told", !.escalated = TRUE]
  <2>1. PICK o \in BOOLEAN : /\ told' = [told EXCEPT !.omits = o]
                             /\ run' = [run EXCEPT !.at = IF o THEN "escalate" ELSE "told", !.escalated = TRUE]
    BY <1>2
  <2>2. PICK x \in {"escalate", "told"} : run' = [run EXCEPT !.at = x, !.escalated = TRUE]
    BY <2>1
  <2>3. run' \in RunTypes /\ run'.at = x /\ run'.escalated
    BY <2>2, AllSteps DEF RunTypes
  <2> QED
    BY <1>1, <1>2, <2>1, <2>3
<1>3. CASE /\ run.escalated /\ Readable /\ \E o \in BOOLEAN : told' = [told EXCEPT !.omits = o]
           /\ run' = [run EXCEPT !.repairs = @ + 1]
  <2>1. run.repairs + 1 \in Nat
    BY DEF RunTypes
  <2>2. run' \in RunTypes /\ run'.at = run.at /\ run'.escalated = run.escalated
    BY <1>3, <2>1 DEF RunTypes
  <2> QED
    BY <1>1, <1>3, <2>2
<1>4. CASE JobEnds /\ told' \in {told, NotTold}
  BY <1>1, <1>4, Ended
<1> QED
  BY <1>2, <1>3, <1>4 DEF RepairLines

\* Ranges heard again are swapped in under a mark, or given up.
LEMMA RangesHeard ==
  ASSUME run \in RunTypes, srt \in SrtTypes, verdict \in VerdictTypes, HearRanges
  PROVE  /\ run.at = "escalate" /\ run' \in RunTypes
         /\ \/ run'.at = "swap" /\ marked' /\ run'.former.srt = srt /\ run'.verdict = verdict
            \/ run'.at = "told" /\ marked' = marked
         /\ run'.escalated = run.escalated
         /\ UNCHANGED <<srt, verdict, jobFixed, told, given, helpless>>
<1>1. run.at = "escalate" /\ UNCHANGED <<srt, verdict, jobFixed, told, given, helpless>>
  BY DEF HearRanges, Is
<1>2. CASE /\ marked' = TRUE
           /\ run' = [run EXCEPT !.at = "swap", !.former = [Nothing EXCEPT !.srt = srt], !.verdict = verdict]
  <2>1. PICK f \in FormerTypes : f = [Nothing EXCEPT !.srt = srt] /\ f.srt = srt
    <3>1. Nothing \in FormerTypes
      BY EmptyTypes
    <3>2. [Nothing EXCEPT !.srt = srt] \in FormerTypes /\ [Nothing EXCEPT !.srt = srt].srt = srt
      BY <3>1 DEF FormerTypes
    <3> QED
      BY <3>2
  <2>2. run' = [run EXCEPT !.at = "swap", !.former = f, !.verdict = verdict]
    BY <1>2, <2>1
  <2>3. run' \in RunTypes /\ run'.at = "swap" /\ run'.former = f /\ run'.verdict = verdict
        /\ run'.escalated = run.escalated
    BY <2>2, AllSteps DEF RunTypes
  <2> QED
    BY <1>1, <1>2, <2>1, <2>3
<1>3. CASE Proceed("told") /\ marked' = marked
  BY <1>1, <1>3, Proceeds, AllSteps
<1> QED
  BY <1>2, <1>3 DEF HearRanges

LEMMA NoneTypes == NoSrt \in SrtTypes /\ NoVerdict \in VerdictTypes
  BY EmptyTypes

LEMMA SaysTypes == ASSUME NEW s \in SrtTypes, NEW b \in BOOLEAN PROVE Says(s, b) \in VerdictTypes
  BY DEF Says, VerdictTypes

LEMMA ClosedTypes ==
  ASSUME verdict \in VerdictTypes, NEW s \in SrtTypes, NEW c \in Closed(s)
  PROVE  c[1] \in SrtTypes /\ c[2] \in VerdictTypes
  BY ClosedText

\* The types of the record, action by action.
LEMMA RunTypesStep ==
  ASSUME run \in RunTypes, srt \in SrtTypes, verdict \in VerdictTypes, told \in ToldTypes,
         jobs \in 0..MaxJobs, marked \in BOOLEAN, TranscriptionNext
  PROVE  run' \in RunTypes
<1>1. CASE FallJapanese \/ FallOther
  BY <1>1, Falls DEF srtFiles, jobFixed
<1>2. CASE StartJob
  BY <1>2, Starts DEF srtFiles, jobFixed
<1>3. CASE RecoverPending
  BY <1>3, AllSteps, Proceeds, Ended
     DEF RecoverPending, Is
<1>4. CASE UseCached
  BY <1>4, AllSteps, Proceeds, Ended
     DEF UseCached, Is
<1>5. CASE ClearVerdict
  BY <1>5, AllSteps, Proceeds
     DEF ClearVerdict, Is, RunTypes
<1>6. CASE HearAudio
  BY <1>6, AllSteps, Proceeds, RefusedTypes
     DEF HearAudio, Is
<1>7. CASE Judge
  BY <1>7, Judges DEF srtFiles, jobFixed
<1>8. CASE MergeRanges
  BY <1>8, AllSteps, Proceeds
     DEF MergeRanges, Is
<1>9. CASE FinalizeMerged
  BY <1>9, AllSteps, Proceeds
     DEF FinalizeMerged, Is
<1>10. CASE Renew
  BY <1>10, AllSteps, Proceeds
     DEF Renew, Is
<1>11. CASE LessMemory
  BY <1>11, AllSteps
     DEF LessMemory, Is, RunTypes
<1>12. CASE Last
  BY <1>12, AllSteps
     DEF Last, Is, RunTypes
<1>13. CASE Attest
  BY <1>13, AllSteps, Proceeds
     DEF Attest, Is
<1>14. CASE NoOtherWay
  BY <1>14, AllSteps, Proceeds
     DEF NoOtherWay, Is
<1>15. CASE Fragments
  BY <1>15, AllSteps, Proceeds
     DEF Fragments, Is
<1>16. CASE BeginCommitOfSrt
  BY <1>16, AllSteps, Proceeds
     DEF BeginCommitOfSrt, Is
<1>17. CASE CheckFresh
  BY <1>17, AllSteps, Proceeds
     DEF CheckFresh, Is
<1>18. CASE SettleSrt
  BY <1>18, AllSteps, Proceeds
     DEF SettleSrt, Is
<1>19. CASE FailAttempt
  BY <1>19, AllSteps, Proceeds, Ended
     DEF FailAttempt, Is
<1>20. CASE RetryOriginal
  BY <1>20, AllSteps, Ended
     DEF RetryOriginal, Is, RunTypes
<1>21. CASE HandOver
  BY <1>21, AllSteps, Ended
     DEF HandOver, Is
<1>22. CASE TranslateSource
  BY <1>22, AllSteps, Proceeds, Ended
     DEF TranslateSource, Is
<1>23. CASE RepairLines
  BY <1>23, LinesRepaired DEF srtFiles, jobFixed
<1>24. CASE HearRanges
  BY <1>24, RangesHeard DEF srtFiles, jobFixed
<1>25. CASE Swap
  BY <1>25, AllSteps, Proceeds
     DEF Swap, Is
<1>26. CASE Promote
  BY <1>26, AllSteps, Proceeds
     DEF Promote, Is
<1>27. CASE DropTold
  BY <1>27, AllSteps, Proceeds
     DEF DropTold, Is
<1>28. CASE Unmark
  BY <1>28, AllSteps, Proceeds
     DEF Unmark, Is, Again
<1>29. CASE RollBack
  BY <1>29, AllSteps, Proceeds, Ended
     DEF RollBack, Is, Again
<1>30. CASE PublishSrt
  BY <1>30, AllSteps, Ended
     DEF PublishSrt, Is
<1>31. CASE Dies
  BY <1>31, AllSteps, Ended
     DEF Dies, Is
<1> QED
  BY <1>1, <1>2, <1>3, <1>4, <1>5, <1>6, <1>7, <1>8, <1>9, <1>10, <1>11, <1>12, <1>13, <1>14, <1>15,
        <1>16, <1>17, <1>18, <1>19, <1>20, <1>21, <1>22, <1>23, <1>24, <1>25, <1>26, <1>27, <1>28,
        <1>29, <1>30, <1>31
     DEF TranscriptionNext, Attempts, Commits, Onward

\* The types of the text and of the verdict on it.
LEMMA TextTypesStep ==
  ASSUME run \in RunTypes, srt \in SrtTypes, verdict \in VerdictTypes, told \in ToldTypes,
         jobs \in 0..MaxJobs, marked \in BOOLEAN, TranscriptionNext
  PROVE  (srt \in SrtTypes /\ verdict \in VerdictTypes)'
<1>1. CASE StartJob \/ FallJapanese \/ FallOther \/ NoOtherWay \/ BeginCommitOfSrt \/ SettleSrt \/
        HandOver
  BY <1>1, SaysTypes, NoneTypes
     DEF StartJob, srtFiles, FallJapanese, Fall, FallOther, NoOtherWay, BeginCommitOfSrt, SettleSrt,
        HandOver
<1>2. CASE TranslateSource \/ RepairLines \/ HearRanges \/ DropTold \/ Unmark \/ PublishSrt \/ Dies
  BY <1>2 DEF TranslateSource, srtFiles, RepairLines, HearRanges, DropTold, Unmark, PublishSrt, Dies
<1>3. CASE RecoverPending
  BY <1>3, ClosedTypes, NoneTypes
     DEF RecoverPending, srtFiles
<1>4. CASE UseCached
  BY <1>4, ClosedTypes, NoneTypes
     DEF UseCached, srtFiles
<1>5. CASE ClearVerdict
  BY <1>5, NoneTypes
     DEF ClearVerdict
<1>6. CASE HearAudio
  <2>1. run.at = "hear" /\ verdict' = verdict
    BY <1>6 DEF HearAudio, Is
  <2>2. srt' = srt \/ \E s \in BOOLEAN : srt' = [job |-> jobs, way |-> run.way, sound |-> s, wrapped |-> FALSE]
    BY <1>6 DEF HearAudio
  <2>3. \A s \in BOOLEAN : [job |-> jobs, way |-> run.way, sound |-> s, wrapped |-> FALSE] \in SrtTypes
    <3>1. run.way \in Ways \cup {"none", "blank"}
      BY DEF RunTypes, Attempted
    <3> QED
      BY <3>1 DEF SrtTypes
  <2> QED
    BY <2>1, <2>2, <2>3
<1>7. CASE Judge
  BY <1>7, JudgementTypes, NoneTypes, SaysTypes
     DEF Judge
<1>8. CASE MergeRanges
  BY <1>8, SaysTypes, NewText, AllWays
     DEF MergeRanges
<1>9. CASE FinalizeMerged
  BY <1>9, JudgementTypes, SaysTypes
     DEF FinalizeMerged
<1>10. CASE Renew
  BY <1>10, NoneTypes
     DEF Renew, Cleared
<1>11. CASE LessMemory
  BY <1>11, NoneTypes
     DEF LessMemory, Cleared
<1>12. CASE Last
  BY <1>12, NoneTypes
     DEF Last, Cleared
<1>13. CASE Attest
  BY <1>13, NoneTypes, SaysTypes
     DEF Attest
<1>14. CASE Fragments
  BY <1>14, ClosedTypes, NoneTypes, SaysTypes, NewText, AllWays
     DEF Fragments
<1>15. CASE CheckFresh
  <2>1. \/ srt' = srt /\ verdict' = verdict
        \/ srt' = [srt EXCEPT !.wrapped = TRUE] /\ verdict' = NoVerdict
    BY <1>15 DEF CheckFresh
  <2>2. [srt EXCEPT !.wrapped = TRUE] \in SrtTypes
    BY DEF SrtTypes
  <2> QED
    BY <2>1, <2>2, NoneTypes
<1>16. CASE FailAttempt
  BY <1>16, ClosedTypes, NoneTypes
     DEF FailAttempt
<1>17. CASE RetryOriginal
  BY <1>17, NoneTypes
     DEF RetryOriginal, Cleared, srtFiles
<1>18. CASE Swap
  BY <1>18, NewText, AllWays
     DEF Swap
<1>19. CASE Promote
  BY <1>19, SaysTypes
     DEF Promote
<1>20. CASE RollBack
  <2>1. run.former.srt \in SrtTypes /\ run.verdict \in VerdictTypes
    BY DEF RunTypes, FormerTypes
  <2> QED
    BY <1>20, <2>1, ClosedTypes DEF RollBack
<1> QED
  BY <1>1, <1>2, <1>3, <1>4, <1>5, <1>6, <1>7, <1>8, <1>9, <1>10, <1>11, <1>12, <1>13, <1>14, <1>15,
        <1>16, <1>17, <1>18, <1>19, <1>20
     DEF TranscriptionNext, Attempts, Commits, Onward

\* Each clause of the invariant is kept by each action: the marks,
LEMMA MarkHeldStep ==
  ASSUME run \in RunTypes, srt \in SrtTypes, verdict \in VerdictTypes, told \in ToldTypes,
         jobs \in 0..MaxJobs, marked \in BOOLEAN, MarkHeld, TranscriptionNext
  PROVE  MarkHeld'
<1> USE DEF MarkHeld, Hearing, Swapping, Going
<1>1. CASE FallJapanese \/ FallOther
  BY <1>1, Falls DEF srtFiles, jobFixed
<1>2. CASE StartJob
  BY <1>2, Starts DEF srtFiles, jobFixed
<1>3. CASE RecoverPending
  BY <1>3, AllSteps, Proceeds, Ended
     DEF RecoverPending, Is, srtFiles, jobFixed
<1>4. CASE UseCached
  BY <1>4, AllSteps, Proceeds, Ended
     DEF UseCached, Is, srtFiles, jobFixed
<1>5. CASE ClearVerdict
  BY <1>5, AllSteps, Proceeds
     DEF ClearVerdict, Is, jobFixed, RunTypes
<1>6. CASE HearAudio
  BY <1>6, AllSteps, Proceeds, RefusedTypes
     DEF HearAudio, Is, jobFixed
<1>7. CASE Judge
  BY <1>7, Judges DEF srtFiles, jobFixed
<1>8. CASE MergeRanges
  BY <1>8, AllSteps, Proceeds
     DEF MergeRanges, Is, jobFixed
<1>9. CASE FinalizeMerged
  BY <1>9, AllSteps, Proceeds
     DEF FinalizeMerged, Is, jobFixed
<1>10. CASE Renew
  BY <1>10, AllSteps, Proceeds
     DEF Renew, Is, Cleared, jobFixed
<1>11. CASE LessMemory
  BY <1>11, AllSteps
     DEF LessMemory, Is, Cleared, jobFixed, RunTypes
<1>12. CASE Last
  BY <1>12, AllSteps
     DEF Last, Is, Cleared, jobFixed, RunTypes
<1>13. CASE Attest
  BY <1>13, AllSteps, Proceeds
     DEF Attest, Is, jobFixed
<1>14. CASE NoOtherWay
  BY <1>14, AllSteps, Proceeds
     DEF NoOtherWay, Is, srtFiles, jobFixed
<1>15. CASE Fragments
  BY <1>15, AllSteps, Proceeds
     DEF Fragments, Is, jobFixed
<1>16. CASE BeginCommitOfSrt
  BY <1>16, AllSteps, Proceeds
     DEF BeginCommitOfSrt, Is, jobFixed
<1>17. CASE CheckFresh
  BY <1>17, AllSteps, Proceeds
     DEF CheckFresh, Is, jobFixed
<1>18. CASE SettleSrt
  BY <1>18, AllSteps, Proceeds
     DEF SettleSrt, Is, jobFixed
<1>19. CASE FailAttempt
  BY <1>19, AllSteps, Proceeds, Ended
     DEF FailAttempt, Is, jobFixed
<1>20. CASE RetryOriginal
  BY <1>20, AllSteps, Ended
     DEF RetryOriginal, Is, Cleared, srtFiles, jobFixed, RunTypes
<1>21. CASE HandOver
  BY <1>21, AllSteps, Ended
     DEF HandOver, Is, srtFiles, jobFixed
<1>22. CASE TranslateSource
  BY <1>22, AllSteps, Proceeds, Ended
     DEF TranslateSource, Is, srtFiles, jobFixed
<1>23. CASE RepairLines
  BY <1>23, LinesRepaired DEF srtFiles, jobFixed
<1>24. CASE HearRanges
  BY <1>24, RangesHeard DEF srtFiles, jobFixed
<1>25. CASE Swap
  BY <1>25, AllSteps, Proceeds
     DEF Swap, Is, jobFixed
<1>26. CASE Promote
  BY <1>26, AllSteps, Proceeds
     DEF Promote, Is, jobFixed
<1>27. CASE DropTold
  BY <1>27, AllSteps, Proceeds
     DEF DropTold, Is, srtFiles, jobFixed
<1>28. CASE Unmark
  BY <1>28, AllSteps, Proceeds
     DEF Unmark, Is, Again, jobFixed
<1>29. CASE RollBack
  BY <1>29, AllSteps, Proceeds, Ended
     DEF RollBack, Is, Again, jobFixed
<1>30. CASE PublishSrt
  BY <1>30, AllSteps, Ended
     DEF PublishSrt, Is, srtFiles, jobFixed
<1>31. CASE Dies
  BY <1>31, AllSteps, Ended
     DEF Dies, Is, srtFiles, jobFixed
<1> QED
  BY <1>1, <1>2, <1>3, <1>4, <1>5, <1>6, <1>7, <1>8, <1>9, <1>10, <1>11, <1>12, <1>13, <1>14, <1>15,
        <1>16, <1>17, <1>18, <1>19, <1>20, <1>21, <1>22, <1>23, <1>24, <1>25, <1>26, <1>27, <1>28,
        <1>29, <1>30, <1>31
     DEF TranscriptionNext, Attempts, Commits, Onward

\* the prompts,
LEMMA PromptsStep ==
  ASSUME run \in RunTypes, srt \in SrtTypes, verdict \in VerdictTypes, told \in ToldTypes,
         jobs \in 0..MaxJobs, marked \in BOOLEAN, Prompts, TranscriptionNext
  PROVE  Prompts'
<1> USE DEF Prompts
<1>1. CASE FallJapanese \/ FallOther
  BY <1>1, Falls DEF srtFiles, jobFixed
<1>2. CASE StartJob
  BY <1>2, Starts DEF srtFiles, jobFixed
<1>3. CASE RecoverPending
  BY <1>3, AllSteps, Proceeds, Ended
     DEF RecoverPending, Is
<1>4. CASE UseCached
  BY <1>4, AllSteps, Proceeds, Ended
     DEF UseCached, Is
<1>5. CASE ClearVerdict
  BY <1>5, AllSteps, Proceeds
     DEF ClearVerdict, Is, RunTypes
<1>6. CASE HearAudio
  BY <1>6, AllSteps, Proceeds, RefusedTypes
     DEF HearAudio, Is
<1>7. CASE Judge
  BY <1>7, Judges DEF srtFiles, jobFixed
<1>8. CASE MergeRanges
  BY <1>8, AllSteps, Proceeds
     DEF MergeRanges, Is
<1>9. CASE FinalizeMerged
  BY <1>9, AllSteps, Proceeds
     DEF FinalizeMerged, Is
<1>10. CASE Renew
  BY <1>10, AllSteps, Proceeds
     DEF Renew, Is
<1>11. CASE LessMemory
  BY <1>11, AllSteps
     DEF LessMemory, Is, RunTypes
<1>12. CASE Last
  BY <1>12, AllSteps
     DEF Last, Is, RunTypes
<1>13. CASE Attest
  BY <1>13, AllSteps, Proceeds
     DEF Attest, Is
<1>14. CASE NoOtherWay
  BY <1>14, AllSteps, Proceeds
     DEF NoOtherWay, Is
<1>15. CASE Fragments
  BY <1>15, AllSteps, Proceeds
     DEF Fragments, Is
<1>16. CASE BeginCommitOfSrt
  BY <1>16, AllSteps, Proceeds
     DEF BeginCommitOfSrt, Is
<1>17. CASE CheckFresh
  BY <1>17, AllSteps, Proceeds
     DEF CheckFresh, Is
<1>18. CASE SettleSrt
  BY <1>18, AllSteps, Proceeds
     DEF SettleSrt, Is
<1>19. CASE FailAttempt
  BY <1>19, AllSteps, Proceeds, Ended
     DEF FailAttempt, Is
<1>20. CASE RetryOriginal
  BY <1>20, AllSteps, Ended
     DEF RetryOriginal, Is, RunTypes
<1>21. CASE HandOver
  BY <1>21, AllSteps, Ended
     DEF HandOver, Is
<1>22. CASE TranslateSource
  BY <1>22, AllSteps, Proceeds, Ended
     DEF TranslateSource, Is
<1>23. CASE RepairLines
  BY <1>23, LinesRepaired DEF srtFiles, jobFixed
<1>24. CASE HearRanges
  BY <1>24, RangesHeard DEF srtFiles, jobFixed
<1>25. CASE Swap
  BY <1>25, AllSteps, Proceeds
     DEF Swap, Is
<1>26. CASE Promote
  BY <1>26, AllSteps, Proceeds
     DEF Promote, Is
<1>27. CASE DropTold
  BY <1>27, AllSteps, Proceeds
     DEF DropTold, Is
<1>28. CASE Unmark
  BY <1>28, AllSteps, Proceeds
     DEF Unmark, Is, Again
<1>29. CASE RollBack
  BY <1>29, AllSteps, Proceeds, Ended
     DEF RollBack, Is, Again
<1>30. CASE PublishSrt
  BY <1>30, AllSteps, Ended
     DEF PublishSrt, Is
<1>31. CASE Dies
  BY <1>31, AllSteps, Ended
     DEF Dies, Is
<1> QED
  BY <1>1, <1>2, <1>3, <1>4, <1>5, <1>6, <1>7, <1>8, <1>9, <1>10, <1>11, <1>12, <1>13, <1>14, <1>15,
        <1>16, <1>17, <1>18, <1>19, <1>20, <1>21, <1>22, <1>23, <1>24, <1>25, <1>26, <1>27, <1>28,
        <1>29, <1>30, <1>31
     DEF TranscriptionNext, Attempts, Commits, Onward

\* what goes on,
LEMMA TextPassedStep ==
  ASSUME run \in RunTypes, srt \in SrtTypes, verdict \in VerdictTypes, told \in ToldTypes,
         jobs \in 0..MaxJobs, marked \in BOOLEAN, MarkHeld, MarkedOrPassable, TextPassed,
         TranscriptionNext
  PROVE  TextPassed'
<1> USE DEF TextPassed, Passable, Hearing, Swapping, Going
<1>1. CASE FallJapanese \/ FallOther
  BY <1>1, Falls DEF srtFiles, jobFixed
<1>2. CASE StartJob
  BY <1>2, Starts DEF srtFiles, jobFixed
<1>3. CASE RecoverPending
  BY <1>3, AllSteps, Proceeds, Ended, ClosedText
     DEF RecoverPending, Is, srtFiles, jobFixed
<1>4. CASE UseCached
  <2>1. run.at = "cached" /\ ~marked
    BY <1>4 DEF UseCached, Is, MarkHeld
  <2>2. CASE Trusted /\ Proceed("passed") /\ srt' = srt
    <3>1. Passable(srt)
      BY <2>1, <2>2 DEF MarkedOrPassable, Trusted
    <3> QED
      BY <2>2, <3>1, AllSteps, Proceeds
  <2>3. CASE Proceed("cached") \/ JobEnds
    BY <2>3, AllSteps, Proceeds, Ended
  <2> QED
    BY <1>4, <2>2, <2>3 DEF UseCached, srtFiles
<1>5. CASE ClearVerdict
  BY <1>5, AllSteps, Proceeds
     DEF ClearVerdict, Is, jobFixed, RunTypes
<1>6. CASE HearAudio
  BY <1>6, AllSteps, Proceeds, RefusedTypes
     DEF HearAudio, Is, jobFixed
<1>7. CASE Judge
  BY <1>7, Judges DEF srtFiles, jobFixed
<1>8. CASE MergeRanges
  BY <1>8, AllSteps, Proceeds
     DEF MergeRanges, Is, jobFixed
<1>9. CASE FinalizeMerged
  BY <1>9, AllSteps, Proceeds
     DEF FinalizeMerged, Is, jobFixed
<1>10. CASE Renew
  BY <1>10, AllSteps, Proceeds
     DEF Renew, Is, Cleared, jobFixed
<1>11. CASE LessMemory
  BY <1>11, AllSteps
     DEF LessMemory, Is, Cleared, jobFixed, RunTypes
<1>12. CASE Last
  BY <1>12, AllSteps
     DEF Last, Is, Cleared, jobFixed, RunTypes
<1>13. CASE Attest
  BY <1>13, AllSteps, Proceeds
     DEF Attest, Is, jobFixed
<1>14. CASE NoOtherWay
  BY <1>14, AllSteps, Proceeds
     DEF NoOtherWay, Is, srtFiles, jobFixed
<1>15. CASE Fragments
  <2>1. CASE run' = run /\ run.at = "refused"
    BY <2>1
  <2>2. CASE srt' = [job |-> jobs, way |-> "mended", sound |-> TRUE, wrapped |-> FALSE] /\ Proceed("check")
    BY <2>2, AllSteps, Proceeds
  <2> QED
    BY <1>15, <2>1, <2>2 DEF Fragments, Is
<1>16. CASE BeginCommitOfSrt
  BY <1>16, AllSteps, Proceeds
     DEF BeginCommitOfSrt, Is, jobFixed
<1>17. CASE CheckFresh
  <2>1. run.at = "check" /\ srt.sound
    BY <1>17 DEF CheckFresh, Is
  <2>2. srt' = srt \/ srt' = [srt EXCEPT !.wrapped = TRUE]
    BY <1>17 DEF CheckFresh
  <2>3. srt'.sound
    BY <2>1, <2>2 DEF SrtTypes
  <2>4. Proceed("settle") \/ Proceed("fail")
    BY <1>17 DEF CheckFresh
  <2> QED
    BY <2>3, <2>4, AllSteps, Proceeds
<1>18. CASE SettleSrt
  BY <1>18, AllSteps, Proceeds
     DEF SettleSrt, Is, jobFixed
<1>19. CASE FailAttempt
  BY <1>19, AllSteps, Proceeds, Ended, ClosedText
     DEF FailAttempt, Is, jobFixed
<1>20. CASE RetryOriginal
  BY <1>20, AllSteps, Ended
     DEF RetryOriginal, Is, Cleared, srtFiles, jobFixed, RunTypes
<1>21. CASE HandOver
  BY <1>21, AllSteps, Ended
     DEF HandOver, Is, Readable, srtFiles, jobFixed
<1>22. CASE TranslateSource
  BY <1>22, AllSteps, Proceeds, Ended
     DEF TranslateSource, Is, Readable, srtFiles, jobFixed
<1>23. CASE RepairLines
  BY <1>23, LinesRepaired DEF srtFiles, jobFixed, Readable
<1>24. CASE HearRanges
  BY <1>24, RangesHeard DEF srtFiles, jobFixed
<1>25. CASE Swap
  <2>1. run.at = "swap" /\ srt.sound /\ run.former.srt.sound
    BY <1>25 DEF Swap, Is
  <2>2. srt'.sound
    BY <1>25, <2>1 DEF Swap
  <2>3. Proceed("promote") \/ Proceed("told")
    BY <1>25 DEF Swap
  <2> QED
    BY <2>1, <2>2, <2>3, AllSteps, Proceeds
<1>26. CASE Promote
  BY <1>26, AllSteps, Proceeds
     DEF Promote, Is, jobFixed
<1>27. CASE DropTold
  BY <1>27, AllSteps, Proceeds
     DEF DropTold, Is, srtFiles, jobFixed
<1>28. CASE Unmark
  BY <1>28, AllSteps, Proceeds
     DEF Unmark, Is, Again, jobFixed
<1>29. CASE RollBack
  <2>1. run.at = "back" /\ srt.sound /\ run.former.srt.sound /\ run.former.srt \in SrtTypes
    BY <1>29 DEF RollBack, Is, RunTypes, FormerTypes
  <2>2. Passable(srt')
    <3>1. CASE srt' = run.former.srt
      BY <2>1, <3>1
    <3>2. CASE \E c \in Closed(srt) \cup Closed(run.former.srt) : srt' = c[1]
      BY <2>1, <3>2, ClosedText
    <3> QED
      BY <1>29, <3>1, <3>2 DEF RollBack
  <2>3. Proceed("passed") \/ Proceed("told") \/ JobEnds
    BY <1>29 DEF RollBack, Again
  <2> QED
    BY <2>2, <2>3, AllSteps, Proceeds, Ended
<1>30. CASE PublishSrt
  BY <1>30, AllSteps, Ended
     DEF PublishSrt, Is, Readable, srtFiles, jobFixed
<1>31. CASE Dies
  BY <1>31, AllSteps, Ended
     DEF Dies, Is, srtFiles, jobFixed
<1> QED
  BY <1>1, <1>2, <1>3, <1>4, <1>5, <1>6, <1>7, <1>8, <1>9, <1>10, <1>11, <1>12, <1>13, <1>14, <1>15,
        <1>16, <1>17, <1>18, <1>19, <1>20, <1>21, <1>22, <1>23, <1>24, <1>25, <1>26, <1>27, <1>28,
        <1>29, <1>30, <1>31
     DEF TranscriptionNext, Attempts, Commits, Onward

\* what stands without a mark,
LEMMA MarkedStep ==
  ASSUME run \in RunTypes, srt \in SrtTypes, verdict \in VerdictTypes, told \in ToldTypes,
         jobs \in 0..MaxJobs, marked \in BOOLEAN, MarkHeld, TextPassed, MarkedOrPassable,
         TranscriptionNext
  PROVE  MarkedOrPassable'
<1> USE DEF MarkHeld, TextPassed, MarkedOrPassable, Hearing, Swapping, Going
<1>1. CASE FallJapanese \/ FallOther
  BY <1>1, Falls DEF srtFiles, jobFixed
<1>2. CASE StartJob
  BY <1>2, Starts DEF srtFiles, jobFixed
<1>3. CASE RecoverPending
  <2>1. CASE srt' = srt /\ verdict' = verdict /\ marked' = marked
    BY <2>1
  <2>2. CASE marked'
    BY <2>2
  <2>3. CASE srt' = NoSrt
    BY <2>3 DEF Passable
  <2> QED
    BY <1>3, <2>1, <2>2, <2>3 DEF RecoverPending, srtFiles
<1>4. CASE UseCached
  <2>1. CASE srt' = srt /\ verdict' = verdict /\ marked' = marked
    BY <2>1
  <2>2. CASE \E c \in Closed(srt) : srt' = c[1] /\ verdict' = c[2] /\ marked' = marked
    <3>1. PICK c \in Closed(srt) : srt' = c[1] /\ verdict' = c[2] /\ marked' = marked
      BY <2>2
    <3>2. CASE c[1] \in {NoSrt, Blank}
      BY <3>1, <3>2 DEF Passable
    <3>3. CASE c[1] = srt /\ c[2] = verdict
      BY <3>1, <3>3
    <3>4. CASE c[1] = srt /\ c[2] # NoVerdict /\ ~c[2].accepted
      BY <3>1, <3>4
    <3> QED
      BY <3>2, <3>3, <3>4, ClosedText
  <2> QED
    BY <1>4, <2>1, <2>2 DEF UseCached, srtFiles
<1>5. CASE ClearVerdict
  BY <1>5, AllSteps, Proceeds
     DEF ClearVerdict, Is, jobFixed, RunTypes
<1>6. CASE HearAudio
  BY <1>6, AllSteps, Proceeds, RefusedTypes
     DEF HearAudio, Is, jobFixed
<1>7. CASE Judge
  BY <1>7, Judges DEF srtFiles, jobFixed
<1>8. CASE MergeRanges
  BY <1>8, AllSteps, Proceeds
     DEF MergeRanges, Is, jobFixed
<1>9. CASE FinalizeMerged
  BY <1>9, AllSteps, Proceeds
     DEF FinalizeMerged, Is, jobFixed
<1>10. CASE Renew
  BY <1>10, AllSteps, Proceeds
     DEF Renew, Is, Cleared, jobFixed
<1>11. CASE LessMemory
  BY <1>11, AllSteps
     DEF LessMemory, Is, Cleared, jobFixed, RunTypes
<1>12. CASE Last
  BY <1>12, AllSteps
     DEF Last, Is, Cleared, jobFixed, RunTypes
<1>13. CASE Attest
  BY <1>13, AllSteps, Proceeds
     DEF Attest, Is, jobFixed
<1>14. CASE NoOtherWay
  BY <1>14, AllSteps, Proceeds
     DEF NoOtherWay, Is, srtFiles, jobFixed
<1>15. CASE Fragments
  BY <1>15, AllSteps, Proceeds, ClosedText
     DEF Fragments, Is, jobFixed
<1>16. CASE BeginCommitOfSrt
  BY <1>16, AllSteps, Proceeds
     DEF BeginCommitOfSrt, Is, jobFixed
<1>17. CASE CheckFresh
  BY <1>17, AllSteps, Proceeds
     DEF CheckFresh, Is, jobFixed
<1>18. CASE SettleSrt
  <2>1. run.at = "settle" /\ srt.sound /\ srt' = srt
    BY <1>18 DEF SettleSrt, Is
  <2> QED
    BY <2>1 DEF Passable
<1>19. CASE FailAttempt
  <2>1. run.at = "fail" /\ marked
    BY <1>19 DEF FailAttempt, Is
  <2>2. marked' \/ srt' = NoSrt
    BY <1>19, <2>1 DEF FailAttempt
  <2> QED
    BY <2>2 DEF Passable
<1>20. CASE RetryOriginal
  BY <1>20 DEF RetryOriginal, Cleared, srtFiles, Passable
<1>21. CASE HandOver
  BY <1>21, AllSteps, Ended
     DEF HandOver, Is, srtFiles, jobFixed
<1>22. CASE TranslateSource
  BY <1>22, AllSteps, Proceeds, Ended
     DEF TranslateSource, Is, srtFiles, jobFixed
<1>23. CASE RepairLines
  BY <1>23, LinesRepaired DEF srtFiles, jobFixed
<1>24. CASE HearRanges
  BY <1>24, RangesHeard DEF srtFiles, jobFixed
<1>25. CASE Swap
  <2>1. run.at = "swap" /\ srt.sound /\ marked
    BY <1>25 DEF Swap, Is
  <2>2. marked' = marked \/ srt' = srt
    BY <1>25 DEF Swap
  <2> QED
    BY <2>1, <2>2 DEF Passable
<1>26. CASE Promote
  BY <1>26, AllSteps, Proceeds
     DEF Promote, Is, jobFixed
<1>27. CASE DropTold
  BY <1>27, AllSteps, Proceeds
     DEF DropTold, Is, srtFiles, jobFixed
<1>28. CASE Unmark
  <2>1. run.at = "unmark" /\ srt.sound /\ srt' = srt
    BY <1>28 DEF Unmark, Is
  <2> QED
    BY <2>1 DEF Passable
<1>29. CASE RollBack
  <2>1. run.at = "back" /\ srt.sound /\ run.former.srt.sound /\ run.former.srt \in SrtTypes
    BY <1>29 DEF RollBack, Is, RunTypes, FormerTypes
  <2>2. CASE srt' = run.former.srt
    BY <2>1, <2>2 DEF Passable
  <2>3. CASE \E c \in Closed(srt) \cup Closed(run.former.srt) : srt' = c[1]
    <3>1. srt' \in {NoSrt, Blank, srt, run.former.srt}
      BY <2>1, <2>3, ClosedText
    <3> QED
      BY <2>1, <3>1 DEF Passable
  <2> QED
    BY <1>29, <2>2, <2>3 DEF RollBack
<1>30. CASE PublishSrt
  BY <1>30, AllSteps, Ended
     DEF PublishSrt, Is, srtFiles, jobFixed
<1>31. CASE Dies
  BY <1>31, AllSteps, Ended
     DEF Dies, Is, srtFiles, jobFixed
<1> QED
  BY <1>1, <1>2, <1>3, <1>4, <1>5, <1>6, <1>7, <1>8, <1>9, <1>10, <1>11, <1>12, <1>13, <1>14, <1>15,
        <1>16, <1>17, <1>18, <1>19, <1>20, <1>21, <1>22, <1>23, <1>24, <1>25, <1>26, <1>27, <1>28,
        <1>29, <1>30, <1>31
     DEF TranscriptionNext, Attempts, Commits, Onward

\* and what is told of which text.
LEMMA ToldOfStep ==
  ASSUME run \in RunTypes, srt \in SrtTypes, verdict \in VerdictTypes, told \in ToldTypes,
         jobs \in 0..MaxJobs, marked \in BOOLEAN, MarkHeld, TextPassed, ToldOf, TranscriptionNext
  PROVE  ToldOf'
<1> USE DEF ToldOf, Early, Hearing, Swapping
<1>1. CASE FallJapanese \/ FallOther
  BY <1>1, Falls DEF srtFiles, jobFixed
<1>2. CASE StartJob
  BY <1>2, Starts DEF srtFiles, jobFixed
<1>3. CASE RecoverPending
  BY <1>3, AllSteps, Proceeds, Ended
     DEF RecoverPending, Is
<1>4. CASE UseCached
  BY <1>4, AllSteps, Proceeds, Ended
     DEF UseCached, Is, Trusted
<1>5. CASE ClearVerdict
  BY <1>5, AllSteps, Proceeds
     DEF ClearVerdict, Is, RunTypes
<1>6. CASE HearAudio
  BY <1>6, AllSteps, Proceeds, RefusedTypes
     DEF HearAudio, Is
<1>7. CASE Judge
  BY <1>7, Judges DEF srtFiles, jobFixed
<1>8. CASE MergeRanges
  BY <1>8, AllSteps, Proceeds
     DEF MergeRanges, Is
<1>9. CASE FinalizeMerged
  BY <1>9, AllSteps, Proceeds
     DEF FinalizeMerged, Is
<1>10. CASE Renew
  BY <1>10, AllSteps, Proceeds
     DEF Renew, Is, Cleared
<1>11. CASE LessMemory
  BY <1>11, AllSteps
     DEF LessMemory, Is, Cleared, RunTypes
<1>12. CASE Last
  BY <1>12, AllSteps
     DEF Last, Is, Cleared, RunTypes
<1>13. CASE Attest
  BY <1>13, AllSteps, Proceeds
     DEF Attest, Is
<1>14. CASE NoOtherWay
  BY <1>14, AllSteps, Proceeds
     DEF NoOtherWay, Is
<1>15. CASE Fragments
  BY <1>15, AllSteps, Proceeds
     DEF Fragments, Is
<1>16. CASE BeginCommitOfSrt
  BY <1>16, AllSteps, Proceeds
     DEF BeginCommitOfSrt, Is
<1>17. CASE CheckFresh
  BY <1>17, AllSteps, Proceeds
     DEF CheckFresh, Is, Trusted
<1>18. CASE SettleSrt
  BY <1>18, AllSteps, Proceeds
     DEF SettleSrt, Is
<1>19. CASE FailAttempt
  BY <1>19, AllSteps, Proceeds, Ended
     DEF FailAttempt, Is
<1>20. CASE RetryOriginal
  BY <1>20, AllSteps, Ended
     DEF RetryOriginal, Is, Cleared, RunTypes
<1>21. CASE HandOver
  BY <1>21, AllSteps, Ended
     DEF HandOver, Is
<1>22. CASE TranslateSource
  <2>1. CASE told' = told /\ JobEnds
    BY <2>1, Ended
  <2>2. CASE (\E o \in BOOLEAN : told' = [of |-> srt, omits |-> o]) /\ Proceed("told") /\ srt' = srt
    BY <2>2, AllSteps, Proceeds
  <2> QED
    BY <1>22, <2>1, <2>2 DEF TranslateSource, srtFiles
<1>23. CASE RepairLines
  <2>1. run.at = "told" /\ UNCHANGED <<srt, verdict, helpless>>
    BY <1>23, LinesRepaired DEF srtFiles
  <2>2. CASE run'.at = "off"
    BY <2>2
  <2>3. CASE run'.at # "off"
    <3>1. PICK o \in BOOLEAN : told' = [told EXCEPT !.omits = o]
      BY <1>23, <2>3, LinesRepaired
    <3>2. told'.of = told.of /\ Readable
      BY <1>23, <2>3, <3>1, LinesRepaired DEF ToldTypes
    <3>3. told = NotTold => told'.of = NotTold.of
      BY <3>2
    <3>4. told # NotTold
      BY <1>23, LinesRepaired, EmptyTypes
    <3>5. told'.of = srt' \/ ~Trusted' \/ helpless'
      BY <2>1, <3>2, <3>4 DEF Trusted
    <3>6. /\ run'.at \in {"told", "escalate"} /\ run'.escalated
          /\ (run'.at = "escalate" => ~run.escalated)
      BY <1>23, <2>3, LinesRepaired
    <3>7. run'.at = "escalate" => told'.of = srt'
      BY <2>1, <3>2, <3>6
    <3> QED
      BY <3>5, <3>6, <3>7
  <2> QED
    BY <2>2, <2>3
<1>24. CASE HearRanges
  BY <1>24, RangesHeard DEF srtFiles, jobFixed
<1>25. CASE Swap
  BY <1>25, AllSteps, Proceeds
     DEF Swap, Is
<1>26. CASE Promote
  BY <1>26, AllSteps, Proceeds
     DEF Promote, Is
<1>27. CASE DropTold
  BY <1>27, AllSteps, Proceeds
     DEF DropTold, Is
<1>28. CASE Unmark
  BY <1>28, AllSteps, Proceeds
     DEF Unmark, Is, Again
<1>29. CASE RollBack
  <2>1. run.at = "back" /\ srt \in SrtTypes /\ run.former.srt \in SrtTypes /\ told' = told
        /\ (told = NotTold \/ told.of = run.former.srt)
    BY <1>29 DEF RollBack, Is, RunTypes, FormerTypes
  <2>2. told = NotTold \/ told.of = srt' \/ ~Trusted' \/ ~Readable' \/ helpless'
    <3>1. CASE srt' = run.former.srt
      BY <2>1, <3>1
    <3>2. CASE \E c \in Closed(srt) \cup Closed(run.former.srt) :
                 srt' = c[1] /\ verdict' = c[2] /\ helpless' = (helpless \/ c = <<srt, verdict>>)
      <4>1. PICK c \in Closed(srt) \cup Closed(run.former.srt) :
              srt' = c[1] /\ verdict' = c[2] /\ helpless' = (helpless \/ c = <<srt, verdict>>)
        BY <3>2
      <4>2. CASE c[1] \in {NoSrt, Blank}
        BY <4>1, <4>2 DEF Readable
      <4>3. CASE c = <<srt, verdict>>
        BY <4>1, <4>3
      <4>4. CASE c[1] = run.former.srt
        BY <2>1, <4>1, <4>4
      <4>5. CASE c[2] # NoVerdict /\ ~c[2].accepted
        BY <4>1, <4>5 DEF Trusted
      <4> QED
        BY <2>1, <4>2, <4>3, <4>4, <4>5, ClosedText
    <3> QED
      BY <1>29, <3>1, <3>2 DEF RollBack
  <2>3. \/ run'.at = "off"
        \/ run'.at = "passed" /\ told = NotTold
        \/ run'.at = "told" /\ told # NotTold /\ run'.escalated = run.escalated
    BY <1>29, <2>1, AllSteps, Proceeds, Ended DEF RollBack, Again
  <2> QED
    BY <2>1, <2>2, <2>3
<1>30. CASE PublishSrt
  BY <1>30, AllSteps, Ended
     DEF PublishSrt, Is, Trusted
<1>31. CASE Dies
  BY <1>31, AllSteps, Ended
     DEF Dies, Is
<1> QED
  BY <1>1, <1>2, <1>3, <1>4, <1>5, <1>6, <1>7, <1>8, <1>9, <1>10, <1>11, <1>12, <1>13, <1>14, <1>15,
        <1>16, <1>17, <1>18, <1>19, <1>20, <1>21, <1>22, <1>23, <1>24, <1>25, <1>26, <1>27, <1>28,
        <1>29, <1>30, <1>31
     DEF TranscriptionNext, Attempts, Commits, Onward

LEMMA ToldTypesStep ==
  ASSUME run \in RunTypes, srt \in SrtTypes, told \in ToldTypes, TranscriptionNext
  PROVE  told' \in ToldTypes
<1>1. CASE told' = told \/ told' = NotTold
  BY <1>1, EmptyTypes
<1>2. CASE TranslateSource
  BY <1>1, <1>2 DEF TranslateSource, ToldTypes
<1>3. CASE RepairLines
  <2>1. CASE \E o \in BOOLEAN : told' = [told EXCEPT !.omits = o]
    BY <2>1 DEF ToldTypes
  <2> QED
    BY <1>1, <1>3, <2>1, LinesRepaired
<1> QED
  BY <1>1, <1>2, <1>3
     DEF TranscriptionNext, Attempts, Commits, Onward, StartJob, RecoverPending, UseCached,
     ClearVerdict, HearAudio, Judge, FallJapanese, FallOther, Fall, MergeRanges, FinalizeMerged, Renew,
     LessMemory, Last, Attest, NoOtherWay, Fragments, BeginCommitOfSrt, CheckFresh, SettleSrt, FailAttempt,
     RetryOriginal, HandOver, HearRanges, Swap, Promote, DropTold, Unmark, RollBack, PublishSrt, Dies

LEMMA SimpleTypesStep ==
  ASSUME {japanese, diagnosing, marked, helpless} \subseteq BOOLEAN, jobs \in 0..MaxJobs,
         TranscriptionNext
  PROVE  {japanese, diagnosing, marked, helpless}' \subseteq BOOLEAN /\ jobs' \in 0..MaxJobs
<1>1. CASE StartJob
  BY <1>1, TranscriptionAssumption DEF StartJob, srtFiles
<1>2. CASE RecoverPending \/ UseCached \/ Dies
  BY <1>2 DEF RecoverPending, UseCached, Dies, jobFixed, srtFiles
<1>3. CASE Attempts
  BY <1>3 DEF Attempts, ClearVerdict, HearAudio, Judge, FallJapanese, FallOther, Fall, MergeRanges,
     FinalizeMerged, Renew, LessMemory, Last, Attest, NoOtherWay, Fragments, jobFixed, srtFiles
<1>4. CASE BeginCommitOfSrt \/ CheckFresh \/ SettleSrt \/ RetryOriginal
  BY <1>4 DEF BeginCommitOfSrt, CheckFresh, SettleSrt, RetryOriginal, jobFixed, srtFiles
<1>5. CASE FailAttempt
  <2>1. marked' \in BOOLEAN
    BY <1>5 DEF FailAttempt
  <2> QED
    BY <1>5, <2>1 DEF FailAttempt, jobFixed
<1>6. CASE HandOver \/ TranslateSource \/ RepairLines \/ HearRanges \/ Swap \/ Promote \/ DropTold \/ Unmark
           \/ PublishSrt
  BY <1>6
     DEF HandOver, TranslateSource, RepairLines, HearRanges, Swap, Promote, DropTold, Unmark,
         PublishSrt, jobFixed, srtFiles
<1>7. CASE RollBack
  <2>1. helpless' \in BOOLEAN
    BY <1>7 DEF RollBack
  <2>2. marked' \in BOOLEAN
    BY <1>7 DEF RollBack
  <2> QED
    BY <1>7, <2>1, <2>2 DEF RollBack, jobFixed
<1> QED
  BY <1>1, <1>2, <1>3, <1>4, <1>5, <1>6, <1>7 DEF TranscriptionNext, Commits, Onward

\* Why the transcript that goes on is sound: what the translation is of.
LEMMA GivenStep ==
  ASSUME srt \in SrtTypes, MarkHeld, MarkedOrPassable, TextPassed, ToldOf, GoesOnSound,
         TranscriptionNext
  PROVE  GoesOnSound'
<1> USE DEF GoesOnSound
<1>1. CASE given' = given /\ (helpless => helpless')
  BY <1>1
<1>2. CASE HandOver
  <2>1. CASE Readable /\ given' = [srt |-> srt, told |-> NotTold]
    <3>1. srt.sound
      BY <1>2, <2>1 DEF HandOver, Is, TextPassed, Going, Passable, Readable
    <3> QED
      BY <2>1, <3>1
  <2> QED
    BY <1>1, <1>2, <2>1 DEF HandOver
<1>3. CASE PublishSrt
  <2>1. CASE Trusted /\ Readable /\ given' = [srt |-> srt, told |-> told]
    <3>1. srt.sound
      BY <1>3, <2>1 DEF PublishSrt, Is, TextPassed, Going, Passable, Readable
    <3>2. CASE run.at = "passed"
      BY <2>1, <3>1, <3>2 DEF ToldOf
    <3>3. CASE run.at = "told" /\ ~told.omits
      <4>1. helpless \/ told = NotTold \/ told.of = srt
        BY <2>1, <3>3 DEF ToldOf
      <4> QED
        BY <1>3, <2>1, <3>1, <3>3, <4>1 DEF PublishSrt
    <3> QED
      BY <1>3, <3>2, <3>3 DEF PublishSrt, Is
  <2> QED
    BY <1>1, <1>3, <2>1 DEF PublishSrt
<1> QED
  BY <1>1, <1>2, <1>3
     DEF TranscriptionNext, Attempts, Commits, Onward, StartJob, RecoverPending, UseCached,
     ClearVerdict, HearAudio, Judge, FallJapanese, FallOther, Fall, MergeRanges, FinalizeMerged, Renew,
     LessMemory, Last, Attest, NoOtherWay, Fragments, BeginCommitOfSrt, CheckFresh, SettleSrt, FailAttempt,
     RetryOriginal, TranslateSource, RepairLines, HearRanges, Swap, Promote, DropTold, Unmark, RollBack, Dies

-----------------------------------------------------------------------------
(* The theorems. *)

\* The inductive invariant.
TranscriptInv ==
  TranscriptTypes /\ MarkHeld /\ MarkedOrPassable /\ TextPassed /\ ToldOf /\ Prompts /\ GoesOnSound

LEMMA TranscriptInit == TranscriptionInit => TranscriptInv
<1> SUFFICES ASSUME TranscriptionInit PROVE TranscriptInv
  OBVIOUS
<1> USE DEF TranscriptionInit
<1>1. NoRun.at = "off"
  BY DEF NoRun
<1>2. TranscriptTypes
  <2>1. jobs \in 0..MaxJobs
    BY TranscriptionAssumption
  <2>2. TranscriptionTypeOK
    BY <2>1, EmptyTypes DEF TranscriptionTypeOK, SrtTypes
  <2> QED
    BY <2>2, EmptyTypes DEF TranscriptTypes
<1>3. MarkHeld /\ MarkedOrPassable /\ TextPassed /\ ToldOf /\ Prompts
  BY <1>1
     DEF MarkHeld, MarkedOrPassable, TextPassed, ToldOf, Prompts, Passable, Hearing, Swapping,
         Going, Early
<1>4. GoesOnSound
  BY DEF GoesOnSound
<1> QED
  BY <1>2, <1>3, <1>4 DEF TranscriptInv

LEMMA TranscriptStep == TranscriptInv /\ [TranscriptionNext]_transcriptionVars => TranscriptInv'
<1> SUFFICES ASSUME TranscriptInv, [TranscriptionNext]_transcriptionVars PROVE TranscriptInv'
  OBVIOUS
<1>1. /\ run \in RunTypes /\ srt \in SrtTypes /\ verdict \in VerdictTypes /\ told \in ToldTypes
      /\ jobs \in 0..MaxJobs /\ marked \in BOOLEAN /\ {japanese, diagnosing, marked, helpless} \subseteq BOOLEAN
      /\ MarkHeld /\ MarkedOrPassable /\ TextPassed /\ ToldOf /\ Prompts /\ GoesOnSound
  BY DEF TranscriptInv, TranscriptTypes, TranscriptionTypeOK, SrtTypes
<1>2. CASE TranscriptionNext
  <2>1. run' \in RunTypes /\ srt' \in SrtTypes /\ verdict' \in VerdictTypes
    BY <1>1, <1>2, RunTypesStep, TextTypesStep
  <2>2. /\ told' \in ToldTypes
        /\ {japanese, diagnosing, marked, helpless}' \subseteq BOOLEAN
        /\ jobs' \in 0..MaxJobs
    BY <1>1, <1>2, ToldTypesStep, SimpleTypesStep
  <2>3. TranscriptTypes'
    BY <2>1, <2>2 DEF TranscriptTypes, TranscriptionTypeOK, SrtTypes
  <2>4. MarkHeld' /\ TextPassed' /\ MarkedOrPassable'
    BY <1>1, <1>2, MarkHeldStep, TextPassedStep, MarkedStep
  <2>5. ToldOf' /\ Prompts' /\ GoesOnSound'
    BY <1>1, <1>2, ToldOfStep, PromptsStep, GivenStep
  <2> QED
    BY <2>3, <2>4, <2>5 DEF TranscriptInv
<1>3. CASE UNCHANGED transcriptionVars
  <2>1. UNCHANGED <<srt, verdict, marked, japanese, diagnosing, jobs, told, given, run, helpless>>
    BY <1>3 DEF transcriptionVars, srtFiles, jobFixed
  <2> QED
    BY <1>1, <2>1
       DEF TranscriptInv, TranscriptTypes, TranscriptionTypeOK, SrtTypes, MarkHeld,
           MarkedOrPassable, TextPassed, ToldOf, Prompts, GoesOnSound, Passable, Trusted, Readable
<1> QED
  BY <1>2, <1>3

\* The inductive invariant holds in every state: while an attempt or a swap is
\* under way its mark is set, and a text without a mark was passed by its gates
\* or is told to be bad.
THEOREM TranscriptionCorrect == TranscriptionSpec => []TranscriptInv
  BY TranscriptInit, TranscriptStep, PTL DEF TranscriptionSpec

\* The type invariant.
THEOREM TranscriptionTypeCorrect == TranscriptionSpec => []TranscriptionTypeOK
<1>1. TranscriptInv => TranscriptionTypeOK
  BY DEF TranscriptInv, TranscriptTypes
<1> QED
  BY <1>1, TranscriptionCorrect, PTL

\* Whatever attempts, repairs, rollbacks and deaths came before, only a text its
\* gates passed goes on, and a translation is published only beside its own text.
THEOREM OnlySoundGoesOn == TranscriptionSpec => []GoesOnSound
<1>1. TranscriptInv => GoesOnSound
  BY DEF TranscriptInv
<1> QED
  BY <1>1, TranscriptionCorrect, PTL

\* After a refusal for low confidence no later attempt on that audio has a prompt.
THEOREM PromptsEnd == TranscriptionSpec => []PromptNotRepeated
<1>1. TranscriptInv => PromptNotRepeated
  BY DEF TranscriptInv, Prompts, PromptNotRepeated, Is
<1> QED
  BY <1>1, TranscriptionCorrect, PTL

-----------------------------------------------------------------------------
(* TranslationRun.  The inductive invariant RunInv says which lines are    *)
(* told: those of the batches behind the run, and those of the current     *)
(* batch that no waiting part holds.                                       *)

\* A line that is done: from this transcript, good or left out and named.
IsDone(t, o, s, l) ==
  /\ t[l].of = s /\ t[l].as \in {"good", "omitted"}
  /\ t[l].as = "omitted" => l \in o
LineTold(l) == IsDone(text, omitted, source, l)

Texts    == [Lines -> [of : Nat, as : {"none", "good", "omitted", "hidden"}]]
Working  == stage \in {"ask", "kana", "line"}
Waiting  == UNION {parts[i] : i \in 1..Len(parts)}

\* Types of the transcript, the texts and the parts of a batch.
TextTypes ==
  /\ source \in Nat /\ text \in Texts /\ saved.text \in Texts
  /\ parts \in Seq(SUBSET Lines) /\ kana \subseteq Lines

\* The run is over the whole transcript or over one line, and where it stands.
PlanFits ==
  /\ plan = Chunks \/ plan = <<>> \/ \E l \in Lines : plan = <<{l}>>
  /\ stage = "off" => plan = <<>> /\ upto = 0
  /\ upto \in 0..Len(plan)
  /\ Working => upto # 0
  /\ stage = "commit" => upto = Len(plan)

\* Every line of the batches behind the run is told.
BatchesDone ==
  stage # "failed" =>
    \A i \in 1..Len(plan) : i < upto \/ (i = upto /\ ~Working) => \A l \in plan[i] : LineTold(l)

\* So is every line of the current batch that no part waits for.
PartsLeft ==
  Working => /\ parts # <<>> /\ Waiting \subseteq plan[upto]
             /\ \A l \in plan[upto] \ Waiting : LineTold(l)

\* The repair of lines works on a part that it knows.
Repairing ==
  /\ stage = "line" => fix.single
  /\ stage \in {"line", "kana"} /\ fix.single => Part = {fix.line}
  /\ stage = "kana" /\ ~fix.single => \A l \in Part \ kana : LineTold(l)

\* What a later attempt resumes with is told up to where it resumes.
Checkpoint ==
  /\ saved.done \in 0..Len(Chunks)
  /\ \A i \in 1..saved.done : \A l \in Chunks[i] : IsDone(saved.text, saved.omitted, saved.source, l)

\* What was committed is told.
OutputTold == \A l \in output.lines : IsDone(output.text, output.omitted, output.source, l)

RunInv ==
  TextTypes /\ PlanFits /\ BatchesDone /\ PartsLeft /\ Repairing /\ Checkpoint /\ OutputTold

-----------------------------------------------------------------------------
(* The batches do not overlap. *)

LEMMA ChunksFit ==
  /\ Chunks \in Seq(SUBSET Lines) /\ Len(Chunks) \in Nat
  /\ \A i, j \in 1..Len(Chunks) : i # j => Chunks[i] \cap Chunks[j] = {}
<1> DEFINE N == (LineCount + BatchSize - 1) \div BatchSize
<1>1. N \in Nat
  BY TranslationAssumption
<1> HIDE DEF N
<1>2. Chunks = [i \in 1..N |-> {l \in Lines : (i - 1) * BatchSize < l /\ l <= i * BatchSize}]
  BY DEF Chunks, N
<1>3. Chunks \in Seq(SUBSET Lines) /\ Len(Chunks) = N
  BY <1>1, <1>2
<1>4. ASSUME NEW i \in 1..N, NEW j \in 1..N, i < j PROVE Chunks[i] \cap Chunks[j] = {}
  <2>1. i * BatchSize <= (j - 1) * BatchSize
    <3>1. i \in Nat /\ j - 1 \in Nat /\ i <= j - 1 /\ BatchSize \in Nat
      BY <1>1, <1>4, TranslationAssumption
    <3>2. \A a, b, c \in Nat : a <= b => a * c <= b * c
      OBVIOUS
    <3> QED
      BY <3>1, <3>2
  <2>2. ASSUME NEW l \in Chunks[i], l \in Chunks[j] PROVE FALSE
    <3>1. l \in Nat /\ l <= i * BatchSize /\ (j - 1) * BatchSize < l
      BY <1>2, <2>2 DEF Lines
    <3>2. i * BatchSize \in Nat /\ (j - 1) * BatchSize \in Nat
      BY <1>1, <1>4, TranslationAssumption
    <3> QED
      BY <2>1, <3>1, <3>2
  <2> QED
    BY <2>2
<1> QED
  <2>1. ASSUME NEW i \in 1..N, NEW j \in 1..N, i # j PROVE i < j \/ j < i
    BY <1>1, <2>1
  <2> QED
    BY <1>1, <1>3, <1>4, <2>1

LEMMA PlanOfSets ==
  ASSUME PlanFits
  PROVE  /\ plan \in Seq(SUBSET Lines) /\ Len(plan) \in Nat
         /\ \A i, j \in 1..Len(plan) : i # j => plan[i] \cap plan[j] = {}
<1>1. CASE plan = Chunks
  BY <1>1, ChunksFit
<1>2. CASE plan = <<>>
  BY <1>2
<1>3. CASE \E l \in Lines : plan = <<{l}>>
  BY <1>3
<1> QED
  BY <1>1, <1>2, <1>3 DEF PlanFits

-----------------------------------------------------------------------------
(* What a step on the first part leaves alone. *)

LEMMA PartWaits ==
  ASSUME TextTypes, PlanFits, PartsLeft, Working
  PROVE  /\ Part \in SUBSET Lines /\ Part = parts[1] /\ Part \subseteq Waiting /\ Waiting \subseteq plan[upto]
         /\ upto \in 1..Len(plan) /\ Len(parts) \in Nat \ {0}
<1>1. parts \in Seq(SUBSET Lines) /\ parts # <<>> /\ Waiting \subseteq plan[upto]
  BY DEF TextTypes, PartsLeft
<1>2. Len(parts) \in Nat \ {0} /\ Part = parts[1]
  BY <1>1 DEF Part
<1>3. Part \in SUBSET Lines
  BY <1>1, <1>2
<1>4. Part \subseteq Waiting
  BY <1>2 DEF Waiting
<1>5. upto \in 1..Len(plan)
  BY PlanOfSets DEF PlanFits
<1> QED
  BY <1>1, <1>2, <1>3, <1>4, <1>5

\* The step changed at most the lines of the first part, and lines that are told.
PartOnly ==
  /\ Working /\ UNCHANGED <<plan, upto, source>>
  /\ text' \in Texts /\ omitted \subseteq omitted'
  /\ \A l \in Lines \ Part : text'[l] = text[l] \/ LineTold(l)'

\* A line that is told stays so.
LEMMA ToldStays ==
  ASSUME PartOnly, NEW l \in Lines \ Part, LineTold(l) PROVE LineTold(l)'
  BY DEF PartOnly, LineTold, IsDone

\* The batches behind the run stay done while a part is worked on.
LEMMA BatchesStay ==
  ASSUME TextTypes, PlanFits, PartsLeft, BatchesDone, PartOnly, Working'
  PROVE  BatchesDone'
<1>1. Part \subseteq plan[upto] /\ upto \in 1..Len(plan) /\ stage # "failed" /\ Working
  BY PartWaits DEF PartOnly, Working
<1>2. ASSUME NEW i \in 1..Len(plan), i < upto, NEW l \in plan[i] PROVE LineTold(l)'
  <2>1. l \in Lines
    BY PlanOfSets
  <2>2. l \notin Part
    <3>1. i # upto
      BY <1>2, <1>1, PlanOfSets
    <3> QED
      BY <1>1, <3>1, PlanOfSets
  <2>3. LineTold(l)
    BY <1>1, <1>2 DEF BatchesDone
  <2> QED
    BY <2>1, <2>2, <2>3, ToldStays
<1> QED
  BY <1>2 DEF BatchesDone, PartOnly

\* The part is asked once more, whole or in pieces.
LEMMA PartAskedAgain ==
  ASSUME TextTypes, PlanFits, PartsLeft, BatchesDone, Working, Rest,
         parts' \in Seq(SUBSET Lines), parts' # <<>>, Waiting' = Waiting,
         stage' = "ask", kana' = {}, text' = With(Part, Untold), omitted' = omitted
  PROVE  (TextTypes /\ PlanFits /\ PartsLeft /\ BatchesDone /\ Repairing)'
<1>1. text' \in Texts
  <2>1. Untold \in [of : Nat, as : {"none", "good", "omitted", "hidden"}]
    BY DEF Untold
  <2>2. \A l \in Lines : text[l] \in [of : Nat, as : {"none", "good", "omitted", "hidden"}]
    BY DEF TextTypes, Texts
  <2> QED
    BY <2>1, <2>2 DEF With, Texts
<1>2. PartOnly
  BY <1>1 DEF PartOnly, With, Rest
<1>3. TextTypes'
  BY <1>1 DEF TextTypes, Rest
<1>4. PlanFits'
  BY DEF PlanFits, Rest, Working
<1>5. Working'
  BY DEF Working
<1>6. PartsLeft'
  <2>1. ASSUME NEW l \in plan[upto] \ Waiting PROVE LineTold(l)'
    <3>1. l \in Lines \ Part
      BY PartWaits, PlanOfSets
    <3> QED
      BY <1>2, <3>1, ToldStays DEF PartsLeft
  <2> QED
    BY <2>1 DEF PartsLeft, Rest
<1>7. Repairing'
  BY DEF Repairing
<1> QED
  BY <1>2, <1>3, <1>4, <1>5, <1>6, <1>7, BatchesStay

\* The part is done: each of its lines is told.
LEMMA PartIsDone ==
  ASSUME TextTypes, PlanFits, PartsLeft, BatchesDone, Working, Rest, PartDone,
         text' \in Texts, omitted \subseteq omitted',
         \A l \in Lines \ Part : text'[l] = text[l] \/ LineTold(l)',
         \A l \in Part : LineTold(l)'
  PROVE  (TextTypes /\ PlanFits /\ PartsLeft /\ BatchesDone /\ Repairing)'
<1>1. PartOnly
  BY DEF PartOnly, Rest
<1>2. parts \in Seq(SUBSET Lines) /\ Len(parts) \in Nat \ {0} /\ Part = parts[1] /\ upto \in 1..Len(plan)
      /\ parts # <<>> /\ Part \subseteq Waiting /\ Waiting \subseteq plan[upto]
  BY PartWaits DEF TextTypes
<1>3. parts' = Tail(parts) /\ kana' = {} /\ stage' = (IF Len(parts) = 1 THEN "save" ELSE "ask")
  BY DEF PartDone
<1>4. parts' \in Seq(SUBSET Lines) /\ Len(parts') = Len(parts) - 1
      /\ \A i \in 1..Len(parts') : parts'[i] = parts[i + 1]
  BY <1>2, <1>3
<1>5. TextTypes'
  BY <1>3, <1>4 DEF TextTypes, Rest
<1>6. Waiting \subseteq Part \cup Waiting'
  <2>1. ASSUME NEW i \in 2..Len(parts) PROVE i - 1 \in 1..Len(parts') /\ parts[i] = parts'[i - 1]
    BY <1>2, <1>4
  <2>2. ASSUME NEW i \in 1..Len(parts), NEW l \in parts[i] PROVE l \in Part \cup Waiting'
    <3>1. CASE i = 1
      BY <1>2, <2>2, <3>1
    <3>2. CASE i # 1
      BY <1>2, <2>1, <2>2, <3>2 DEF Waiting
    <3> QED
      BY <3>1, <3>2
  <2> QED
    BY <2>2 DEF Waiting
<1>7. Waiting' \subseteq plan[upto]
  <2>1. ASSUME NEW i \in 1..Len(parts') PROVE i + 1 \in 1..Len(parts) /\ parts'[i] = parts[i + 1]
    BY <1>2, <1>4
  <2> QED
    BY <1>2, <2>1 DEF Waiting
<1>8. ASSUME NEW l \in plan[upto] \ Waiting' PROVE LineTold(l)'
  <2>1. CASE l \in Part
    BY <2>1
  <2>2. CASE l \notin Part
    <3>1. l \in Lines \ Part
      BY <1>2, <2>2, PlanOfSets
    <3>2. LineTold(l)
      BY <1>6, <1>8, <2>2 DEF PartsLeft
    <3> QED
      BY <1>1, <3>1, <3>2, ToldStays
  <2> QED
    BY <2>1, <2>2
<1>9. CASE Len(parts) = 1
  <2>1. stage' = "save" /\ ~Working' /\ stage # "failed"
    BY <1>3, <1>9 DEF Working
  <2>2. Waiting' = {}
    BY <1>4, <1>9 DEF Waiting
  <2>3. ASSUME NEW i \in 1..Len(plan), i <= upto, NEW l \in plan[i] PROVE LineTold(l)'
    <3>1. CASE i = upto
      BY <1>8, <2>2, <3>1
    <3>2. CASE i # upto
      <4>1. i < upto
        BY <1>2, <2>3, <3>2, PlanOfSets
      <4>2. l \in Lines \ Part
        BY <1>2, <2>3, <3>2, PlanOfSets
      <4>3. LineTold(l)
        BY <2>1, <4>1 DEF BatchesDone
      <4> QED
        BY <1>1, <4>2, <4>3, ToldStays
    <3> QED
      BY <3>1, <3>2
  <2>4. BatchesDone'
    <3>1. \A i \in 1..Len(plan) : i < upto \/ i = upto => i <= upto
      BY <1>2, PlanOfSets
    <3> QED
      BY <2>3, <3>1 DEF BatchesDone, Rest
  <2>5. PlanFits' /\ PartsLeft' /\ Repairing'
    BY <2>1 DEF PlanFits, PartsLeft, Repairing, Rest, Working
  <2> QED
    BY <1>5, <2>4, <2>5
<1>10. CASE Len(parts) # 1
  <2>1. stage' = "ask" /\ Working'
    BY <1>3, <1>10 DEF Working
  <2>2. parts' # <<>>
    BY <1>2, <1>4, <1>10
  <2>3. PartsLeft'
    BY <1>7, <1>8, <2>2 DEF PartsLeft, Rest
  <2>4. PlanFits' /\ Repairing'
    BY <2>1 DEF PlanFits, Repairing, Rest, Working
  <2> QED
    BY <1>1, <1>5, <2>1, <2>3, <2>4, BatchesStay
<1> QED
  BY <1>9, <1>10

-----------------------------------------------------------------------------
(* The ends of an attempt. *)

Batch == TextTypes /\ PlanFits /\ PartsLeft /\ BatchesDone

\* The run fails: nothing of it is used.
LEMMA FailsFits ==
  ASSUME Batch, Working, Rest, RunFails PROVE (Batch /\ Repairing)'
  BY DEF Batch, TextTypes, PlanFits, PartsLeft, BatchesDone, Repairing, Working, Rest, RunFails

\* Only what the repair notes of itself changes.
LEMMA RetryFits ==
  ASSUME Batch, Working, Rest, UNCHANGED <<stage, parts, kana, text, omitted>> PROVE Batch'
<1> USE DEF Batch
<1>1. TextTypes' /\ PlanFits'
  BY DEF TextTypes, PlanFits, Rest, Working
<1>2. Waiting' = Waiting
  BY DEF Waiting
<1>3. \A l : LineTold(l)' = LineTold(l)
  BY DEF LineTold, IsDone, Rest
<1>4. PartsLeft' /\ BatchesDone'
  BY <1>2, <1>3 DEF PartsLeft, BatchesDone, Rest, Working
<1> QED
  BY <1>1, <1>4

\* The same part is asked for again.
LEMMA SameAgain ==
  ASSUME Batch, Working, Rest, NEW n, NEW p, AsksFor(parts, n, p) PROVE (Batch /\ Repairing)'
<1>1. parts \in Seq(SUBSET Lines) /\ parts # <<>>
  BY DEF Batch, TextTypes, PartsLeft
<1>2. /\ parts' = parts /\ stage' = "ask" /\ kana' = {} /\ text' = With(Part, Untold)
      /\ omitted' = omitted
  BY DEF AsksFor
<1>3. Waiting' = Waiting
  BY <1>2 DEF Waiting
<1> QED
  BY <1>1, <1>2, <1>3, PartAskedAgain DEF Batch

\* A part too long for an answer is asked for in two halves.
LEMMA HalvedFits ==
  ASSUME Batch, Working, Rest, Halved PROVE (Batch /\ Repairing)'
<1> DEFINE half == Cardinality(Part) \div 2
           left == {l \in Part : Cardinality({k \in Part : k < l}) < half}
<1>1. AsksFor(<<left, Part \ left>> \o Tail(parts), 1, TRUE)
  BY DEF Halved
<1>2. left \subseteq Part
  OBVIOUS
<1> HIDE DEF left
<1>3. parts' = <<left, Part \ left>> \o Tail(parts) /\ stage' = "ask" /\ kana' = {}
      /\ text' = With(Part, Untold) /\ omitted' = omitted
  BY <1>1 DEF AsksFor
<1>4. parts \in Seq(SUBSET Lines) /\ parts # <<>> /\ Len(parts) \in Nat \ {0} /\ Part = parts[1]
      /\ Part \in SUBSET Lines
  BY PartWaits DEF Batch, TextTypes, PartsLeft
<1>5. /\ parts' \in Seq(SUBSET Lines) /\ Len(parts') = Len(parts) + 1
      /\ parts'[1] = left /\ parts'[2] = Part \ left
      /\ \A i \in 3..Len(parts') : parts'[i] = parts[i - 1]
  <2>1. <<left, Part \ left>> \in Seq(SUBSET Lines)
    BY <1>2, <1>4
  <2>2. Tail(parts) \in Seq(SUBSET Lines) /\ Len(Tail(parts)) = Len(parts) - 1
        /\ \A i \in 1..Len(Tail(parts)) : Tail(parts)[i] = parts[i + 1]
    BY <1>4
  <2> QED
    BY <1>3, <1>4, <2>1, <2>2
<1>6. parts' # <<>>
  BY <1>4, <1>5
<1>7. Waiting' = Waiting
  <2>1. ASSUME NEW l \in Waiting PROVE l \in Waiting'
    <3>1. PICK i \in 1..Len(parts) : l \in parts[i]
      BY <2>1 DEF Waiting
    <3>2. CASE i = 1
      <4>1. l \in parts'[1] \/ l \in parts'[2]
        BY <1>4, <1>5, <3>1, <3>2
      <4>2. 1 \in 1..Len(parts') /\ 2 \in 1..Len(parts')
        BY <1>4, <1>5
      <4> QED
        BY <4>1, <4>2 DEF Waiting
    <3>3. CASE i # 1
      <4>1. i + 1 \in 3..Len(parts') /\ i + 1 \in 1..Len(parts') /\ (i + 1) - 1 = i
        BY <1>4, <1>5, <3>1, <3>3
      <4>2. parts'[i + 1] = parts[i]
        BY <1>5, <4>1
      <4> QED
        BY <3>1, <4>1, <4>2 DEF Waiting
    <3> QED
      BY <3>2, <3>3
  <2>2. ASSUME NEW l \in Waiting' PROVE l \in Waiting
    <3>1. PICK i \in 1..Len(parts') : l \in parts'[i]
      BY <2>2 DEF Waiting
    <3>2. CASE i \in {1, 2}
      <4>1. l \in parts[1] /\ 1 \in 1..Len(parts)
        BY <1>2, <1>4, <1>5, <3>1, <3>2
      <4> QED
        BY <4>1 DEF Waiting
    <3>3. CASE i \notin {1, 2}
      <4>1. i \in 3..Len(parts') /\ i - 1 \in 1..Len(parts)
        BY <1>4, <1>5, <3>1, <3>3
      <4>2. parts'[i] = parts[i - 1]
        BY <1>5, <4>1
      <4> QED
        BY <3>1, <4>1, <4>2 DEF Waiting
    <3> QED
      BY <3>2, <3>3
  <2> QED
    BY <2>1, <2>2
<1> QED
  BY <1>3, <1>5, <1>6, <1>7, PartAskedAgain DEF Batch

\* A text that is there, or an omission the model was heard for.
LEMMA SaidOrLeftOut ==
  ASSUME TextTypes, source' = source, NEW l \in Lines,
         \/ text' = [text EXCEPT ![l] = Good] /\ omitted' = omitted
         \/ LeavesOut(l) /\ heard'
  PROVE  /\ text' \in Texts /\ omitted \subseteq omitted' /\ LineTold(l)'
         /\ \A k \in Lines \ {l} : text'[k] = text[k]
<1> DEFINE Said == {"none", "good", "omitted", "hidden"}
<1>1. PICK t \in [of : Nat, as : Said] :
        text' = [text EXCEPT ![l] = t] /\ t.of = source /\ omitted \subseteq omitted'
        /\ (t.as = "good" \/ (t.as = "omitted" /\ l \in omitted'))
  <2>1. CASE text' = [text EXCEPT ![l] = Good] /\ omitted' = omitted
    <3>1. Good \in [of : Nat, as : Said] /\ Good.of = source /\ Good.as = "good"
      BY DEF TextTypes, Good
    <3> QED
      BY <2>1, <3>1
  <2>2. CASE LeavesOut(l) /\ heard'
    <3> DEFINE t == [of |-> source, as |-> "omitted"]
    <3>1. text' = [text EXCEPT ![l] = t] /\ omitted' = omitted \cup {l}
      BY <2>2 DEF LeavesOut
    <3>2. t \in [of : Nat, as : Said] /\ t.of = source /\ t.as = "omitted"
      BY DEF TextTypes
    <3> QED
      BY <3>1, <3>2
  <2> QED
    BY <2>1, <2>2
<1>2. text \in [Lines -> [of : Nat, as : Said]]
  BY DEF TextTypes, Texts
<1>3. text' \in [Lines -> [of : Nat, as : Said]] /\ text'[l] = t
      /\ \A k \in Lines \ {l} : text'[k] = text[k]
  BY <1>1, <1>2
<1>4. LineTold(l)'
  BY <1>1, <1>3 DEF LineTold, IsDone
<1> QED
  BY <1>1, <1>3, <1>4 DEF Texts

\* All lines of a set got a text.
LEMMA SaidSet ==
  ASSUME TextTypes, source' = source, NEW S \in SUBSET Lines, text' = With(S, Good),
         omitted' = omitted
  PROVE  /\ text' \in Texts
         /\ \A k \in Lines \ S : text'[k] = text[k]
         /\ \A k \in S : LineTold(k)'
  BY DEF TextTypes, Texts, With, Good, LineTold, IsDone

\* A part that is not asked in more pieces is one line.
LEMMA OneLine ==
  ASSUME NEW S \in SUBSET Lines, ~(Cardinality(S) > 1)
  PROVE  S = {} \/ \E l \in Lines : S = {l} /\ FirstOf(S) = l
<1>1. IsFiniteSet(S)
  <2>1. IsFiniteSet(Lines)
    BY FS_Interval, TranslationAssumption DEF Lines
  <2> QED
    BY <2>1, FS_Subset
<1>2. Cardinality(S) \in Nat
  BY <1>1, FS_CardinalityType
<1>3. CASE Cardinality(S) = 0
  BY <1>1, <1>3, FS_EmptySet
<1>4. CASE Cardinality(S) = 1
  <2>1. PICK l : S = {l}
    BY <1>1, <1>4, FS_Singleton
  <2>2. l \in Nat
    BY <2>1 DEF Lines
  <2>3. FirstOf({l}) = l
    BY <2>2 DEF FirstOf
  <2> QED
    BY <2>1, <2>3
<1> QED
  BY <1>2, <1>3, <1>4

\* One line that the model gave up on is left out, and named.
LEMMA ExhaustsFits ==
  ASSUME Batch, Working, Rest, heard', Exhausts("asr") PROVE (Batch /\ Repairing)'
<1>1. CASE Cardinality(Part) > 1
  BY <1>1, HalvedFits DEF Exhausts
<1>2. CASE ~(Cardinality(Part) > 1)
  <2>1. PartDone
    BY <1>2 DEF Exhausts
  <2>2. Part \in SUBSET Lines /\ TextTypes /\ source' = source
    BY PartWaits DEF Batch, Rest
  <2>3. CASE text' = With(Part, Good) /\ omitted' = omitted
    <3>1. PICK S \in SUBSET Lines : S = Part
      BY <2>2
    <3>2. text' \in Texts /\ (\A k \in Lines \ S : text'[k] = text[k]) /\ \A k \in S : LineTold(k)'
      <4>1. text' = With(S, Good) /\ omitted' = omitted
        BY <2>3, <3>1
      <4> QED
        BY <2>2, <4>1, SaidSet
    <3>3. /\ text' \in Texts /\ (\A k \in Lines \ Part : text'[k] = text[k])
          /\ \A k \in Part : LineTold(k)'
      BY <3>1, <3>2
    <3> QED
      BY <2>1, <2>3, <3>3, PartIsDone DEF Batch
  <2>4. CASE LeavesOut(FirstOf(Part))
    <3>1. CASE FirstOf(Part) \notin Lines
      <4>1. text' = text /\ omitted \subseteq omitted'
        BY <2>2, <2>4, <3>1 DEF LeavesOut, TextTypes, Texts
      <4>2. Part = {}
        BY <1>2, <2>2, <3>1, OneLine
      <4> QED
        BY <2>1, <2>2, <4>1, <4>2, PartIsDone DEF Batch, TextTypes
    <3>2. CASE FirstOf(Part) \in Lines
      <4>1. PICK l \in Lines : l = FirstOf(Part) /\ Part \subseteq {l}
        BY <1>2, <2>2, <3>2, OneLine
      <4>2. /\ text' \in Texts /\ omitted \subseteq omitted' /\ LineTold(l)'
            /\ \A k \in Lines \ {l} : text'[k] = text[k]
        BY <2>2, <2>4, <4>1, SaidOrLeftOut
      <4>3. /\ (\A k \in Lines \ Part : text'[k] = text[k] \/ LineTold(k)')
            /\ \A k \in Part : LineTold(k)'
        BY <4>1, <4>2
      <4> QED
        BY <2>1, <4>2, <4>3, PartIsDone DEF Batch
    <3> QED
      BY <3>1, <3>2
  <2> QED
    BY <1>2, <2>3, <2>4 DEF Exhausts
<1> QED
  BY <1>1, <1>2

\* A malformed answer to one line: its repair begins.
LEMMA RepairsFits ==
  ASSUME Batch, Working, Rest, Cardinality(Part) = 1, RepairsLine PROVE (Batch /\ Repairing)'
<1>1. stage' = "line" /\ kana' = {} /\ parts' = parts /\ omitted' = omitted /\ text' = With(Part, Untold)
      /\ fix'.single /\ fix'.line = FirstOf(Part)
  BY DEF RepairsLine, NoFix
<1>2. Part \in SUBSET Lines /\ Part \subseteq plan[upto] /\ upto \in 1..Len(plan)
  BY PartWaits DEF Batch
<1>3. Part = {fix'.line}
  <2>1. Part # {}
    BY FS_EmptySet
  <2>2. 1 > 1 <=> FALSE
    OBVIOUS
  <2> QED
    BY <1>1, <1>2, <2>1, <2>2, OneLine
<1>4. parts' \in Seq(SUBSET Lines) /\ parts' # <<>> /\ Waiting' = Waiting /\ Part' = Part
  BY <1>1 DEF Batch, TextTypes, PartsLeft, Waiting, Part
<1>5. PartOnly
  <2>1. text' \in Texts
    BY <1>1 DEF With, Texts, Untold, Batch, TextTypes
  <2> QED
    BY <1>1, <2>1 DEF PartOnly, Rest, With
<1>6. TextTypes' /\ PlanFits' /\ Working'
  BY <1>1, <1>4, <1>5 DEF Batch, TextTypes, PlanFits, Rest, Working, PartOnly
<1>7. PartsLeft'
  <2>1. ASSUME NEW l \in plan[upto] \ Waiting PROVE LineTold(l)'
    <3>1. l \in Lines \ Part
      BY PartWaits, PlanOfSets DEF Batch
    <3> QED
      BY <1>5, <2>1, <3>1, ToldStays DEF PartsLeft, Batch
  <2> QED
    BY <1>4, <2>1 DEF Batch, PartsLeft, Rest
<1>8. BatchesDone'
  BY <1>5, <1>6, BatchesStay DEF Batch
<1>9. Repairing'
  BY <1>1, <1>3, <1>4 DEF Repairing
<1> QED
  BY <1>6, <1>7, <1>8, <1>9 DEF Batch

\* However an attempt on a part ends.
LEMMA AttemptFits ==
  ASSUME Batch, Working, Rest, NEW e \in {"structure", "long", "asr", "timeout", "outage"},
         e = "asr" => heard', AttemptEnds(e)
  PROVE  (Batch /\ Repairing)'
<1>1. CASE e \in {"timeout", "structure"} /\ ~plain
  BY <1>1, SameAgain DEF AttemptEnds
<1>2. ASSUME Halved PROVE (Batch /\ Repairing)'
  BY <1>2, HalvedFits
<1>3. ASSUME RepairsLine, Cardinality(Part) = 1 PROVE (Batch /\ Repairing)'
  BY <1>3, RepairsFits
<1>4. CASE AsksAgain(e)
  <2>1. CASE AsksFor(parts, attempt + 1, plain) \/ AsksFor(parts, 1, TRUE)
    BY <2>1, SameAgain
  <2>2. CASE Exhausts(e)
    <3>1. CASE e = "asr"
      BY <2>2, <3>1, ExhaustsFits
    <3>2. CASE e # "asr"
      BY <2>2, <3>2, HalvedFits, FailsFits DEF Exhausts
    <3> QED
      BY <3>1, <3>2
  <2> QED
    BY <1>4, <2>1, <2>2 DEF AsksAgain
<1> QED
  <2>1. CASE e \in {"timeout", "structure"}
    BY <1>1, <1>2, <1>3, <1>4, <2>1 DEF AttemptEnds
  <2>2. CASE e = "long"
    BY <1>2, <1>3, <1>4, <2>2 DEF AttemptEnds
  <2>3. CASE e \in {"asr", "outage"}
    BY <1>4, <2>3 DEF AttemptEnds
  <2> QED
    BY <2>1, <2>2, <2>3

\* A part is asked for, and its answer used.
LEMMA AskFits ==
  ASSUME Batch, AskPart PROVE (Batch /\ Repairing)'
<1>1. Working /\ Rest /\ stage = "ask"
  BY DEF AskPart, Working
<1>2. Part \in SUBSET Lines /\ TextTypes /\ source' = source
  BY <1>1, PartWaits DEF Batch, Rest
<1>3. CASE PartDone /\ text' = With(Part, Good) /\ UNCHANGED omitted
  <2>1. PICK S \in SUBSET Lines : S = Part
    BY <1>2
  <2>2. text' \in Texts /\ (\A k \in Lines \ S : text'[k] = text[k]) /\ \A k \in S : LineTold(k)'
    <3>1. text' = With(S, Good) /\ omitted' = omitted
      BY <1>3, <2>1
    <3> QED
      BY <1>2, <3>1, SaidSet
  <2>3. /\ text' \in Texts /\ (\A k \in Lines \ Part : text'[k] = text[k])
        /\ \A k \in Part : LineTold(k)'
    BY <2>1, <2>2
  <2> QED
    BY <1>1, <1>3, <2>3, PartIsDone DEF Batch
<1>4. CASE /\ \E K \in (SUBSET Part) \ {{}} :
                /\ kana' = K /\ text' = With(Part \ K, Good)
                /\ fix' = [NoFix EXCEPT !.line = FirstOf(K), !.context = (~plain \/ Cardinality(Part) > 1)]
           /\ stage' = "kana" /\ UNCHANGED <<parts, attempt, plain, barred, omitted>>
  <2>1. PICK K \in (SUBSET Part) \ {{}} :
          /\ kana' = K /\ text' = With(Part \ K, Good)
          /\ fix' = [NoFix EXCEPT !.line = FirstOf(K), !.context = (~plain \/ Cardinality(Part) > 1)]
    BY <1>4
  <2>2. fix'.single = FALSE
    BY <2>1 DEF NoFix
  <2>3. PICK S \in SUBSET Lines : S = Part \ K
    BY <1>2
  <2>4. text' \in Texts /\ (\A k \in Lines \ S : text'[k] = text[k]) /\ \A k \in S : LineTold(k)'
    <3>1. text' = With(S, Good) /\ omitted' = omitted
      BY <1>4, <2>1, <2>3
    <3> QED
      BY <1>2, <3>1, SaidSet
  <2>5. PartOnly
    <3>1. \A k \in Lines \ Part : text'[k] = text[k]
      BY <2>3, <2>4
    <3> QED
      BY <1>1, <1>4, <2>4, <3>1 DEF PartOnly, Rest
  <2>6. parts' = parts /\ Waiting' = Waiting /\ Part' = Part
    BY <1>4 DEF Waiting, Part
  <2>7. TextTypes' /\ PlanFits' /\ Working'
    BY <1>1, <1>2, <1>4, <2>1, <2>4, <2>6 DEF Batch, TextTypes, PlanFits, Rest, Working
  <2>8. PartsLeft'
    <3>1. ASSUME NEW l \in plan[upto] \ Waiting PROVE LineTold(l)'
      <4>1. l \in Lines \ Part
        BY <1>1, PartWaits, PlanOfSets DEF Batch
      <4> QED
        BY <1>1, <2>5, <3>1, <4>1, ToldStays DEF PartsLeft, Batch
    <3> QED
      BY <1>1, <2>6, <3>1 DEF Batch, PartsLeft, Rest
  <2>9. BatchesDone'
    BY <2>5, <2>7, BatchesStay DEF Batch
  <2>10. Repairing'
    BY <1>4, <2>1, <2>2, <2>3, <2>4, <2>6 DEF Repairing
  <2> QED
    BY <2>7, <2>8, <2>9, <2>10 DEF Batch
<1>5. ASSUME NEW e \in {"structure", "long", "asr", "timeout", "outage"},
             heard' = (e \notin {"timeout", "outage"}), AttemptEnds(e)
      PROVE  (Batch /\ Repairing)'
  BY <1>1, <1>5, AttemptFits
<1> QED
  BY <1>3, <1>4, <1>5 DEF AskPart

-----------------------------------------------------------------------------
(* The repair of one line. *)

\* The line is told: the part is done, or its next line is repaired.
LEMMA LineIsDone ==
  ASSUME Batch, Repairing, stage \in {"kana", "line"}, Rest, LineDone,
         \/ text' = [text EXCEPT ![fix.line] = Good] /\ omitted' = omitted
         \/ LeavesOut(fix.line) /\ heard'
  PROVE  (Batch /\ Repairing)'
<1>1. Working /\ Part \in SUBSET Lines /\ TextTypes /\ source' = source
  BY PartWaits DEF Working, Batch, Rest
<1>2. /\ text' \in Texts /\ omitted \subseteq omitted'
      /\ \A k \in Lines : k # fix.line => text'[k] = text[k]
      /\ \A k \in Lines : k = fix.line => LineTold(k)'
  <2>1. CASE fix.line \in Lines
    <3>1. PICK l \in Lines : l = fix.line
      BY <2>1
    <3>2. \/ text' = [text EXCEPT ![l] = Good] /\ omitted' = omitted
          \/ LeavesOut(l) /\ heard'
      BY <3>1
    <3>3. /\ text' \in Texts /\ omitted \subseteq omitted' /\ LineTold(l)'
          /\ \A k \in Lines \ {l} : text'[k] = text[k]
      BY <1>1, <3>2, SaidOrLeftOut
    <3> QED
      BY <3>1, <3>3
  <2>2. CASE fix.line \notin Lines
    <3>1. text' = text /\ omitted \subseteq omitted'
      BY <1>1, <2>2 DEF LeavesOut, TextTypes, Texts
    <3> QED
      BY <1>1, <2>2, <3>1 DEF TextTypes
  <2> QED
    BY <2>1, <2>2
<1>3. \A k \in Lines : text'[k] = text[k] \/ LineTold(k)'
  BY <1>2
<1>4. ASSUME NEW k \in Lines, LineTold(k) PROVE LineTold(k)'
  BY <1>1, <1>2, <1>3, <1>4 DEF LineTold, IsDone
<1>5. CASE fix.single \/ kana \ {fix.line} = {}
  <2>1. PartDone
    BY <1>5 DEF LineDone
  <2>2. ASSUME NEW k \in Part PROVE LineTold(k)'
    <3>1. k = fix.line \/ LineTold(k)
      BY <1>5, <2>2 DEF Repairing
    <3> QED
      BY <1>1, <1>2, <1>4, <2>2, <3>1
  <2>3. \A k \in Lines \ Part : text'[k] = text[k] \/ LineTold(k)'
    BY <1>3
  <2> QED
    BY <1>1, <1>2, <2>1, <2>2, <2>3, PartIsDone DEF Batch
<1>6. CASE ~fix.single /\ kana \ {fix.line} # {}
  <2>1. /\ kana' = kana \ {fix.line} /\ stage' = stage /\ parts' = parts
        /\ fix' = [NoFix EXCEPT !.line = FirstOf(kana \ {fix.line}),
                                !.context = (~plain \/ Cardinality(Part) > 1)]
    BY <1>6 DEF LineDone
  <2>2. fix'.single = FALSE /\ stage = "kana" /\ stage' = "kana"
    BY <1>6, <2>1 DEF NoFix, Repairing
  <2>3. Waiting' = Waiting /\ Part' = Part /\ Working'
    BY <2>1, <2>2 DEF Waiting, Part, Working
  <2>4. PartOnly
    BY <1>1, <1>2, <1>3 DEF PartOnly, Rest
  <2>5. TextTypes' /\ PlanFits'
    BY <1>1, <1>2, <2>1, <2>2 DEF Batch, TextTypes, PlanFits, Rest, Working
  <2>6. PartsLeft'
    <3>1. plan[upto] \subseteq Lines
      BY <1>1, PartWaits, PlanOfSets DEF Batch
    <3> QED
      BY <1>1, <1>4, <2>1, <2>3, <3>1 DEF Batch, PartsLeft, Rest
  <2>7. BatchesDone'
    BY <2>3, <2>4, BatchesStay DEF Batch
  <2>8. ASSUME NEW k \in Part \ kana' PROVE LineTold(k)'
    <3>1. k = fix.line \/ LineTold(k)
      BY <1>6, <2>1, <2>2, <2>8 DEF Repairing
    <3> QED
      BY <1>1, <1>2, <1>4, <2>8, <3>1
  <2>9. Repairing'
    BY <2>2, <2>3, <2>8 DEF Repairing
  <2> QED
    BY <2>5, <2>6, <2>7, <2>9 DEF Batch
<1> QED
  BY <1>5, <1>6

\* The repair goes on with the same line.
LEMMA RepairGoesOn ==
  ASSUME Batch, Repairing, stage \in {"kana", "line"}, Rest,
         UNCHANGED <<parts, kana, text, omitted>>, fix'.line = fix.line, fix'.single = fix.single,
         stage' = stage \/ (stage = "line" /\ stage' = "kana")
  PROVE  (Batch /\ Repairing)'
<1>1. Working /\ Working' /\ stage # "commit" /\ stage' # "commit" /\ stage # "off" /\ stage' # "off"
      /\ stage' # "failed" /\ stage # "failed"
  BY DEF Working
<1>2. TextTypes' /\ PlanFits'
  BY <1>1 DEF Batch, TextTypes, PlanFits, Rest
<1>3. Waiting' = Waiting /\ Part' = Part
  BY DEF Waiting, Part
<1>4. \A l : LineTold(l)' = LineTold(l)
  BY DEF LineTold, IsDone, Rest
<1>5. PartsLeft' /\ BatchesDone'
  BY <1>1, <1>3, <1>4 DEF Batch, PartsLeft, BatchesDone, Rest
<1>6. Repairing'
  BY <1>3, <1>4 DEF Repairing
<1> QED
  BY <1>2, <1>5, <1>6 DEF Batch

\* One more try of the same line.
LEMMA TriesFits ==
  ASSUME Batch, Repairing, stage \in {"kana", "line"}, Rest, NEW f, TriesAgain(f),
         f.line = fix.line, f.single = fix.single, fix' = [f EXCEPT !.attempt = @ + 1] => fix'.line = f.line /\ fix'.single = f.single
  PROVE  (Batch /\ Repairing)'
  BY RepairGoesOn DEF TriesAgain

\* The repair of a line fails the attempt or the run.
LEMMA FailedRepairFits ==
  ASSUME Batch, stage \in {"kana", "line"}, Rest, NEW e \in {"long", "asr", "outage"},
         e = "asr" => heard', RepairFails(e)
  PROVE  (Batch /\ Repairing)'
  BY FailsFits, AttemptFits DEF RepairFails, Working

\* The repair of a line gives up on it.
LEMMA GivesUpFits ==
  ASSUME Batch, Repairing, stage \in {"kana", "line"}, Rest,
         NEW e \in {"kana", "structure", "asr", "outage"},
         heard' = (e # "outage"), GivesUp(e)
  PROVE  (Batch /\ Repairing)'
  BY LineIsDone, FailedRepairFits DEF GivesUp

\* The repair of the lines with kana left in them.
LEMMA KanaFits ==
  ASSUME Batch, Repairing, RepairKana PROVE (Batch /\ Repairing)'
<1>1. stage \in {"kana", "line"} /\ stage = "kana" /\ Working /\ Rest
  BY DEF RepairKana, Working
<1>2. CASE heard' = TRUE /\ LineDone /\ text' = [text EXCEPT ![fix.line] = Good] /\ UNCHANGED omitted
  BY <1>1, <1>2, LineIsDone
<1>3. CASE heard' = TRUE /\ LineDone /\ LeavesOut(fix.line)
  BY <1>1, <1>3, LineIsDone
<1>4. CASE AttemptEnds("long")
  BY <1>1, <1>4, AttemptFits
<1>5. CASE heard' = FALSE /\ GivesUp("outage")
  BY <1>1, <1>5, GivesUpFits
<1>6. ASSUME NEW e \in {"kana", "structure", "asr"}, heard' = TRUE, GivesUp(e)
      PROVE  (Batch /\ Repairing)'
  BY <1>1, <1>6, GivesUpFits
<1>7. CASE TriesAgain([fix EXCEPT !.said = FALSE])
  BY <1>1, <1>7, RepairGoesOn DEF TriesAgain
<1>8. CASE TriesAgain([fix EXCEPT !.context = FALSE, !.dropped = TRUE,
                                  !.limit = IF @ > fix.attempt THEN @ ELSE fix.attempt + 1])
  BY <1>1, <1>8, RepairGoesOn DEF TriesAgain
<1>9. CASE TriesAgain([fix EXCEPT !.strict = TRUE, !.said = TRUE])
  BY <1>1, <1>9, RepairGoesOn DEF TriesAgain
<1>10. CASE TriesAgain([fix EXCEPT !.said = TRUE])
  BY <1>1, <1>10, RepairGoesOn DEF TriesAgain
<1> QED
  BY <1>2, <1>3, <1>4, <1>5, <1>6, <1>7, <1>8, <1>9, <1>10 DEF RepairKana

\* The repair of one line.
LEMMA LineFits ==
  ASSUME Batch, Repairing, RepairLine PROVE (Batch /\ Repairing)'
<1>1. stage \in {"kana", "line"} /\ stage = "line" /\ Working /\ Rest
  BY DEF RepairLine, Working
<1>2. CASE heard' = TRUE /\ LineDone /\ text' = [text EXCEPT ![fix.line] = Good] /\ UNCHANGED omitted
  BY <1>1, <1>2, LineIsDone
<1>3. CASE heard' = TRUE /\ LineDone /\ LeavesOut(fix.line)
  BY <1>1, <1>3, LineIsDone
<1>4. CASE RunFails
  BY <1>1, <1>4, FailsFits
<1>5. CASE /\ stage' = "kana" /\ fix' = [fix EXCEPT !.attempt = 1]
           /\ UNCHANGED <<parts, attempt, plain, kana, barred, text, omitted>>
  BY <1>1, <1>5, RepairGoesOn
<1>6. CASE TriesAgain(fix)
  BY <1>1, <1>6, RepairGoesOn DEF TriesAgain
<1> QED
  BY <1>2, <1>3, <1>4, <1>5, <1>6 DEF RepairLine

-----------------------------------------------------------------------------
(* The run, its checkpoint and its commit. *)

LEMMA NoTextFits == NoText \in Texts
  BY DEF NoText, Texts, Untold

LEMMA RunInvInit == TranslationInit => RunInv
<1> SUFFICES ASSUME TranslationInit PROVE RunInv
  OBVIOUS
<1>2. TextTypes
  BY NoTextFits DEF TranslationInit, TextTypes, NoSaved
<1>3. PlanFits /\ BatchesDone /\ PartsLeft /\ Repairing
  BY DEF TranslationInit, PlanFits, BatchesDone, PartsLeft, Repairing, Working
<1>4. Checkpoint
  BY ChunksFit DEF TranslationInit, Checkpoint, NoSaved
<1>5. OutputTold
  BY DEF TranslationInit, OutputTold, NoOutput
<1> QED
  BY <1>2, <1>3, <1>4, <1>5 DEF RunInv

\* Nothing of a run is left.
LEMMA OverFits ==
  ASSUME TextTypes, Over, source' \in Nat, saved'.text \in Texts PROVE (Batch /\ Repairing)'
<1>2. TextTypes'
  BY NoTextFits DEF TextTypes, Over
<1>3. (PlanFits /\ BatchesDone /\ PartsLeft /\ Repairing)'
  BY DEF Over, PlanFits, BatchesDone, PartsLeft, Repairing, Working
<1> QED
  BY <1>2, <1>3 DEF Batch

\* A run begins, from its checkpoint if there is one.
LEMMA RunAllFits == ASSUME RunInv, RunAll PROVE (Batch /\ Repairing)'
<1>1. PICK c, usable \in BOOLEAN :
        LET n == IF Fits(c) /\ usable THEN saved.done ELSE 0 IN
          /\ context' = c /\ upto' = n
          /\ text' = IF n > 0 THEN saved.text ELSE NoText
          /\ omitted' = IF n > 0 THEN Events ELSE {}
  BY DEF RunAll
<1> DEFINE n == IF Fits(c) /\ usable THEN saved.done ELSE 0
<1>2. /\ upto' = n /\ text' = (IF n > 0 THEN saved.text ELSE NoText)
      /\ omitted' = (IF n > 0 THEN saved.omitted ELSE {})
  BY <1>1 DEF Events
<1>3. n \in 0..Len(Chunks) /\ (n > 0 => saved.source = source /\ n = saved.done)
  BY ChunksFit DEF Fits, RunInv, Checkpoint
<1> HIDE DEF n
<1>4. /\ plan' = Chunks /\ stage' = "next" /\ parts' = parts /\ kana' = kana
      /\ source' = source /\ saved' = saved
  BY DEF RunAll
<1>6. TextTypes'
  BY <1>2, <1>4, NoTextFits DEF RunInv, TextTypes
<1>7. PlanFits' /\ PartsLeft' /\ Repairing'
  BY <1>2, <1>3, <1>4 DEF PlanFits, PartsLeft, Repairing, Working
<1>8. ASSUME NEW i \in 1..Len(Chunks), i < n \/ i = n, NEW l \in Chunks[i] PROVE LineTold(l)'
  <2>1. n > 0 /\ i \in 1..saved.done
    BY <1>3, <1>8, ChunksFit
  <2> QED
    BY <1>2, <1>3, <1>4, <1>8, <2>1 DEF RunInv, Checkpoint, LineTold, IsDone
<1>9. BatchesDone'
  BY <1>2, <1>4, <1>8 DEF BatchesDone
<1> QED
  BY <1>6, <1>7, <1>9 DEF Batch

\* A run over one line begins.
LEMMA RunLineFits == ASSUME RunInv, RunLine PROVE (Batch /\ Repairing)'
<1>1. upto = 0 /\ upto' = 0 /\ stage' = "next" /\ UNCHANGED <<source, text, saved, parts, kana>>
  BY DEF RunLine, RunInv, PlanFits
<1>2. \E l \in Lines : plan' = <<{l}>>
  BY DEF RunLine
<1>3. TextTypes'
  BY <1>1 DEF RunInv, TextTypes
<1>4. PlanFits' /\ PartsLeft' /\ Repairing' /\ BatchesDone'
  BY <1>1, <1>2 DEF PlanFits, PartsLeft, Repairing, BatchesDone, Working
<1> QED
  BY <1>3, <1>4 DEF Batch

\* The next batch begins.
LEMMA NextBatchFits == ASSUME RunInv, NextBatch PROVE (Batch /\ Repairing)'
<1>1. /\ stage = "next" /\ ~Working /\ plan \in Seq(SUBSET Lines) /\ Len(plan) \in Nat
      /\ upto \in 0..Len(plan)
      /\ UNCHANGED <<plan, kana, text, omitted, source, saved>>
  BY PlanOfSets DEF RunInv, PlanFits, NextBatch, Working
<1>2. \A l : LineTold(l)' = LineTold(l)
  BY <1>1 DEF LineTold, IsDone
<1>3. \A i \in 1..Len(plan) : i <= upto => \A l \in plan[i] : LineTold(l)
  <2>1. \A i \in 1..Len(plan) : i <= upto => i < upto \/ i = upto
    BY <1>1
  <2> QED
    BY <1>1, <2>1 DEF RunInv, BatchesDone
<1>4. CASE upto = Len(plan) /\ stage' = "commit" /\ UNCHANGED <<upto, parts, plain>>
  <2>1. \A i \in 1..Len(plan) : i <= upto
    BY <1>1, <1>4
  <2> QED
    BY <1>1, <1>2, <1>3, <1>4, <2>1
      DEF RunInv, Batch, TextTypes, PlanFits, PartsLeft, Repairing, BatchesDone, Working
<1>5. CASE upto # Len(plan) /\ stage' = "ask" /\ upto' = upto + 1 /\ parts' = <<plan[upto + 1]>>
  <2>1. upto + 1 \in 1..Len(plan) /\ Working'
    BY <1>1, <1>5 DEF Working
  <2>2. plan[upto + 1] \in SUBSET Lines
    BY <1>1, <2>1
  <2>3. Waiting' = plan[upto + 1]
    BY <1>5 DEF Waiting
  <2>4. TextTypes' /\ PlanFits' /\ PartsLeft' /\ Repairing'
    BY <1>1, <1>5, <2>1, <2>2, <2>3 DEF RunInv, TextTypes, PlanFits, PartsLeft, Repairing, Working
  <2>5. BatchesDone'
    <3>1. \A i \in 1..Len(plan) : i < upto + 1 => i <= upto
      BY <1>1
    <3> QED
      BY <1>1, <1>2, <1>3, <1>5, <2>1, <3>1 DEF BatchesDone
  <2> QED
    BY <2>4, <2>5 DEF Batch
<1> QED
  BY <1>4, <1>5 DEF NextBatch

\* A batch that is done is saved.
LEMMA SaveFits == ASSUME RunInv, SaveBatch PROVE (Batch /\ Repairing /\ Checkpoint)'
<1>1. /\ stage = "save" /\ ~Working /\ Len(plan) \in Nat /\ upto \in 0..Len(plan)
      /\ UNCHANGED <<plan, kana, parts, omitted, source>>
  BY PlanOfSets DEF RunInv, PlanFits, SaveBatch, Working
<1>2. ASSUME text' = text, upto' = upto, saved'.text \in Texts, stage' \in {"next", "failed"}
      PROVE  (Batch /\ Repairing)'
  <2>1. \A l : LineTold(l)' = LineTold(l)
    BY <1>1, <1>2 DEF LineTold, IsDone
  <2>2. ~Working'
    BY <1>2 DEF Working
  <2>3. TextTypes' /\ PlanFits' /\ PartsLeft' /\ Repairing'
    BY <1>1, <1>2, <2>2 DEF RunInv, TextTypes, PlanFits, PartsLeft, Repairing
  <2>4. BatchesDone'
    BY <1>1, <1>2, <2>1, <2>2 DEF RunInv, BatchesDone
  <2> QED
    BY <2>3, <2>4 DEF Batch
<1>3. ASSUME text' = NoText, upto' = 0, saved' = saved, stage' = "next" PROVE (Batch /\ Repairing)'
  <2>1. TextTypes' /\ PlanFits' /\ PartsLeft' /\ Repairing'
    BY <1>1, <1>3, NoTextFits DEF RunInv, TextTypes, PlanFits, PartsLeft, Repairing, Working
  <2>2. \A i \in 1..Len(plan) : ~(i < 0 \/ i = 0)
    BY <1>1
  <2>3. BatchesDone'
    BY <1>1, <1>3, <2>2 DEF BatchesDone
  <2> QED
    BY <2>1, <2>3 DEF Batch
<1>4. CASE plan = Chunks /\ saved' = Saved /\ stage' = "next" /\ UNCHANGED <<upto, retried, text>>
  <2>1. /\ saved'.text = text /\ saved'.omitted = omitted /\ saved'.source = source /\ saved'.done = upto
    BY <1>4 DEF Saved
  <2>2. saved'.text \in Texts
    BY <2>1 DEF RunInv, TextTypes
  <2>3. ASSUME NEW i \in 1..upto, NEW l \in Chunks[i] PROVE IsDone(text, omitted, source, l)
    <3>1. i \in 1..Len(plan) /\ (i < upto \/ i = upto)
      BY <1>1
    <3> QED
      BY <1>1, <1>4, <2>3, <3>1 DEF RunInv, BatchesDone, LineTold
  <2>4. Checkpoint'
    BY <1>1, <1>4, <2>1, <2>3 DEF Checkpoint
  <2> QED
    BY <1>2, <1>4, <2>2, <2>4
<1>5. CASE saved' = saved
  <2>1. Checkpoint' /\ saved'.text \in Texts
    BY <1>5 DEF RunInv, Checkpoint, TextTypes
  <2> QED
    BY <1>2, <1>3, <1>5, <2>1 DEF SaveBatch
<1> QED
  BY <1>4, <1>5 DEF SaveBatch

\* The run commits.
LEMMA CommitFits == ASSUME RunInv, Commit PROVE (Batch /\ Repairing /\ Checkpoint /\ OutputTold)'
<1>1. /\ stage = "commit" /\ upto = Len(plan) /\ Len(plan) \in Nat /\ source' = source /\ ~Working
  BY PlanOfSets DEF RunInv, PlanFits, Commit, Working
<1>2. saved'.text \in Texts /\ Checkpoint'
  BY NoTextFits, ChunksFit DEF RunInv, Commit, TextTypes, Checkpoint, NoSaved
<1>3. Batch' /\ Repairing'
  BY <1>1, <1>2, OverFits DEF RunInv, Commit, TextTypes
<1>4. /\ output'.lines = UNION {plan[i] : i \in DOMAIN plan} /\ output'.text = text
      /\ output'.omitted = omitted /\ output'.source = source
  BY DEF Commit
<1>5. ASSUME NEW i \in DOMAIN plan, NEW l \in plan[i] PROVE LineTold(l)
  <2>1. i \in 1..Len(plan) /\ (i < upto \/ i = upto)
    BY <1>1, PlanOfSets DEF RunInv
  <2> QED
    BY <1>1, <1>5, <2>1 DEF RunInv, BatchesDone
<1>6. OutputTold'
  BY <1>4, <1>5 DEF OutputTold, LineTold
<1> QED
  BY <1>2, <1>3, <1>6

\* Every step keeps the invariant.
LEMMA RunInvStep == RunInv /\ [TranslationNext]_translationVars => RunInv'
<1> SUFFICES ASSUME RunInv, [TranslationNext]_translationVars PROVE RunInv'
  OBVIOUS
<1>1. Batch /\ Repairing
  BY DEF RunInv, Batch
<1>2. ASSUME (Batch /\ Repairing)', UNCHANGED <<saved, output>> PROVE RunInv'
  BY <1>2 DEF RunInv, Batch, Checkpoint, OutputTold
<1>3. CASE TranscriptReplaced
  <2>1. TextTypes' /\ PlanFits' /\ PartsLeft' /\ Repairing'
    BY <1>3
       DEF TranscriptReplaced, runVars, partVars, RunInv, TextTypes, PlanFits, PartsLeft, Repairing,
           Working
  <2>2. BatchesDone'
    BY <1>3 DEF TranscriptReplaced, runVars, partVars, RunInv, PlanFits, BatchesDone, Working
  <2>3. saved' = saved /\ output' = output
    BY <1>3 DEF TranscriptReplaced
  <2> QED
    BY <1>2, <2>1, <2>2, <2>3 DEF Batch
<1>4. ASSUME (Batch /\ Repairing)', saved' = saved, output' = NoOutput PROVE RunInv'
  BY <1>4 DEF RunInv, Batch, Checkpoint, OutputTold, NoOutput
<1>5. CASE RunAll
  BY <1>4, <1>5, RunAllFits DEF RunAll
<1>6. CASE RunLine
  BY <1>4, <1>6, RunLineFits DEF RunLine
<1>7. CASE RunDies
  BY <1>2, <1>7, OverFits DEF RunDies, RunInv, TextTypes
<1>8. CASE NextBatch
  BY <1>2, <1>8, NextBatchFits DEF NextBatch
<1>9. CASE AskPart
  BY <1>1, <1>2, <1>9, AskFits DEF AskPart, Rest
<1>10. CASE RepairKana
  BY <1>1, <1>2, <1>10, KanaFits DEF RepairKana, Rest
<1>11. CASE RepairLine
  BY <1>1, <1>2, <1>11, LineFits DEF RepairLine, Rest
<1>12. CASE SaveBatch
  BY <1>12, SaveFits DEF SaveBatch, RunInv, Batch, OutputTold
<1>13. CASE Commit
  BY <1>13, CommitFits DEF RunInv, Batch
<1>14. CASE UNCHANGED translationVars
  <2>1. /\ UNCHANGED <<plan, upto, context, retried, heard, stage, parts, attempt, plain, kana, fix, barred, text, omitted>>
        /\ UNCHANGED <<source, saved, output>>
    BY <1>14 DEF translationVars, runVars, partVars
  <2>2. Batch'
    BY <2>1
       DEF RunInv, Batch, TextTypes, PlanFits, PartsLeft, BatchesDone, Working, Waiting, LineTold,
           IsDone
  <2>3. Repairing'
    BY <2>1 DEF RunInv, Repairing, LineTold, IsDone, Part
  <2> QED
    BY <1>2, <2>1, <2>2, <2>3
<1> QED
  BY <1>3, <1>5, <1>6, <1>7, <1>8, <1>9, <1>10, <1>11, <1>12, <1>13, <1>14 DEF TranslationNext

-----------------------------------------------------------------------------
(* The theorems. *)

\* The inductive invariant holds in every state: the batches behind the run and
\* the lines of the current one that no part holds are told, and so is what the
\* checkpoint and the last commit say.
THEOREM TranslationCorrect == TranslationSpec => []RunInv
  BY RunInvInit, RunInvStep, PTL DEF TranslationSpec

\* Whatever was asked again, halved, repaired, resumed or made in another run,
\* a committed line was made from the transcript the commit is for.
THEOREM CommitsFit == TranslationSpec => []CommittedFits
<1>1. RunInv => CommittedFits
  BY DEF RunInv, OutputTold, IsDone, CommittedFits
<1> QED
  BY <1>1, TranslationCorrect, PTL

\* A line that was left out is named beside the text, across checkpoints and
\* restarts, and no outage of the model is committed as an omission.
THEOREM OmissionsAreTold == TranslationSpec => []OmissionsTold
<1>1. RunInv => OmissionsTold
  BY DEF RunInv, OutputTold, IsDone, OmissionsTold
<1> QED
  BY <1>1, TranslationCorrect, PTL

-----------------------------------------------------------------------------
(* ReviewAutopilot.  The inductive invariant AutopilotInv ties the ledger  *)
(* of commands, the command under way, the row and the Worker together.    *)

\* Types of the row, the commands and the control thread.
Fails == Failures \cup {NoFail}
RowTypes == [status : {"queued", "running", "ended", "paused", "done"}, failure : Fails, attempts : {0, 1, 2},
             source : {"scan", "remedy", "hand"}, by : {"none", "worker", "repair"}, next : Fails]
OrderTypes == [policy : Policies \cup {"hand"}, of : Kinds, rev : Fails,
               status : {"queued", "running", "completed", "failed"}, reached : Nat]
Stations == {"queue", "claim", "repair", "escalate", "resolve", "completed", "failed"}
ControlTypes == [at : Stations \cup {"idle"}, order : OrderTypes \cup {NoOrder}]

AutopilotTypes ==
  /\ row \in RowTypes
  /\ orders \subseteq OrderTypes /\ IsFiniteSet(orders)
  /\ control \in ControlTypes

\* A command is known by its identity, and reached its action at most once.
Unique == \A o, q \in orders : Id(o) = Id(q) => o = q
Untouched == \A o \in orders : o.reached <= 1 /\ (o.status = "queued" => o.reached = 0)

\* The budgets of the automatic policies.
Cap(p) == IF p = "full" THEN MaxFull ELSE 1
Budget == \A p \in Policies \ {"selective"}, k \in Kinds : Cardinality(Ledger(p, k)) <= Cap(p)

\* The command under way, and where it stands.
Executing ==
  /\ ~Idle => Now \in orders /\ Now.status = "running"
  /\ control.at \in {"queue", "claim"} => Now.reached = 0
  /\ control.at \in {"claim", "repair"} => Now.policy = "lines"
  /\ row.status = "running" /\ row.by = "repair" => control.at = "repair"

\* A repair of lines is asked for while the Worker is idle, or overtook it.
Reserved ==
  /\ \A o \in orders : o.policy = "lines" /\ o.status \in Active /\ Id(o) \notin overtook => ~working
  /\ ~working => batch = {} /\ other # "running"

AutopilotInv == AutopilotTypes /\ Unique /\ Untouched /\ Budget /\ Executing /\ Reserved

-----------------------------------------------------------------------------
(* Commands. *)

\* The ledger of a policy for a review, over any set of commands.
LedgerOf(S, p, k) == {o \in S : o.of = k /\ o.policy = p}

LEMMA LedgerIs ==
  ASSUME NEW p, NEW k
  PROVE  Ledger(p, k) = LedgerOf(orders, p, k) /\ Ledger(p, k)' = LedgerOf(orders', p, k)
  BY DEF Ledger, OfReview, OfPolicy, LedgerOf

\* A ledger is finite.
LEMMA LedgerFinite ==
  ASSUME NEW S, IsFiniteSet(S), NEW p, NEW k
  PROVE  IsFiniteSet(LedgerOf(S, p, k)) /\ Cardinality(LedgerOf(S, p, k)) \in Nat
<1>1. LedgerOf(S, p, k) \subseteq S
  BY DEF LedgerOf
<1> QED
  BY <1>1, FS_Subset, FS_CardinalityType

\* A command more is at most one more in one ledger.
LEMMA LedgerGrows ==
  ASSUME NEW S, IsFiniteSet(S), NEW o, NEW p, NEW k
  PROVE  /\ ~(o.of = k /\ o.policy = p) => LedgerOf(S \cup {o}, p, k) = LedgerOf(S, p, k)
         /\ Cardinality(LedgerOf(S \cup {o}, p, k)) <= Cardinality(LedgerOf(S, p, k)) + 1
<1>1. ~(o.of = k /\ o.policy = p) => LedgerOf(S \cup {o}, p, k) = LedgerOf(S, p, k)
  BY DEF LedgerOf
<1>2. (o.of = k /\ o.policy = p) => LedgerOf(S \cup {o}, p, k) = LedgerOf(S, p, k) \cup {o}
  BY DEF LedgerOf
<1>3. PICK L : L = LedgerOf(S, p, k)
  OBVIOUS
<1>4. IsFiniteSet(L) /\ Cardinality(L) \in Nat
  BY <1>3, LedgerFinite
<1>5. Cardinality(L \cup {o}) <= Cardinality(L) + 1
  BY <1>4, FS_AddElement
<1> QED
  BY <1>1, <1>2, <1>3, <1>4, <1>5

\* A command put back in another state leaves every ledger as long as it was.
LEMMA LedgerReplaced ==
  ASSUME NEW S, IsFiniteSet(S), NEW o \in S, NEW q, q.of = o.of, q.policy = o.policy, NEW p, NEW k
  PROVE  Cardinality(LedgerOf((S \ {o}) \cup {q}, p, k)) <= Cardinality(LedgerOf(S, p, k))
<1>1. PICK L : L = LedgerOf(S, p, k)
  OBVIOUS
<1>2. IsFiniteSet(L) /\ Cardinality(L) \in Nat
  BY <1>1, LedgerFinite
<1>3. CASE o \notin L
  <2>1. LedgerOf((S \ {o}) \cup {q}, p, k) = L
    BY <1>1, <1>3 DEF LedgerOf
  <2> QED
    BY <1>1, <1>2, <2>1
<1>4. CASE o \in L
  <2>0. PICK M : M = L \ {o}
    OBVIOUS
  <2>1. LedgerOf((S \ {o}) \cup {q}, p, k) = M \cup {q}
    BY <1>1, <1>4, <2>0 DEF LedgerOf
  <2>2. IsFiniteSet(M) /\ Cardinality(M) = Cardinality(L) - 1 /\ Cardinality(M) \in Nat
    BY <1>2, <1>4, <2>0, FS_RemoveElement, FS_CardinalityType
  <2>3. Cardinality(M \cup {q}) = IF q \in M THEN Cardinality(M) ELSE Cardinality(M) + 1
    BY <2>2, FS_AddElement, Zenon
  <2>4. PICK N : N = M \cup {q}
    OBVIOUS
  <2>5. Cardinality(N) <= Cardinality(L)
    <3>1. Cardinality(N) = IF q \in M THEN Cardinality(M) ELSE Cardinality(M) + 1
      BY <2>3, <2>4, Zenon
    <3> QED
      BY <1>2, <2>2, <3>1
  <2> QED
    BY <1>1, <2>1, <2>4, <2>5, Zenon
<1> QED
  BY <1>3, <1>4

\* What a command is that the ledger has not seen.
Fresh(o) ==
  /\ o \in OrderTypes /\ o.status = "queued" /\ o.reached = 0
  /\ \A q \in orders : Id(q) # Id(o)
  /\ o.policy \in Policies \ {"selective"} => Cardinality(Ledger(o.policy, o.of)) < Cap(o.policy)

\* What a command is created with, and what makes two the same.
LEMMA OrderIs ==
  ASSUME NEW p \in Policies \cup {"hand"}, NEW k \in Kinds, NEW f \in Fails
  PROVE  /\ Order(p, k, f) \in OrderTypes /\ Order(p, k, f).policy = p /\ Order(p, k, f).of = k
         /\ Order(p, k, f).rev = f /\ Order(p, k, f).status = "queued" /\ Order(p, k, f).reached = 0
  BY DEF Order, OrderTypes

LEMMA SameId ==
  ASSUME NEW o, NEW q
  PROVE  Id(o) = Id(q) <=> (o.policy = q.policy /\ o.of = q.of /\ o.rev = q.rev)
  BY DEF Id

\* A command of another failure is another one.
LEMMA NewId ==
  ASSUME NEW p \in Policies \cup {"hand"}, NEW k \in Kinds, NEW f \in Fails,
         Ledger(p, k) = {} \/ \A o \in Ledger(p, k) : o.rev # f
  PROVE  \A q \in orders : Id(q) # Id(Order(p, k, f))
  BY SameId, OrderIs DEF Ledger, OfReview, OfPolicy

\* Where nothing was tried the budget is whole.
LEMMA OnlyOneOf ==
  ASSUME NEW p \in Policies \ {"full"}, NEW k, Ledger(p, k) = {}
  PROVE  Cardinality(Ledger(p, k)) < Cap(p)
  BY FS_EmptySet DEF Cap

\* The policies propose what the ledger has not seen, within their budgets.
LEMMA Proposed ==
  ASSUME AutopilotTypes, NEW ready, NEW o \in Proposals(ready)
  PROVE  Fresh(o) /\ (o.policy = "lines" => other # "running")
<1> DEFINE all == <<OmissionOrders(ready), LineOrders(ready), TimingOrders(ready), SelectiveOrders(ready), FullOrders(ready)>>
           some == {i \in DOMAIN all : all[i] # {}}
<1>0. row.failure \in Fails /\ IsFiniteSet(orders)
  BY DEF AutopilotTypes, RowTypes
<1>1. o \in OmissionOrders(ready) \cup LineOrders(ready) \cup TimingOrders(ready) \cup SelectiveOrders(ready) \cup FullOrders(ready)
  <2>1. some # {} /\ o \in all[CHOOSE i \in some : \A j \in some : i <= j]
    BY DEF Proposals
  <2>2. DOMAIN all = {1, 2, 3, 4, 5}
    OBVIOUS
  <2>3. some \subseteq {1, 2, 3, 4, 5}
    BY <2>2
  <2>4. \E i \in some : \A j \in some : i <= j
    <3> HIDE DEF some, all
    <3>0. 1 \in some \/ 2 \in some \/ 3 \in some \/ 4 \in some \/ 5 \in some
      BY <2>1, <2>3
    <3>1. CASE 1 \in some
      BY <2>3, <3>1
    <3>2. CASE 1 \notin some /\ 2 \in some
      BY <2>3, <3>2
    <3>3. CASE 1 \notin some /\ 2 \notin some /\ 3 \in some
      BY <2>3, <3>3
    <3>4. CASE some \subseteq {4, 5} /\ 4 \in some
      BY <3>4
    <3>5. CASE some \subseteq {5} /\ 5 \in some
      BY <3>5
    <3> QED
      BY <2>3, <3>0, <3>1, <3>2, <3>3, <3>4, <3>5
  <2>5. PICK i \in {1, 2, 3, 4, 5} : o \in all[i]
    <3> HIDE DEF some, all
    <3> QED
      BY <2>1, <2>3, <2>4
  <2> QED
    BY <2>5
<1>2. CASE o \in OmissionOrders(ready)
  <2>1. o = Order("omission", "asr", row.failure) /\ Ledger("omission", "asr") = {}
    BY <1>2 DEF OmissionOrders, Candidate
  <2> QED
    BY <1>0, <2>1, OrderIs, NewId, OnlyOneOf DEF Fresh, Policies, Kinds
<1>3. CASE o \in LineOrders(ready)
  <2>1. PICK k \in Kinds : o = Order("lines", k, row.failure)
    BY <1>3 DEF LineOrders
  <2>2. o.of = k /\ o.policy = "lines"
    BY <1>0, <2>1, OrderIs DEF Policies
  <2>3. /\ Cardinality(Ledger("lines", k)) < 1
        /\ (\A q \in Ledger("lines", k) : q.rev # row.failure) /\ other # "running"
    BY <1>3, <2>2 DEF LineOrders, Allowed, Busy
  <2> QED
    BY <1>0, <2>1, <2>3, OrderIs, NewId DEF Fresh, Policies, Cap
<1>4. CASE o \in TimingOrders(ready)
  <2>1. o = Order("timing", "subtitle", row.failure) /\ Ledger("timing", "subtitle") = {}
    BY <1>4 DEF TimingOrders, Candidate
  <2> QED
    BY <1>0, <2>1, OrderIs, NewId, OnlyOneOf DEF Fresh, Policies, Kinds
<1>5. CASE o \in SelectiveOrders(ready)
  <2>1. /\ o = Order("selective", "asr", row.failure)
        /\ \A q \in Ledger("selective", "asr") : q.rev # row.failure
    BY <1>5 DEF SelectiveOrders, FirstFor
  <2> QED
    BY <1>0, <2>1, OrderIs, NewId DEF Fresh, Policies, Kinds
<1>6. CASE o \in FullOrders(ready)
  <2>1. /\ o = Order("full", "asr", row.failure) /\ \A q \in Ledger("full", "asr") : q.rev # row.failure
        /\ Cardinality(Ledger("full", "asr")) < MaxFull
    BY <1>6 DEF FullOrders, FirstFor, Allowed
  <2> QED
    BY <1>0, <2>1, OrderIs, NewId DEF Fresh, Policies, Kinds, Cap
<1> QED
  BY <1>1, <1>2, <1>3, <1>4, <1>5, <1>6

\* So is what the operator asks for.
LEMMA HandIsFresh ==
  ASSUME NEW k \in Kinds, HandOrder(k)
  PROVE  /\ Fresh(Order("hand", k, NoFail)) /\ Order("hand", k, NoFail).policy = "hand"
         /\ orders' = orders \cup {Order("hand", k, NoFail)}
<1>1. Ledger("hand", k) = {} /\ NoFail \in Fails
  BY DEF HandOrder, Fails
<1> QED
  BY <1>1, OrderIs, NewId DEF Fresh, Policies, HandOrder

-----------------------------------------------------------------------------
(* What the steps do to the commands. *)

\* A command put back in another state.
Put(o, q) ==
  /\ orders' = (orders \ {o}) \cup {q}
  /\ q.policy = o.policy /\ q.of = o.of /\ q.rev = o.rev
  /\ \/ o.status = "queued" /\ q.status = "running" /\ q.reached = o.reached
     \/ q.status \in {"completed", "failed"} /\ q.reached = o.reached
     \/ o.status = "running" /\ q.status = "running" /\ o.reached = 0 /\ q.reached = 1

\* A command in another state, or once reached.
LEMMA StatusPut ==
  ASSUME NEW o \in OrderTypes, NEW s \in {"running", "completed", "failed"}
  PROVE  /\ [o EXCEPT !.status = s] \in OrderTypes /\ [o EXCEPT !.status = s].status = s
         /\ [o EXCEPT !.status = s].policy = o.policy /\ [o EXCEPT !.status = s].of = o.of
         /\ [o EXCEPT !.status = s].rev = o.rev /\ [o EXCEPT !.status = s].reached = o.reached
  BY DEF OrderTypes

LEMMA ReachedPut ==
  ASSUME NEW o \in OrderTypes, o.reached = 0
  PROVE  \E q \in OrderTypes : /\ q = [o EXCEPT !.reached = @ + 1] /\ q.reached = 1
                               /\ q.status = o.status /\ q.policy = o.policy /\ q.of = o.of
                               /\ q.rev = o.rev
<1> DEFINE q == [o EXCEPT !.reached = @ + 1]
<1>1. /\ q \in OrderTypes /\ q.reached = 1
      /\ q.status = o.status /\ q.policy = o.policy /\ q.of = o.of /\ q.rev = o.rev
  BY DEF OrderTypes
<1> QED
  BY <1>1

\* Every command the thread executes is one of the commands, and runs.
LEMMA NowIs ==
  ASSUME AutopilotTypes, Executing, ~Idle
  PROVE  Now \in orders /\ Now \in OrderTypes /\ Now.status = "running"
  BY DEF AutopilotTypes, Executing

\* The steps that put a command back: reaching its action,
LEMMA ReachedPuts ==
  ASSUME AutopilotTypes, Executing, Stands("queue") \/ Stands("claim"),
         NEW x \in {"completed", "repair"}, Reached(x)
  PROVE  \E q \in OrderTypes : Put(Now, q) /\ Now \in orders /\ control'.at = x /\ control'.order = q /\ control' \in ControlTypes
<1>1. Now \in orders /\ Now \in OrderTypes /\ Now.status = "running" /\ Now.reached = 0
  BY NowIs DEF Idle, Stands, Executing
<1>2. PICK q \in OrderTypes :
        /\ q = [Now EXCEPT !.reached = @ + 1] /\ q.reached = 1
        /\ q.status = Now.status /\ q.policy = Now.policy /\ q.of = Now.of /\ q.rev = Now.rev
  BY <1>1, ReachedPut
<1>3. orders' = (orders \ {Now}) \cup {q} /\ control' = [at |-> x, order |-> q]
  BY <1>2 DEF Reached
<1>4. control'.at = x /\ control'.order = q /\ control' \in ControlTypes
  BY <1>3 DEF ControlTypes, Stations
<1> QED
  BY <1>1, <1>2, <1>3, <1>4 DEF Put

\* beginning,
LEMMA Executes ==
  ASSUME AutopilotTypes, Executing, NEW o \in orders, Execute(o)
  PROVE  \E q \in OrderTypes : /\ Put(o, q) /\ control'.order = q /\ q.status = "running" /\ q.reached = o.reached
                               /\ control'.at \in {"failed", "claim", "queue"}
                               /\ (control'.at = "claim" => q.policy = "lines")
                               /\ control' \in ControlTypes
<1> DEFINE q == [o EXCEPT !.status = "running"]
<1>1. o \in OrderTypes /\ o.status = "queued"
  BY DEF AutopilotTypes, Execute
<1>2. /\ q \in OrderTypes /\ q.status = "running" /\ q.policy = o.policy /\ q.of = o.of
      /\ q.rev = o.rev /\ q.reached = o.reached
  BY <1>1, StatusPut
<1>3. /\ orders' = (orders \ {o}) \cup {q}
      /\ control' = [order |-> q,
                 at |-> IF ~StillValid(o) THEN "failed" ELSE IF o.policy = "lines" THEN "claim" ELSE "queue"]
  BY DEF Execute, PutOrder
<1> HIDE DEF q
<1>4. /\ control'.order = q /\ control'.at \in {"failed", "claim", "queue"} /\ (control'.at = "claim" => q.policy = "lines")
      /\ control' \in ControlTypes
  BY <1>2, <1>3 DEF ControlTypes, Stations
<1> QED
  BY <1>1, <1>2, <1>3, <1>4 DEF Put

\* answering,
LEMMA Answers ==
  ASSUME AutopilotTypes, Executing, Answer
  PROVE  \E q \in OrderTypes : Put(Now, q) /\ Now \in orders /\ q.status \in {"completed", "failed"}
<1>1. Now \in orders /\ Now \in OrderTypes /\ control.at \in {"completed", "failed"}
  BY NowIs DEF Idle, Answer
<1>2. PICK s \in {"completed", "failed"} : s = control.at
  BY <1>1
<1>3. orders' = (orders \ {Now}) \cup {[Now EXCEPT !.status = s]}
  BY <1>2 DEF Answer, PutOrder
<1> QED
  BY <1>1, <1>3, StatusPut DEF Put

\* giving up,
LEMMA OrderGivenUp ==
  ASSUME AutopilotTypes, NEW o \in orders, GivenUp(o)
  PROVE  \E q \in OrderTypes : Put(o, q) /\ q.status = "failed"
<1>1. o \in OrderTypes /\ orders' = (orders \ {o}) \cup {[o EXCEPT !.status = "failed"]}
  BY DEF AutopilotTypes, GivenUp, PutOrder
<1> QED
  BY <1>1, StatusPut DEF Put

\* and the policies' proposals, which add one.
LEMMA Proposes ==
  ASSUME AutopilotTypes, NEW ready, NEW o \in Proposals(ready), Propose(o), UNCHANGED working
  PROVE  /\ Fresh(o) /\ orders' = orders \cup {o} /\ overtook \subseteq overtook'
         /\ (o.policy = "lines" => ~working \/ Id(o) \in overtook')
  BY Proposed DEF Propose

\* Nothing else touches the ledger.
LEMMA Orders ==
  ASSUME AutopilotTypes, Executing, [AutopilotNext]_autopilotVars
  PROVE  \/ UNCHANGED orders
         \/ \E o \in OrderTypes : /\ Fresh(o) /\ orders' = orders \cup {o} /\ working' = working
                                  /\ (o.policy = "lines" => ~working \/ Id(o) \in overtook')
         \/ \E o \in orders : \E q \in OrderTypes : Put(o, q)
<1>1. ASSUME NEW ready, NEW o \in Proposals(ready), Propose(o), UNCHANGED working
      PROVE  \E p \in OrderTypes : /\ Fresh(p) /\ orders' = orders \cup {p} /\ working' = working
                                   /\ (p.policy = "lines" => ~working \/ Id(p) \in overtook')
  BY <1>1, Proposes DEF Fresh
<1>2. ASSUME WorkerLooks \/ ControlProposes
      PROVE  UNCHANGED orders \/ \E ready : \E o \in Proposals(ready) : Propose(o) /\ UNCHANGED working
  BY <1>2 DEF WorkerLooks, ControlProposes
<1>3. ASSUME NEW k \in Kinds, HandOrder(k)
      PROVE  \E o \in OrderTypes : /\ Fresh(o) /\ orders' = orders \cup {o} /\ working' = working /\ o.policy = "hand"
  BY <1>3, HandIsFresh DEF Fresh, HandOrder
<1>4. ASSUME QueueRow PROVE UNCHANGED orders \/ \E q \in OrderTypes : Put(Now, q) /\ Now \in orders
  BY <1>4, ReachedPuts DEF QueueRow
<1>5. ASSUME ClaimLines
      PROVE  UNCHANGED orders \/ \E q \in OrderTypes : Put(Now, q) /\ Now \in orders
  BY <1>5, ReachedPuts DEF ClaimLines
<1> QED
  BY <1>1, <1>2, <1>3, <1>4, <1>5, Executes, Answers, OrderGivenUp
     DEF AutopilotNext, autopilotVars, ClaimsVideo, ClaimsOther, OtherEnds, ChildFails,
         ChildPublishes, Recorded, CycleEnds, QueueByHand, LinesEnd, Escalate, Resolve, Stop

-----------------------------------------------------------------------------
(* Every step keeps the invariant. *)

\* Types of the ledger.
LEMMA OrdersTyped ==
  ASSUME AutopilotTypes, Executing, [AutopilotNext]_autopilotVars
  PROVE  orders' \subseteq OrderTypes /\ IsFiniteSet(orders')
<1>0. orders \subseteq OrderTypes /\ IsFiniteSet(orders)
  BY DEF AutopilotTypes
<1>1. ASSUME NEW o \in OrderTypes, orders' = orders \cup {o}
      PROVE  orders' \subseteq OrderTypes /\ IsFiniteSet(orders')
  BY <1>0, <1>1, FS_AddElement
<1>2. ASSUME NEW o \in orders, NEW q \in OrderTypes, Put(o, q)
      PROVE  orders' \subseteq OrderTypes /\ IsFiniteSet(orders')
  <2>1. IsFiniteSet(orders \ {o}) /\ orders' = (orders \ {o}) \cup {q}
    BY <1>0, <1>2, FS_RemoveElement DEF Put
  <2>2. IsFiniteSet((orders \ {o}) \cup {q})
    BY <2>1, FS_AddElement
  <2> QED
    BY <1>0, <2>1, <2>2
<1> QED
  BY <1>0, <1>1, <1>2, Orders

\* The clauses of the invariant, one by one.
LEMMA UniqueStep ==
  ASSUME AutopilotTypes, Executing, Unique, Untouched, [AutopilotNext]_autopilotVars
  PROVE  Unique' /\ Untouched'
<1>0. Unique' <=> \A o, q \in orders' : Id(o) = Id(q) => o = q
  BY DEF Unique, Id
<1>1. CASE UNCHANGED orders
  BY <1>0, <1>1 DEF Unique, Untouched
<1>2. ASSUME NEW o \in OrderTypes, Fresh(o), orders' = orders \cup {o} PROVE Unique' /\ Untouched'
  BY <1>0, <1>2 DEF Unique, Untouched, Fresh
<1>3. ASSUME NEW o \in orders, NEW q \in OrderTypes, Put(o, q) PROVE Unique' /\ Untouched'
  <2>1. Unique'
    BY <1>0, <1>3, SameId DEF Unique, Put
  <2>2. Untouched'
    BY <1>3 DEF Untouched, Put
  <2> QED
    BY <2>1, <2>2
<1> QED
  BY <1>1, <1>2, <1>3, Orders

LEMMA BudgetStep ==
  ASSUME AutopilotTypes, Executing, Budget, [AutopilotNext]_autopilotVars
  PROVE  Budget'
<1> SUFFICES ASSUME NEW p \in Policies \ {"selective"}, NEW k \in Kinds
             PROVE  Cardinality(LedgerOf(orders', p, k)) <= Cap(p)
  <2>1. \A p, k : Ledger(p, k)' = LedgerOf(orders', p, k)
    BY LedgerIs
  <2> QED
    BY <2>1 DEF Budget, Cap
<1>0. IsFiniteSet(orders) /\ Cap(p) \in Nat
  BY AutopilotAssumption DEF AutopilotTypes, Cap
<1>1. PICK n \in Nat : n = Cardinality(LedgerOf(orders, p, k))
  BY <1>0, LedgerFinite
<1>2. n <= Cap(p)
  BY <1>1, LedgerIs DEF Budget
<1>3. CASE UNCHANGED orders
  BY <1>1, <1>2, <1>3
<1>4. ASSUME NEW o \in OrderTypes, Fresh(o), orders' = orders \cup {o}
      PROVE  Cardinality(LedgerOf(orders', p, k)) <= Cap(p)
  <2>1. CASE o.of = k /\ o.policy = p
    <3>1. n < Cap(p)
      BY <1>1, <1>4, <2>1, LedgerIs DEF Fresh
    <3>2. /\ Cardinality(LedgerOf(orders', p, k)) <= n + 1
          /\ Cardinality(LedgerOf(orders', p, k)) \in Nat
      BY <1>0, <1>1, <1>4, LedgerGrows, LedgerFinite, OrdersTyped
    <3> QED
      BY <1>0, <3>1, <3>2
  <2>2. CASE ~(o.of = k /\ o.policy = p)
    BY <1>0, <1>1, <1>2, <1>4, <2>2, LedgerGrows
  <2> QED
    BY <2>1, <2>2
<1>5. ASSUME NEW o \in orders, NEW q \in OrderTypes, Put(o, q)
      PROVE  Cardinality(LedgerOf(orders', p, k)) <= Cap(p)
  <2>1. Cardinality(LedgerOf((orders \ {o}) \cup {q}, p, k)) <= Cardinality(LedgerOf(orders, p, k))
    BY <1>0, <1>5, LedgerReplaced DEF Put
  <2>2. Cardinality(LedgerOf(orders', p, k)) <= n
    BY <1>1, <1>5, <2>1, Zenon DEF Put
  <2>3. Cardinality(LedgerOf(orders', p, k)) \in Nat
    BY LedgerFinite, OrdersTyped
  <2> QED
    BY <1>0, <1>2, <2>2, <2>3
<1> QED
  BY <1>3, <1>4, <1>5, Orders

\* What becomes of the row: its type, and whether a repair runs on it.
RowGoes ==
  /\ row' \in RowTypes
  /\ row'.status = "running" /\ row'.by = "repair" =>
       UNCHANGED row \/ (Stands("claim") /\ control'.at = "repair")

LEMMA RowSteps ==
  ASSUME AutopilotTypes, [AutopilotNext]_autopilotVars
  PROVE  RowGoes
<1>0. row \in RowTypes
  BY DEF AutopilotTypes
<1>1. CASE UNCHANGED row
  BY <1>0, <1>1 DEF RowGoes
<1>2. CASE ClaimsVideo
  <2> DEFINE a == IF row.attempts = 2 THEN 2 ELSE row.attempts + 1
  <2>1. a \in {0, 1, 2}
    BY <1>0 DEF RowTypes
  <2>2. row' = [row EXCEPT !.status = "running", !.by = "worker", !.attempts = a]
    BY <1>2 DEF ClaimsVideo
  <2> HIDE DEF a
  <2> QED
    BY <1>0, <2>1, <2>2 DEF RowGoes, RowTypes
<1>3. CASE ChildFails
  <2>1. PICK f \in Failures : row' = [row EXCEPT !.status = "ended", !.next = f]
    BY <1>3 DEF ChildFails
  <2> QED
    BY <1>0, <2>1 DEF RowGoes, RowTypes, Fails
<1>4. CASE ChildPublishes
  BY <1>0, <1>4 DEF ChildPublishes, RowGoes, RowTypes, Fails
<1>5. CASE Recorded
  BY <1>0, <1>5 DEF Recorded, RowGoes, RowTypes, Fails
<1>6. CASE row' = Requeued
  BY <1>0, <1>6 DEF Requeued, RowGoes, RowTypes
<1>7. CASE QueueByHand
  BY <1>0, <1>7 DEF QueueByHand, RowGoes, RowTypes, Fails
<1>8. CASE ClaimLines
  <2>1. CASE UNCHANGED row
    BY <1>1, <2>1
  <2>2. CASE row' = [row EXCEPT !.status = "running", !.by = "repair"] /\ Reached("repair")
    <3>1. control'.at = "repair" /\ Stands("claim")
      BY <1>8, <2>2 DEF Reached, ClaimLines
    <3>2. row' \in RowTypes
      BY <1>0, <2>2 DEF RowTypes
    <3> QED
      BY <3>1, <3>2 DEF RowGoes
  <2> QED
    BY <1>8, <2>1, <2>2 DEF ClaimLines
<1>9. CASE LinesEnd
  BY <1>0, <1>9 DEF LinesEnd, RowGoes, RowTypes, Fails
<1>10. CASE Stop
  <2>1. row' \in Recovered
    BY <1>10 DEF Stop
  <2>2. CASE ByWorker
    BY <1>0, <2>1, <2>2 DEF Recovered, ByWorker, RowGoes, RowTypes, Fails
  <2>3. CASE row.status = "ended" /\ row.next = NoFail
    BY <1>0, <2>1, <2>3 DEF Recovered, ByWorker, RowGoes, RowTypes, Fails
  <2>4. CASE row.status = "ended" /\ row.next # NoFail
    BY <1>0, <2>1, <2>4 DEF Recovered, ByWorker, RowGoes, RowTypes, Fails
  <2>5. CASE row.status = "running" /\ row.by = "repair"
    BY <1>0, <2>1, <2>5 DEF Recovered, ByWorker, RowGoes, RowTypes, Fails
  <2>6. CASE ~ByWorker /\ row.status # "ended" /\ ~(row.status = "running" /\ row.by = "repair")
    BY <1>1, <2>1, <2>6 DEF Recovered
  <2> QED
    BY <2>2, <2>3, <2>4, <2>5, <2>6
<1> QED
  BY <1>1, <1>2, <1>3, <1>4, <1>5, <1>6, <1>7, <1>8, <1>9, <1>10
     DEF AutopilotNext, autopilotVars, WorkerLooks, ClaimsOther, OtherEnds, CycleEnds,
         ControlProposes, QueueRow, Escalate, Resolve, Answer, HandOrder, Execute, GivenUp

\* After a death no repair runs, nor after a repair has ended.
LEMMA RepairOver ==
  ASSUME AutopilotTypes, Stop \/ LinesEnd
  PROVE  ~(row'.status = "running" /\ row'.by = "repair")
<1>0. row \in RowTypes
  BY DEF AutopilotTypes
<1>1. CASE LinesEnd
  BY <1>0, <1>1 DEF LinesEnd, RowTypes
<1>2. CASE Stop
  <2>1. row' \in Recovered
    BY <1>2 DEF Stop
  <2>2. CASE ByWorker
    BY <1>0, <2>1, <2>2 DEF Recovered, RowTypes
  <2>3. CASE ~ByWorker /\ row.status = "ended"
    BY <1>0, <2>1, <2>3 DEF Recovered, RowTypes
  <2>4. CASE ~ByWorker /\ row.status = "running" /\ row.by = "repair"
    BY <1>0, <2>1, <2>4 DEF Recovered, RowTypes
  <2>5. CASE ~ByWorker /\ row.status # "ended" /\ ~(row.status = "running" /\ row.by = "repair")
    BY <2>1, <2>5 DEF Recovered
  <2> QED
    BY <2>2, <2>3, <2>4, <2>5
<1> QED
  BY <1>1, <1>2

\* The thread goes on with its command.
LEMMA GoesOn ==
  ASSUME AutopilotTypes, NEW x \in Stations, Goes(x)
  PROVE  control' \in ControlTypes /\ control'.at = x /\ control'.order = control.order
  BY DEF AutopilotTypes, Goes, ControlTypes

LEMMA ExecutingStep ==
  ASSUME AutopilotTypes, Unique, Untouched, Executing, [AutopilotNext]_autopilotVars
  PROVE  control' \in ControlTypes /\ Executing'
<1> DEFINE P == /\ control' \in ControlTypes
                /\ control'.at # "idle" => control'.order \in orders' /\ control'.order.status = "running"
                /\ control'.at \in {"queue", "claim"} => control'.order.reached = 0
                /\ control'.at \in {"claim", "repair"} => control'.order.policy = "lines"
                /\ row'.status = "running" /\ row'.by = "repair" => control'.at = "repair"
<1> SUFFICES P
  BY DEF Executing, Idle, Now
<1>0. control \in ControlTypes /\ RowGoes
  BY RowSteps DEF AutopilotTypes
<1>1. ASSUME UNCHANGED control, orders \subseteq orders' PROVE P
  BY <1>0, <1>1 DEF Executing, Idle, RowGoes, Stands, Now
<1>2. ASSUME NEW x \in {"failed", "completed"}, Goes(x), UNCHANGED orders, ~Idle, ~Stands("repair")
      PROVE  P
  <2>1. control' \in ControlTypes /\ control'.at = x /\ control'.order = Now
    BY <1>2, GoesOn DEF Stations, Now
  <2>2. Now \in orders' /\ Now.status = "running"
    BY <1>2 DEF Executing
  <2> QED
    BY <1>0, <1>2, <2>1, <2>2 DEF Executing, RowGoes, Stands
<1>3. CASE QueueRow
  <2>1. CASE Goes("failed") /\ UNCHANGED orders
    BY <1>2, <1>3, <2>1 DEF QueueRow, Stands, Idle
  <2>2. CASE row' = Requeued /\ Reached("completed")
    <3>1. PICK q \in OrderTypes : Put(Now, q) /\ Now \in orders /\ control'.at = "completed" /\ control'.order = q
                                  /\ control' \in ControlTypes
      BY <1>3, <2>2, ReachedPuts DEF QueueRow
    <3>2. Now.status = "running" /\ q.status = "running" /\ q \in orders'
      BY <1>3, <2>2, <3>1, NowIs
         DEF Put, QueueRow, Stands, Idle, Reached, AutopilotTypes, OrderTypes
    <3> QED
      BY <1>0, <1>3, <3>1, <3>2 DEF Executing, RowGoes, Stands, QueueRow
  <2> QED
    BY <1>3, <2>1, <2>2 DEF QueueRow
<1>4. CASE QueueByHand
  BY <1>2, <1>4 DEF QueueByHand, Stands, Idle
<1>5. CASE ClaimLines
  <2>1. CASE Goes("failed") /\ UNCHANGED orders
    BY <1>2, <1>5, <2>1 DEF ClaimLines, Stands, Idle
  <2>2. CASE Reached("repair")
    <3>1. PICK q \in OrderTypes : Put(Now, q) /\ Now \in orders /\ control'.at = "repair" /\ control'.order = q
                                  /\ control' \in ControlTypes
      BY <1>5, <2>2, ReachedPuts DEF ClaimLines
    <3>2. Now.status = "running" /\ q.status = "running" /\ q \in orders' /\ q.policy = "lines"
      BY <1>5, <2>2, <3>1, NowIs
         DEF Put, ClaimLines, Stands, Idle, Reached, AutopilotTypes, OrderTypes, Executing
    <3> QED
      BY <1>0, <1>5, <3>1, <3>2
  <2> QED
    BY <1>5, <2>1, <2>2 DEF ClaimLines
<1>6. CASE LinesEnd
  <2>1. PICK x \in {"resolve", "failed", "escalate"} : Goes(x)
    BY <1>6 DEF LinesEnd
  <2>2. control' \in ControlTypes /\ control'.at = x /\ control'.order = Now
    BY <2>1, GoesOn DEF Stations, Now
  <2>3. Now \in orders' /\ Now.status = "running"
    BY <1>6 DEF Executing, LinesEnd, Stands, Idle
  <2> QED
    BY <1>6, <2>2, <2>3, RepairOver
<1>7. CASE Escalate \/ Resolve
  BY <1>2, <1>7 DEF Escalate, Resolve, Stands, Idle
<1>8. ASSUME NEW o \in orders, Execute(o) PROVE P
  <2>1. PICK q \in OrderTypes : /\ Put(o, q) /\ control'.order = q /\ q.status = "running" /\ q.reached = o.reached
                               /\ control'.at \in {"failed", "claim", "queue"}
                               /\ (control'.at = "claim" => q.policy = "lines")
                               /\ control' \in ControlTypes
    BY <1>8, Executes
  <2>2. q.reached = 0 /\ q \in orders'
    BY <1>8, <2>1 DEF Untouched, Execute, Put
  <2>3. ~(row'.status = "running" /\ row'.by = "repair")
    BY <1>0, <1>8 DEF Execute, Executing, Idle
  <2> QED
    BY <2>1, <2>2, <2>3
<1>9. CASE Answer
  <2>1. control' = [at |-> "idle", order |-> NoOrder] /\ control.at # "repair" /\ UNCHANGED row
    BY <1>9 DEF Answer
  <2>2. control' \in ControlTypes /\ control'.at = "idle"
    BY <2>1 DEF ControlTypes
  <2> QED
    BY <2>1, <2>2 DEF Executing
<1>10. CASE Stop
  <2>1. control' = [at |-> "idle", order |-> NoOrder]
    BY <1>10 DEF Stop
  <2>2. control' \in ControlTypes /\ control'.at = "idle"
    BY <2>1 DEF ControlTypes
  <2> QED
    BY <1>10, <2>2, RepairOver
<1>11. ASSUME NEW o \in orders, GivenUp(o) PROVE P
  <2>1. UNCHANGED <<row, control>> /\ control.at = "idle"
    BY <1>11 DEF GivenUp, Idle
  <2> QED
    BY <1>0, <2>1 DEF Executing
<1>12. ASSUME WorkerLooks \/ ControlProposes \/ \E k \in Kinds : HandOrder(k) PROVE P
  BY <1>1, <1>12 DEF WorkerLooks, ControlProposes, HandOrder, Propose
<1>13. ASSUME UNCHANGED <<orders, control>> PROVE P
  BY <1>1, <1>13
<1> HIDE DEF P
<1> QED
  BY <1>3, <1>4, <1>5, <1>6, <1>7, <1>8, <1>9, <1>10, <1>11, <1>12, <1>13
     DEF AutopilotNext, autopilotVars, ClaimsVideo, ClaimsOther, OtherEnds, ChildFails,
         ChildPublishes, Recorded, CycleEnds

LEMMA ReservedStep ==
  ASSUME AutopilotTypes, Executing, Reserved, [AutopilotNext]_autopilotVars
  PROVE  Reserved'
<1>1. overtook \subseteq overtook'
  BY DEF AutopilotNext, autopilotVars, WorkerLooks, ClaimsVideo, ClaimsOther, OtherEnds, ChildFails,
         ChildPublishes, Recorded, CycleEnds, ControlProposes, Propose, QueueRow, QueueByHand,
         ClaimLines, LinesEnd, Escalate, Resolve, Answer, Stop, HandOrder, Execute, GivenUp
<1>2. working' => working \/ (~Yields /\ UNCHANGED <<orders, overtook>>)
  BY DEF AutopilotNext, autopilotVars, WorkerLooks, ClaimsVideo, ClaimsOther, OtherEnds, ChildFails,
         ChildPublishes, Recorded, CycleEnds, ControlProposes, Propose, QueueRow, QueueByHand,
         ClaimLines, LinesEnd, Escalate, Resolve, Answer, Stop, HandOrder, Execute, GivenUp
<1>3. ASSUME NEW o \in orders', o.policy = "lines", o.status \in Active, Id(o) \notin overtook',
             working'
      PROVE  FALSE
  <2>1. CASE o \in orders
    BY <1>1, <1>2, <1>3, <2>1 DEF Reserved, Yields, OfPolicy
  <2>2. CASE Fresh(o) /\ orders' = orders \cup {o} /\ working' = working /\ (o.policy = "lines" => ~working \/ Id(o) \in overtook')
    BY <1>3, <2>2
  <2>3. ASSUME NEW p \in orders, Put(p, o) PROVE FALSE
    <3>1. p.policy = "lines" /\ Id(p) = Id(o)
      BY <1>3, <2>3, SameId DEF Put
    <3>2. p.status \in Active
      BY <1>3, <2>3 DEF Put, Active
    <3> QED
      BY <1>1, <1>2, <1>3, <3>1, <3>2 DEF Reserved, Yields, OfPolicy
  <2>4. ASSUME NEW p \in orders, NEW q \in OrderTypes, Put(p, q) PROVE o \in orders \/ o = q
    BY <2>4 DEF Put
  <2> QED
    BY <2>1, <2>2, <2>3, <2>4, Orders
<1>4. ASSUME ~working' PROVE batch' = {} /\ other' # "running"
  BY <1>4
     DEF Reserved, AutopilotNext, autopilotVars, WorkerLooks, ClaimsVideo, ClaimsOther, OtherEnds,
         ChildFails, ChildPublishes, Recorded, CycleEnds, ControlProposes, QueueRow, QueueByHand,
         ClaimLines, LinesEnd, Escalate, Resolve, Answer, Stop, HandOrder, Execute, GivenUp
<1> QED
  BY <1>3, <1>4 DEF Reserved, Active, Id

-----------------------------------------------------------------------------

\* The invariant holds at first and after every step.
LEMMA AutopilotBegins == AutopilotInit => AutopilotInv
<1> SUFFICES ASSUME AutopilotInit PROVE AutopilotInv
  OBVIOUS
<1>1. AutopilotTypes
  BY FS_EmptySet DEF AutopilotInit, AutopilotTypes, RowTypes, Fails, ControlTypes
<1>2. \A p, k : Ledger(p, k) = {}
  BY DEF AutopilotInit, Ledger, OfReview, OfPolicy
<1>3. Budget
  BY <1>2, FS_EmptySet, AutopilotAssumption DEF Budget, Cap
<1> QED
  BY <1>1, <1>3 DEF AutopilotInv, AutopilotInit, Unique, Untouched, Executing, Idle, Reserved

LEMMA AutopilotSteps ==
  ASSUME AutopilotInv, [AutopilotNext]_autopilotVars
  PROVE  AutopilotInv'
<1>1. AutopilotTypes'
  BY OrdersTyped, RowSteps, ExecutingStep DEF AutopilotInv, AutopilotTypes, RowGoes
<1> QED
  BY <1>1, UniqueStep, BudgetStep, ExecutingStep, ReservedStep DEF AutopilotInv

\* The inductive invariant holds in every state: one command for one failure and
\* policy, none reached twice, within the budgets, and the repair of lines alone.
THEOREM AutopilotCorrect == AutopilotSpec => []AutopilotInv
<1>1. AutopilotInv /\ [AutopilotNext]_autopilotVars => AutopilotInv'
  BY AutopilotSteps
<1> QED
  BY <1>1, AutopilotBegins, PTL DEF AutopilotSpec

\* No remedy is applied twice to one failure, and no policy exceeds its budget
\* for a review, across deaths and restarts of the control thread (main.py, the
\* automatic handling of open quality reviews).
THEOREM RemediesAreNotRepeated == AutopilotSpec => []RemedyOnce
<1>1. AutopilotInv => RemedyOnce
  <2> SUFFICES ASSUME AutopilotInv PROVE RemedyOnce
    OBVIOUS
  <2>1. ASSUME NEW o \in orders PROVE o.reached <= 1 /\ \A q \in orders : Id(q) = Id(o) => q = o
    BY DEF AutopilotInv, Unique, Untouched
  <2>2. ASSUME NEW p \in Policies \ {"selective"}, NEW k \in Kinds
        PROVE  Cardinality({o \in Ledger(p, k) : o.reached > 0}) <= Cap(p)
    <3>1. PICK L : L = Ledger(p, k)
      OBVIOUS
    <3>2. IsFiniteSet(L) /\ Cardinality(L) \in Nat /\ Cardinality(L) <= Cap(p)
      BY <3>1, LedgerIs, LedgerFinite DEF AutopilotInv, AutopilotTypes, Budget
    <3>3. PICK R : R = {o \in L : o.reached > 0}
      OBVIOUS
    <3>4. R \subseteq L
      BY <3>3
    <3>5. Cardinality(R) <= Cardinality(L) /\ Cardinality(R) \in Nat
      BY <3>2, <3>4, FS_Subset, FS_CardinalityType
    <3>6. Cap(p) \in Nat
      BY AutopilotAssumption DEF Cap
    <3> QED
      BY <3>1, <3>2, <3>3, <3>5, <3>6
  <2> QED
    BY <2>1, <2>2 DEF RemedyOnce, Cap
<1> QED
  BY <1>1, AutopilotCorrect, PTL

\* A repair of lines runs beside no other job, unless the Worker was inside a cycle
\* when its command was queued (main.py, the automatic repair of lines).
THEOREM RepairsAreAlone == AutopilotSpec => []RepairAloneUnlessOvertaken
<1>1. AutopilotInv => RepairAloneUnlessOvertaken
  BY DEF AutopilotInv, Executing, Reserved, RepairAloneUnlessOvertaken, Idle, Active
<1> QED
  BY <1>1, AutopilotCorrect, PTL
=============================================================================
