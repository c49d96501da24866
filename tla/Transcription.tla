----------------------------- MODULE Transcription -----------------------------
(***************************************************************************)
(* How a transcript is made and let through (worker.py, transcriber.py):   *)
(* the primary model, the ranges it is unsure of, the fallback, less       *)
(* memory, the last model, each judged and writing in place under one      *)
(* mark; for Japanese from the separated vocals and then from the original *)
(* audio; for another language on to its translation, with the transcript  *)
(* heard again where lines are left out, and the publication.  A job dies  *)
(* at any step, any file operation may fail.  What becomes of a Japanese   *)
(* transcript, also of one its diagnostics distrust, is SubtitleCache's.   *)
(* Segments and their scores are reduced to the verdict of the gates.      *)
(***************************************************************************)
EXTENDS Naturals

CONSTANT MaxJobs  \* bound: jobs of the video

ASSUME TranscriptionAssumption == MaxJobs \in Nat

Ways      == {"primary", "merged", "fallback", "memory", "last", "mended", "heardAgain"}
NoSrt     == [job |-> 0, way |-> "none", sound |-> FALSE, wrapped |-> FALSE]
Blank     == [NoSrt EXCEPT !.way = "blank"]
NoVerdict == [of |-> NoSrt, accepted |-> FALSE]
NotTold    == [of |-> NoSrt, omits |-> FALSE]
Nothing   == [srt |-> NoSrt, told |-> NotTold]
NoRun     == [at |-> "off", way |-> "none", why |-> "none", vocals |-> FALSE, prompted |-> FALSE,
              doubted |-> FALSE, escalated |-> FALSE, repairs |-> 0, former |-> Nothing, verdict |-> NoVerdict]

VARIABLES
  japanese,    \* the language heard in the video
  diagnosing,  \* whether diagnostics are configured
  srt,         \* the transcript and whether its own attempt's gates passed it
  verdict,     \* its diagnostics: of which text, accepted or not
  marked,      \* the mark of an unfinished commit
  told,        \* the translation: of which text, with lines left out
  given,       \* what the transcript went on with: the translation, the publication
  run,         \* the job: step, attempt, why the last was refused, which audio, prompts,
               \* a refusal for low confidence of this audio, repairs of the translation
  helpless,    \* history: after a failed repair neither the old nor no text could be put
  jobs

srtFiles == <<srt, verdict, marked>>
jobFixed == <<japanese, diagnosing, jobs>>
transcriptionVars == <<srtFiles, jobFixed, told, given, run, helpless>>

TranscriptionInit ==
  /\ japanese \in BOOLEAN /\ diagnosing \in BOOLEAN
  /\ srt = NoSrt /\ verdict = NoVerdict /\ marked = FALSE /\ told = NotTold
  /\ given = Nothing /\ run = NoRun /\ helpless = FALSE /\ jobs = 0

Is(x)   == run.at = x
Proceed(x) == run' = [run EXCEPT !.at = x]
JobEnds    == run' = NoRun

\* What the cleanup after a failure can come to: the text is removed, declared
\* failed, moved away or emptied; or no file can be written at all.
Closed(s) ==
  {<<NoSrt, NoVerdict>>, <<NoSrt, verdict>>} \cup
  IF s = NoSrt THEN {} ELSE {<<s, [of |-> s, accepted |-> FALSE]>>, <<Blank, verdict>>, <<s, verdict>>}

-----------------------------------------------------------------------------
(* The start of a job, the transcript in the cache *)

\* A translation without its transcript is moved away first.
StartJob ==
  /\ Is("off") /\ jobs < MaxJobs /\ given = Nothing
  /\ jobs' = jobs + 1 /\ told' = NotTold
  /\ \E v \in IF japanese THEN BOOLEAN ELSE {FALSE} : run' = [NoRun EXCEPT !.at = "recover", !.vocals = v]
  /\ UNCHANGED <<srtFiles, japanese, diagnosing, given, helpless>>

\* A text under a mark is not looked at.  The mark stays as long as it does.
RecoverPending ==
  /\ Is("recover")
  /\ \/ ~marked /\ Proceed("cached") /\ UNCHANGED srtFiles
     \/ /\ marked
        /\ \E c \in Closed(srt) :
             /\ srt' = c[1]
             /\ IF c[1] = NoSrt THEN verdict' = NoVerdict /\ marked' = FALSE /\ Proceed("cached")
                                ELSE verdict' = c[2] /\ UNCHANGED marked /\ JobEnds
  /\ UNCHANGED <<jobFixed, told, given, helpless>>

\* Without diagnostics a text without a mark is good.
Trusted == verdict = NoVerdict \/ (verdict.accepted /\ verdict.of = srt)

UseCached ==
  /\ Is("cached") /\ srt # NoSrt
  /\ \/ Trusted /\ Proceed("passed") /\ UNCHANGED srtFiles
     \/ ~Trusted /\ japanese /\ JobEnds /\ UNCHANGED srtFiles
     \/ /\ ~Trusted /\ ~japanese
        /\ \E c \in Closed(srt) : /\ srt' = c[1] /\ verdict' = c[2]
                                  /\ IF c[1] = NoSrt THEN Proceed("cached") ELSE JobEnds
        /\ UNCHANGED marked
  /\ UNCHANGED <<jobFixed, told, given, helpless>>

-----------------------------------------------------------------------------
(* The attempts *)

BeginCommitOfSrt ==
  /\ Is("cached") /\ srt = NoSrt
  /\ marked' = TRUE /\ Proceed("fresh")
  /\ UNCHANGED <<srt, verdict, jobFixed, told, given, helpless>>

\* The old diagnostics go before a new text comes.
ClearVerdict ==
  /\ Is("fresh")
  /\ \/ /\ verdict' = NoVerdict
        /\ run' = [run EXCEPT !.at = "hear", !.way = "primary", !.prompted = TRUE, !.doubted = FALSE]
     \/ Proceed("fail") /\ UNCHANGED verdict
  /\ UNCHANGED <<srt, marked, jobFixed, told, given, helpless>>

Refused(why) ==
  run' = [run EXCEPT !.at = "refused", !.why = why, !.doubted = @ \/ why = "low"]

\* The model says something or fails; a doubtful text is kept for its repair.
HearAudio ==
  /\ Is("hear")
  /\ \/ /\ \E s \in BOOLEAN : srt' = [job |-> jobs, way |-> run.way, sound |-> s, wrapped |-> FALSE]
        /\ Proceed("judge")
     \/ \E w \in {"low", "memory", "other"} : Refused(w) /\ UNCHANGED srt
  /\ UNCHANGED <<verdict, marked, jobFixed, told, given, helpless>>

Says(s, ok) == [of |-> s, accepted |-> ok]
Judgements(s, oks) == {verdict} \cup IF diagnosing THEN {Says(s, ok) : ok \in oks} ELSE {}

\* The model's own gate writes the diagnostics, the gate of all models comes
\* after it.  An ending left out needs its record.
Judge ==
  /\ Is("judge")
  /\ \/ /\ srt.sound /\ verdict' \in Judgements(srt, {TRUE}) /\ UNCHANGED srt
        /\ Proceed(IF run.way = "last" /\ ~japanese THEN "attest" ELSE "check")
     \/ /\ srt.sound /\ Refused("other") /\ UNCHANGED verdict
        /\ srt' \in {srt, NoSrt}
     \/ ~srt.sound /\ Refused("low") /\ verdict' \in Judgements(srt, BOOLEAN) /\ UNCHANGED srt
     \/ ~srt.sound /\ Refused("other") /\ verdict' \in Judgements(srt, {TRUE}) /\ UNCHANGED srt
  /\ UNCHANGED <<marked, jobFixed, told, given, helpless>>

Fall(ways, prompted) ==
  /\ Is("refused") /\ run.way = "primary"
  /\ \E to \in ways : run' = [run EXCEPT !.at = to, !.way = "fallback", !.prompted = prompted]
  /\ UNCHANGED <<srtFiles, jobFixed, told, given, helpless>>

Doubtful == run.why = "low" /\ srt # NoSrt

\* A prompt that a doubtful text may come from is not used again; a repair is
\* claimed in the diagnostics of the text.
FallJapanese ==
  /\ japanese
  /\ Fall({"renew"} \cup IF Doubtful /\ verdict = Says(srt, FALSE) THEN {"merge"} ELSE {},
          run.prompted /\ run.why # "low")

\* In another language nothing is heard again with a prompt.
FallOther ==
  /\ ~japanese
  /\ Fall({"renew"} \cup IF Doubtful THEN {"merge"} ELSE {}, FALSE)

\* Only the doubtful ranges are heard again, in place.
MergeRanges ==
  /\ Is("merge")
  /\ \/ /\ \E s \in BOOLEAN : srt' = [job |-> jobs, way |-> "merged", sound |-> s, wrapped |-> FALSE]
        /\ verdict' \in {verdict, Says(srt', FALSE)}
        /\ Proceed("finalize")
     \/ Proceed("renew") /\ UNCHANGED <<srt, verdict>>
  /\ UNCHANGED <<marked, jobFixed, told, given, helpless>>

FinalizeMerged ==
  /\ Is("finalize")
  /\ \/ srt.sound /\ verdict' \in Judgements(srt, {TRUE}) /\ Proceed("check")
     \/ verdict' \in Judgements(srt, {FALSE}) /\ Proceed("renew")
  /\ UNCHANGED <<srt, marked, jobFixed, told, given, helpless>>

Cleared == srt' = NoSrt /\ verdict' = NoVerdict

\* The whole audio again, with the fallback.
Renew ==
  /\ Is("renew")
  /\ \/ Cleared /\ Proceed("hear")
     \/ Proceed("fail") /\ UNCHANGED <<srt, verdict>>
  /\ UNCHANGED <<marked, jobFixed, told, given, helpless>>

\* Once, with smaller numbers, where the memory was too small.
LessMemory ==
  /\ Is("refused") /\ run.way = "fallback" /\ run.why = "memory"
  /\ Cleared
  /\ run' = [run EXCEPT !.at = "hear", !.way = "memory"]
  /\ UNCHANGED <<marked, jobFixed, told, given, helpless>>

\* Mutant: the last model inherits the request of the one before.
LastInherits ==
  /\ Is("refused") /\ run.way \in {"fallback", "memory"}
  /\ Cleared
  /\ run' = [run EXCEPT !.at = "hear", !.way = "last"]
  /\ UNCHANGED <<marked, jobFixed, told, given, helpless>>

\* An independent model, if one is configured, without prompts.
Last ==
  /\ Is("refused") /\ run.way \in {"fallback", "memory"}
  /\ Cleared
  /\ run' = [run EXCEPT !.at = "hear", !.way = "last", !.prompted = FALSE]
  /\ UNCHANGED <<marked, jobFixed, told, given, helpless>>

\* The last model of another language may write no diagnostics: they are
\* written for it.
Attest ==
  /\ Is("attest")
  /\ IF diagnosing /\ verdict = NoVerdict
       THEN \/ verdict' = Says(srt, TRUE) /\ Proceed("check")
            \/ UNCHANGED verdict /\ Proceed("fail")
       ELSE UNCHANGED verdict /\ Proceed("check")
  /\ UNCHANGED <<srt, marked, jobFixed, told, given, helpless>>

\* The same Japanese model is not asked the same again.
NoOtherWay ==
  /\ Is("refused") /\ Proceed("fail")
  /\ run.way # "primary" \/ (japanese /\ run.why # "low")
  /\ UNCHANGED <<srtFiles, jobFixed, told, given, helpless>>

\* Short fragments of a Japanese attempt without prompts are heard again beside
\* the text, which comes back where this fails.
Fragments ==
  /\ Is("refused") /\ japanese /\ run.way # "primary" /\ ~run.prompted
  /\ run.why = "low" /\ srt # NoSrt
  /\ \/ /\ srt' = [job |-> jobs, way |-> "mended", sound |-> TRUE, wrapped |-> FALSE]
        /\ verdict' = IF diagnosing THEN Says(srt', TRUE) ELSE verdict
        /\ Proceed("check")
     \/ /\ \E c \in Closed(srt) : srt' = c[1] /\ verdict' = c[2]
        /\ UNCHANGED run
  /\ UNCHANGED <<marked, jobFixed, told, given, helpless>>

-----------------------------------------------------------------------------
(* The end of the commit *)

\* The diagnostics that are there must be of this text; those of another
\* language must accept it.  Its lines are wrapped, and it is a new text.
CheckFresh ==
  /\ Is("check")
  /\ \/ /\ IF japanese THEN verdict = NoVerdict \/ verdict.of = srt
                       ELSE Trusted /\ (diagnosing => verdict # NoVerdict)
        /\ Proceed("settle")
        /\ \/ UNCHANGED <<srt, verdict>>
           \/ ~japanese /\ srt' = [srt EXCEPT !.wrapped = TRUE] /\ verdict' = NoVerdict
     \/ Proceed("fail") /\ UNCHANGED <<srt, verdict>>
  /\ UNCHANGED <<marked, jobFixed, told, given, helpless>>

SettleSrt ==
  /\ Is("settle")
  /\ \/ marked' = FALSE /\ Proceed("passed")
     \/ Proceed("fail") /\ UNCHANGED marked
  /\ UNCHANGED <<srt, verdict, jobFixed, told, given, helpless>>

\* Mutant: the mark goes with the attempt.
FailUnmarked ==
  /\ Is("fail")
  /\ \E c \in Closed(srt) : srt' = c[1] /\ verdict' = c[2]
  /\ marked' = FALSE
  /\ IF run.vocals THEN Proceed("retry") ELSE JobEnds
  /\ UNCHANGED <<jobFixed, told, given, helpless>>

\* The mark goes only if the text is gone.
FailAttempt ==
  /\ Is("fail")
  /\ \E c \in Closed(srt) :
       /\ srt' = c[1] /\ verdict' = c[2]
       /\ marked' \in {marked, marked /\ c[1] # NoSrt}
  /\ IF run.vocals THEN Proceed("retry") \/ JobEnds ELSE JobEnds
  /\ UNCHANGED <<jobFixed, told, given, helpless>>

\* All over again from the original audio.
RetryOriginal ==
  /\ Is("retry")
  /\ \/ Cleared /\ marked' = FALSE /\ run' = [run EXCEPT !.at = "cached", !.vocals = FALSE]
     \/ JobEnds /\ UNCHANGED srtFiles
  /\ UNCHANGED <<jobFixed, told, given, helpless>>

-----------------------------------------------------------------------------
(* On with the transcript *)

Readable == srt \notin {NoSrt, Blank}

HandOver ==
  /\ Is("passed") /\ japanese
  /\ given' = IF Readable THEN [srt |-> srt, told |-> NotTold] ELSE given
  /\ JobEnds
  /\ UNCHANGED <<srtFiles, jobFixed, told, helpless>>

\* A line no model translates is left out.
TranslateSource ==
  /\ Is("passed") /\ ~japanese
  /\ \/ /\ Readable
        /\ \E o \in BOOLEAN : told' = [of |-> srt, omits |-> o]
        /\ Proceed("told")
     \/ JobEnds /\ UNCHANGED told
  /\ UNCHANGED <<srtFiles, jobFixed, given, helpless>>

\* Lines left out are translated again: once with the transcript heard again
\* where it does not help, then twice without.
RepairLines ==
  /\ Is("told") /\ told.omits
  /\ \/ /\ ~run.escalated /\ Readable
        /\ \E o \in BOOLEAN : /\ told' = [told EXCEPT !.omits = o]
                              /\ run' = [run EXCEPT !.at = IF o THEN "escalate" ELSE "told", !.escalated = TRUE]
     \/ /\ run.escalated /\ run.repairs < 2 /\ Readable
        /\ \E o \in BOOLEAN : told' = [told EXCEPT !.omits = o]
        /\ run' = [run EXCEPT !.repairs = @ + 1]
     \/ JobEnds /\ told' \in {told, NotTold}
  /\ UNCHANGED <<srtFiles, jobFixed, given, helpless>>

\* Beside the text first; what changed replaces it under the mark.
HearRanges ==
  /\ Is("escalate")
  /\ \/ /\ marked' = TRUE
        /\ run' = [run EXCEPT !.at = "swap", !.former = [Nothing EXCEPT !.srt = srt], !.verdict = verdict]
     \/ Proceed("told") /\ UNCHANGED marked
  /\ UNCHANGED <<srt, verdict, jobFixed, told, given, helpless>>

Swap ==
  /\ Is("swap")
  /\ \/ /\ srt' = [job |-> jobs, way |-> "heardAgain", sound |-> TRUE, wrapped |-> FALSE]
        /\ Proceed("promote") /\ UNCHANGED marked
     \/ marked' = FALSE /\ Proceed("told") /\ UNCHANGED srt
  /\ UNCHANGED <<verdict, jobFixed, told, given, helpless>>

Promote ==
  /\ Is("promote")
  /\ \/ /\ verdict' = IF diagnosing THEN Says(srt, TRUE) ELSE verdict
        /\ Proceed("drop")
     \/ Proceed("back") /\ UNCHANGED verdict
  /\ UNCHANGED <<srt, marked, jobFixed, told, given, helpless>>

DropTold ==
  /\ Is("drop")
  /\ \/ told' = NotTold /\ Proceed("unmark")
     \/ UNCHANGED told /\ Proceed("back")
  /\ UNCHANGED <<srtFiles, jobFixed, given, helpless>>

\* What has no translation is translated again.
Again == Proceed(IF told = NotTold THEN "passed" ELSE "told")

Unmark ==
  /\ Is("unmark")
  /\ \/ marked' = FALSE /\ Again
     \/ UNCHANGED marked /\ Proceed("back")
  /\ UNCHANGED <<srt, verdict, jobFixed, told, given, helpless>>

\* The old text comes back with its diagnostics, or none stays.  The mark goes
\* in any case.
RollBack ==
  /\ Is("back")
  /\ \/ srt' = run.former.srt /\ verdict' = run.verdict /\ UNCHANGED helpless
     \/ \E c \in Closed(srt) \cup Closed(run.former.srt) :
          /\ srt' = c[1] /\ verdict' = c[2]
          /\ helpless' = (helpless \/ c = <<srt, verdict>>)
  /\ \/ marked' = FALSE /\ Again
     \/ UNCHANGED marked /\ JobEnds
  /\ UNCHANGED <<jobFixed, told, given>>

\* The gates of a publication, with a translation or without.
PublishSrt ==
  /\ \/ Is("told") /\ ~told.omits
     \/ Is("passed") /\ ~japanese /\ ~run.escalated
  /\ given' \in {given} \cup IF ~marked /\ Trusted /\ Readable THEN {[srt |-> srt, told |-> told]} ELSE {}
  /\ JobEnds
  /\ UNCHANGED <<srtFiles, jobFixed, told, helpless>>

Dies ==
  /\ ~Is("off") /\ JobEnds
  /\ UNCHANGED <<srtFiles, jobFixed, told, given, helpless>>

Attempts == ClearVerdict \/ HearAudio \/ Judge \/ FallJapanese \/ FallOther \/ MergeRanges \/ FinalizeMerged \/ Renew
              \/ LessMemory \/ Last \/ Attest \/ NoOtherWay \/ Fragments
Commits  == BeginCommitOfSrt \/ CheckFresh \/ SettleSrt \/ FailAttempt \/ RetryOriginal
Onward   == HandOver \/ TranslateSource \/ RepairLines \/ HearRanges \/ Swap \/ Promote \/ DropTold
              \/ Unmark \/ RollBack \/ PublishSrt

TranscriptionNext ==
  StartJob \/ RecoverPending \/ UseCached \/ Attempts \/ Commits \/ Onward \/ Dies

TranscriptionSpec == TranscriptionInit /\ [][TranscriptionNext]_transcriptionVars

-----------------------------------------------------------------------------
(* Properties *)

TranscriptionTypeOK ==
  /\ {japanese, diagnosing, marked, helpless} \subseteq BOOLEAN /\ jobs \in 0..MaxJobs
  /\ srt \in [job : 0..MaxJobs, way : Ways \cup {"none", "blank"}, sound : BOOLEAN, wrapped : BOOLEAN]

\* What is translated or published passed the gates of the attempt that made
\* it, whatever other attempts left in its place; a published translation is
\* the one of the published transcript, complete; unless a disk on which no
\* file could be written failed a repair and its rollback and then recovered.
GoesOnSound ==
  given # Nothing /\ ~helpless =>
    /\ given.srt.sound
    /\ given.told = NotTold \/ (given.told.of = given.srt /\ ~given.told.omits)

\* No attempt uses a prompt after one on the same audio was refused for low
\* confidence, whichever attempts failed in between for other reasons.
PromptNotRepeated == Is("hear") /\ run.doubted => ~run.prompted
=============================================================================
