--------------------------- MODULE TranslationRun ---------------------------
(***************************************************************************)
(* How the lines of a transcript are translated (translator.py): batch by  *)
(* batch, each asked again, without context, split, and at last line by    *)
(* line with the repairs of residual kana and malformed answers; a         *)
(* checkpoint after every batch, which a later run resumes from.  A run    *)
(* ends at any time with an error or a death.  Which model answers, what   *)
(* the answer says and the lines the memory supplies are left out; the     *)
(* options that choose the ways to ask again are at their defaults.        *)
(***************************************************************************)
EXTENDS Naturals, Sequences, FiniteSets

CONSTANTS
  LineCount,      \* lines of the transcript
  BatchSize,
  MaxRetries,
  MaxTranscripts  \* bound: transcripts that replace one another

ASSUME TranslationAssumption ==
  /\ LineCount \in Nat \ {0} /\ BatchSize \in Nat \ {0} /\ MaxRetries \in Nat \ {0}
  /\ MaxTranscripts \in Nat

Lines     == 1..LineCount
Untold    == [of |-> 0, as |-> "none"]
NoText    == [l \in Lines |-> Untold]
NoSaved   == [source |-> 0, context |-> FALSE, done |-> 0, text |-> NoText, omitted |-> {}]
NoFix     == [line |-> 0, attempt |-> 1, limit |-> MaxRetries, context |-> FALSE,
              dropped |-> FALSE, strict |-> FALSE, said |-> FALSE, single |-> FALSE]
NoOutput  == [source |-> 0, lines |-> {}, text |-> NoText, omitted |-> {}]

VARIABLES
  source,   \* the transcript, by number
  stage,    \* what the run does
  plan,     \* its batches
  upto,     \* the batch it works on
  context,  \* whether it has metadata for the model
  barred,   \* it gave the metadata up
  retried,  \* it asked a second time for a line that reads too long
  parts,    \* what the current batch was split into, still to translate
  attempt,  \* of the first part
  plain,    \* the part is asked without context
  kana,     \* its lines with residual kana, to be repaired
  fix,      \* the repair of one line
  heard,    \* whether the last question got an answer
  text,     \* the translated lines
  omitted,  \* quality events: the lines left out
  saved,    \* the checkpoint
  output    \* what was committed last and the events beside it, until the next run

partVars == <<stage, parts, attempt, plain, kana, fix, barred, text, omitted>>
runVars  == <<plan, upto, context, retried, heard, partVars>>
translationVars == <<runVars, source, saved, output>>

TranslationInit ==
  /\ source = 1 /\ saved = NoSaved /\ output = NoOutput
  /\ stage = "off" /\ plan = <<>> /\ upto = 0 /\ context = FALSE /\ barred = FALSE
  /\ retried = FALSE /\ parts = <<>> /\ attempt = 1 /\ plain = FALSE /\ kana = {} /\ fix = NoFix
  /\ heard = TRUE /\ text = NoText /\ omitted = {}

-----------------------------------------------------------------------------
(* the beginning and the end of a run *)

\* The transcript is made again between two runs.
TranscriptReplaced ==
  /\ stage = "off" /\ source < MaxTranscripts
  /\ source' = source + 1
  /\ UNCHANGED <<runVars, saved, output>>

Chunks == [i \in 1..((LineCount + BatchSize - 1) \div BatchSize) |->
             {l \in Lines : (i - 1) * BatchSize < l /\ l <= i * BatchSize}]

\* Mutant: the checkpoint of the same lines is good enough.
FitsByShape(c) == saved.done > 0

\* The signature names everything the translation is made from.
Fits(c) == saved.done > 0 /\ saved.source = source /\ saved.context = c

\* Mutant: the texts are restored and what is said of them is not.
EventsForgotten == {}

Events == saved.omitted

\* All lines, from the checkpoint on if its texts still pass the gates.
RunAll ==
  /\ stage = "off" /\ stage' = "next" /\ plan' = Chunks
  /\ \E c, usable \in BOOLEAN :
       LET n == IF Fits(c) /\ usable THEN saved.done ELSE 0 IN
         /\ context' = c /\ upto' = n
         /\ text' = IF n > 0 THEN saved.text ELSE NoText
         /\ omitted' = IF n > 0 THEN Events ELSE {}
  /\ output' = NoOutput
  /\ UNCHANGED <<barred, retried, parts, attempt, plain, kana, fix, heard, source, saved>>

\* A rejected line alone, with its neighbours as context or none.
RunLine ==
  /\ stage = "off" /\ stage' = "next"
  /\ output.source = source /\ output.lines = Lines /\ output' = NoOutput
  /\ \E l \in Lines, c \in BOOLEAN : plan' = <<{l}>> /\ context' = c
  /\ UNCHANGED <<upto, barred, retried, parts, attempt, plain, kana, fix, heard, text, omitted,
                 source, saved>>

\* The checkpoint stays, nothing else does.
Over ==
  /\ stage' = "off" /\ plan' = <<>> /\ upto' = 0 /\ context' = FALSE /\ barred' = FALSE
  /\ retried' = FALSE /\ parts' = <<>> /\ attempt' = 1 /\ plain' = FALSE /\ kana' = {}
  /\ fix' = NoFix /\ heard' = TRUE /\ text' = NoText /\ omitted' = {}

RunDies == stage # "off" /\ Over /\ UNCHANGED <<source, saved, output>>

NextBatch ==
  /\ stage = "next"
  /\ IF upto = Len(plan)
       THEN stage' = "commit" /\ UNCHANGED <<upto, parts, plain>>
       ELSE /\ stage' = "ask" /\ upto' = upto + 1
            /\ parts' = <<plan[upto + 1]>> /\ plain' = (~context \/ (barred /\ plan = Chunks))
  /\ UNCHANGED <<plan, context, barred, retried, attempt, kana, fix, heard, text, omitted,
                 source, saved, output>>

-----------------------------------------------------------------------------
(* one part of a batch: ask, check, ask again *)

Part       == Head(parts)
FirstOf(S) == CHOOSE l \in S : \A k \in S : l <= k
Good       == [of |-> source, as |-> "good"]
With(S, t) == [l \in Lines |-> IF l \in S THEN t ELSE text[l]]

\* The line is left out; "hidden" if the model was not heard.
LeavesOut(l) ==
  /\ text' = [text EXCEPT ![l] = [of |-> source, as |-> IF heard' THEN "omitted" ELSE "hidden"]]
  /\ omitted' = omitted \cup {l}

\* What the part was split off with comes next, without context.
PartDone ==
  /\ parts' = Tail(parts) /\ attempt' = 1 /\ plain' = TRUE /\ kana' = {} /\ fix' = NoFix
  /\ stage' = IF Len(parts) = 1 THEN "save" ELSE "ask"
  /\ UNCHANGED barred

AsksFor(ps, n, p) ==
  /\ parts' = ps /\ attempt' = n /\ plain' = p
  /\ stage' = "ask" /\ kana' = {} /\ fix' = NoFix
  /\ text' = With(Part, Untold) /\ UNCHANGED omitted

Halved ==
  LET half == Cardinality(Part) \div 2
      left == {l \in Part : Cardinality({k \in Part : k < l}) < half}
  IN  AsksFor(<<left, Part \ left>> \o Tail(parts), 1, TRUE) /\ UNCHANGED barred

RunFails == stage' = "failed" /\ UNCHANGED <<parts, attempt, plain, kana, fix, barred, text, omitted>>

\* Out of attempts and contexts: halves, or for a line whose transcript the
\* model doubts a reading that is known or nothing.
Exhausts(e) ==
  IF Cardinality(Part) > 1 THEN Halved
  ELSE IF e = "asr"
    THEN PartDone /\ \/ text' = With(Part, Good) /\ UNCHANGED omitted
                     \/ LeavesOut(FirstOf(Part))
    ELSE RunFails

AsksAgain(e) ==
  IF attempt < MaxRetries THEN AsksFor(parts, attempt + 1, plain) /\ UNCHANGED barred
  ELSE IF ~plain THEN AsksFor(parts, 1, TRUE) /\ UNCHANGED barred
  ELSE Exhausts(e)

\* A malformed answer to one line is asked for with another prompt.
RepairsLine ==
  /\ stage' = "line" /\ kana' = {}
  /\ fix' = [NoFix EXCEPT !.line = FirstOf(Part), !.context = ~plain, !.single = TRUE]
  /\ text' = With(Part, Untold) /\ UNCHANGED <<parts, attempt, plain, barred, omitted>>

\* What follows an attempt that ended with this error.
AttemptEnds(e) ==
  CASE e \in {"timeout", "structure"} /\ ~plain -> AsksFor(parts, 1, TRUE) /\ barred' = TRUE
    [] e = "long" /\ Cardinality(Part) > 1 -> Halved
    [] e \in {"timeout", "structure"} /\ plain /\ Cardinality(Part) > 1 -> Halved
    [] e = "structure" /\ plain /\ Cardinality(Part) = 1 -> RepairsLine
    [] e = "long" /\ Cardinality(Part) = 1 -> RepairsLine
    [] OTHER -> AsksAgain(e)

Rest == UNCHANGED <<plan, upto, context, retried, source, saved, output>>

AskPart ==
  /\ stage = "ask" /\ Rest
  /\ \/ heard' = TRUE /\ PartDone /\ text' = With(Part, Good) /\ UNCHANGED omitted
     \/ /\ heard' = TRUE
        /\ \E K \in (SUBSET Part) \ {{}} :
             /\ kana' = K /\ text' = With(Part \ K, Good)
             /\ fix' = [NoFix EXCEPT !.line = FirstOf(K), !.context = (~plain \/ Cardinality(Part) > 1)]
        /\ stage' = "kana" /\ UNCHANGED <<parts, attempt, plain, barred, omitted>>
     \/ \E e \in {"structure", "long", "asr", "timeout", "outage"} :
          heard' = (e \notin {"timeout", "outage"}) /\ AttemptEnds(e)

-----------------------------------------------------------------------------
(* the repair of one line *)

\* The line is repaired or left out: the next one with kana, or the part is
\* checked once more.
LineDone ==
  LET left == kana \ {fix.line} IN
    IF fix.single \/ left = {} THEN PartDone
    ELSE /\ kana' = left /\ fix' = [NoFix EXCEPT !.line = FirstOf(left),
                                     !.context = (~plain \/ Cardinality(Part) > 1)]
         /\ UNCHANGED <<stage, parts, attempt, plain, barred>>

\* An error of the repair ends the attempt of the part, or the run.
RepairFails(e) == IF fix.single THEN RunFails ELSE AttemptEnds(e)

\* Out of tries: a text without its kana, the doubt of the model, an omission
\* if the last try was answered, an error if not.
GivesUp(e) ==
  \/ LineDone /\ text' = [text EXCEPT ![fix.line] = Good] /\ UNCHANGED omitted
  \/ RepairFails("long")
  \/ e = "asr" /\ RepairFails("asr")
  \/ e \in {"kana", "structure"} /\ LineDone /\ LeavesOut(fix.line)
  \/ e = "outage" /\ RepairFails("outage")

TriesAgain(f) == fix' = [f EXCEPT !.attempt = @ + 1]
                 /\ UNCHANGED <<stage, parts, attempt, plain, kana, barred, text, omitted>>

RepairKana ==
  /\ stage = "kana" /\ Rest
  /\ \/ heard' = TRUE /\ LineDone /\ text' = [text EXCEPT ![fix.line] = Good] /\ UNCHANGED omitted
     \/ heard' = TRUE /\ LineDone /\ LeavesOut(fix.line)    \* an ambiguous fragment
     \/ heard' = TRUE /\ ~fix.single /\ kana = {fix.line} /\ AttemptEnds("long")  \* another line
     \/ /\ heard' = FALSE
        /\ IF fix.attempt < fix.limit THEN TriesAgain([fix EXCEPT !.said = FALSE]) ELSE GivesUp("outage")
     \/ /\ heard' = TRUE /\ fix.context /\ ~fix.dropped      \* an echo of the neighbours
        /\ TriesAgain([fix EXCEPT !.context = FALSE, !.dropped = TRUE,
                                  !.limit = IF @ > fix.attempt THEN @ ELSE fix.attempt + 1])
     \/ \E e \in {"kana", "structure", "asr"} :
          /\ heard' = TRUE
          /\ IF e = "kana" /\ fix.attempt < fix.limit /\ ~fix.strict
               THEN TriesAgain([fix EXCEPT !.strict = TRUE, !.said = TRUE])
               ELSE \/ fix.attempt < fix.limit /\ TriesAgain([fix EXCEPT !.said = TRUE])
                    \/ (fix.said \/ fix.attempt = fix.limit) /\ GivesUp(e)

RepairLine ==
  /\ stage = "line" /\ Rest
  /\ \/ heard' = TRUE /\ LineDone /\ text' = [text EXCEPT ![fix.line] = Good] /\ UNCHANGED omitted
     \/ heard' = TRUE /\ LineDone /\ LeavesOut(fix.line)
     \/ heard' = TRUE /\ RunFails                            \* the model doubts the transcript
     \/ /\ heard' = TRUE /\ stage' = "kana"
        /\ fix' = [fix EXCEPT !.attempt = 1]
        /\ UNCHANGED <<parts, attempt, plain, kana, barred, text, omitted>>
     \/ /\ heard' = FALSE
        /\ IF fix.attempt < MaxRetries THEN TriesAgain(fix) ELSE RunFails

-----------------------------------------------------------------------------
(* checkpoint and commit *)

Saved == [source |-> source, context |-> context, done |-> upto, text |-> text, omitted |-> omitted]

\* A run over all lines saves every batch; a line may have to fit a display
\* limit, and is asked for twice.
SaveBatch ==
  /\ stage = "save"
  /\ \/ /\ plan = Chunks /\ saved' = Saved /\ stage' = "next"
        /\ UNCHANGED <<upto, retried, text>>
     \/ plan # Chunks /\ stage' = "next" /\ UNCHANGED <<saved, upto, retried, text>>
     \/ /\ plan # Chunks /\ \E l \in plan[1] : text[l].as = "good"
        /\ IF retried THEN stage' = "failed" /\ UNCHANGED <<upto, retried, text>>
           ELSE stage' = "next" /\ upto' = 0 /\ retried' = TRUE /\ text' = NoText
        /\ UNCHANGED saved
  /\ UNCHANGED <<plan, context, barred, parts, attempt, plain, kana, fix, heard, omitted, source, output>>

\* The events are written before the texts. The checkpoint of a Japanese
\* transcript is removed, if it can be.
Commit ==
  /\ stage = "commit"
  /\ output' = [source |-> source, lines |-> UNION {plan[i] : i \in DOMAIN plan},
                text |-> text, omitted |-> omitted]
  /\ \/ UNCHANGED saved
     \/ plan = Chunks /\ saved' = NoSaved
  /\ Over /\ UNCHANGED source

TranslationNext ==
  \/ TranscriptReplaced \/ RunAll \/ RunLine \/ RunDies \/ NextBatch \/ AskPart
  \/ RepairKana \/ RepairLine \/ SaveBatch \/ Commit

TranslationSpec == TranslationInit /\ [][TranslationNext]_translationVars

-----------------------------------------------------------------------------
(* properties *)

\* Whatever was asked again, split, repaired, or restored from the run before:
\* every line of a committed translation was made from the transcript it was
\* committed for.
CommittedFits ==
  \A l \in output.lines : output.text[l].of = output.source /\ output.text[l].as # "none"

\* A line that was left out is named beside the text, whichever run left it
\* out, and the model had answered: an outage is never committed as a
\* subtitle (translator.py:1200 "without a model response the job must fail").
OmissionsTold ==
  \A l \in output.lines :
    /\ output.text[l].as = "omitted" => l \in output.omitted
    /\ output.text[l].as # "hidden"
=============================================================================
