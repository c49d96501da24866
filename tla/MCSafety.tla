------------------------------ MODULE MCSafety ------------------------------
(***************************************************************************)
(* Components that share no state and promise only safety, checked in one  *)
(* run: `part' picks one for a behaviour, the others stay as they began.   *)
(***************************************************************************)
EXTENDS SubtitleCache, MemoryOutbox, ReviewAutopilot, InventoryEpochs,
        TranslationRun, Transcription, ResourceAdmission, DeliveryStatistics,
        CompletedDelivery

\* Two texts of a failed transcript, one of every other failure.
SomeFailures == {[cause |-> "asr", text |-> t] : t \in {1, 2}}
                  \cup {[cause |-> c, text |-> 1] : c \in {"omission", "timing", "other"}}

\* Episodes and wordings are interchangeable, so the first text that a model
\* made may be this wording for this episode.
FirstMade ==
  made = {} => made' \subseteq {CHOOSE e \in Episodes : TRUE} \X (1..(1 + MaxMedia))
                               \X {CHOOSE w \in Wordings : TRUE}

\* So are the two texts of a failed transcript.
FirstFailed == failures = 0 => row'.next # [cause |-> "asr", text |-> 2]

VARIABLE part

Init ==
  /\ part \in {"texts", "memory", "reviews", "epochs", "lines", "speech", "resources",
              "statistics", "films"}
  /\ CacheInit /\ MemoryInit /\ AutopilotInit /\ InventoryInit /\ TranslationInit
  /\ TranscriptionInit /\ AdmissionInit /\ StatisticsInit /\ CompletedInit
  /\ policy = 1  \* policies are interchangeable
  /\ (part # "speech" => japanese /\ diagnosing)

Next ==
  \/ /\ part = "texts" /\ CacheNext
     /\ UNCHANGED <<part, completedVars, memoryVars, autopilotVars, inventoryVars, translationVars, transcriptionVars, admissionVars,
                    statisticsVars>>
  \/ /\ part = "memory" /\ MemoryNext /\ FirstMade
     /\ UNCHANGED <<part, completedVars, cacheVars, autopilotVars, inventoryVars, translationVars, transcriptionVars, admissionVars,
                    statisticsVars>>
  \/ /\ part = "reviews" /\ AutopilotNext /\ FirstFailed
     /\ UNCHANGED <<part, completedVars, cacheVars, memoryVars, inventoryVars, translationVars, transcriptionVars, admissionVars,
                    statisticsVars>>
  \/ /\ part = "epochs" /\ InventoryNext
     /\ UNCHANGED <<part, completedVars, cacheVars, memoryVars, autopilotVars, translationVars, transcriptionVars, admissionVars,
                    statisticsVars>>
  \/ /\ part = "lines" /\ TranslationNext
     /\ UNCHANGED <<part, completedVars, cacheVars, memoryVars, autopilotVars, inventoryVars, transcriptionVars, admissionVars,
                    statisticsVars>>
  \/ /\ part = "speech" /\ TranscriptionNext
     /\ UNCHANGED <<part, completedVars, cacheVars, memoryVars, autopilotVars, inventoryVars, translationVars, admissionVars,
                    statisticsVars>>
  \/ /\ part = "resources" /\ AdmissionNext
     /\ UNCHANGED <<part, completedVars, cacheVars, memoryVars, autopilotVars, inventoryVars, translationVars,
                    transcriptionVars, statisticsVars>>
  \/ /\ part = "statistics" /\ StatisticsNext
     /\ UNCHANGED <<part, completedVars, cacheVars, memoryVars, autopilotVars, inventoryVars, translationVars,
                    transcriptionVars, admissionVars>>
  \/ /\ part = "films" /\ CompletedNext
     /\ UNCHANGED <<part, cacheVars, memoryVars, autopilotVars, inventoryVars, translationVars,
                    transcriptionVars, admissionVars, statisticsVars>>

vars == <<part, cacheVars, memoryVars, autopilotVars, inventoryVars, translationVars, transcriptionVars,
          admissionVars, statisticsVars, completedVars>>
Spec == Init /\ [][Next]_vars
=============================================================================
