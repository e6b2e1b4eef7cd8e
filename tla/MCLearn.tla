------------------------------ MODULE MCLearn ------------------------------
(***************************************************************************)
(* What the learner does in one page, in one run: the study loop (MCStudy) *)
(* and the transcript workbench (MCTranscripts).  The two share no state,  *)
(* so each part is explored while the other rests.                         *)
(***************************************************************************)
EXTENDS MCStudy, MCTranscripts

VARIABLE learnPart

learnVars == <<learnPart, studyVars, studyScope, transcriptVars, workScope>>

StudyRest ==
  /\ studyScope = Leaving /\ StudyMCInit
  /\ \A o \in DOMAIN rows.occs : rows.occs[o].place = p1

WorkRest == workScope = Splitting /\ WorkMCInit

LearnInit ==
  \/ learnPart = "study" /\ StudyMCInit /\ WorkRest
  \/ learnPart = "work" /\ WorkMCInit /\ StudyRest

LearnNext ==
  \/ learnPart = "study" /\ StudyMCNext /\ UNCHANGED <<learnPart, transcriptVars, workScope>>
  \/ learnPart = "work" /\ WorkMCNext /\ UNCHANGED <<learnPart, studyVars, studyScope>>

LearnSpec == LearnInit /\ [][LearnNext]_learnVars
=============================================================================
