------------------------------- MODULE MCStudy -------------------------------
(***************************************************************************)
(* Instances of Study for TLC.  A scope, chosen first, says which views    *)
(* are gone to, which words there are, and how much is graded and edited.  *)
(***************************************************************************)
EXTENDS Study

CONSTANTS w1, w2, p1, p2, m1

VARIABLE studyScope

StudyScope(views, words, cards, acts, edits) ==
  [views |-> views, words |-> words, cards |-> cards, acts |-> acts, edits |-> edits]

\* Saving, its undo and meanings, against the review of the same cards.
Saving == StudyScope({"player", "saved", "review"}, {w1, w2}, 2, 1, 1)

\* Review and Practice of two cards; the same while they are taken out and put back.
Grading == StudyScope({"review", "practice"}, {w1, w2}, 2, 2, 0)
Toggling == StudyScope({"saved", "review", "practice"}, {w1, w2}, 2, 1, 0)

\* Backups older and newer than the rows they are restored over, and a form that is
\* left while the learner goes on.
Restoring == StudyScope({"player", "practice", "export"}, {w1}, 2, 2, 0)
Leaving == StudyScope({"player", "practice", "export"}, {w1}, 1, 1, 0)

StudyInScope ==
  /\ view \in studyScope.views \cup {"player"}
  /\ made.cards <= studyScope.cards /\ made.acts <= studyScope.acts
  /\ \A i \in DOMAIN rows.items :
       rows.items[i].word \in studyScope.words /\ rows.items[i].edits <= studyScope.edits
  /\ studyScope.edits = 0 => \A i \in DOMAIN rows.items : rows.items[i].meaning = Blank
  /\ studyScope # Saving => toast = NoToast \/ view = "player"
  /\ studyScope # Restoring => practice.mode = "typed-input"
  /\ form.open => Verified(file)
  /\ form.acked # {} => form.mode # "none"
  /\ studyScope # Leaving /\ form # NoForm => view = "export" /\ form.wire = file

\* The words are alike: the first is saved first.
StudyMCInit ==
  /\ studyScope \in {Saving, Grading, Toggling, Restoring, Leaving}
  /\ StudyInit /\ StudyInScope
  /\ rows.items[1].word = w1
StudyMCNext == UNCHANGED studyScope /\ StudyNext /\ StudyInScope'
StudyMCSpec == StudyMCInit /\ [][StudyMCNext]_<<studyVars, studyScope>>
=============================================================================
