--------------------------- MODULE MCWordAnalysis ---------------------------
(***************************************************************************)
(* Instances of WordAnalysis for TLC, in scopes: the panel by itself, and  *)
(* the capture form with one analysis.                                     *)
(***************************************************************************)
EXTENDS WordAnalysis, TLC

CONSTANTS c1, c2, c3, v, u

WordTracks == c1 :> v @@ c2 :> v @@ c3 :> u
WordChunks == c1 :> 1 @@ c2 :> 2 @@ c3 :> 0

VARIABLE wordScope

OneService == Transport # Nil => Transport.origin = CHOOSE o \in Services : TRUE

\* The form is never opened; the video or the service changes.
PanelOnly ==
  /\ opened = 0 /\ learner.context # Nil
  /\ \/ learner.loads = 0 /\ panel.gen <= 2
     \/ link.pairs = 1 /\ askedLast # c2 /\ panel.gen <= 3 /\ OneService
  /\ Cardinality(analyses) <= 2 /\ Cardinality(lookups) <= 1

\* One service; the first word of a cue is captured, or a phrase, then another cue's word.
FormOnly ==
  /\ link.pairs = 1 /\ OneService
  /\ form.cue \in {Nil, c1, c2} /\ form.word \in {Nil, 1} /\ (form.cue = c2 => form.word = 1)
  /\ form.id = 1 => form.cue = c1
  /\ form.id = 2 => form.cue = c2

\* The first cue may be analysed, and nothing is saved.
SuggestOnly ==
  /\ FormOnly /\ panel.gen <= 2 /\ Cardinality(analyses) <= 1 /\ askedLast \in {Nil, c1} /\ learner.loads <= 1
  /\ saves = {} /\ receipt = Nil

\* No cue is analysed; one save is under way at a time.
SaveOnly == FormOnly /\ askedLast = Nil /\ learner.loads <= 1 /\ Cardinality(saves) <= 1

InWordScope ==
  CASE wordScope = "panel" -> PanelOnly
    [] wordScope = "suggest" -> SuggestOnly
    [] wordScope = "save" -> SaveOnly

WordMCInit == wordScope \in {"panel", "suggest", "save"} /\ WordInit /\ InWordScope
WordMCNext == UNCHANGED wordScope /\ WordNext /\ InWordScope'
WordMCSpec == WordMCInit /\ [][WordMCNext]_<<wordVars, wordScope>>
=============================================================================
