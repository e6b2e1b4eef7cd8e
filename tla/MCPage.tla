------------------------------- MODULE MCPage -------------------------------
(***************************************************************************)
(* What a loaded page does besides saving, in one run: its media links     *)
(* (MCMediaLinks), its snapshot cache and pairing (MCPageBoot), and the    *)
(* words of its Player (MCWordAnalysis).  They share no state here, so     *)
(* each part is explored while the others rest.                            *)
(***************************************************************************)
EXTENDS Page, MCMediaLinks, MCPageBoot, MCWordAnalysis

VARIABLE part

wordPart == <<wordVars, wordScope>>
pageVars == <<part, linksVars, scope, bootVars, bootScope, wordPart>>

\* A page without media, one that finds nothing of an earlier one, and an unpaired one.
LinksRest == made = 0 /\ handles = [k \in Keys |-> None] /\ scope = Crossing /\ MCInit
BootRest == cached = Absent /\ stored = Absent /\ bootScope = "cache" /\ BootMCInit
WordsRest == WordMCInit /\ wordScope = "panel" /\ learner.context = v /\ link.pairs = 0

PageMCInit ==
  \/ part = "links" /\ MCInit /\ BootRest /\ WordsRest
  \/ part = "boot" /\ BootMCInit /\ LinksRest /\ WordsRest
  \/ part = "words" /\ WordMCInit /\ LinksRest /\ BootRest

PageMCNext ==
  \/ part = "links" /\ MCNext /\ UNCHANGED <<part, bootVars, bootScope, wordPart>>
  \/ part = "boot" /\ BootMCNext /\ UNCHANGED <<part, linksVars, scope, wordPart>>
  \/ part = "words" /\ WordMCNext /\ UNCHANGED <<part, linksVars, scope, bootVars, bootScope>>

PageMCSpec == PageMCInit /\ [][PageMCNext]_pageVars
=============================================================================
