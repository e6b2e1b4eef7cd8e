-------------------------------- MODULE Page --------------------------------
(***************************************************************************)
(* A loaded page besides saving: its media links (MediaLinks), its         *)
(* snapshot cache and pairing (PageBoot), and the words of its Player      *)
(* (WordAnalysis).  JavaScript runs one handler at a time, and no handler  *)
(* of one part touches the state of another.                               *)
(***************************************************************************)
EXTENDS MediaLinks, PageBoot, WordAnalysis

PageSpec == LinksSpec /\ BootSpec /\ WordSpec

\* Every part keeps the shape its module declares.
PageTypeOK == LinksTypeOK /\ BootTypeOK /\ WordTypeOK
=============================================================================
