--------------------------- MODULE MCSnippetJobs ---------------------------
(***************************************************************************)
(* Instances of SnippetJobs for TLC.                                       *)
(***************************************************************************)
EXTENDS SnippetJobs, TLC

\* Snippet jobs are interchangeable.
AnyClip == Permutations(Clips)
=============================================================================
