--------------------------- MODULE MCTranscripts ---------------------------
(***************************************************************************)
(* Instances of Transcripts for TLC.  A scope, chosen first, says what the *)
(* learner does: correct and approve, ask for drafts or add a video again  *)
(* meanwhile, or extract embedded subtitles.                               *)
(***************************************************************************)
EXTENDS Transcripts, TLC

CONSTANTS x, y, d1, d2

VARIABLE workScope

\* One path's video has both streams, the other's only the first.
TwoVideos == (d1 :> {1, 2}) @@ (d2 :> {1})

\* The lines shifted back and forth by one.
ByOne == {-1, 1}

WorkScope(kinds, queue, tracks, lines, typed, opened, files) ==
  [kinds |-> kinds, queue |-> queue, tracks |-> tracks, lines |-> lines, typed |-> typed,
   opened |-> opened, files |-> files]

\* Three corrections in a row of one video's transcript.
Correcting == WorkScope({}, 0, 5, 2, {y, Empty}, {1}, 0)

\* Splits and corrections while captions are fetched.
Splitting == WorkScope({"captions"}, 1, 4, 3, {y}, {1}, 0)

\* Corrections while drafts are asked for, and the other video is opened.
Drafting == WorkScope({"asr"}, 1, 4, 2, {y}, {1, 2}, 0)

\* Corrections while either video is added again, with or without a subtitle file.
Adding == WorkScope({}, 0, 4, 2, {y}, {1, 2}, 1)

\* Extractions and transcriptions of two videos from two paths.
Extracting == WorkScope({"list", "extract", "asr"}, 2, 3, 2, {}, {1, 2}, 0)

WorkInScope ==
  /\ Len(versions) <= workScope.tracks
  /\ \A t \in DOMAIN versions :
       /\ Len(Lines(t)) <= workScope.lines
       /\ versions[t].origin # "apply" => \A i \in DOMAIN Lines(t) : Lines(t)[i].text = x
  /\ Range(pending) \subseteq workScope.typed
  /\ Len(jobs) <= workScope.queue
  /\ \A k \in DOMAIN jobs : jobs[k].kind \in workScope.kinds
  /\ Cardinality(drafts) <= 1
  /\ media \in workScope.opened \cup {3}
  /\ Cardinality(imports) <= workScope.files
  /\ Cardinality(revived) <= workScope.files
  /\ workScope = Extracting => corrections = {}
  /\ workScope # Extracting => embedded.path = d1
  /\ workScope \in {Drafting, Adding} =>
       /\ \A c \in corrections : c.origin = "apply"
       /\ \E l \in LineIds : l[2] = 1 /\ DOMAIN pending \subseteq {l}
  /\ versions[2].status = IF workScope = Adding THEN "approved" ELSE "draft"

WorkMCInit == workScope \in {Correcting, Splitting, Drafting, Adding, Extracting} /\ TranscriptInit /\ WorkInScope
WorkMCNext == UNCHANGED workScope /\ TranscriptNext /\ WorkInScope'
WorkMCSpec == WorkMCInit /\ [][WorkMCNext]_<<transcriptVars, workScope>>
=============================================================================
