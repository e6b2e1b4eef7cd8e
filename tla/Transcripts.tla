---------------------------- MODULE Transcripts ----------------------------
(***************************************************************************)
(* The transcript workbench of one loaded page: drafts that the service    *)
(* transcribes, fetches or extracts, the line editors, the versions that   *)
(* correct a transcript, and its approval for study.                       *)
(*                                                                         *)
(* A version is committed some awaits after it was asked for: its hashes   *)
(* are computed in between, and a service job has its turn and its answer. *)
(* Meanwhile the learner types on, opens another video, adds one again,    *)
(* and asks for more.                                                      *)
(* A commit and the handler that waits for it are one step.  Texts are     *)
(* values; the three dictionaries of pending edits (text, times, words)    *)
(* have one life cycle, and the one of texts stands for them.              *)
(***************************************************************************)
EXTENDS Integers, Sequences, FiniteSets, Functions

CONSTANTS
  Texts,       \* what a line can say
  Empty,       \* what an emptied line editor holds
  Paths,       \* what can be typed as the path of a video with embedded subtitles
  Streams,     \* the subtitle streams such a video can have
  StreamsIn,   \* those each path's video has
  Offsets,     \* the offsets that can be applied to all lines
  MaxMedia, MaxTracks, MaxLines,  \* bounds: videos, versions, lines of a version
  MaxTime,     \* bound: the end of a line
  MaxJobs      \* bound: service jobs waiting or under way

ASSUME TranscriptAssumption ==
  /\ Empty \notin Texts
  /\ StreamsIn \in [Paths -> SUBSET Streams]
  /\ Offsets \subseteq Int
  /\ {MaxMedia, MaxTracks, MaxLines, MaxTime} \subseteq Nat \ {0, 1} /\ MaxJobs \in Nat

VARIABLES
  media,        \* model.currentMedia
  video,        \* the media whose file browserLocalMedia's object URL plays
  versions,     \* the subtitle tracks with their cues, in the order they were made
  target,       \* model.targetTrackId
  pending,      \* transcriptLifecycle.pendingCueEdits
  corrections,  \* corrected versions under way
  jobs,         \* service jobs, in the order of owner.tail; the first is started
  drafts,       \* drafts whose hashes are computed: the video of each, or none (a new one)
  embedded,     \* transcriptLifecycle.embeddedSubtitle
  imports,      \* subtitle files added with a stored video, whose hashes are computed
  revived       \* history: corrected versions that such an import put on screen again

shelf == <<imports, revived>>
transcriptVars ==
  <<media, video, versions, target, pending, corrections, jobs, drafts, embedded, shelf>>

-----------------------------------------------------------------------------
Media == 1 .. MaxMedia
Tracks == 1 .. MaxTracks
NoTrack == 0
Nothing == 0     \* no media, no stream
Line == [text : Texts \cup {Empty}, start : 0 .. MaxTime, end : 0 .. MaxTime]
LineIds == Tracks \X (1 .. MaxLines)
Statuses == {"draft", "correcting", "approved"}
Origins == {"import", "draft", "extract", "apply", "structure", "offset"}

NoEdits == [c \in {} |-> Empty]
Lines(t) == versions[t].lines
LinesOf(t) == {<<t, i>> : i \in DOMAIN Lines(t)}
Status(t) == versions[t].status

NoListing(p) ==
  [path |-> p, listing |-> "idle", extraction |-> "idle", streams |-> {}, selected |-> Nothing]

Version(m, parent, number, status, origin, lines) ==
  [media |-> m, parent |-> parent, number |-> number, status |-> status,
   origin |-> origin, lines |-> lines]

\* A subtitle file comes approved, anything else as a draft.
Stored(m, status, text) ==
  Version(m, NoTrack, 1, status, IF status = "approved" THEN "import" ELSE "draft",
          <<[text |-> text, start |-> 0, end |-> 1], [text |-> text, start |-> 1, end |-> 2]>>)

\* One open video that plays and has a transcript to correct, and one that is stored.
TranscriptInit ==
  /\ \E t \in Texts, s \in {"draft", "approved"} :
       versions = <<Stored(1, "draft", t), Stored(2, s, t)>>
  /\ media = 1 /\ video = 1 /\ target = 1
  /\ pending = NoEdits /\ corrections = {}
  /\ jobs = <<>> /\ drafts = {}
  /\ imports = {} /\ revived = {}
  /\ \E p \in Paths : embedded = NoListing(p)

-----------------------------------------------------------------------------
(***************************************************************************)
(* What the corrections do to the lines.                                   *)
(***************************************************************************)
AtLeast(a, b) == IF a < b THEN b ELSE a
AtMost(a, b) == IF a < b THEN a ELSE b

\* The shift of one line, clamped at the start of the video.
Shift(line, ms) ==
  LET start == AtLeast(0, line.start + ms)
  IN [line EXCEPT !.start = start, !.end = AtLeast(start + 1, line.end + ms)]

\* Mutant: the lines are shifted and left as they then lie.
ShiftedOnly(lines, ms) == [i \in 1 .. Len(lines) |-> Shift(lines[i], ms)]

\* applyTrackOffsetMs: shifted, then each line pushed behind the one before it.
Shifted(lines, ms) ==
  LET pushed[i \in 1 .. Len(lines)] ==
        LET line == Shift(lines[i], ms)
            start == IF i = 1 THEN line.start ELSE AtLeast(line.start, pushed[i - 1].end)
        IN [line EXCEPT !.start = start, !.end = AtLeast(start + 1, line.end)]
  IN pushed

\* splitTranscriptCueInCorrectedVersion: at the middle, the halves' texts as they come.
Split(lines, i, first, second) ==
  LET line == lines[i]
      at == AtLeast(line.start + 1, AtMost(line.end - 1, (line.start + line.end + 1) \div 2))
  IN SubSeq(lines, 1, i - 1)
       \o <<[line EXCEPT !.text = first, !.end = at], [line EXCEPT !.text = second, !.start = at]>>
       \o SubSeq(lines, i + 1, Len(lines))

\* mergeTranscriptCueWithNextInCorrectedVersion.
Merged(lines, i, text) ==
  SubSeq(lines, 1, i - 1)
    \o <<[text |-> text, start |-> lines[i].start, end |-> lines[i + 1].end]>>
    \o SubSeq(lines, i + 2, Len(lines))

\* The lines of t with what is pending on them.
Edited(t) ==
  [i \in DOMAIN Lines(t) |->
     IF <<t, i>> \in DOMAIN pending THEN [Lines(t)[i] EXCEPT !.text = pending[<<t, i>>]]
     ELSE Lines(t)[i]]

\* putTranscriptSegments refuses an empty line and one that does not last.
Sound(lines) == \A i \in DOMAIN lines : lines[i].text # Empty /\ lines[i].end > lines[i].start

Ordered(lines) == \A i \in 2 .. Len(lines) : lines[i - 1].end <= lines[i].start

\* A commit stores the version, and opens it with its video.  The player keeps its file.
Put(version) ==
  /\ versions' = Append(versions, version)
  /\ media' = version.media
  /\ target' = Len(versions')
  /\ UNCHANGED video

-----------------------------------------------------------------------------
(***************************************************************************)
(* The editors and the approval of the transcript on screen.               *)
(***************************************************************************)
\* The start of the first job is no step of its own: nothing else runs before it.
Started == jobs # <<>> => Head(jobs).started

Editable == Started /\ target # NoTrack /\ Status(target) # "approved"

\* An entry that is not of t, or is not what t says.
Dirty(t) ==
  \E c \in DOMAIN pending : c \notin LinesOf(t) \/ pending[c] # Lines(t)[c[2]].text

\* Mutant: a correction that is under way blocks nothing.
BlockedByEdits(t) == Dirty(t)

\* transcriptApprovalBlockReason, editorBlocked.
Blocked(t) == corrections # {} \/ Dirty(t)

\* The learner types in the editor of a line of the transcript on screen.
Type(c, text) ==
  /\ Editable
  /\ c \in LinesOf(target)
  /\ pending' = [l \in DOMAIN pending \cup {c} |-> IF l = c THEN text ELSE pending[l]]
  /\ UNCHANGED <<media, video, versions, target, corrections, jobs, drafts, embedded, shelf>>

Correct(origin, lines) ==
  /\ Len(lines) <= MaxLines
  /\ \A i \in DOMAIN lines : lines[i].end <= MaxTime
  /\ corrections' = corrections \cup
       {[parent |-> target, origin |-> origin, lines |-> lines, sent |-> pending]}
  /\ UNCHANGED <<media, video, versions, target, pending, jobs, drafts, embedded, shelf>>

\* Mutant: each click applies.
AlwaysApplies == TRUE

\* The button is disabled while a correction is pending, and its handler asks again.
MayApply == corrections = {}

\* "Create corrected transcript version".
Apply == Editable /\ MayApply /\ Correct("apply", Edited(target))

\* Split, merge and offset wait for the editors to be clean.
MayRestructure == Editable /\ ~ Blocked(target)

SplitLine ==
  /\ MayRestructure
  /\ \E i \in DOMAIN Lines(target), a, b \in Texts :
       Correct("structure", Split(Lines(target), i, a, b))

MergeLines ==
  /\ MayRestructure
  /\ \E i \in 1 .. Len(Lines(target)) - 1, text \in Texts :
       Correct("structure", Merged(Lines(target), i, text))

\* createOffsetCorrectedTranscriptVersion.
OffsetLines ==
  /\ MayRestructure
  /\ \E ms \in Offsets : Correct("offset", Shifted(Lines(target), ms))

\* Mutant: Apply clears every editor when it is done.
ClearAll(c, t) == NoEdits

\* Mutant: what was typed since stays under the line of the old version.
KeepOldKeys(c, t) ==
  Restrict(pending, {l \in DOMAIN pending : ~ (l \in DOMAIN c.sent /\ c.sent[l] = pending[l])})

\* Apply consumes what was sent and re-keys what was typed since onto the new version.
Retain(c, t) ==
  LET kept == {l \in DOMAIN pending : ~ (l \in DOMAIN c.sent /\ c.sent[l] = pending[l])}
      child(l) == IF l \in LinesOf(c.parent) THEN <<t, l[2]>> ELSE l
  IN [l \in {child(k) : k \in kept} |->
        pending[CHOOSE k \in kept : child(k) = l]]

\* The child of an offset keeps the status of its parent.
StatusOf(c) == IF c.origin = "offset" THEN Status(c.parent) ELSE "correcting"

CorrectionLands(c) ==
  /\ Started
  /\ c \in corrections
  /\ corrections' = corrections \ {c}
  /\ IF Sound(c.lines)
     THEN LET parent == versions[c.parent]
          IN /\ Len(versions) < MaxTracks
             /\ Put(Version(parent.media, c.parent, parent.number + 1, StatusOf(c), c.origin, c.lines))
             /\ pending' = IF c.origin = "apply" THEN Retain(c, Len(versions')) ELSE NoEdits
     ELSE UNCHANGED <<media, video, versions, target, pending>>
  /\ UNCHANGED <<jobs, drafts, embedded, shelf>>

\* "Approve transcript for study", of the version on screen.
Approve ==
  /\ Editable
  /\ ~ Blocked(target)
  /\ versions' = [versions EXCEPT ![target].status = "approved"]
  /\ UNCHANGED <<media, video, target, pending, corrections, jobs, drafts, embedded, shelf>>

-----------------------------------------------------------------------------
(***************************************************************************)
(* Videos.                                                                 *)
(***************************************************************************)
Known == {versions[t].media : t \in DOMAIN versions}
TracksOf(m) == {t \in DOMAIN versions : versions[t].media = m}

\* chooseActiveTrack: the highest version, the newest of them.
ChosenTrack(m) ==
  LET of == TracksOf(m)
      best == {t \in of : \A u \in of : versions[u].number <= versions[t].number}
  IN IF of = {} THEN NoTrack ELSE CHOOSE t \in best : \A u \in best : u <= t

\* openMediaAsset of a stored video: the file of another one is let go.
OpenMedia(m) ==
  /\ Started
  /\ m \in Known
  /\ media' = m
  /\ target' = ChosenTrack(m)
  /\ video' = IF m = media THEN video ELSE Nothing
  /\ UNCHANGED <<versions, pending, corrections, jobs, drafts, embedded, shelf>>

\* The remembered file of the open video is restored (MediaLinks has how).
FileRestored ==
  /\ Started
  /\ video' = media
  /\ UNCHANGED <<media, versions, target, pending, corrections, jobs, drafts, embedded, shelf>>

\* jumpToOccurrence: the version an occurrence was captured from, which was approved then.
\* The player keeps its file.
Jump(t) ==
  /\ Started
  /\ t \in DOMAIN versions /\ Status(t) = "approved"
  /\ media' = versions[t].media
  /\ target' = t
  /\ UNCHANGED <<video, versions, pending, corrections, jobs, drafts, embedded, shelf>>

-----------------------------------------------------------------------------
(***************************************************************************)
(* A stored video is added again, or its file is chosen to reconnect it.   *)
(***************************************************************************)
First(tracks) == CHOOSE t \in tracks : \A u \in tracks : t <= u

\* pickTrackForRelink: what is on screen if the video is open, else the first it has.  Every
\* version is active, also one that was corrected since.
Picked(m) == IF media = m /\ target # NoTrack THEN target ELSE First(TracksOf(m))

Corrected(t) == \E u \in DOMAIN versions : versions[u].parent = t

\* relinkExistingBrowserMedia opens the video, plays the file and shows version t.
Show(m, t) ==
  /\ media' = m /\ target' = t /\ video' = m
  /\ revived' = revived \cup {u \in {t} : Corrected(u)}

Relink(m) ==
  /\ Started
  /\ m \in Known
  /\ Show(m, Picked(m))
  /\ UNCHANGED <<versions, pending, corrections, jobs, drafts, embedded, imports>>

\* A subtitle file is added too: what there is to choose from is read before its hashes are
\* computed.
BeginImport(m) ==
  /\ Started
  /\ m \in Known
  /\ imports' = imports \cup {[media |-> m, picked |-> Picked(m), found |-> TracksOf(m)]}
  /\ UNCHANGED <<media, video, versions, target, pending, corrections, jobs, drafts, embedded,
                 revived>>

ImportEnds(i, t) ==
  /\ Started
  /\ imports' = imports \ {i}
  /\ Show(i.media, t)
  /\ UNCHANGED <<pending, corrections, jobs, drafts, embedded>>

\* The file is no subtitles, or native ones: the video is shown with what was picked.
ImportUnreadable(i) == ImportEnds(i, i.picked) /\ UNCHANGED versions

\* A file that was imported before is found again, another becomes a version of its own.
ImportLands(i) ==
  \E text \in Texts :
    LET file == Stored(i.media, "approved", text)
        same == {t \in i.found : versions[t] = file}
    IN \/ same # {} /\ ImportEnds(i, First(same)) /\ UNCHANGED versions
       \/ /\ same = {} /\ Len(versions) < MaxTracks
          /\ versions' = Append(versions, file)
          /\ ImportEnds(i, Len(versions) + 1)

-----------------------------------------------------------------------------
(***************************************************************************)
(* Service jobs: one at a time, in the order they were asked for.          *)
(***************************************************************************)
Job(kind) ==
  [kind |-> kind, started |-> kind \in {"asr", "captions"}, media |-> Nothing,
   path |-> Nothing, stream |-> Nothing, current |-> TRUE]

Ask(kind) ==
  /\ Started
  /\ Len(jobs) < MaxJobs
  /\ jobs' = Append(jobs, Job(kind))
  /\ UNCHANGED <<media, video, versions, target, pending, corrections, drafts, embedded, shelf>>

\* "Auto-transcribe locally", "Generate ElevenLabs Scribe v2 draft": of the open video.
AskTranscription == Ask("asr")

\* "Import public YouTube caption draft".
AskCaptions == Ask("captions")

\* "List embedded subtitle tracks": the button is disabled at the next render only.
AskListing == Ask("list")

\* "Extract selected track as draft", once a listed stream is chosen.
AskExtraction == embedded.selected \in embedded.streams /\ Ask("extract")

StartListing ==
  /\ ~ Started /\ Head(jobs).kind = "list"
  /\ jobs' = [jobs EXCEPT ![1].started = TRUE, ![1].path = embedded.path]
  /\ embedded' = [NoListing(embedded.path) EXCEPT !.listing = "listing"]
  /\ UNCHANGED <<media, video, versions, target, pending, corrections, drafts, shelf>>

\* The video, the path and the stream are those of the moment the job has its turn.
StartExtraction ==
  /\ ~ Started /\ Head(jobs).kind = "extract"
  /\ IF embedded.selected \in embedded.streams
     THEN /\ jobs' = [jobs EXCEPT ![1].started = TRUE, ![1].path = embedded.path,
                                  ![1].media = media, ![1].stream = embedded.selected]
          /\ embedded' = [embedded EXCEPT !.extraction = "extracting"]
     ELSE /\ jobs' = Tail(jobs)
          /\ embedded' = [embedded EXCEPT !.extraction = "failed"]
  /\ UNCHANGED <<media, video, versions, target, pending, corrections, drafts, shelf>>

\* Mutants: the answer is taken as it comes; only the video is looked at.
TakeAnyAnswer(job) == TRUE
SameVideo(job) == job.kind = "extract" => job.media = media

\* assertCurrentContext of the listing and of the extraction under way.
InContext(job) ==
  /\ job.current
  /\ job.path = embedded.path
  /\ job.kind = "extract" =>
       /\ job.media = media
       /\ job.stream = embedded.selected /\ job.stream \in embedded.streams

Running(kind) == Started /\ jobs # <<>> /\ Head(jobs).kind = kind

\* A check finds the context changed: the job ends, and says nothing.
JobStale ==
  /\ Running("list") \/ Running("extract")
  /\ ~ InContext(Head(jobs))
  /\ jobs' = Tail(jobs)
  /\ UNCHANGED <<media, video, versions, target, pending, corrections, drafts, embedded, shelf>>

\* The job fails at the service, does not end in time, or answers what cannot be used.
EmbeddedFails(kind, failed) ==
  /\ Running(kind)
  /\ InContext(Head(jobs))
  /\ jobs' = Tail(jobs)
  /\ embedded' = failed
  /\ UNCHANGED <<media, video, versions, target, pending, corrections, drafts, shelf>>

ListingFails == EmbeddedFails("list", [embedded EXCEPT !.listing = "failed"])
ExtractionFails == EmbeddedFails("extract", [embedded EXCEPT !.extraction = "failed"])

DraftFails(kind) ==
  /\ Running(kind)
  /\ jobs' = Tail(jobs)
  /\ UNCHANGED <<media, video, versions, target, pending, corrections, drafts, embedded, shelf>>

TranscriptionFails == DraftFails("asr")
CaptionsFail == DraftFails("captions")

\* embeddedTracksFromJson, of the supported streams.
Found(path) == StreamsIn[path]

ListingDone ==
  /\ Running("list")
  /\ InContext(Head(jobs))
  /\ embedded' = [embedded EXCEPT !.streams = Found(Head(jobs).path),
                                  !.listing = IF Found(Head(jobs).path) = {} THEN "empty" ELSE "ready"]
  /\ jobs' = Tail(jobs)
  /\ UNCHANGED <<media, video, versions, target, pending, corrections, drafts, shelf>>

DraftLines(text) == <<[text |-> text, start |-> 0, end |-> 1]>>

\* The answer is imported as a draft, and every line editor is cleared.
ExtractionDone ==
  /\ Running("extract")
  /\ InContext(Head(jobs))
  /\ Len(versions) < MaxTracks
  /\ \E text \in Texts :
       Put(Version(Head(jobs).media, NoTrack, 1, "draft", "extract", DraftLines(text)))
  /\ pending' = NoEdits
  /\ embedded' = [embedded EXCEPT !.extraction = "imported"]
  /\ jobs' = Tail(jobs)
  /\ UNCHANGED <<corrections, drafts, shelf>>

Answered(of) ==
  /\ jobs' = Tail(jobs)
  /\ drafts' = drafts \cup {of}
  /\ UNCHANGED <<media, video, versions, target, pending, corrections, embedded, shelf>>

\* generateLocalAsrDraft, generateElevenLabsScribeDraft: the transcript is of the video
\* that is open when it is answered.  Its hashes are computed next.
TranscriptionAnswered == Running("asr") /\ Answered(media)

\* importYouTubeCaptionCandidate: captions are of a video of their own.
CaptionsAnswered == Running("captions") /\ Answered(Nothing)

NewMedia == Cardinality(Known) + 1

DraftLands(d) ==
  /\ Started
  /\ d \in drafts
  /\ Len(versions) < MaxTracks
  /\ LET m == IF d = Nothing THEN NewMedia ELSE d
     IN /\ m <= MaxMedia
        /\ \E text \in Texts : Put(Version(m, NoTrack, 1, "draft", "draft", DraftLines(text)))
  /\ drafts' = drafts \ {d}
  /\ pending' = NoEdits
  /\ UNCHANGED <<corrections, jobs, embedded, shelf>>

\* The page disconnects and pairs again: what was asked of the service ends unheard.
Reconnect ==
  /\ Started
  /\ jobs # <<>> \/ drafts # {}
  /\ jobs' = <<>> /\ drafts' = {}
  /\ UNCHANGED <<media, video, versions, target, pending, corrections, embedded, shelf>>

\* setEmbeddedSubtitleMediaPath moves both generations on: no job under way is current.
Superseded ==
  [k \in DOMAIN jobs |-> [jobs[k] EXCEPT !.current = @ /\ ~ jobs[k].started]]

SetPath(p) ==
  /\ Started
  /\ p # embedded.path
  /\ embedded' = NoListing(p)
  /\ jobs' = Superseded
  /\ UNCHANGED <<media, video, versions, target, pending, corrections, drafts, shelf>>

\* selectEmbeddedSubtitleTrack.
SelectStream(s) ==
  /\ Started
  /\ s \in embedded.streams
  /\ embedded' = [embedded EXCEPT !.selected = s, !.extraction = "idle"]
  /\ UNCHANGED <<media, video, versions, target, pending, corrections, jobs, drafts, shelf>>

-----------------------------------------------------------------------------
TranscriptNext ==
  \/ \E c \in LineIds, text \in Texts \cup {Empty} : target # NoTrack /\ Type(c, text)
  \/ Apply \/ SplitLine \/ MergeLines \/ OffsetLines \/ Approve
  \/ \E c \in corrections : CorrectionLands(c)
  \/ \E m \in Media : OpenMedia(m)
  \/ FileRestored
  \/ \E t \in Tracks : Jump(t)
  \/ \E m \in Media : Relink(m) \/ BeginImport(m)
  \/ \E i \in imports : ImportUnreadable(i) \/ ImportLands(i)
  \/ AskTranscription \/ AskCaptions \/ AskListing \/ AskExtraction
  \/ StartListing \/ StartExtraction
  \/ JobStale \/ ListingFails \/ ExtractionFails \/ TranscriptionFails \/ CaptionsFail
  \/ ListingDone \/ ExtractionDone \/ TranscriptionAnswered \/ CaptionsAnswered
  \/ \E d \in drafts : DraftLands(d)
  \/ Reconnect
  \/ \E p \in Paths : SetPath(p)
  \/ \E s \in Streams : SelectStream(s)

TranscriptSpec == TranscriptInit /\ [][TranscriptNext]_transcriptVars

-----------------------------------------------------------------------------
(***************************************************************************)
(* Properties.                                                             *)
(***************************************************************************)
\* The state has the shape of AppModel's transcript part, within the bounds.
TranscriptTypeOK ==
  /\ media \in Media /\ video \in Media \cup {Nothing}
  /\ Len(versions) <= MaxTracks
  /\ \A t \in DOMAIN versions :
       /\ versions[t].media \in Media /\ versions[t].parent \in 0 .. t - 1
       /\ versions[t].status \in Statuses /\ versions[t].origin \in Origins
       /\ Range(Lines(t)) \subseteq Line
  /\ target \in DOMAIN versions \cup {NoTrack}
  /\ target # NoTrack => versions[target].media = media
  /\ DOMAIN pending \subseteq LineIds /\ Range(pending) \subseteq Texts \cup {Empty}
  /\ embedded.path \in Paths
  /\ embedded.listing \in {"idle", "listing", "ready", "empty", "failed"}
  /\ embedded.extraction \in {"idle", "extracting", "imported", "failed"}
  /\ revived \subseteq DOMAIN versions
  /\ \A i \in imports : i.picked \in i.found /\ i.found \subseteq TracksOf(i.media)

\* Whatever is clicked while a correction is under way, no other begins, and the transcript
\* it corrects is not approved before it lands.  So versions are a chain, each with at most
\* one child, of its video and one version higher, and with none once it is approved: except
\* below a version that was corrected already when an import put it on screen again, where
\* the learner may fork the chain and approve what was corrected.  Lines say something and
\* last, and those of an offset do not overlap (withTranscriptCorrectionPending,
\* transcriptApprovalBlockReason, pickTrackForRelink, putTranscriptSegments,
\* applyTrackOffsetMs).
VersionsInOrder ==
  /\ \A c, d \in corrections : c = d /\ Status(c.parent) # "approved"
  /\ \A t \in DOMAIN versions :
       /\ Sound(Lines(t))
       /\ versions[t].origin = "offset" => Ordered(Lines(t))
       /\ versions[t].parent # NoTrack =>
            LET parent == versions[versions[t].parent]
            IN /\ parent.media = versions[t].media
               /\ parent.number + 1 = versions[t].number
               /\ versions[t].parent \notin revived =>
                    /\ parent.status # "approved"
                    /\ \A u \in DOMAIN versions : versions[u].parent = versions[t].parent => u = t

VersionsSound == TranscriptTypeOK /\ VersionsInOrder

Made == Len(versions')
MoreVersions == Len(versions') > Len(versions)

\* The edit of line l is in the version just made of its transcript, or in that version's editor.
Carried(l) ==
  /\ MoreVersions
  /\ versions'[Made].parent = l[1]
  /\ \/ l[2] \in DOMAIN versions'[Made].lines /\ versions'[Made].lines[l[2]].text = pending[l]
     \/ <<Made, l[2]>> \in DOMAIN pending' /\ pending'[<<Made, l[2]>>] = pending[l]

\* When a corrected version is made, whatever stands in an editor of its parent is in the new
\* version or in the new version's editor, also what was typed while it was made.
EditsOutliveApply ==
  [][\A c \in corrections \ corrections' :
       c.origin = "apply" /\ MoreVersions =>
         \A l \in DOMAIN pending \cap LinesOf(c.parent) : Carried(l)]_transcriptVars

\* A listing is of the path in the input, and an extracted draft lands on the video that was
\* open when its extraction began and is open now, with path and stream as they were then,
\* whatever was typed, chosen or opened in between (assertCurrentContext).
ExtractedWhereAsked ==
  [][/\ embedded'.streams \subseteq StreamsIn[embedded'.path]
     /\ MoreVersions /\ versions'[Made].origin = "extract" =>
          LET job == Head(jobs)
          IN /\ job.current
             /\ versions'[Made].media = media /\ job.media = media
             /\ job.path = embedded.path /\ job.stream = embedded.selected]_transcriptVars

\* "only the current one can hold a live object URL": what plays is the open video.
LiveUrlIsCurrent == video \in {Nothing, media}
=============================================================================
