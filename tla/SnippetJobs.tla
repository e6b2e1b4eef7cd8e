---------------------------- MODULE SnippetJobs ----------------------------
(***************************************************************************)
(* The jobs of the local service and its source audio snippets             *)
(* (apps/local-service/src/server.ts).                                     *)
(*                                                                         *)
(* A job runs in the background of the request that created it.  A snippet *)
(* job extracts one audio file, registers it and evicts the least recently *)
(* used of the registered files.  Everything between two awaits is one     *)
(* step here: other requests, a cleanup of all artifacts and the shutdown  *)
(* run in between.                                                         *)
(*                                                                         *)
(* The snippet of a job has the job's name.  Jobs of all other kinds share *)
(* one life cycle and are plain jobs; their files are not modelled.        *)
(***************************************************************************)
EXTENDS Integers, Sequences

CONSTANTS
  Clips,         \* jobs that extract a snippet, and their snippets
  Plain,         \* jobs of other kinds
  MaxSnippets,   \* the bound of the registry, 16 in the code
  MaxFaults,     \* bound on failing file operations
  None           \* no snippet

ASSUME SnippetAssumption ==
  /\ MaxSnippets \in Nat \ {0}
  /\ MaxFaults \in Nat
  /\ Clips \cap Plain = {}
  /\ None \notin Clips

Jobs == Clips \cup Plain

VARIABLES
  job,         \* the job map: status of each job
  work,        \* where the extraction of a snippet job is
  victim,      \* the snippet its eviction removes
  registry,    \* registered snippets, least recently used first
  files,       \* snippet files on disk
  removing,    \* files a DELETE request is removing
  dir,         \* the snippet directory exists
  lifecycle,   \* snippetLifecycle
  cleanup,     \* how far artifactCleanupPromise is
  closing,     \* how far close() is
  faults       \* failed file operations so far

jobVars == <<job, work, victim>>
diskVars == <<registry, files, removing, dir>>
serviceVars == <<lifecycle, cleanup, closing>>
vars == <<jobVars, diskVars, serviceVars, faults>>

-----------------------------------------------------------------------------
Statuses == {"none", "queued", "running", "completed", "cancelled", "failed"}
Works == {"none", "extracting", "evicting", "discarding", "failing", "done"}

Registered == {registry[i] : i \in 1 .. Len(registry)}

\* The job map, the registry and the life cycles have the declared shape: nothing is
\* registered twice, and exactly the evicting jobs have a victim.
TypeOK ==
  /\ job \in [Jobs -> Statuses]
  /\ work \in [Clips -> Works]
  /\ victim \in [Clips -> Clips \cup {None}]
  /\ \A c \in Clips : victim[c] # None <=> work[c] = "evicting"
  /\ registry \in Seq(Clips)
  /\ \A i, j \in 1 .. Len(registry) : registry[i] = registry[j] => i = j
  /\ files \subseteq Clips /\ removing \subseteq Clips /\ dir \in BOOLEAN
  /\ lifecycle \in {"open", "cleaning", "closing"}
  /\ cleanup \in {"none", "draining", "deleting"}
  /\ closing \in {"no", "serving", "awaiting", "draining", "sweeping", "closed", "failed"}
  /\ faults \in 0 .. MaxFaults

\* Requests are dispatched until close() is called.
Serving == closing = "no"

Fault ==
  /\ faults < MaxFaults
  /\ faults' = faults + 1

-----------------------------------------------------------------------------
(***************************************************************************)
(* Requests.                                                               *)
(***************************************************************************)

\* A snippet job starts in the request that creates it: its first step runs before
\* the answer.
PostClip(c) ==
  /\ Serving
  /\ job[c] = "none"
  /\ lifecycle = "open"
  /\ job' = [job EXCEPT ![c] = "running"]
  /\ work' = [work EXCEPT ![c] = "extracting"]
  /\ UNCHANGED <<victim, diskVars, serviceVars, faults>>

\* noop is complete at once, waiting is never worked on.
PostPlain(p) ==
  /\ Serving
  /\ job[p] = "none"
  /\ \E status \in {"completed", "queued", "running"} : job' = [job EXCEPT ![p] = status]
  /\ UNCHANGED <<work, victim, diskVars, serviceVars, faults>>

\* Mutant of FinishPlain: the status is not read again after the work.
FinishAnyway(p) ==
  /\ job[p] \in {"running", "cancelled"}
  /\ \E status \in {"completed", "failed"} : job' = [job EXCEPT ![p] = status]
  /\ UNCHANGED <<work, victim, diskVars, serviceVars, faults>>

\* The work of a plain job ends; a cancelled job keeps its status.
FinishPlain(p) ==
  /\ job[p] = "running"
  /\ \E status \in {"completed", "failed"} : job' = [job EXCEPT ![p] = status]
  /\ UNCHANGED <<work, victim, diskVars, serviceVars, faults>>

\* Cancelling marks the job; the work goes on and finds out.
Cancel(j) ==
  /\ Serving
  /\ job[j] \notin {"none", "completed"}
  /\ job' = [job EXCEPT ![j] = "cancelled"]
  /\ UNCHANGED <<work, victim, diskVars, serviceVars, faults>>

Place(c) == CHOOSE i \in 1 .. Len(registry) : registry[i] = c
Without(c) == SubSeq(registry, 1, Place(c) - 1) \o SubSeq(registry, Place(c) + 1, Len(registry))

Touched(c) == Append(Without(c), c)

\* GET of a snippet refreshes its place in the registry.
GetSnippet(c) ==
  /\ Serving
  /\ c \in Registered
  /\ registry' = Touched(c)
  /\ UNCHANGED <<jobVars, files, removing, dir, serviceVars, faults>>

\* deleteSnippet: the entry goes at once, the file in a later step.
DeleteSnippet(c) ==
  /\ Serving
  /\ c \in Registered
  /\ registry' = Without(c)
  /\ removing' = removing \cup {c}
  /\ UNCHANGED <<jobVars, files, dir, serviceVars, faults>>

RemoveFile(c) ==
  /\ c \in removing
  /\ removing' = removing \ {c}
  /\ \/ files' = files \ {c} /\ UNCHANGED faults
     \/ Fault /\ UNCHANGED files
  /\ UNCHANGED <<jobVars, registry, dir, serviceVars>>

-----------------------------------------------------------------------------
(***************************************************************************)
(* The extraction of a snippet: runSourceAudioSnippetJob.                  *)
(***************************************************************************)
Wanted(c) == job[c] # "cancelled" /\ lifecycle = "open"

Overfull(entries) == Len(entries) > MaxSnippets

\* The extraction succeeds but is not wanted any more.
ExtractedInVain(c) ==
  /\ work[c] = "extracting" /\ dir
  /\ ~Wanted(c)
  /\ files' = files \cup {c}
  /\ work' = [work EXCEPT ![c] = "discarding"]
  /\ UNCHANGED <<job, victim, registry, removing, dir, serviceVars, faults>>

\* The snippet is registered; with room in the registry the job is complete.
Extracted(c) ==
  /\ work[c] = "extracting" /\ dir
  /\ Wanted(c)
  /\ ~Overfull(Append(registry, c))
  /\ files' = files \cup {c}
  /\ registry' = Append(registry, c)
  /\ work' = [work EXCEPT ![c] = "done"]
  /\ job' = [job EXCEPT ![c] = "completed"]
  /\ UNCHANGED <<victim, removing, dir, serviceVars, faults>>

\* Else the least recently used entry goes, and its file is awaited.
ExtractedEvicting(c) ==
  /\ work[c] = "extracting" /\ dir
  /\ Wanted(c)
  /\ Overfull(Append(registry, c))
  /\ files' = files \cup {c}
  /\ registry' = Tail(Append(registry, c))
  /\ victim' = [victim EXCEPT ![c] = Head(Append(registry, c))]
  /\ work' = [work EXCEPT ![c] = "evicting"]
  /\ UNCHANGED <<job, removing, dir, serviceVars, faults>>

\* The job read before the eviction is written back as completed.
Evicted(c) ==
  /\ work[c] = "evicting"
  /\ files' = files \ {victim[c]}
  /\ victim' = [victim EXCEPT ![c] = None]
  /\ work' = [work EXCEPT ![c] = "done"]
  /\ job' = [job EXCEPT ![c] = "completed"]
  /\ UNCHANGED <<registry, removing, dir, serviceVars, faults>>

\* The evicted file cannot be removed: the new snippet fails, although registered.
EvictionFails(c) ==
  /\ work[c] = "evicting"
  /\ Fault
  /\ victim' = [victim EXCEPT ![c] = None]
  /\ work' = [work EXCEPT ![c] = "failing"]
  /\ UNCHANGED <<job, diskVars, serviceVars>>

\* ffmpeg fails, having written part of the file or nothing.
ExtractionFails(c) ==
  /\ work[c] = "extracting"
  /\ \/ UNCHANGED files
     \/ dir /\ files' = files \cup {c}
  /\ work' = [work EXCEPT ![c] = "failing"]
  /\ UNCHANGED <<job, victim, registry, removing, dir, serviceVars, faults>>

\* Mutant of Discarded: the unwanted file stays.
DiscardedOnPaper(c) ==
  /\ work[c] = "discarding"
  /\ work' = [work EXCEPT ![c] = "done"]
  /\ job' = [job EXCEPT ![c] = "cancelled"]
  /\ UNCHANGED <<victim, diskVars, serviceVars, faults>>

\* The unwanted file is gone and the job counts as cancelled.
Discarded(c) ==
  /\ work[c] = "discarding"
  /\ files' = files \ {c}
  /\ work' = [work EXCEPT ![c] = "done"]
  /\ job' = [job EXCEPT ![c] = "cancelled"]
  /\ UNCHANGED <<victim, registry, removing, dir, serviceVars, faults>>

\* The unwanted file cannot be removed: once more in the catch clause.
DiscardFails(c) ==
  /\ work[c] = "discarding"
  /\ Fault
  /\ work' = [work EXCEPT ![c] = "failing"]
  /\ UNCHANGED <<job, victim, diskVars, serviceVars>>

\* The catch clause: the file of the failed job goes; its status is written only if it
\* is not cancelled and the life cycle is open.
Failed(c) ==
  /\ work[c] = "failing"
  /\ files' = files \ {c}
  /\ work' = [work EXCEPT ![c] = "done"]
  /\ job' = IF Wanted(c) THEN [job EXCEPT ![c] = "failed"] ELSE job
  /\ UNCHANGED <<victim, registry, removing, dir, serviceVars, faults>>

\* The catch clause throws itself: nobody writes a status.
FailureFails(c) ==
  /\ work[c] = "failing"
  /\ Fault
  /\ work' = [work EXCEPT ![c] = "done"]
  /\ UNCHANGED <<job, victim, diskVars, serviceVars>>

\* Mutant of InFlight: the jobs that look unfinished.
InFlightByStatus == {c \in Clips : job[c] \in {"queued", "running"}}

\* inFlightSnippetJobs
InFlight == {c \in Clips : work[c] \notin {"none", "done"}}

-----------------------------------------------------------------------------
(***************************************************************************)
(* Cleanup of all artifacts, and shutdown.                                 *)
(***************************************************************************)

\* A second request during a cleanup joins it.
StartCleanup ==
  /\ Serving
  /\ cleanup = "none"
  /\ lifecycle' = "cleaning"
  /\ cleanup' = "draining"
  /\ UNCHANGED <<jobVars, diskVars, closing, faults>>

\* Mutant of CleanupDrained: running extractions are not awaited.
CleanupUndrained ==
  /\ cleanup = "draining"
  /\ registry' = <<>>
  /\ cleanup' = "deleting"
  /\ UNCHANGED <<jobVars, files, removing, dir, lifecycle, closing, faults>>

CleanupDrained ==
  /\ cleanup = "draining"
  /\ InFlight = {}
  /\ registry' = <<>>
  /\ cleanup' = "deleting"
  /\ UNCHANGED <<jobVars, files, removing, dir, lifecycle, closing, faults>>

Reopened == IF lifecycle = "cleaning" THEN "open" ELSE lifecycle

\* The scratch directory is empty, and the snippet directory made again.
CleanupDone ==
  /\ cleanup = "deleting"
  /\ files' = {} /\ dir' = TRUE
  /\ cleanup' = "none"
  /\ lifecycle' = Reopened
  /\ UNCHANGED <<jobVars, registry, removing, closing, faults>>

\* A file operation fails on the way; a close() that waits for the cleanup fails too.
CleanupFails ==
  /\ cleanup = "deleting"
  /\ Fault
  /\ \/ \E kept \in SUBSET files : files' = kept /\ UNCHANGED dir
     \/ files' = {} /\ dir' = FALSE
  /\ cleanup' = "none"
  /\ lifecycle' = Reopened
  /\ closing' = IF closing = "awaiting" THEN "failed" ELSE closing
  /\ UNCHANGED <<jobVars, registry, removing>>

Close ==
  /\ Serving
  /\ lifecycle' = "closing"
  /\ closing' = "serving"
  /\ UNCHANGED <<jobVars, diskVars, cleanup, faults>>

\* Every connection has ended: answered, dropped by its client or timed out, so a
\* cleanup or a removal it asked for may still be under way.
ConnectionsClosed ==
  /\ closing = "serving"
  /\ closing' = "awaiting"
  /\ UNCHANGED <<jobVars, diskVars, lifecycle, cleanup, faults>>

CleanupAwaited ==
  /\ closing = "awaiting"
  /\ cleanup = "none"
  /\ closing' = "draining"
  /\ UNCHANGED <<jobVars, diskVars, lifecycle, cleanup, faults>>

\* Mutant of CloseDrained: running extractions are not awaited.
CloseUndrained ==
  /\ closing = "draining"
  /\ registry' = <<>>
  /\ closing' = "sweeping"
  /\ UNCHANGED <<jobVars, files, removing, dir, lifecycle, cleanup, faults>>

CloseDrained ==
  /\ closing = "draining"
  /\ InFlight = {}
  /\ registry' = <<>>
  /\ closing' = "sweeping"
  /\ UNCHANGED <<jobVars, files, removing, dir, lifecycle, cleanup, faults>>

\* The snippet directory is emptied, as far as it can be.
Closed ==
  /\ closing = "sweeping"
  /\ closing' = "closed"
  /\ \/ files' = {} /\ UNCHANGED faults
     \/ Fault /\ \E kept \in SUBSET files : files' = kept
  /\ UNCHANGED <<jobVars, registry, removing, dir, lifecycle, cleanup>>

-----------------------------------------------------------------------------
Init ==
  /\ job = [j \in Jobs |-> "none"]
  /\ work = [c \in Clips |-> "none"]
  /\ victim = [c \in Clips |-> None]
  /\ registry = <<>>
  /\ files = {} /\ removing = {} /\ dir = TRUE
  /\ lifecycle = "open" /\ cleanup = "none" /\ closing = "no"
  /\ faults = 0

Step(c) ==
  \/ ExtractedInVain(c) \/ Extracted(c) \/ ExtractedEvicting(c) \/ ExtractionFails(c)
  \/ Evicted(c) \/ EvictionFails(c)
  \/ Discarded(c) \/ DiscardFails(c)
  \/ Failed(c) \/ FailureFails(c)

CleanupStep == CleanupDrained \/ CleanupDone \/ CleanupFails

CloseStep == ConnectionsClosed \/ CleanupAwaited \/ CloseDrained \/ Closed

Next ==
  \/ \E c \in Clips : PostClip(c) \/ GetSnippet(c) \/ DeleteSnippet(c) \/ RemoveFile(c) \/ Step(c)
  \/ \E p \in Plain : PostPlain(p) \/ FinishPlain(p)
  \/ \E j \in Jobs : Cancel(j)
  \/ StartCleanup \/ CleanupStep
  \/ Close \/ CloseStep

Spec == Init /\ [][Next]_vars

\* External programs and file operations end; nobody need send a request.
Fairness ==
  /\ \A c \in Clips : WF_vars(Step(c)) /\ WF_vars(RemoveFile(c))
  /\ \A p \in Plain : WF_vars(FinishPlain(p))
  /\ WF_vars(CleanupStep)
  /\ WF_vars(CloseStep)

FairSpec == Spec /\ Fairness

-----------------------------------------------------------------------------
(***************************************************************************)
(* Properties.                                                             *)
(***************************************************************************)

\* However many extractions end at once, at most MaxSnippets are registered
\* (docs/dev/local-runbook.md:221, server.ts:846-849).
RegistryBounded == Len(registry) <= MaxSnippets

\* While file operations succeed, a registered snippet has its file: neither an
\* eviction, a deletion nor a cleanup leaves an entry behind (server.ts:810-816, 883).
RegisteredHasFile == faults = 0 => Registered \subseteq files

\* While file operations succeed, no snippet file is left that nobody will remove: it
\* is registered, being removed, or that of a job still at work (server.ts:839, 855).
NoLostFiles ==
  faults = 0 /\ cleanup # "deleting" /\ closing # "sweeping" =>
    files \subseteq Registered \cup removing \cup InFlight \cup {victim[c] : c \in InFlight}

\* The registry and the directory agree while jobs come and go: bounded, every entry
\* with its file, every file with somebody who will remove it.
RegistrySound == TypeOK /\ RegistryBounded /\ RegisteredHasFile /\ NoLostFiles

\* A cleanup ends with an empty directory and nothing under way that could fill it,
\* unless a file operation failed (server.ts:877-891).
CleanupIsThorough ==
  [][cleanup = "deleting" /\ cleanup' = "none" =>
       /\ InFlight' = {} /\ registry' = <<>>
       /\ faults' = faults => files' = {}]_vars

\* After close() no extraction is under way, and no file left unless removing one
\* failed (server.ts:1327-1343).
ClosedIsClean ==
  closing = "closed" =>
    /\ InFlight = {} /\ registry = <<>>
    /\ faults = 0 => files = {}

\* A plain job that was cancelled stays so, whatever its work comes to (server.ts:903).
CancelledPlainStays ==
  [][\A p \in Plain : job[p] = "cancelled" => job'[p] = "cancelled"]_vars

\* A cleanup ends, whatever jobs were running and whatever became of them
\* (server.ts:871-875).
CleanupEnds == cleanup # "none" ~> cleanup = "none"

\* A shutdown ends too, also one that waits for a cleanup (server.ts:1338-1339).
CloseEnds == closing = "serving" ~> closing \in {"closed", "failed"}

\* Neither waits for ever for the other, or for an extraction.
RunnerWindsDown == CleanupEnds /\ CloseEnds

-----------------------------------------------------------------------------
(***************************************************************************)
(* What tests of the code take for granted and the code does not keep.     *)
(***************************************************************************)

\* A job is over some time (tests/core/b6SourceMediaSnippet.test.ts:28): whoever polls
\* it sees it completed, failed or cancelled, unless the service is shut down.
JobsEnd == \A c \in Clips : (job[c] = "running") ~> (job[c] # "running" \/ ~Serving)
=============================================================================
