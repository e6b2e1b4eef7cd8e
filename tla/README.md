# Verification of lingotorte

lingotorte is a local-first language-learning player. A browser application
(`apps/web`) plays media with subtitles, collects words from them, corrects
transcripts and reviews what was collected; a local service (`apps/local-service`)
keeps the learner's state in one SQLite file (`packages/storage`), runs extraction
and transcription jobs, and analyses words. Several tabs and several browsers may be
paired with one service, a browser may be offline for weeks, a request may be lost
or arrive twice, the service may restart, and a backup may be restored in between;
inside one page, answers and files arrive late and in any order while the learner
goes on. This directory holds TLA+ models of the code that has to survive all that,
the TLC runs that check them, and theorems about them checked by TLAPS.

Contents: 1 inventory, 2 modules and plan, 3 the models and the code, 4 the runs,
5 what is proved, 6 where text and code disagree, 7 running, 8 not modelled.

## 1. Inventory

| component | code | state | operations | hard part | module |
|---|---|---|---|---|---|
| durable learner store | `packages/storage/src/sqliteLocalPersistence.ts`, `learnerOperations.ts`, `restorePlanner.ts` | revision, document-owned and operation-owned rows, per-row history, receipts, lineage generation, pruning boundary | `saveLearnerState`, `saveTrackTranscript`, `saveSnapshot`, `previewRestore`, `commitRestore`, `applyLearnerOperation` | concurrent writers on stale bases, retried requests, pruning, restore, restart | `LearnerStore` |
| operation callbacks | `apps/local-service/src/learnerOperations.ts`, `packages/review/src/capture.ts` | the rows of one operation | capture, set-meaning, set-review-enrolment, undo-capture | undo against later edits, de-duplication | `Study`, `LearnerStore` |
| operation outbox | `apps/web/src/operationOutbox.ts`, `model.ts` 820-1400 | one IndexedDB record per operation | enqueue, flush, discard, retry, reapply, dismiss and hand off a draft, prune | tabs racing for a record, leases, lost and late answers, killed pages | `Outbox` |
| document sync | `model.ts` 200-830, 1130-1240, 4770-4930 | connection, baseline, choice, save queue, restore under way | connect, compare, choose, save, flush bundles, install receipts, restore | an acknowledgement arriving after the state it acknowledges was replaced | `DocumentSync` |
| media links | `model.ts` 1450-2550, `browserHandleStore.ts` | open media, object URLs, remembered file handles | import, relink, open, restore a handle, migrate the legacy handle | two awaits of two tasks crossing; files that change | `MediaLinks` |
| snapshot cache, remembered pairing | `browserSnapshotCache.ts`, `rememberedPairing.ts`, `pairedTransport.ts` | one IndexedDB record each, a write queue, generations | debounced write, bounded boot read, clear; remember, forget, auto-pair | a boot that read nothing must not overwrite the only copy; a late write after a forget | `PageBoot` |
| words of the Player | `morphologyPanel.ts`, `morphologyClient.ts`, `glossClient.ts`, `ui/capture.ts`, `views/player/transcript.ts` | panel, gloss cache, capture form | analyse, select, look up, suggest, capture, undo | late analyses and meanings under another cue, word or service | `WordAnalysis` |
| study loop | `packages/review/src`, `model.ts` 4048-4750, `views/review.ts`, `practice.ts`, `saved.ts`, `exportImport.ts` | items, occurrences, cards, schedules, events, attempts, audit, export file, restore form | capture, undo, meaning, enrol, review, practise, export, restore | an undo or a backup older than what was done since | `Study` |
| transcript workbench | `model.ts` 1780-1860, 2700-3880, `views/library.ts`, `views/saved.ts`, `transcriptSources.ts` | versions of a transcript, pending edits, job queue | correct, split, merge, offset, approve, transcribe, caption, list and extract, add a stored video again, jump to an occurrence | commits and drafts landing after the learner moved on; which version a video shows | `Transcripts` |
| job and snippet runner | `server.ts` 799-1285 | jobs, snippets, lifecycle, cleanup promise | create, run, cancel, evict, delete, cleanup, close | `await` between reading a job and writing it back | `SnippetJobs` |
| word services | `gloss.ts`, `morphology.ts`, `packages/language/src/glossStore.ts` | dictionary handle, last attempt, engine | look up, re-check, load, analyse | a dictionary that comes and goes; what a hop through a form may claim | `Glosses` |
| service frame | `server.ts` 700-800, 1040-1060, 1310-1422, `privateDelivery.ts`, `requestAdmission.ts` | process phase, port, socket, scratch directory, store handle, requests | start, fail, admit, dispatch, close | start and stop of two processes sharing a port and a socket path | `ServiceLife` |
| subtitles, domain types, export manifests, Anki, transcription package, views, scripts, vendored dictionary | see `PROJECT.json` | | | pure computation, rendering or external programs | section 8 |

(`model.ts` is `apps/web/src/model.ts`, `server.ts` is `apps/local-service/src/server.ts`.)

How they interact. The browser reads `GET /api/state` (rows, revision and the
operation identity in one read transaction). It sends the document with
`PUT /api/state` and transcript bundles with `PUT /api/tracks/{id}/transcript`,
both with the revision they are based on, and vocabulary changes with
`POST /api/learner/operations`, one request per outbox record. A restore is a
preview and a confirmation, both bound to one revision. Tabs share the outbox
database and tell each other to re-read it over a `BroadcastChannel`. A page boots
from the snapshot cache and the remembered pairing before it talks to anybody. A
page without a service runs the study loop on its own rows. Jobs of a page run one
after another (`serializeServiceJob`), jobs of the service beside each other.

What makes each of them correct:

- learner store: an operation takes effect once, whatever is retried; a save on a
  stale basis never undoes an operation nor another save; history is append-only and
  keeps its cards; a restore is the one that was confirmed
- outbox: every stored intent is settled in the end, with the outcome the service
  really had, by whatever tab; an undo follows its capture; a draft is decided once
- document sync: "saved" means stored, at that revision and with its bundles (but for
  `nothing_sent`, section 6); what no service ever stored leaves the page by the learner's choice only; a save replaces
  only what the page has seen; an unknown restore is settled only by reading it back
- media links: what plays is the content its record names; the one legacy handle is
  never lost; the media opened last is the one that is open
- page boot: what was not read is not overwritten; what was cleared or forgotten
  stays so; a late refusal of an old pairing does not end the new one
- words: panel and form are about the cue and the word the learner asked for last
- study loop: rows stay linked, schedules are backed by history, every study action
  counts once and is audited; an undo takes back its own capture only; a grading is
  for the card on screen
- workbench: no correction begins beside another and none is overtaken by an approval, so
  that versions form chains (but below a corrected version that an import shows again,
  section 6); what stands in an editor when an applied version lands is kept; extracted
  drafts land where they were asked
- jobs: the registry is bounded and true, cleanup and shutdown are thorough and end,
  a cancel is respected
- word services: a meaning names the word it is of, nothing in the dictionary is lost
  on the way, the browser accepts every answer the service gives
- service frame: who serves has all it needs, who failed or ended leaves nothing
  behind, handlers begin only in a process that serves

## 2. Modules and plan

| module | what | composed or instantiated by | theorems in |
|---|---|---|---|
| `OperationContract` | what the store promises browsers | `LearnerStore` implements it, the service half of `Outbox` keeps it | `LearnerStoreProofs`, `OutboxProofs` |
| `LearnerStore` | the durable store, every transaction | `MCLearnerStore` | `LearnerStoreProofs` |
| `Outbox` | outbox and flush of several tabs against a service that keeps the contract | `MCOutbox` | `OutboxProofs` |
| `DocumentSync` | one page's document against services other browsers write too | `MCDocumentSync` | `SyncProofs` |
| `MediaLinks`, `PageBoot`, `WordAnalysis` | a loaded page besides saving | composed in `Page`; `MCMediaLinks`, `MCPageBoot`, `MCWordAnalysis`, united in `MCPage` | `LinksProofs`, `PageProofs` |
| `Study`, `Transcripts` | what the learner does in a page | `MCStudy`, `MCTranscripts`, united in `MCLearn` | `StudyProofs`, `LearnProofs` |
| `SnippetJobs`, `Glosses`, `ServiceLife` | the service beside its store | `MCSnippetJobs`, `MCGlosses`, united in `MCService` | `ServiceProofs` |

Left to do, in this order: cue normalisation and ordering of `packages/subtitles`;
schema migrations of the store.

The bounds follow one rule: as many actors and objects as the shortest counterexample
of a plausible bug needs, plus what is necessary for the guard on the limit to fire.
Every property has a mutant of the code that its run detects. Modules that are proved
about use no recursive operator; `Transcripts` computes offsets with a recursive
function.

## 3. The models and the code

### LearnerStore, OperationContract

One action is one `BEGIN IMMEDIATE ... COMMIT` transaction of
`sqliteLocalPersistence.ts`; SQLite makes it atomic against other transactions and
against crashes, so there is no smaller step. `storeVars` are the tables of rows and
the revision, `ledgerVars` the operation tables.

| module | code |
|---|---|
| `SaveLearnerState`, `SaveSnapshot`, `WriteFenced`, `FencedRows`, `KeyAccepted` | `saveLearnerState`, `saveSnapshot`, `fenceOperationOwned`, `reconcileOperationOwned` |
| `SaveTrackTranscript` | `saveTrackTranscript` |
| `PreviewRestore`, `CommitRestore`, `PlannedRows`, `PlannedHistory` | `previewRestore`, `commitRestore`, `planLearnerRestore` |
| `Replay`, `Refuse`, `Conflict`, `ApplyUnchanged`, `Apply`, `Stamped`, `IssueReceipt` | `applyLearnerOperation`, `operation_owned_row`, `pruneOperationReceipts` |
| `Restart` | the process token of a new `SqliteLocalPersistence` |
| `NewRequest`, `Bodies` | what browsers may send: any request they could have formed from a state they once read, any document built on a state of its basis |

Row contents are model values (`Images`), compared only for equality, as
`canonicalJson` is in the code. `Outcomes` is what an operation's callback may do to
the rows: anything that keeps what the callbacks keep (a studied card stays, a
schedule is not rewritten, a new row has a fresh id); what the callbacks do row by row
is in `Study`, whose unpaired path runs the same code of `capture.ts`. `past` and
`issued` are history variables for the properties; no action reads `issued`. `past`
also stands for the memory of the browsers: a body on basis `b` is built from what was
readable at `b`. Random tokens (generation, incarnation) are counters.

`OperationContract` has only requests, executed receipts, answers and the
vocabulary. `ImplementsContract` is the refinement with the mapping in
`LearnerStore` (`Contract == INSTANCE ...`).

### Outbox

One action is one IndexedDB readwrite transaction, one request at the service, or one
decision of the learner. `outbox` is the object store shared by all tabs. The local
variables of a running `flushLearnerOperations` are `todo` (records of its list not
looked at yet), `view` (its map `byId`, of which it uses only the captures of undos
still to come, so only those are kept) and `flight` (the request it awaits).

| module | code |
|---|---|
| `Capture`, `EditMeaning`, `UndoCapture`, `Add`, `Room` | `saveSelectionAsOperation`, `enqueueMeaning`, `undoOperationSave`, `storeLearnerOperation`, `add` |
| `StartFlush`, `At`, `Waits`, `BlockUndo`, `Pass*`, `Claim`, `Receive`, `Settle`, `Settled` | `flushLearnerOperations`, `transition` |
| `Fail`, `Supersede`, `Abandon`, `Late`, `stray` | network failure and superseded connection in the flush; a request nobody awaits any more may still arrive, since there is no timeout and no abort |
| `LeaseExpires`, `Reload` | `OUTBOX_DISPATCH_LEASE_MS`, `adoptTabId` |
| `Deliver`, `Handle`, `Executions`, `Current`, `Forget`, `Restore`, `RestartService` | the operation route and `applyLearnerOperation`, reduced to what `LearnerStore` shows: executed at most once, the receipt replayed while retained, refused otherwise |
| `Discard`, `Retry`, `ReapplyRead`, `ReapplyStore`, `ReapplyCancel`, `KeepSaved`, `HandOff`, `Prune` | the learner's decisions and the clean-up |

Abstractions: one service address; `EditMeaning` is the edit of any meaning, chained
behind any earlier edit or none, since the tab's list may be older than the store; an
enrolment is an edit without chain; the dispatch fields other than owner and lease are
left out, and the lease is a flag; a record is pruned any time after it may be (the
retention is time); deleted records keep their fields for the properties and no
action reads them. What an acknowledgement installs into the rows of the browser is
`InstallReceipt` of `DocumentSync`.

`ServiceKeepsContract` maps the service to `OperationContract` (`Done`, `Issued`): the
records that exist are the requests asked, an execution is its receipt. The rows are not
modelled here, so the vocabulary is opaque; of the answers, which the service does not
remember, the mapping has the first, that of the execution.

### DocumentSync

One page and the services it may be paired with, each with the whole history of its
state (`past`, a sequence of revisions). An action is what JavaScript runs between two
awaits of a job or of a connection, one request executed by a service, or one decision
of the learner. `tail` is the queue of `serializeServiceJob`, whose head runs (`run`:
program counter, request under way, what is still to do); a job is `live` while its
generation is the page's. `conn` is the connection attempt. Requests nobody awaits any
more go to `stray` and may be executed later.

| module | code |
|---|---|
| `Pair`, `Disconnect`, `Unauthorized`, `Supersede` | `pairLocalService`, `setLocalServiceBaseUrl`, `pairTransport` |
| `Connect`, `Compared`, `Compare`, `MustChoose`, `Connected`, `KeepBrowser`, `LoadService`, `ChooseAgain` | `connectLocalService`, `resolveLocalServiceConnection` |
| `Save`, `StartSave`, `NextStep`, `BundleAnswered`, `BundleVerified`, `DocumentAnswered`, `Conclude`, `Flushed` | `saveModelToLocalService`, `flushPendingTranscriptBundles` |
| `StartLoad`, `LoadAnswered` | `loadCurrentMediaTranscriptsInBackground` |
| `AskPreview` ... `CommitReadBack`, `Reconcile`, `OutcomeUnknown` | `previewDurableRestore`, `confirmRestore`, `reconcileRestoreState` |
| `InstallReceipt`, `InstallRows`, `ApplyRows` | `installOperationReceipt`, `installAuthoritativeOperationOwned`, `applyProtectedChanges` |
| `Execute`, `BundleVerdict`, `PutVerdict`, `RestoreVerdict`, `OtherSave`, `ApplyOperation` | the routes of `server.ts` over `sqliteLocalPersistence.ts` |

Abstractions: items, rows and transcript bundles are sets of opaque values; items are
added and never renamed, so the content tells what the edit counter tells; a status and
the state read after it are one read, as are a restore's POST of a preview and the read
beside it; a save on a page without a revision is a connection and then a save; the
study history that rows carry (the `unsavedHistory` branch of
`applyProtectedChanges`) is left out. Two fields of `page` are history that no action
reads: `saw`, the document the service had at the revision the page names, and `kept`,
that the page holds its own document against that one (the learner's Keep, an empty
service, a restore read back as something else) and has not sent it since. The run
`nothing_sent` shows why `SavedIsDurable` leaves a kept page out.

### MediaLinks

Importing, relinking, opening and restoring are tasks with a program counter each
(`imports`, `relink`, `opens`, `restores`); an action is what runs between two awaits.
`disk` says what a file holds now, `urls` what each object URL was made from and
whether it is revoked, `handles` the object store of handles by media and the legacy
key, `player` what is on screen (`browserLocalMedia`, `currentMedia`, generations).

| module | code |
|---|---|
| `StartImport`, `Hashed`, `ImportRefused`, `RelinkImported`, `AddImported`, `SaveHandle` | `importBrowserLocalFiles`, `relinkExistingBrowserMedia`, `persistBrowserMediaHandle` |
| `StartRelink`, `RelinkAnyOpen`, `FinishRelink` | `relinkCurrentMediaFromFile` |
| `OpenMedia`, `Loaded`, `NotSuperseded` | `openBtn`, `loadThenOpenMedia`, `projectOpenedMedia` |
| `StartRestore`, `ReadOwn`, `ReadBare`, `GetFile`, `FinishRestore`, `GiveUp`, `Superseded` | `restoreOpenedMediaHandle`, `restoreMediaAtBoot`, `restoreBrowserMediaHandle` |
| `ReadLegacy`, `ReadTarget`, `CopyLegacy`, `DropLegacy`, `MigrationFails` | `migrateLegacyMediaHandle` |
| `Hydrate`, `SaveLibrary`, `Reload`, `EditFile` | `projectHydratedSnapshotIntoModel`, a page load, the file system |

A file has a name that stays and a content that may be edited; a content is its
fingerprint. The number of object URLs is bounded (`MaxUrls`).

### PageBoot

`cached` and `stored` are the two records, `cacheOps` and `pairOps` the IndexedDB
requests still waiting, in order; each may fail, and a page that goes away
loses them. `page` holds what was booted and the work on screen, `pairing` the opt-in,
the generation and the read under way, `transport` the live pairing, `requests` what is
on its way to a service, `starts` how often each service was started (a capability is
of one start).

| module | code |
|---|---|
| `Signalled`, `Flush`, `Work`, `Clear`, `CacheServed`, `BootCache`, `ReadResult`, `WriterIsSafe` | `browserSnapshotCache.ts`, the clear panel of `settings.ts` |
| `BootPairing`, `BootReadTimesOut`, `BootRead`, `PairServed`, `Forget`, `Enqueue` | `rememberedPairing.ts` |
| `Connect`, `ConnectMalformed`, `EditUrl`, `OptIn`, `OptOut`, `ForgetPressed` | the handlers of `settings.ts` |
| `SendRequest`, `Serve`, `IsCurrent`, `AnswerIgnored`, `StatusOk`, `Unauthorized` | `pairedTransport.ts`, `installRememberedPairing` |

One tab; the work in a record is a set of items with their bundles.

### WordAnalysis

`panel` is the analysed cue, its generation, the selected word and the cache of
meanings; `analyses` and `lookups` are answers under way, `form` the capture form,
`suggestions` those under way for it, `saves` paired saves, `receipt` what the toast
offers to undo; `learner` says where the learner is, `link` the transport.

| module | code |
|---|---|
| `Analyse`, `ChunkAnswered`, `AnalysisShown`, `AnalysisFails`, `SelectWord`, `LookupAnswered`, `Transient`, `Settled` | `morphologyPanel.ts`, `morphologyClient.ts`, `glossClient.ts` |
| `OpenCapture`, `Spans`, `Suggest`, `WordAnswered`, `Type`, `EraseMeaning`, `Cancel`, `Save`, `SaveSettles`, `Undone` | `ui/capture.ts`, `views/player/transcript.ts`, `suggestMeaningForSelection` |
| `GoTo`, `SwitchMedia`, `Replay`, `LoadState`, `ChangeView`, `PairWith`, `Disconnect` | what moves the learner, the document or the pairing meanwhile |

A cue's words are positions, the same for every cue; gestures are the spans they
select; what a service says of a word is the same whenever it answers; whether a
transcript is approved is left out.

### Study

Every handler of the study loop runs to its end and renders the page, so a step is one
handler with its render (`Render`). `rows` are the `LocalStore` collections, `audit`
the learner audit, `file` the last export, `form` the restore form, `toast` the Undo
toast, `review` and `practice` the two cards on screen, `now` the clock.

| module | code |
|---|---|
| `Capture`, `SavedWith`, `WithCards`, `Undo`, `CanUndo`, `Undone` | `saveSelection`, `capture.ts` |
| `TakeOut`, `AddToReview`, `Toggle`, `SetMeaning` | `saved.ts`, `archiveCards`, `reactivate`, `setSavedItemMeaning` |
| `GoTo`, `Tick`, `Wake`, `ToggleReveal`, `Rate`, `RevealAnswer`, `SetMode`, `Submit`, `Scheduled` | `review.ts`, `practice.ts`, `reviewService.ts`, `practiceService.ts` |
| `Export`, `FileDamaged`, `Preview`, `ChooseMode`, `Acknowledge`, `ConfirmRestore`, `Restored`, `ReferencesHold`, `RetainedAudit` | `exportManifest.ts`, `exportImport.ts`, `restorePlanner.ts`, `learnerAudit.ts` |

The intervals FSRS computes are "at once" or "later"; a page without a service is
modelled (with one, the same callbacks run in `LearnerStore`'s operations).

### Transcripts

`versions` is the sequence of tracks made so far, each with its parent, number,
origin, status and lines; `pending` the line editors; `corrections` what was asked for
and has not landed; `jobs` the queue, `embedded` the listing and its context; `imports`
the subtitle files added with a stored video, with the version picked and the versions
found before their hashes were computed. `revived` is a history variable: the versions
that had been corrected already when an import put them on screen. A commit and the
handler that waits for it are one step.

| module | code |
|---|---|
| `Type`, `Apply`, `SplitLine`, `MergeLines`, `OffsetLines`, `Correct`, `CorrectionLands`, `Retain`, `Approve`, `Blocked` | `views/library.ts`, `createCorrectedTranscriptVersion`, `createStructuralCorrectedTranscriptVersionNow`, `approveTranscriptTrack` |
| `Shift`, `Shifted`, `Split`, `Merged`, `Edited` | `applyTrackOffsetMs` and the line operations |
| `AskTranscription`, `AskCaptions`, `AskListing`, `AskExtraction`, `Start*`, `*Done`, `*Fails`, `DraftLands` | `generateLocalAsrDraft`, `importYouTubeCaptionCandidate`, `listEmbeddedSubtitleTracksFromService`, `extractSelectedEmbeddedSubtitleDraft` |
| `OpenMedia`, `ChosenTrack` | `openMediaAsset`, `chooseActiveTrack` |
| `Jump` | `jumpToOccurrence` of `views/saved.ts` |
| `Relink`, `Picked`, `Show` | `importBrowserLocalFiles` of a known fingerprint, `relinkCurrentMediaFromFile`; `pickTrackForRelink`, `relinkExistingBrowserMedia` |
| `BeginImport`, `ImportLands`, `ImportUnreadable` | the same with a subtitle file: before and after its hashes |
| `FileRestored` | `restoreBrowserMediaHandle`, as far as it concerns what plays |
| `SetPath`, `SelectStream`, `Reconnect` | what moves the context meanwhile |

Texts are values; the three dictionaries of pending edits (texts, times, words) have
one life cycle, and the one of texts stands for them; the halves of a split are any
texts. Outside the model: typed times, so that only offsets can make lines overlap;
videos that are new or have no transcript, and native tracks; a store that a connection
or a restore replaces while a correction is under way; and that a jump within the open
video leaves the lines of the version before on screen (section 6).

### SnippetJobs

Between two `await`s JavaScript runs alone, so an action is one such segment of
`runSourceAudioSnippetJob`, of a cleanup, of `close` or of a request handler. `job`
is the job map, `registry` the snippet map in order of last access, `files` the
directory. `work` and `victim` are the program counter and the local variables of a
running extraction, `cleanup` and `closing` those of the two long operations. File
operations may fail (`MaxFaults`). Plain jobs are jobs of all other kinds; the
programs they run and the files they write are left out.

### Glosses

`dictFile` is what lies on disk, `opened` and `dictState` what the service has open and
reports, `lastAttempt` when it last tried, `engine` whether Morfeusz is loaded. A dictionary gives every lemma key its
rows in order (a meaning, or "form of"). `LookUp`, `Hit`, `Resolve` translate
`glossStore.ts` and `gloss.ts`, `Accepts*` what `glossClient.ts` lets pass. An `ORDER BY`,
a `filter` and a `seen` set all select entries and keep their order: `Those` takes the
entries at a set of positions, the least first (`InOrder`), without recursion, so that
what a lookup returns can be proved. Keys are lemmas with case folded. The failure of `store.source()` and the close of the handle
are left out.

### ServiceLife

Every process has a phase that follows `startLingotorteLocalService` and its `close`
(`MakeDelivery`, `HandOver`, `RefuseStart`, `Bind`, `MakeScratch`, `OpenStore`,
`Serve`, `FailStart`, `CleanUpStart`, `Signal`, `SecondSignal`, `ConnectionsEnd`,
`CloseStore`, `Exit`, `Crash`, `Kill`); `socketFile` is the process whose file lies at the
delivery path. A request goes through `Send`, `Admit` or `Deny`, `Handle`, `Respond`,
`Leave`. Headers, origins and the configuration are string predicates, abstracted to
"passes or is denied"; whether a delivery is ready is a choice; the removal of the
scratch directory succeeds; the jobs a close drains are those of `SnippetJobs`.

## 4. The runs

Deadlock is not checked in any run (`CHECK_DEADLOCK FALSE`): the models stop when
their bounds on revisions, operations, requests or jobs are used up, a learner may
stop acting, and a closed service has nothing left to do. That something must go
on is said by the liveness properties instead.

A run explores several small instances ("scopes") one after another: a constant
variable, chosen in the initial state, restricts what may happen. Components that share
no state are explored in one run, one at a time, while the others rest.

| run | instance | shows |
|---|---|---|
| `store` | four scopes: documents and a bundle against two operations on a card with two images and its schedule; study and restores of two files against one operation; two requests across a restart and restores; three requests across a restart; four revisions, a cap of one receipt | `FenceExact`: for every basis a save may use, the fence accepts exactly the copies the store held since; `DocumentBasisIsCurrent`: no lost update; `DocumentsKeepOwnedRows`, `NoOrphanHistory`, `HistoryKept`, `RestoreOfWhatWasSeen`, `OneReceiptPerRequest`; refinement of `OperationContract` |
| `outbox` | four scopes: two operations of all kinds through a restore, a restart or a pruned receipt and a stray copy; captures with drafts; three records at a cap of two; two tabs | `AcknowledgedIsApplied`, `UndoAfterCapture`, `HandedOffOnce`, `OpenDraftKept`, `OnlyAllowedMoves` |
| `settles` | one tab, a capture and its undo, a killed page, a lost request, fairness | `EveryIntentSettles` |
| `sync` | ten scopes of one page and one or two services, with up to four revisions and a queue of two: bundles and reloads, other writers, two saves in a row, receipts, receipts beside other writers, restores by merge and by replacement and of a page with unsent transcripts, two addresses, a refused capability; fairness | `SavedIsDurable` (in `SyncSound`), `UnsentKept`, `PutReplacesSeen`, `SettledByReadBack`, `SavingEnds` |
| `page` | links: four scopes of two files, two media, one or two URLs, two restores; boot: two origins, two items of work, one restart; words: three cues of two videos, two words, two services | `OpenedMediaPlays`, `LegacyKept`; `GoneStaysGone`, `RestStays`; `WordsAreAsked` |
| `learn` | study: five scopes of two words, two places, two cards, one or two gradings; workbench: five scopes of two videos, up to five versions of up to three lines, two jobs, one subtitle file being imported and one version shown again | `StudySound`, `UndoLosesNothingElse`, `GradesWhatIsShown`; `VersionsSound`, `EditsOutliveApply`, `ExtractedWhereAsked` |
| `snippets` | clips: three extractions over a registry of two with a failing file operation; a plain job; every dictionary of up to two rows for one word and three for those it may be a form of, asked one to three readings; two processes and a request; fairness | `RegistrySound`, `CleanupIsThorough`, `ClosedIsClean`, `CancelledPlainStays`, `RunnerWindsDown`; `MeaningsHonest`; `ServiceWhole` |

Five runs end in a counterexample, see section 6.

Why the bounds suffice. The fence compares one row with the entries of its own
history, so one row and its schedule row are enough; four revisions leave room for a
write, an operation and a write after it at every basis. Ledger properties relate two
requests. Races in the outbox are between two tabs over one record or a record and the
one it depends on; the third party is always the service or a stray copy. Three records
are the least at which two replacements of one draft meet the cap. A save of
`DocumentSync` has at most one bundle and one document under way, so what can come in
between is one other write, one reconnection or one more save in the queue. Tasks of
`MediaLinks` race in pairs. A correction races with another version of the same
transcript, and a third shows that chains go on; a fork needs a correction, the other
video opened, the first one added again and a second correction: four versions. In the jobs, three extractions over
two places make one evict while another ends. Two processes are all that one port and
one socket path can set against each other.

What the scopes leave out for the sake of size: in `Switching` of `MediaLinks` one open
is under way at a time, and opens against each other are the scope `Opening`; in the
pairing scope at most one request besides connections is under way, and the cache does
not hold a URL half typed; in the words part the form is explored with at most one cue
analysed, and saves without an analysis; `Study` saves the first of its two alike words
first; a socket file is removed by hand, or a process killed, once (`MaxKills`); in the
jobs, plain jobs are explored apart from extractions, with which they share the life
cycle only.

Symmetry: operation ids and tabs are interchangeable values, and the runs that use a
symmetry set check no liveness.

Fairness. `Outbox!FairSpec` assumes: flushes are started again and again (autosave,
the `online` event or the learner), a flush goes on in its list, leases run out, and
for a record that is offered over and over one attempt is some day claimed, delivered
and answered (strong fairness: connections and pages may fail again and again, but not
at every attempt). The strong part is an assumption about the surroundings and not a
property of the code. Nothing is assumed of the learner: no decision, no discard.
`SnippetJobs!FairSpec` assumes that external programs and file operations end, well or
badly, and that the event loop runs what is ready; nobody need send a request.
`DocumentSync!FairSpec` assumes that a request ends, answered or failed, and that the
event loop runs what is ready.

## 5. What is proved

TLAPS checks the theorems for every value of the constants: any number of rows,
operations, tabs, restores, receipts, jobs, processes, videos, cues, words, items and
cards. The proofs assume what the modules assume of their constants, by name:

| assumption | says | why the code justifies it |
|---|---|---|
| `KeysAssumption`, `FilesAssumption` | rows and schedule rows are apart, every schedule and event is of a row, `Absent` is no content; an export file has rows of this shape | separate tables with foreign ids; the planner checks a file's references |
| `CapAssumption`, `OutboxAssumption`, `SnippetAssumption` | a cap is positive, bounds are numbers, `None` is no tab and no clip, plain jobs are no extractions | caps are literals; one kind per job |
| `BootAssumption`, `NothingAssumption`, `LifeAssumption` | the page's own address is an address, a URL half typed is none, `Absent` and `Nobody` are no member of the sets they stand beside | the defaults of the code; `null` |
| `LinksAssumption`, `NoneAssumption` | bounds are numbers; `None` is no handle, media, record or URL | `null` and `undefined` |
| `WordAssumption` | words are numbers with a least one, every cue has a context and a number of chunks, `Nil` is no cue | words are positions in a cue; a cue's media is known |
| `TranscriptAssumption` | an empty text is no text, room for two videos, versions, lines and instants, offsets are integers | a page begins with one version, and handlers add to it |
| `SyncAssumption` | bounds are numbers and leave a service its first revision, transcripts are apart from other items, `None` is no content and no acknowledged baseline | ids of different kinds; `null` |
| `GlossAssumption` | every key has rows of the shape of the table, a word has at least one reading, bounds are numbers, at least one sense is asked for, `Nil` is no value it stands beside | the schema of the import script, constants of the code, `null` |
| `StudyAssumption` | bounds are numbers, approved places are places, room for one item and one occurrence | the document a page begins with has one |

Each argument, and why the property alone is not inductive:

- `LearnerStoreProofs`: `TypeCorrect`; `ExactlyOnce` and the retention of receipts.
  Nothing in `OneReceiptPerRequest` says why a request whose receipt was pruned cannot
  run again. `LedgerInv` adds `RetainedAboveBoundary` and that the basis of an executed
  request is older than its receipt; a pruned receipt is then above the basis and not
  above the boundary, so the request is below the boundary and not eligible.
  For the documents, `VersionsInv` says that `past[rev]` is the present state.
  `HistoryInv` says of every row and every basis from `lastNonOp` on that the present
  image and the images of the stamps after the basis are together exactly what the
  versions since the basis held, and that the last change is among the stamps. From
  them follow `FenceIsExact`, `SavesSawThePresent`, `FenceKeepsRows` and
  `RestoreAsConfirmed`. `ActiveInv` (the active history lies in the audit and on
  present cards) gives `HistoryHasItsCards` and `HistoryIsKept`; that a save cannot
  bring a review of a removed card needs `DocumentBasisIsCurrent`.
  `StoreImplementsContract` maps initial states and every action to a contract step or
  a stutter, with `LedgerInv` as the invariant.
- `OutboxProofs`: `TypeCorrect` (with the creation order of records and the record of
  a Reapply under way), `CapHolds`, `MovesOnly`, `SettledByService` and
  `UndoFollowsCapture`. An acknowledgement travels from the service into an answer,
  from there into the store and into what the flush knows, and from the store into
  the list of a later flush; `Inv` says at each station that the service applied the
  operation, and that what is on the wire belongs to a record. `CapHolds` holds for all
  numbers of tabs because a step creates at most one record and only after counting
  (`Grows`). `OpenDraftsKept` needs only what every step does to what a record says of
  drafts (`DraftsEvolve`, `HandsOff`), and that only claimed records have an owner.
  `HandedOffToOne` links a replacement to the field of the draft it took
  (`TakenDecided`, `ReplacedOnce`): a field that was taken is decided, and only an
  undecided one is handed off.
  `OutboxKeepsContract` maps the service half to `OperationContract`, which
  `LearnerStore` implements too: what `Outbox` assumes of the service is what the store
  was proved to promise. Seen from the service a step executes one request that was on
  the wire, restores the store, or does nothing (`ServiceActs`). It is no run's
  property; the theorem alone states it.
- `ServiceProofs`: `RegistryStaysSound`, `CloseIsClean`, `CleanupLeavesNothing`,
  `CancelledStays`. A snippet has the name of its job, so a file is registered at most
  once in its life; `RunnerInv` says that whatever is registered, evicted or being
  removed belongs to a job past its extraction (`Entered`, `Leaving`), that a finished
  job's file is registered or somebody's to remove (`Kept`), and that a deleting
  cleanup and a sweeping shutdown found nothing under way and let nothing begin
  (`Quiet`, `Phased`).
  `ServiceStaysWhole`: `LifeInv` says what each phase of a process
  has opened (`Shape`), whose socket may be at the path (`SocketOwned`), that a fixed
  port has one listener, and that only a process that serves or is closing has
  connected requests.
  `MeaningsStayHonest`: an answer is honest whatever the dictionary holds, so the proof
  is about the operators: `Those` keeps what it selects and its order (`InOrder` exists
  by the least position, `LeastNumber`), a lookup returns senses of the lemma it names
  and at most so many (`GoodHit`), an answer gives every found alternative once. `GlossInv`
  adds that the answer is of the dictionary that is still open (`AnswerTrue`) and how the
  times of the file and of the attempts are ordered (`CameSince`), without which a good
  file could be overlooked for longer than a re-check.
- `PageProofs`: `WhatIsGoneStaysGone`, `TheRestStays`, `WordsStayAsked` and the shapes.
  `BootInv`: a clear is the last thing its queue does to the cache (`ClearsAreLast`),
  what is written was seen (`OverwritesSeen`), what was forgotten is gone or about to
  be with no write behind it (`Forgetting`), a page that is ready for requests has had
  its boot read (`PairedWhenReady`). `WordInv`: an analysis that may still count is for
  the cue asked for last (`AnalysesAsked`); whatever becomes of an opening of the form,
  it is about one word (`SelectionsHonest`). `PageKeepsItsShape` puts the three parts of
  `Page` together, with the shape of the links from `LinksProofs`.
- `LearnProofs`: `VersionsStaySound`, `EditsAreCarried`, `ExtractsWhereAsked`.
  `TranscriptInv` says why versions are chains: one correction at most is under way
  (`OneCorrection`), of a version that is not approved, and what it corrects and what is
  on screen for editing has no child yet or is one that an import showed again (`Free`,
  `OnScreen`); what an import under way has picked and found are versions of its video
  (`ImportsKnown`). Outside `revived` this gives chains; that no two corrections run
  together and none is overtaken by an approval holds without exception. The lines of
  an offset are a recursive function; that they exist and do not overlap is shown by the least line
  for which they would not (`LeastNumber`), since induction theorems of the library
  take an operator and cannot be used.
- `LinksProofs`: `OpenedStaysRight`, `LegacyStaysKept` and the shape. That what plays is
  right says nothing of the records and URLs an import or a restore will install.
  `LinksInv` says that a media keeps its fingerprint wherever its record is found: in
  either library, on screen, in an import that has read it (`Fingerprinted`); that the
  URL of an import under way is live, of its file's content and nobody else's, so that
  no revocation reaches it (`ImportsOwn`, with `LabelsKnown`: a label is of a URL there
  was, so a new URL is unnamed); that a restore which was not outdated knows the
  fingerprint on screen (`RestoresFresh`); that the newest open is of the media asked for
  (`NewestAsked`). A migration about to delete the legacy handle has seen a handle of the
  media that one was of, and handles of media are never taken away (`Migrating`).
- `StudyProofs`: `StudyStaysSound`, `UndoTakesBackOnlyItsCapture`,
  `GradesTheCardOnScreen`. Undo, restore and grading are right only together: an undo
  may take a row back because nothing refers to it, a merge may put rows of an older
  file under rows of now because both once belonged to the same collections. `StudyInv`
  therefore speaks of every snapshot there is (the rows of now, of the export file, of
  the restore form): each is linked (`Linked`), backed by history (`Backed`) and
  numbered within what was given out (`Accounted`), and any two agree on the
  occurrences and cards both have (`SnapshotsAgree`). `GradesAudited` and `PracticeDue`
  carry the counting and the card on screen.

- `SyncProofs`: `SyncStaysSound`, `WorkIsKept`, `SavesReplaceSeen`,
  `SettledOnlyByReadBack`. `SyncSound` speaks of the page and the services, and is
  broken by what arrives: so `SyncInv` says what every station on the way knows. A
  service has the bundle of every transcript its document names, and its document has
  not changed since the last write that was no operation. The page's own document is
  the one it last read or sent (`saw`) with what it added, unless it is kept against it;
  what it remembers as acknowledged was stored by that service. An answer
  is true of the revision it names. A live job works on the page's own address and
  revision; while the learner has a choice to make no job counts, but for previews that
  will refuse; a commit that
  still owns its restore is the last job of the queue. A save then replaces `saw` or
  is refused, and an answer to a live job is about what the page sent.

Every invariant and every action property of the passing runs is the statement of a
theorem. Out of the prover's reach and left to TLC: liveness under fairness
(`EveryIntentSettles`, `RunnerWindsDown`, `SavingEnds`) and `ENABLED`; the properties
that the five runs of section 6 refute are not theorems, of course.

## 6. Where text and code disagree

Runs that end in a counterexample, each the disagreement of a text with the code:

- `nothing_sent` (`SavedMeansStored`): the learner keeps the browser's work against a
  newer document; the baseline of an earlier connection is still there, equals the
  browser, and the save that follows sends nothing and reports "All changes saved"
  (`model.ts:555`; `core-loop-source-reconciliation.md:80` promises that the next save
  replaces what the service holds). A connection to a service that became empty
  leads to the same.
- `dropped` (`RestoreOfSavedOnly`): after connecting to an empty service there is no
  baseline, the check before a restore is skipped, and the restore drops work that is
  in the browser only (`model.ts:4838` against the comment at 4789).
- `overtaken` (`EditsInOrder`): a flush passes over an edit another tab has under way
  and sends the edit chained behind it first (`model.ts:1088`).
- `stuck_job` (`JobsEnd`): a job whose extraction fails during a cleanup stays `running`
  (`server.ts:857`).
- `other_video` (`LiveUrlIsCurrent`): a jump to an occurrence in another video
  (`saved.ts:141`, the run's trace), and likewise a caption import or a correction that
  lands on another video (`model.ts:3410`), leave the earlier object URL playing, against
  the comment at `model.ts:1998`.

Behaviours met while modelling that have no run of their own; where the models reach
them, the properties are stated so that they do not claim the contrary.

Learner operations and outbox
- A request below the pruning boundary is refused with the words that it was not
  applied, also when it was and only its receipt is gone
  (`sqliteLocalPersistence.ts:2244`, `model.ts:848`).
- An Undo whose answer was lost is never sent again once the acknowledged capture it
  depends on was pruned; it stays `sending`, and can be neither retried nor discarded
  (`model.ts:1078`).
- A capture refused for its missing source may be discarded while an earlier copy of its
  request is still under way, and is executed later (`model.ts:4068`).
- A merge restore after an undo and a second capture of the word leaves two items and
  two cards for it.

Document and restore
- A bundle that was stored but not acknowledged, for a track not yet in the stored
  document, can never be verified: a conflict for good (near `model.ts:390`).
- A preview answered while an older preview's confirmed commit waits replaces the
  restore under way; the commit is orphaned (`model.ts:4913`).
- An unknown restore whose comparison no longer matches cannot be reconciled until the
  page is reloaded; a connection then stays `connecting`.
- A baseline is recorded for a state that was not saved (`model.ts:563`) and heals
  itself; an acknowledgement read back may install older rows (`model.ts:1219`).

Pairing and cache
- An explicit Connect during the boot read: the late read pairs again with the old
  capability. A cache read that times out at boot deletes a valid remembered pairing. A
  status answer stores the pairing while the snapshot cache still holds the earlier URL,
  so that the next boot deletes it (`rememberedPairing.ts:189` against its label at 26).
- A clear that fails leaves cache writes suspended; a record of a newer schema counts as
  absent and is overwritten.

Media
- The legacy handle is copied in a transaction after the one that found no handle of the
  media: an import's own handle stored in between is overwritten (`model.ts:2347` against
  the comment at 2333).
- Two overlapping imports of one new file make two media records (`model.ts:2209`).
- An import that ends while an open waits does not end the open (`model.ts:1494`).
- A hydration and the give-up branches of a restore drop a live object URL without
  revoking it.

Workbench
- Versions can fork. A known video that is added again while another one is open shows its
  first active version (`model.ts:2035`, 2114, 2154), and every version stays active
  (3381), also one that was corrected. It is a draft and may be edited: Apply makes a second
  child of it, and Approve approves a version that was replaced. Yet
  `docs/plan/v3-transcript-generation-correction-plan.md:67` calls such a version
  `superseded`, "Older draft/approval replaced by a newer corrected track". `revived`
  records it; without that exception in `VersionsInOrder` TLC finds the fork in five steps.
- A split or merge empties every line editor when it lands, with what was typed meanwhile
  (`views/library.ts:482`; `docs/dev/lt-aur-1-dirty-approval-result.md:44` lists as
  passing "edits not discarded").
- A transcription is stored under the media open when it ends (`model.ts:3512`, 3560); a
  queued extraction attaches to the media open when its turn comes.
- What is typed while a split, merge, offset, transcription, caption import or extraction
  is under way is wiped; Apply on one video consumes the pending edits of another;
  foreign pending edits block an approval.
- Split, merged and offset versions have no word timings; a reconnection during a listing
  or an extraction leaves its status as it was; opening a video again chooses its highest
  version.

Study
- A reveal in Review survives the grading of the same card in Practice; a reveal in
  Review is not counted in Practice.

Words
- "Looking up meanings…" and a pending cue may stay for good when the context changes
  (against the comment at `morphologyPanel.ts:217`); a view analysed while paired shows
  loading with nothing under way after a disconnection, another word and a new pairing.
- A capture form left open across a jump to an occurrence closes without saving; a late
  commit or undo of an earlier form replaces the form opened meanwhile.
- A cached analysis keeps the word selected in the previous cue; a jump within one media
  sets the target track and keeps the lines on screen (`saved.ts:139`); a first reading
  that is not found hides the meanings of the others.

Service
- A job cancelled while its eviction awaits the removal of a file is completed afterwards
  (`server.ts:850`): `CancelledPlainStays` leaves extractions out. `RegistrySound` speaks
  of executions without a failed file operation where a failed eviction would register an
  entry without its file.
- A cleanup of artifacts deletes the scratch of a running transcription; `close` leaves
  job scratch behind.
- A second signal during a close calls `close` twice; the rejection ends the process
  before its store is closed (`ServiceLife!Crash`) and leaves a socket file for which the
  next start is refused.
- A failed start leaves the dictionary handle open (`server.ts:1345`); a failed load of an
  adapter is remembered until the restart; a status reports the old dictionary state
  until somebody looks a word up, and a browser keeps "not installed" until its context
  changes.

## 7. Running

`tlc -workers 2 -config <run>.cfg <module>`; the runs `store` (`MCLearnerStore`),
`outbox`, `settles`, `overtaken` (`MCOutbox`), `sync`, `dropped`, `nothing_sent` (`MCDocumentSync`),
`page` (`MCPage`), `learn` (`MCLearn`), `snippets` (`MCService`), `stuck_job`
(`MCSnippetJobs`), `other_video` (`MCTranscripts`). `tlapm <module>` with
the `...Proofs` modules. No run and no proof takes more than a few minutes.

## 8. Not modelled

Export manifests and Anki packages, domain constructors and guards, rendering, scripts,
vendored code and the transcription package: serialisation, text, or programs outside
the repository, without shared state. Header, origin and path checks of the service are
string predicates. Subtitle parsing is text processing; the order and overlap of its
cues is planned. The tagset mapping and the morphology adapters are data. Schema
migrations of the store are planned. Time is a choice (a lease runs out, a record is old
enough) and not a number, except where a clock is compared (`Study`, `Glosses`). The
failure of SQLite itself is not modelled: a transaction that fails is not a step; the
failure of IndexedDB is, in `PageBoot` and `MediaLinks`.
