----------------------------- MODULE DocumentSync -----------------------------
(***************************************************************************)
(* The learner document between one browser page and the local services it *)
(* may be paired with (apps/web/src/model.ts): connecting and comparing,   *)
(* the Keep/Load choice, the queue of saves, transcript bundles that go    *)
(* ahead of the document, rows installed by receipts, restore with its     *)
(* unknown outcomes, and a reload of the page.                             *)
(*                                                                         *)
(* One action is what JavaScript runs between two awaits, one request      *)
(* executed by a service, or one decision of the learner.  Items are added *)
(* and never renamed, so the content of the store tells what the edit      *)
(* counter of browserComparison tells.                                     *)
(***************************************************************************)
EXTENDS Naturals, Sequences, FiniteSets, SequencesExt

CONSTANTS
  None,          \* no value
  Urls,          \* service addresses
  Edits,         \* document items a learner can add in this page
  Tracks,        \* transcripts: a document item each, and a bundle of cues
  Others,        \* document items that come from other browsers
  Ops,           \* vocabulary rows that operations add and remove
  LocalRows,     \* vocabulary rows made without the service's operations
  File,          \* the vocabulary rows of the export file that may be restored
  Modes,         \* the restore modes offered: "merge", "replace-active"
  MaxRevisions,  \* bound: revisions of one service
  MaxQueue       \* bound: jobs waiting in the sync owner's queue

VARIABLES
  past,     \* past[u]: what service u held at its revisions 1, 2, ...
  lastDoc,  \* lastDoc[u]: the revision of the last write that was no operation
  page,     \* the page's model and sync owner
  tail,     \* the sync owner's queue of jobs, the first one running
  run,      \* the program counter and local variables of the running job
  conn,     \* the connect in progress
  stray     \* a request of a page that is gone, still under way

vars == <<past, lastDoc, page, tail, run, conn, stray>>
services == <<past, lastDoc>>

Items == Edits \cup Tracks \cup Others
Rows == Ops \cup LocalRows \cup File
Contents == [doc: SUBSET Items, voc: SUBSET Rows]

ASSUME SyncAssumption ==
  /\ MaxRevisions \in Nat \ {0} /\ MaxQueue \in Nat
  /\ Tracks \cap (Edits \cup Others) = {}
  /\ None \notin Contents \cup [url: Urls, state: Contents]

\* What /api/state carries: the document and the operation-owned rows.
State(d, v) == [doc |-> d, voc |-> v]
Content(p) == State(p.doc, p.voc)
Empty == State({}, {})

Rev(u) == Len(past[u])
Latest(u) == past[u][Rev(u)]
Held(u) == State(Latest(u).doc, Latest(u).voc)

\* browserComparison: the content and the pending restore intent.
Comparison(p) == <<p.intent, Content(p)>>

\* What a job or a connection under way knows: its program counter, the request it
\* sent and the answer, and the local variables of the saves (mode, todo, track), of
\* the reads that expect a revision, and of a connection (before, adopt).
Idle == [pc |-> "idle", q |-> None, reply |-> None, mode |-> FALSE, todo |-> {},
         track |-> None, revision |-> 0, before |-> None, adopt |-> FALSE]
NoRestore == [phase |-> "none", before |-> None, mode |-> None, url |-> None,
              revision |-> 0, intended |-> None, acknowledged |-> 0]

\* History, read by no action: saw is the document the service had at the revision the
\* page names; kept says that the page keeps its own document against that one, by the
\* learner's choice or since the service was empty, and has not sent it since.
FreshPage(u) ==
  [base |-> u, paired |-> FALSE, revision |-> 0, saw |-> {}, kept |-> FALSE,
   status |-> "disconnected", sync |-> "unsaved", choice |-> None,
   baseline |-> None, ack |-> None, seeded |-> FALSE,
   doc |-> {}, voc |-> {}, cues |-> {}, intent |-> None,
   acked |-> [url |-> u, tracks |-> {}],
   floor |-> 0, rows |-> [o \in Ops |-> 0], known |-> {}, restore |-> NoRestore]

Init ==
  /\ past \in [Urls -> {<<[doc |-> d, voc |-> {}, bundles |-> {}, op |-> None]>> :
                          d \in {{}} \cup {{o} : o \in Others}}]
  /\ lastDoc = [u \in Urls |-> 1]
  /\ page \in {FreshPage(u) : u \in Urls}
  /\ tail = <<>>
  /\ run = Idle
  /\ conn = Idle
  /\ stray = Idle

-----------------------------------------------------------------------------
(***************************************************************************)
(* The page's model.                                                       *)
(***************************************************************************)

\* identityFor: the service at the selected address published its operations.
OperationMode(p) == p.base \in p.known
Busy(p) == p.restore.phase \in {"committing", "unknown"}

\* transcriptBundleAcknowledged, pendingTranscriptTrackIds.
Acked(p) == IF p.acked.url = p.base THEN p.acked.tracks ELSE {}
Pending(p) == p.cues \ Acked(p)

\* Mutant of Acknowledge: the set is not bound to one service.
AcknowledgeAnywhere(p, u, ts) ==
  [p EXCEPT !.acked = [url |-> p.base, tracks |-> @.tracks \cup ts]]

\* acknowledgeBundle: bound to one address, another address starts anew.
Acknowledge(p, u, ts) ==
  [p EXCEPT !.acked =
     [url |-> u, tracks |-> ts \cup (IF p.acked.url = u THEN p.acked.tracks ELSE {})]]

\* effectiveBaseline: the live one, else the one seeded for this address.
Baseline(p) ==
  IF p.baseline = None /\ p.seeded /\ p.ack.url = p.base THEN p.ack.state ELSE p.baseline

\* owner.baseline = ...; recordAckBaseline: a seeded baseline is superseded.
SetBaseline(p, c) ==
  [p EXCEPT !.baseline = c, !.ack = [url |-> p.base, state |-> c], !.seeded = FALSE,
            !.kept = FALSE]

\* rowRevisions.clear(), protectedBase = revision.
RowsAsOf(p, r) == [p EXCEPT !.floor = r, !.rows = [o \in Ops |-> 0]]

\* applyProtectedChanges, on the store and on the baselines alike.
ApplyRows(p, added, removed) ==
  LET on(voc) == (voc \ removed) \cup added IN
  [p EXCEPT !.voc = on(@),
            !.baseline = IF @ = None THEN None ELSE State(@.doc, on(@.voc)),
            !.ack = IF @ = None THEN None
                    ELSE [url |-> @.url, state |-> State(@.state.doc, on(@.state.voc))]]

\* installAuthoritativeOperationOwned.
InstallRows(p, voc, r) == RowsAsOf(ApplyRows(p, voc \ p.voc, p.voc \ voc), r)

\* projectHydratedSnapshotIntoModel: the store is replaced; it carries no cues.
Project(p, c) == [p EXCEPT !.doc = c.doc, !.voc = c.voc, !.cues = {}]

\* hydrateServiceLearnerState: unsent bundles of tracks that remain are kept.
Hydrate(p, c) == [Project(p, c) EXCEPT !.cues = Pending(p) \cap c.doc]

\* setLocalServiceBaseUrl; the pairing is cleared with it.
Disconnected(p, u) ==
  [p EXCEPT !.base = u, !.paired = FALSE, !.choice = None, !.baseline = None,
            !.revision = 0, !.status = "disconnected", !.sync = "unsaved"]

\* The transport's 401: the pairing and what was built on it are revoked.
Revoked(p) ==
  [p EXCEPT !.paired = FALSE, !.choice = None, !.status = "error",
            !.sync = "error", !.revision = 0]

\* Mutant of Edited: an edit clears a pending choice or a conflict from view.
EditedAlways(p) == [p EXCEPT !.sync = "unsaved"]

\* markUnsavedBrowserEdits.
Edited(p) ==
  [p EXCEPT !.sync = IF @ \in {"choice", "conflict", "error", "saving"} THEN @ ELSE "unsaved"]

\* Nothing of the store differs from what the service acknowledged.
Dirty(p) == Content(p) # p.baseline \/ Pending(p) # {}

-----------------------------------------------------------------------------
(***************************************************************************)
(* What a service does with a request q: reading, the two document writers *)
(* and the restore.  A refusal changes nothing.                            *)
(***************************************************************************)

\* Mutant of BasisCurrent: any basis up to the present one is accepted.
BasisExists(q) == q.basis \in 1 .. Rev(q.url)

\* assertDocumentBasis: nothing but operations may have committed since.
BasisCurrent(q) == q.basis \in lastDoc[q.url] .. Rev(q.url)

\* fenceOperationOwned: each row's presence in the body was true at the basis
\* or at some revision since; before the first operation nothing is fenced.
Protected(u) == \E i \in 1 .. Rev(u) : past[u][i].op # None
RowsAccepted(q) ==
  Protected(q.url) =>
    \A o \in Rows : \E i \in q.basis .. Rev(q.url) :
      (o \in q.sent.voc) <=> (o \in past[q.url][i].voc)

\* PUT /api/tracks/{id}/transcript: write-once, under the document's basis rule.
BundleVerdict(q) ==
  CASE ~BasisCurrent(q) -> "stale"
    [] BasisCurrent(q) /\ q.track \in Latest(q.url).bundles -> "exists"
    [] OTHER -> "ok"

\* A track that is new to the stored document needs its bundle.
MissingBundles(q) ==
  (q.sent.doc \cap Tracks) \ (Latest(q.url).bundles \cup Latest(q.url).doc)

\* PUT /api/state: no bundle is missing, the basis must be current and the
\* rows pass the fence.  After the first operation the rows stay the service's.
PutVoc(q) == IF Protected(q.url) THEN Latest(q.url).voc ELSE q.sent.voc
PutVerdict(q) ==
  IF MissingBundles(q) # {} THEN "bundle-first"
  ELSE IF ~BasisCurrent(q) THEN "stale"
  ELSE IF ~RowsAccepted(q) THEN "owned-rows"
  ELSE IF PutVoc(q) # q.sent.voc THEN "reconciled" ELSE "ok"

\* planLearnerRestore, of the vocabulary rows: the document stays.
Planned(c, mode) == State(c.doc, IF mode = "merge" THEN c.voc \cup File ELSE File)

\* POST /api/restore/commit: bound to the exact revision previewed.
RestoreVerdict(q) == IF q.basis = Rev(q.url) THEN "ok" ELSE "stale"

Verdict(q) ==
  CASE q.op = "get" -> "ok"
    [] q.op = "bundle" -> BundleVerdict(q)
    [] q.op = "put" -> PutVerdict(q)
    [] q.op = "restore" -> RestoreVerdict(q)

\* What the request leaves stored.
Written(q) ==
  LET now == Latest(q.url) IN
  CASE q.op = "bundle" -> [now EXCEPT !.bundles = @ \cup {q.track}, !.op = None]
    [] q.op = "put" -> [now EXCEPT !.doc = q.sent.doc, !.voc = PutVoc(q), !.op = None]
    [] q.op = "restore" -> [now EXCEPT !.voc = Planned(Held(q.url), q.mode).voc, !.op = None]

Writes(q) == q.op # "get" /\ Verdict(q) \in {"ok", "reconciled"}

Commit(u, entry) ==
  /\ Rev(u) < MaxRevisions
  /\ past' = [past EXCEPT ![u] = Append(@, entry)]
  /\ lastDoc' = [lastDoc EXCEPT ![u] = IF entry.op = None THEN Rev(u) + 1 ELSE @]

\* A refusal changes nothing.
Execute(q) == IF Writes(q) THEN Commit(q.url, Written(q)) ELSE UNCHANGED services

\* The answer; GET /api/media/{id}/transcripts lists the bundles of the tracks
\* the stored document has.
Reply(q) ==
  LET c == IF Writes(q) THEN Written(q) ELSE Latest(q.url) IN
  [code |-> Verdict(q), revision |-> IF Writes(q) THEN Rev(q.url) + 1 ELSE Rev(q.url),
   state |-> State(c.doc, c.voc), bundles |-> c.bundles \cap c.doc]

Lost == [code |-> "lost"]
Refused == {"stale", "exists", "owned-rows"}     \* answered with 409

-----------------------------------------------------------------------------
(***************************************************************************)
(* Requests on the way, and the queue.                                     *)
(***************************************************************************)

Get(p) == [op |-> "get", url |-> p.base]
Send(pc, q) == [Idle EXCEPT !.pc = pc, !.q = q]
Awaiting(x) == x.pc \notin {"idle", "compare", "flush"} /\ x.reply = None
Answered(pc) == run.pc = pc /\ run.reply # None

\* A service executes a request of the running job; the answer may be lost.
ServeJob ==
  /\ Awaiting(run)
  /\ Execute(run.q)
  /\ \E r \in {Reply(run.q), Lost} : run' = [run EXCEPT !.reply = r]
  /\ UNCHANGED <<page, tail, conn, stray>>

ServeConnect ==
  /\ Awaiting(conn)
  /\ \E r \in {Reply(conn.q), Lost} : conn' = [conn EXCEPT !.reply = r]
  /\ UNCHANGED <<services, page, tail, run, stray>>

\* The request never arrives.
LoseRequest ==
  /\ Awaiting(run)
  /\ run' = [run EXCEPT !.reply = Lost]
  /\ UNCHANGED <<services, page, tail, conn, stray>>

ServeStray ==
  /\ stray # Idle
  /\ Execute(stray.q)
  /\ stray' = Idle
  /\ UNCHANGED <<page, tail, run, conn>>

\* Another browser saves an item, and an operation adds or removes a row.
OtherSave ==
  \E u \in Urls, o \in Others :
    /\ o \notin Latest(u).doc
    /\ Commit(u, [Latest(u) EXCEPT !.doc = @ \cup {o}, !.op = None])
    /\ UNCHANGED <<page, tail, run, conn, stray>>

ApplyOperation ==
  \E u \in Urls, o \in Ops :
    /\ Commit(u, [Latest(u) EXCEPT !.voc = IF o \in @ THEN @ \ {o} ELSE @ \cup {o}, !.op = o])
    /\ UNCHANGED <<page, tail, run, conn, stray>>

\* ++owner.generation: every job and the connect under way are superseded, and
\* a preview made before can no longer be confirmed.
Supersede(p, transport) ==
  /\ page' = [p EXCEPT !.saw = {}, !.restore = IF @.phase = "previewed" THEN NoRestore ELSE @]
  /\ tail' = [i \in DOMAIN tail |->
               [tail[i] EXCEPT !.live = FALSE, !.linked = @ /\ transport]]

\* A job is live while its generation is the page's and linked while its pairing is;
\* a preview knows mode and before, a commit its binding and whether that is still mine.
NewJob(kind) ==
  [kind |-> kind, live |-> TRUE, linked |-> TRUE, mode |-> None, before |-> None,
   mine |-> FALSE, binding |-> NoRestore]
Enqueue(job) ==
  /\ Len(tail) < MaxQueue
  /\ tail' = Append(tail, job)

Job == Head(tail)
Starting(kind) == tail # <<>> /\ run = Idle /\ Job.kind = kind
Finish == tail' = Tail(tail) /\ run' = Idle

-----------------------------------------------------------------------------
(***************************************************************************)
(* Pairing, connecting, comparing.                                         *)
(***************************************************************************)

\* pairLocalService.
Pair ==
  \E u \in Urls :
    /\ page.restore.phase # "committing"
    /\ Supersede([Disconnected(page, u) EXCEPT !.paired = TRUE], FALSE)
    /\ conn' = Idle
    /\ UNCHANGED <<services, run, stray>>

\* Disconnect, an edit of the address, or the choice `cancel`.
Disconnect ==
  \E u \in Urls :
    /\ Supersede(Disconnected(page, u), FALSE)
    /\ conn' = Idle
    /\ UNCHANGED <<services, run, stray>>

\* The service was restarted: its next answer is 401.
Unauthorized ==
  /\ page.paired
  /\ Awaiting(run) \/ Awaiting(conn)
  /\ Supersede(Revoked(page), FALSE)
  /\ run' = IF Awaiting(run) THEN [run EXCEPT !.reply = Lost] ELSE run
  /\ conn' = Idle
  /\ UNCHANGED <<services, stray>>

\* connectLocalService up to its first request; status and state are one read.
Connect ==
  /\ page.restore.phase # "committing"
  /\ page.paired
  /\ Supersede([page EXCEPT !.revision = 0, !.choice = None, !.status = "connecting"], TRUE)
  /\ conn' = [Send("state", Get(page)) EXCEPT !.before = Comparison(page)]
  /\ UNCHANGED <<services, run, stray>>

ConnectLost ==
  /\ conn.pc = "state" /\ conn.reply = Lost
  /\ page' = [page EXCEPT !.status = "error", !.sync = "error"]
  /\ conn' = Idle
  /\ UNCHANGED <<services, tail, run, stray>>

\* installDurableRestore.
Installed(p, c, r) ==
  [p EXCEPT !.doc = c.doc, !.voc = c.voc, !.baseline = c, !.revision = r, !.saw = c.doc,
            !.kept = FALSE, !.status = "connected", !.sync = "saved", !.intent = None, !.restore = NoRestore]

\* Mutant of ReadBack: what the service holds now is taken for the outcome.
AnyReadBack(b, reply) == TRUE

\* The service holds exactly what was intended, and what it acknowledged.
ReadBack(b, reply) ==
  reply.state = b.intended /\ (b.acknowledged = 0 \/ b.acknowledged = reply.revision)

\* reconcileRestoreState, instead of the comparison while an outcome is unknown.
Reconcile ==
  LET b == page.restore
      same == b.url = page.base /\ b.before = Comparison(page)
  IN
  /\ conn.pc = "state" /\ conn.reply \notin {None, Lost}
  /\ b.phase = "unknown"
  /\ \/ ~same /\ UNCHANGED page
     \/ same /\ ReadBack(b, conn.reply)
             /\ page' = Installed(page, conn.reply.state, conn.reply.revision)
     \/ same /\ ~ReadBack(b, conn.reply)
             /\ page' = [page EXCEPT !.revision = conn.reply.revision, !.sync = "conflict",
                                     !.saw = conn.reply.state.doc, !.kept = TRUE]
  /\ conn' = Idle
  /\ UNCHANGED <<services, tail, run, stray>>

\* The state arrived; the operation identity is stored (an await) before it is used.
Compared ==
  /\ conn.pc = "state" /\ conn.reply \notin {None, Lost}
  /\ page.restore.phase # "unknown"
  /\ conn' = [conn EXCEPT !.pc = "compare",
                          !.adopt = /\ OperationMode(page) /\ Baseline(page) # None
                                    /\ Baseline(page).voc = page.voc]
  /\ page' = [page EXCEPT !.known = @ \cup {page.base}]
  /\ UNCHANGED <<services, tail, run, stray>>

\* Mutant of MustChoose: a browser that was saved once is never asked.
MustChooseFirstTime(p, remote, changed) ==
  p.intent # None \/ (Baseline(p) = None /\ Content(p) \notin {Empty, remote} /\ remote # Empty)

\* Browser work that differs from what the service holds.
MustChoose(p, remote, changed) ==
  \/ p.intent # None
  \/ changed
  \/ /\ IF Baseline(p) # None THEN Baseline(p) # Content(p) ELSE Content(p) # Empty
     /\ remote # Content(p)
     /\ remote # Empty

\* The comparison: ask the learner, keep work an empty service lacks, or hydrate.
Compare ==
  LET c == conn.reply
      changed == conn.before # Comparison(page)
      p == IF conn.adopt /\ ~changed THEN InstallRows(page, c.state.voc, c.revision) ELSE page
      ask == MustChoose(p, c.state, changed)
      upload == c.state = Empty /\ (Content(p) # Empty \/ p.cues # {})
      at == [p EXCEPT !.revision = c.revision, !.saw = c.state.doc]
  IN
  /\ conn.pc = "compare"
  /\ \/ /\ ask
        /\ page' = [p EXCEPT !.status = "connected", !.sync = "choice",
                             !.choice = [state |-> c.state, revision |-> c.revision,
                                         before |-> Comparison(p)]]
        /\ conn' = Idle
     \/ /\ ~ask /\ upload
        /\ page' = [at EXCEPT !.acked = [url |-> page.base, tracks |-> {}], !.kept = TRUE,
                              !.status = "connected", !.sync = "unsaved"]
        /\ conn' = Idle
     \/ /\ ~ask /\ ~upload
        /\ page' = RowsAsOf(SetBaseline(Hydrate(at, c.state), c.state), c.revision)
        /\ conn' = Send("load", Get(page))
  /\ UNCHANGED <<services, tail, run, stray>>

\* loadMediaTranscriptsNow: the stored bundles, unless the address changed.
Loaded(p, q, reply) ==
  IF reply = Lost \/ p.base # q.url THEN p
  ELSE [Acknowledge(p, q.url, reply.bundles) EXCEPT !.cues = @ \cup reply.bundles]

\* A connect ends with the transcripts of the document just loaded.
Connected ==
  LET p == Loaded(page, conn.q, conn.reply) IN
  /\ conn.pc = "load" /\ conn.reply # None
  /\ page' = [p EXCEPT !.status = "connected", !.sync = IF Dirty(p) THEN "unsaved" ELSE "idle"]
  /\ conn' = Idle
  /\ UNCHANGED <<services, tail, run, stray>>

\* resolveLocalServiceConnection: the content must be the one compared.
KeepBrowser ==
  /\ ~Busy(page)
  /\ page.choice # None /\ page.choice.before = Comparison(page)
  /\ page' = [page EXCEPT !.choice = None, !.revision = page.choice.revision,
                          !.saw = page.choice.state.doc, !.kept = TRUE, !.sync = "unsaved"]
  /\ UNCHANGED <<services, tail, run, conn, stray>>

LoadService ==
  LET c == page.choice
      p == [SetBaseline(Project(page, c.state), c.state) EXCEPT
              !.intent = None, !.choice = None, !.revision = c.revision,
              !.saw = c.state.doc, !.sync = "idle"]
  IN
  /\ ~Busy(page)
  /\ c # None /\ c.before = Comparison(page)
  /\ page' = p
  /\ IF p.doc # {} THEN Enqueue(NewJob("load")) ELSE UNCHANGED tail
  /\ UNCHANGED <<services, run, conn, stray>>

\* The browser was edited since: compare again, choose again.
ChooseAgain ==
  /\ ~Busy(page)
  /\ page.choice # None /\ page.choice.before # Comparison(page)
  /\ page' = [page EXCEPT !.choice.before = Comparison(page)]
  /\ UNCHANGED <<services, tail, run, conn, stray>>

-----------------------------------------------------------------------------
(***************************************************************************)
(* The learner's work, and rows that arrive beside the document.           *)
(***************************************************************************)

\* A new item anywhere: no browser and no service has it yet.
Unused(i) == i \notin page.doc /\ \A u \in Urls : \A r \in 1 .. Rev(u) : i \notin past[u][r].doc

Edit ==
  \E e \in Edits :
    /\ Unused(e)
    /\ page' = Edited([page EXCEPT !.doc = @ \cup {e}])
    /\ UNCHANGED <<services, tail, run, conn, stray>>

ImportTranscript ==
  \E t \in Tracks :
    /\ Unused(t) /\ \A u \in Urls : t \notin Latest(u).bundles
    /\ page' = Edited([page EXCEPT !.doc = @ \cup {t}, !.cues = @ \cup {t}])
    /\ UNCHANGED <<services, tail, run, conn, stray>>

\* Without the service's operations vocabulary is a local edit.
LocalCapture ==
  \E o \in LocalRows \ page.voc :
    /\ ~OperationMode(page)
    /\ page' = Edited([page EXCEPT !.voc = @ \cup {o}])
    /\ UNCHANGED <<services, tail, run, conn, stray>>

\* installOperationReceipt: the row as of the receipt's revision, if newer than
\* what the store holds.  Receipts come from this page's flush and from other
\* tabs, in any order and repeatedly.
InstallReceipt ==
  \E r \in 2 .. Rev(page.base) :
    LET e == past[page.base][r] IN
    /\ e.op # None
    /\ OperationMode(page)
    /\ r > page.floor /\ r > page.rows[e.op]
    /\ page' = [ApplyRows(page, {e.op} \cap e.voc, {e.op} \ e.voc) EXCEPT !.rows[e.op] = r]
    /\ UNCHANGED <<services, tail, run, conn, stray>>

\* The page is reloaded: the snapshot cache brings back the content, the
\* bundles no service acknowledged and the acknowledged baseline.
Reload ==
  /\ page' = [FreshPage(page.base) EXCEPT
                !.doc = page.doc, !.voc = page.voc, !.cues = Pending(page),
                !.ack = page.ack, !.seeded = page.ack # None, !.known = page.known]
  /\ tail' = <<>>
  /\ run' = Idle
  /\ conn' = Idle
  /\ stray' = IF Awaiting(run) /\ run.q.op # "get" THEN run ELSE stray
  /\ UNCHANGED services

-----------------------------------------------------------------------------
(***************************************************************************)
(* A save: bundles first, then the document, then the operations.          *)
(***************************************************************************)

\* saveModelToLocalService up to the queue.
Save ==
  /\ ~Busy(page) /\ page.intent = None
  /\ page.paired /\ page.revision # 0
  /\ page.choice = None /\ page.sync # "conflict" /\ page.status # "connecting"
  /\ Enqueue(NewJob("save"))
  /\ UNCHANGED <<services, page, run, conn, stray>>

\* At the head of the queue everything is asked again.
MaySave ==
  /\ Job.live
  /\ page.revision # 0
  /\ page.choice = None /\ page.sync # "conflict"
  /\ page.restore.phase # "unknown" /\ page.intent = None

\* flushPendingTranscriptBundles, then the document unless it is unchanged.
NextStep(p, mode, todo) ==
  IF todo \cap p.cues # {} THEN "bundle"
  ELSE IF ~mode \/ p.baseline = None \/ Content(p) # p.baseline THEN "put" ELSE "flush"

Proceed(p, mode, todo) ==
  /\ page' = p
  /\ CASE NextStep(p, mode, todo) = "bundle" ->
            \E t \in todo \cap p.cues :
              run' = [Send("bundle", [op |-> "bundle", url |-> p.base, track |-> t,
                                      basis |-> p.revision])
                       EXCEPT !.mode = mode, !.todo = todo \ {t}]
       [] NextStep(p, mode, todo) = "put" ->
            run' = Send("put", [op |-> "put", url |-> p.base, basis |-> p.revision,
                                sent |-> Content(p), saw |-> p.saw])
       [] OTHER -> run' = [Idle EXCEPT !.pc = "flush"]

StartSave ==
  /\ Starting("save")
  /\ IF MaySave
       THEN /\ Proceed([page EXCEPT !.sync = "saving"], OperationMode(page), Pending(page))
            /\ UNCHANGED tail
       ELSE Finish /\ UNCHANGED page
  /\ UNCHANGED <<services, conn, stray>>

\* Mutant of Failed: a save that fails changes the status of the connection only.
FailedQuietly(kind) ==
  /\ page' = IF Job.live THEN [page EXCEPT !.status = "error"] ELSE page
  /\ Finish

\* The catch block: a superseded save says nothing.
Failed(kind) ==
  /\ page' = IF Job.live THEN [page EXCEPT !.status = "error", !.sync = kind] ELSE page
  /\ Finish

\* The acknowledgement is kept even when the save was superseded meanwhile.
BundleStored(t) == Acknowledge(page, run.q.url, {t})

BundleAnswered ==
  LET p == BundleStored(run.q.track)
      code == run.reply.code
  IN
  /\ Answered("bundle")
  /\ \/ ~Job.linked /\ Finish /\ UNCHANGED page
     \/ /\ Job.linked /\ code = "ok" /\ Job.live
        /\ Proceed([p EXCEPT !.revision = run.reply.revision], run.mode, run.todo)
        /\ UNCHANGED tail
     \/ Job.linked /\ code = "ok" /\ ~Job.live /\ page' = p /\ Finish
     \/ /\ Job.linked /\ code = "exists" /\ run.q.track \in page.doc
        /\ run' = [Send("verify", Get(page)) EXCEPT !.mode = run.mode, !.todo = run.todo,
                       !.track = run.q.track, !.revision = run.q.basis]
        /\ UNCHANGED <<page, tail>>
     \/ /\ Job.linked /\ code \notin {"ok", "lost"} /\ (code # "exists" \/ run.q.track \notin page.doc)
        /\ Failed("conflict")
     \/ Job.linked /\ code = "lost" /\ Failed("error")
  /\ UNCHANGED <<services, conn, stray>>

\* A 409 bundle-exists is harmless when nothing was written meanwhile and the
\* service holds this very bundle.
Verified == /\ run.reply # Lost
            /\ run.reply.revision = run.revision
            /\ run.track \in run.reply.bundles

BundleVerified ==
  /\ Answered("verify")
  /\ \/ ~(Job.live /\ Job.linked) /\ Finish /\ UNCHANGED page
     \/ /\ Job.live /\ Job.linked /\ Verified
        /\ Proceed(Acknowledge(page, page.base, {run.track}), run.mode, run.todo)
        /\ UNCHANGED tail
     \/ Job.live /\ Job.linked /\ ~Verified /\ Failed("conflict")
  /\ UNCHANGED <<services, conn, stray>>

\* The end of a save, with what became of the queued operations.
Conclude(operations) ==
  /\ page' = [page EXCEPT
       !.status = IF operations = "error" THEN "error" ELSE "connected",
       !.sync = CASE operations = "error" -> "error"
                  [] operations # "error" /\ (Dirty(page) \/ operations = "unresolved") -> "unsaved"
                  [] OTHER -> "saved"]
  /\ Finish

\* Mutant of DocumentStored: what the page holds now is taken for what was sent.
StoredAsShown ==
  SetBaseline([page EXCEPT !.revision = run.reply.revision, !.saw = run.q.sent.doc], Content(page))

\* The body of the save becomes the baseline, whatever was edited meanwhile.
DocumentStored ==
  SetBaseline([page EXCEPT !.revision = run.reply.revision, !.saw = run.q.sent.doc], run.q.sent)

DocumentAnswered ==
  LET r == run.reply IN
  /\ Answered("put")
  /\ \/ ~Job.live /\ Finish /\ UNCHANGED page
     \/ /\ Job.live /\ r.code \in {"ok", "reconciled"}
        /\ page' = IF r.code = "ok" THEN DocumentStored
                   ELSE InstallRows(DocumentStored, r.state.voc, r.revision)
        /\ run' = [Idle EXCEPT !.pc = "flush"]
        /\ UNCHANGED tail
     \/ Job.live /\ r.code \in Refused /\ Failed("conflict")
     \/ Job.live /\ r.code \in {"bundle-first", "lost"} /\ Failed("error")
  /\ UNCHANGED <<services, conn, stray>>

\* flushLearnerOperations: an await of its own, whatever it achieves.
Flushed ==
  /\ run.pc = "flush"
  /\ IF Job.live THEN \E o \in {"clean", "unresolved", "error"} : Conclude(o)
                 ELSE Finish /\ UNCHANGED page
  /\ UNCHANGED <<services, conn, stray>>

\* loadCurrentMediaTranscriptsInBackground.
StartLoad ==
  /\ Starting("load")
  /\ IF Job.live /\ page.restore.phase # "unknown"
       THEN run' = Send("load", Get(page)) /\ UNCHANGED tail
       ELSE Finish
  /\ UNCHANGED <<services, page, conn, stray>>

LoadAnswered ==
  /\ Answered("load")
  /\ page' = IF Job.linked THEN Loaded(page, run.q, run.reply) ELSE page
  /\ Finish
  /\ UNCHANGED <<services, conn, stray>>

-----------------------------------------------------------------------------
(***************************************************************************)
(* Restore from an export file.                                            *)
(***************************************************************************)

\* previewDurableRestore up to the queue.
AskPreview ==
  \E m \in Modes :
    /\ ~Busy(page)
    /\ page.paired
    /\ Enqueue([NewJob("preview") EXCEPT !.mode = m, !.before = Comparison(page)])
    /\ UNCHANGED <<services, page, run, conn, stray>>

PreviewCurrent == Job.live /\ Job.linked /\ Job.before = Comparison(page)

\* Only a store the service is known to hold, or the one a session restore left.
MayPreview ==
  /\ page.choice = None /\ page.revision # 0 /\ page.sync # "conflict"
  /\ IF page.intent # None THEN page.intent = Content(page)
                           ELSE page.baseline \in {None, Content(page)}

StartPreview ==
  /\ Starting("preview")
  /\ IF PreviewCurrent /\ MayPreview
       THEN run' = Send("preview", Get(page)) /\ UNCHANGED tail
       ELSE Finish
  /\ UNCHANGED <<services, page, conn, stray>>

\* The record of a commit that waits is replaced or deleted under it.
Orphaned(t) == [i \in DOMAIN t |-> IF t[i].kind = "commit" THEN [t[i] EXCEPT !.mine = FALSE] ELSE t[i]]

\* The revision may have advanced by operations alone: the content decides.  The
\* preview the service makes of it next may be refused.
PreviewAnswered ==
  LET r == run.reply
      usable == /\ PreviewCurrent
                /\ r # Lost
                /\ \/ r.revision = page.revision
                   \/ OperationMode(page) /\ r.state = Content(page)
      p == [page EXCEPT !.revision = r.revision,
                        !.saw = IF r.revision = page.revision THEN @ ELSE r.state.doc]
  IN
  /\ Answered("preview")
  /\ \/ ~usable /\ Finish /\ UNCHANGED page
     \/ usable /\ page' = p /\ Finish
     \/ /\ usable
        /\ page' = [p EXCEPT !.restore =
              [phase |-> "previewed", before |-> Job.before, mode |-> Job.mode,
               url |-> page.base, revision |-> r.revision,
               intended |-> Planned(r.state, Job.mode), acknowledged |-> 0]]
        /\ tail' = Orphaned(Tail(tail))
        /\ run' = Idle
  /\ UNCHANGED <<services, conn, stray>>

\* confirmRestore, paired: the preview must be of this very moment.
Confirm ==
  LET b == page.restore IN
  /\ b.phase = "previewed"
  /\ b.revision = page.revision /\ b.before = Comparison(page)
  /\ page' = [page EXCEPT !.restore.phase = "committing"]
  /\ Enqueue([NewJob("commit") EXCEPT !.mine = TRUE, !.binding = b])
  /\ UNCHANGED <<services, run, conn, stray>>

\* confirmRestore, disconnected: the session is restored and the intent kept.
RestoreSession ==
  \E m \in Modes :
    LET c == Planned(Content(page), m) IN
    /\ ~Busy(page)
    /\ page.status = "disconnected" /\ page.revision = 0
    /\ page' = Edited([page EXCEPT !.voc = c.voc, !.intent = c, !.restore = NoRestore])
    /\ UNCHANGED <<services, tail, run, conn, stray>>

CommitCurrent == Job.live /\ Job.linked /\ Job.binding.before = Comparison(page)

\* binding.committing, binding.unknown: of the record this commit holds.
Phase(p, phase, acknowledged) ==
  IF Job.mine THEN [p EXCEPT !.restore.phase = phase, !.restore.acknowledged = acknowledged]
              ELSE p
Sync(p, sync) == IF Job.live THEN [p EXCEPT !.sync = sync] ELSE p

StartCommit ==
  /\ Starting("commit")
  /\ IF CommitCurrent /\ Job.binding.revision = page.revision /\ page.choice = None
       THEN /\ page' = [page EXCEPT !.sync = "saving"]
            /\ run' = Send("restore", [op |-> "restore", url |-> page.base,
                            basis |-> Job.binding.revision, mode |-> Job.binding.mode])
            /\ UNCHANGED tail
       ELSE Finish /\ page' = Sync(Phase(page, "previewed", 0), "unsaved")
  /\ UNCHANGED <<services, conn, stray>>

\* Only a refusal the service sent says that nothing was committed.
OutcomeUnknown(code) == ~Job.linked \/ code \in {"ok", "lost"}

CommitAnswered ==
  LET code == run.reply.code IN
  /\ Answered("restore")
  /\ \/ /\ code = "ok" /\ CommitCurrent
        /\ page' = Phase(page, "committing", run.reply.revision)
        /\ run' = [Send("readback", Get(page)) EXCEPT !.revision = run.reply.revision]
        /\ UNCHANGED tail
     \/ /\ ~(code = "ok" /\ CommitCurrent)
        /\ page' = Sync(Phase(page, IF OutcomeUnknown(code) THEN "unknown" ELSE "previewed", 0),
                        "conflict")
        /\ Finish
  /\ UNCHANGED <<services, conn, stray>>

CommitReadBack ==
  LET r == run.reply
      confirmed == /\ r # Lost /\ CommitCurrent
                   /\ r.revision = run.revision /\ r.state = Job.binding.intended
  IN
  /\ Answered("readback")
  /\ IF confirmed
       THEN /\ page' = Installed(RowsAsOf(page, r.revision), r.state, r.revision)
            /\ tail' = Orphaned(Tail(tail))
       ELSE /\ page' = Sync(Phase(page, "unknown", run.revision), "conflict")
            /\ tail' = Tail(tail)
  /\ run' = Idle
  /\ UNCHANGED <<services, conn, stray>>

-----------------------------------------------------------------------------
Service == ServeJob \/ ServeConnect \/ LoseRequest \/ ServeStray
Elsewhere == OtherSave \/ ApplyOperation
Learner ==
  \/ Pair \/ Disconnect \/ Connect \/ KeepBrowser \/ LoadService \/ ChooseAgain
  \/ Edit \/ ImportTranscript \/ LocalCapture \/ Save
  \/ AskPreview \/ Confirm \/ RestoreSession \/ Reload
Connecting == ConnectLost \/ Reconcile \/ Compared \/ Compare \/ Connected
Working ==
  \/ StartSave \/ BundleAnswered \/ BundleVerified \/ DocumentAnswered \/ Flushed
  \/ StartLoad \/ LoadAnswered
  \/ StartPreview \/ PreviewAnswered \/ StartCommit \/ CommitAnswered \/ CommitReadBack

Next ==
  \/ Service \/ Elsewhere \/ Unauthorized \/ InstallReceipt
  \/ Learner \/ Connecting \/ Working

\* A request ends (answered or failed), and what JavaScript has queued runs.
Fairness == /\ WF_vars(ServeJob \/ LoseRequest) /\ WF_vars(ServeConnect)
            /\ WF_vars(Connecting) /\ WF_vars(Working)

Spec == Init /\ [][Next]_vars
FairSpec == Spec /\ Fairness

-----------------------------------------------------------------------------
(***************************************************************************)
(* Properties.                                                             *)
(***************************************************************************)

Jobs == {"save", "load", "preview", "commit"}
Entries == [doc: SUBSET Items, voc: SUBSET Rows, bundles: SUBSET Tracks, op: Ops \cup {None}]
Comparisons == (Contents \cup {None}) \X Contents
Decisions == [state: Contents, revision: 1 .. MaxRevisions, before: Comparisons]
Acks == [url: Urls, state: Contents]
Bindings ==
  [phase: {"previewed", "committing", "unknown"}, before: Comparisons, mode: Modes, url: Urls,
   revision: 1 .. MaxRevisions, intended: Contents, acknowledged: 0 .. MaxRevisions]
Pages ==
  [base: Urls, paired: BOOLEAN, revision: 0 .. MaxRevisions, saw: SUBSET Items, kept: BOOLEAN,
   status: {"disconnected", "connecting", "connected", "error"},
   sync: {"idle", "unsaved", "saving", "saved", "choice", "conflict", "error"},
   choice: Decisions \cup {None}, baseline: Contents \cup {None}, ack: Acks \cup {None},
   seeded: BOOLEAN, doc: SUBSET Items, voc: SUBSET Rows, cues: SUBSET Tracks,
   intent: Contents \cup {None}, acked: [url: Urls, tracks: SUBSET Tracks],
   floor: 0 .. MaxRevisions, rows: [Ops -> 0 .. MaxRevisions], known: SUBSET Urls,
   restore: Bindings \cup {NoRestore}]
QueuedJobs ==
  [kind: Jobs, live: BOOLEAN, linked: BOOLEAN, mode: Modes \cup {None},
   before: Comparisons \cup {None}, mine: BOOLEAN, binding: Bindings \cup {NoRestore}]

ServicesTyped ==
  /\ past \in [Urls -> Seq(Entries)]
  /\ lastDoc \in [Urls -> Nat]
  /\ \A u \in Urls : Rev(u) \in 1 .. MaxRevisions /\ lastDoc[u] \in 1 .. Rev(u)
PageTyped ==
  /\ page \in Pages
  /\ page.choice # None => page.sync = "choice"
QueueTyped ==
  /\ tail \in Seq(QueuedJobs) /\ Len(tail) <= MaxQueue
  /\ \A i \in DOMAIN tail : tail[i].live => tail[i].linked
  /\ run # Idle => tail # <<>>

\* The page, the queue and the services have the shapes the code gives them.
TypeOK == ServicesTyped /\ PageTyped /\ QueueTyped

\* A bundle counts as acknowledged only where it is stored (model.ts:387-396).
BundlesHeld == page.acked.tracks \subseteq Latest(page.acked.url).bundles

\* The service holds, at the revision the page names, this very document and the
\* bundle of every transcript in it.
Stored(p) ==
  /\ p.revision \in 1 .. Rev(p.base)
  /\ past[p.base][p.revision].doc = p.doc
  /\ p.doc \cap Tracks \subseteq past[p.base][p.revision].bundles

\* "All changes saved" and "loaded durable state" (model.ts:573, 717): what is shown
\* as saved is stored, unless the page keeps a document it has not sent since.
SavedIsDurable ==
  /\ BundlesHeld
  /\ page.status = "connected" /\ page.sync \in {"saved", "idle"} /\ ~page.kept
       => Stored(page)

\* "All changes saved to the local service" (model.ts:594), whatever the page kept.
SavedMeansStored ==
  page.status = "connected" /\ page.sync = "saved" => Stored(page)

\* What the page believes of the service is so, and both keep their shape.
SyncSound == TypeOK /\ SavedIsDurable

\* Work that no service ever stored leaves the page only when the learner takes
\* the service's state or a restore instead (model.ts:635, 702-713).
EverStored(i) == \E u \in Urls : \E r \in 1 .. Rev(u) : i \in past[u][r].doc
Restoring == CommitReadBack \/ Reconcile
UnsentKept ==
  [][\A i \in page.doc :
       \/ i \notin page'.doc /\ ~EverStored(i)
       \/ i \in page.cues \ page'.cues /\ \A u \in Urls : i \notin Latest(u).bundles
       => page.sync = "choice" \/ Restoring]_vars

\* A save replaces only a document the page has seen: read, compared, or sent.
PutReplacesSeen ==
  [][Awaiting(run) /\ run.q.op = "put" /\ run' # run /\ past' # past
       => Latest(run.q.url).doc = run.q.saw]_vars

\* An unknown restore outcome is settled only by reading back what was intended.
SettledByReadBack ==
  [][page.restore.phase = "unknown" /\ page'.restore.phase # "unknown" /\ ~Reload
       => \E r \in 1 .. Rev(page.base) :
            Content(page') = State(past[page.base][r].doc, past[page.base][r].voc)
              /\ Content(page') = page.restore.intended]_vars

\* "Restore requires the saved baseline" (model.ts:4790): what a restore replaces
\* is stored.
RestoreOfSavedOnly ==
  [][\A i \in page.doc \ page'.doc : Restoring => EverStored(i)]_vars

\* "Saving" is not shown for good (model.ts:540, 550-603): the job ends or the
\* learner connects again.
SavingEnds ==
  page.sync = "saving" /\ conn = Idle ~> page.sync # "saving" \/ conn # Idle

=============================================================================
