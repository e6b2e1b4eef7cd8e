---------------------------- MODULE LearnerStore ----------------------------
(***************************************************************************)
(* The durable learner store of the local service: one SQLite file written *)
(* by packages/storage/src/sqliteLocalPersistence.ts.                      *)
(*                                                                         *)
(* Two kinds of writers share it.  DOCUMENT writers send a whole learner   *)
(* document together with the revision they read it at (saveLearnerState,  *)
(* saveTrackTranscript, saveSnapshot, commitRestore).  OPERATIONS          *)
(* (applyLearnerOperation) are small requests with an id of their own; each *)
(* takes effect once and leaves a receipt.  Vocabulary rows are owned by   *)
(* operations: once one was applied, a document save may carry a stale     *)
(* copy of them but may not change them (the fence).                       *)
(*                                                                         *)
(* Every action is one BEGIN IMMEDIATE ... COMMIT transaction; a refused   *)
(* or failed transaction is rolled back and is not a step, except where    *)
(* the refusal itself is an answer the caller acts upon.                   *)
(***************************************************************************)
EXTENDS Integers, FiniteSets

CONSTANTS
  RowKeys,         \* ids of savedItems, savedOccurrences and reviewCards rows
  StateKeys,       \* ids of reviewCardStates rows
  CardOf,          \* StateKeys -> RowKeys: the card a schedule row belongs to
  Images,          \* contents a row may have (canonicalJson of the row)
  Absent,          \* no such row
  Events,          \* review events and practice attempts: immutable, by id
  EventCard,       \* Events -> RowKeys: the card that was studied
  Docs,            \* everything else a document save carries (media, settings)
  Files,           \* contents of the export files at hand for a restore
  Tracks,          \* subtitle tracks that may receive a transcript bundle
  OpIds,           \* operation ids chosen by browsers
  Payloads,        \* what an operation asks for, as far as its digest tells
  ReceiptCap,      \* LEARNER_OPERATION_RECEIPT_CAP
  MaxRev,          \* bound on the durable revision
  MaxIncarnation,  \* bound on service restarts
  MaxRequests      \* bound on the requests browsers create

ASSUME KeysAssumption ==
  /\ RowKeys \cap StateKeys = {}
  /\ CardOf \in [StateKeys -> RowKeys]
  /\ EventCard \in [Events -> RowKeys]
  /\ Absent \notin Images

ASSUME FilesAssumption ==
  Files \subseteq [owned: [RowKeys \cup StateKeys -> Images \cup {Absent}],
                  events: SUBSET Events]

ASSUME CapAssumption == ReceiptCap \in Nat \ {0}

VARIABLES
  rev,            \* durable_state.revision
  lastNonOp,      \* learner_operation_state.last_non_operation_revision
  generation,     \* learner_operation_state.generation (random token: a counter)
  incarnation,    \* random token of this service process (a counter)
  nextSeq,        \* learner_operation_state.next_receipt_seq
  prunedThrough,  \* learner_operation_state.pruned_through_seq
  protection,     \* learner_operation_state.protection_active
  owned,          \* the operation-owned rows
  history,        \* operation_owned_row.history_json, per row
  doc,            \* document-owned collections
  active,         \* active_review_event, active_practice_attempt
  audit,          \* every retained review event and practice attempt
  bundles,        \* tracks with stored cues
  receipts,       \* learner_operation_receipt, by operation id
  requests,       \* operation requests browsers created (delivered any time,
                  \*   any number of times, or never)
  answers,        \* answers the service gave
  preview,        \* the restore preview the learner is looking at
  issued,         \* history variable: every receipt ever issued
  past            \* history variable: revision -> the state committed there

storeVars == <<rev, lastNonOp, owned, history, doc, active, audit, bundles>>
ledgerVars == <<nextSeq, prunedThrough, protection, receipts, issued>>
vars == <<storeVars, ledgerVars, generation, incarnation, requests, answers,
          preview, past>>

-----------------------------------------------------------------------------
Keys == RowKeys \cup StateKeys
Rows == [Keys -> Images \cup {Absent}]

\* What a reader sees: GET /api/state in one read transaction.
View == [owned: Rows, doc: Docs, active: SUBSET Events, audit: SUBSET Events,
         bundles: SUBSET Tracks]

Request == [id: OpIds, generation: Nat, incarnation: Nat, seq: Nat,
            payload: Payloads]

Receipt == [request: Request, seq: Nat \ {0}, revision: Nat \ {0},
            generation: Nat, status: {"applied", "conflict"}]

NoReceipt == [status |-> "none"]

Refusals == [status: {"refused"},
             code: {"operation-id-reused", "generation-changed",
                    "incarnation-changed", "operation-expired", "invalid-basis"}]

Entry == [revision: Nat \ {0}, before: Images \cup {Absent},
          after: Images \cup {Absent}]

Modes == {"merge", "replace-active"}

NoPreview == [mode |-> "none"]

Preview == [mode: Modes, content: Files, revision: Nat \ {0}]

TypeOK ==
  /\ rev \in Nat \ {0}
  /\ lastNonOp \in Nat
  /\ generation \in Nat
  /\ incarnation \in Nat
  /\ nextSeq \in Nat \ {0}
  /\ prunedThrough \in Nat
  /\ protection \in BOOLEAN
  /\ owned \in Rows
  /\ history \in [Keys -> SUBSET Entry]
  /\ doc \in Docs
  /\ active \in SUBSET Events
  /\ audit \in SUBSET Events
  /\ bundles \in SUBSET Tracks
  /\ receipts \in [OpIds -> Receipt \cup {NoReceipt}]
  /\ requests \in SUBSET Request
  /\ answers \subseteq (Request \X (Receipt \cup Refusals))
  /\ preview \in Preview \cup {NoPreview}
  /\ issued \in SUBSET Receipt
  /\ past \in [1 .. rev -> View]

-----------------------------------------------------------------------------
(***************************************************************************)
(* Document writers.                                                       *)
(***************************************************************************)

\* assertDocumentBasis: nothing but operations may have committed since.
DocumentBasisOK(basis) == basis \in lastNonOp .. rev

\* The operations that touched row k after the basis.
Since(k, basis) == {e \in history[k] : e.revision > basis}

\* The image AT the basis, followed by the image after each later operation.
\* Empty when no operation touched the row after the basis.
ImagesSinceBasis(k, basis) ==
  {e.after : e \in Since(k, basis)}
    \cup {e.before : e \in {f \in Since(k, basis) :
                             \A g \in Since(k, basis) : f.revision <= g.revision}}

\* A row of the body is the authoritative one, or provably an unmodified older
\* view of it.  Of a schedule row only the membership is operation-owned.
KeyAccepted(k, image, basis) ==
  \/ k \in RowKeys /\ image = owned[k]
  \/ k \in RowKeys /\ image \in ImagesSinceBasis(k, basis)
  \/ k \in StateKeys /\ (image = Absent) = (owned[k] = Absent)
  \/ k \in StateKeys /\ \E i \in ImagesSinceBasis(k, basis) :
                          (i = Absent) = (image = Absent)

\* Mutant of Orphans: the fence looks at the rows only.
NoOrphanCheck(events) == {}

\* New history for a card that an operation removed meanwhile.
Orphans(events) == {e \in events \ (audit \cup active) : owned[EventCard[e]] = Absent}

\* Mutant of FencedRows: the checked body is written as it came.
BodyRows(body) == body.owned

\* The fenced candidate: authoritative rows, but the body's schedule values.
FencedRows(body) ==
  [k \in Keys |-> IF /\ k \in StateKeys
                     /\ body.owned[k] # Absent
                     /\ owned[k] # Absent
                    THEN body.owned[k] ELSE owned[k]]

\* Mutant of Reactivates: the merge takes whatever history the body carries.
AnyHistory(body) == FALSE

\* learnerCandidate: history that a restore made inactive stays inactive.
Reactivates(body) == body.events \cap (audit \ active) # {}

\* Mutant of CommitDocument: a write path that forgets markNonOperationWrite.
CommitUnmarked(newOwned, newDoc, newActive, newAudit, newBundles) ==
  /\ rev < MaxRev
  /\ rev' = rev + 1
  /\ owned' = newOwned
  /\ doc' = newDoc
  /\ active' = newActive
  /\ audit' = newAudit
  /\ bundles' = newBundles
  /\ past' = [r \in 1 .. rev + 1 |->
               IF r = rev + 1
                 THEN [owned |-> newOwned, doc |-> newDoc, active |-> newActive,
                       audit |-> newAudit, bundles |-> newBundles]
                 ELSE past[r]]
  /\ UNCHANGED <<history, lastNonOp>>

\* One committed non-operation write: revision bump, markNonOperationWrite.
CommitDocument(newOwned, newDoc, newActive, newAudit, newBundles) ==
  /\ rev < MaxRev
  /\ rev' = rev + 1
  /\ lastNonOp' = rev + 1
  /\ owned' = newOwned
  /\ doc' = newDoc
  /\ active' = newActive
  /\ audit' = newAudit
  /\ bundles' = newBundles
  /\ past' = [r \in 1 .. rev + 1 |->
               IF r = rev + 1
                 THEN [owned |-> newOwned, doc |-> newDoc, active |-> newActive,
                       audit |-> newAudit, bundles |-> newBundles]
                 ELSE past[r]]
  /\ UNCHANGED history

\* fenceOperationOwned, then learnerCandidate and writeLearnerCandidate.
WriteFenced(body, basis, newBundles) ==
  /\ protection => /\ \A k \in Keys : KeyAccepted(k, body.owned[k], basis)
                   /\ Orphans(body.audit) = {}
  /\ ~Reactivates(body)
  /\ CommitDocument(IF protection THEN FencedRows(body) ELSE body.owned,
                    body.doc, active \cup body.events, audit \cup body.audit,
                    newBundles)
  /\ UNCHANGED <<ledgerVars, generation, incarnation, requests, answers, preview>>

\* What a browser sends: all the history it read at the basis and what the
\* learner studied since, on cards the document itself still holds.
Bodies(basis) ==
  {b \in [owned: Rows, doc: Docs, events: SUBSET Events, audit: SUBSET Events] :
     /\ past[basis].active \subseteq b.events
     /\ b.audit = b.events \cup past[basis].audit
     /\ \A e \in b.events : b.owned[EventCard[e]] # Absent}

SaveLearnerState ==
  \E basis \in 1 .. rev : \E body \in Bodies(basis) :
    /\ DocumentBasisOK(basis)
    /\ WriteFenced(body, basis, bundles)

\* The fixtures' writer: bundles the store lacks and the document, unconditionally.
SaveSnapshot ==
  \E body \in Bodies(rev), new \in SUBSET Tracks :
    WriteFenced(body, rev, bundles \cup new)

\* Write-once per track, under the same basis rule as a document save.
SaveTrackTranscript ==
  \E basis \in 1 .. rev, track \in Tracks :
    /\ DocumentBasisOK(basis)
    /\ track \notin bundles
    /\ CommitDocument(owned, doc, active, audit, bundles \cup {track})
    /\ UNCHANGED <<ledgerVars, generation, incarnation, requests, answers, preview>>

-----------------------------------------------------------------------------
(***************************************************************************)
(* Restore: a preview bound to one revision, then a confirmed commit.      *)
(***************************************************************************)

\* Mutant of PlannedRows: the plan forgets the schedule rows.
PlannedWithoutSchedule(mode, content) ==
  [k \in RowKeys |-> IF content.owned[k] # Absent THEN content.owned[k] ELSE owned[k]]

PlannedRows(mode, content) ==
  [k \in Keys |-> CASE content.owned[k] # Absent -> content.owned[k]
                    [] mode = "merge" -> owned[k]
                    [] OTHER -> Absent]

PlannedHistory(mode, content) ==
  content.events \cup (IF mode = "merge" THEN active ELSE {})

\* requireRef: what the file introduces refers to rows of the resulting dataset.
ReferencesOK(mode, content) ==
  LET next == PlannedRows(mode, content) IN
  /\ \A k \in StateKeys : content.owned[k] # Absent => next[CardOf[k]] # Absent
  /\ \A e \in content.events : next[EventCard[e]] # Absent

PreviewRestore ==
  \E mode \in Modes, content \in Files :
    /\ ReferencesOK(mode, content)
    /\ preview' = [mode |-> mode, content |-> content, revision |-> rev]
    /\ UNCHANGED <<storeVars, ledgerVars, generation, incarnation, requests,
                   answers, past>>

\* Mutant of PreviewIsCurrent: the weaker rule of the document saves.
PreviewBasisOK == preview # NoPreview /\ DocumentBasisOK(preview.revision)

\* The confirmation is bound to the exact revision previewed, operations included.
PreviewIsCurrent == preview # NoPreview /\ preview.revision = rev

\* restorePlan, then the commit: it starts a new operation lineage and keeps
\* receipts and row histories.
CommitRestore ==
  /\ PreviewIsCurrent
  /\ ReferencesOK(preview.mode, preview.content)
  /\ CommitDocument(PlannedRows(preview.mode, preview.content), doc,
                    PlannedHistory(preview.mode, preview.content),
                    audit \cup active \cup preview.content.events, bundles)
  /\ generation' = generation + 1
  /\ preview' = NoPreview
  /\ UNCHANGED <<ledgerVars, incarnation, requests, answers>>

-----------------------------------------------------------------------------
(***************************************************************************)
(* Learner operations.                                                     *)
(***************************************************************************)

\* A browser builds a request on the identity it last saw.  Because a request
\* may stay undelivered for ever, the identity is current when it is created.
NewRequest ==
  \E id \in OpIds, payload \in Payloads :
    /\ Cardinality(requests) < MaxRequests
    /\ requests' = requests \cup
         {[id |-> id, generation |-> generation, incarnation |-> incarnation,
           seq |-> nextSeq - 1, payload |-> payload]}
    /\ UNCHANGED <<storeVars, ledgerVars, generation, incarnation, answers,
                   preview, past>>

Answer(r, a) == answers' = answers \cup {<<r, a>>}

\* Mutant of Replay: the id alone finds the receipt, the digest is not compared.
ReplayById(r) ==
  /\ receipts[r.id] # NoReceipt
  /\ Answer(r, receipts[r.id])
  /\ UNCHANGED <<storeVars, ledgerVars, generation, incarnation, requests,
                 preview, past>>

\* A retained receipt is returned as is, whatever process or lineage asks now.
Replay(r) ==
  /\ receipts[r.id] # NoReceipt
  /\ receipts[r.id].request = r
  /\ Answer(r, receipts[r.id])
  /\ UNCHANGED <<storeVars, ledgerVars, generation, incarnation, requests,
                 preview, past>>

\* Mutant of Eligible: an unknown id is taken for a new request, however old.
EligibleHoweverOld(r) ==
  /\ receipts[r.id] = NoReceipt
  /\ r.generation = generation
  /\ r.incarnation = incarnation
  /\ r.seq <= nextSeq - 1

Eligible(r) ==
  /\ receipts[r.id] = NoReceipt
  /\ r.generation = generation
  /\ r.incarnation = incarnation
  /\ r.seq \in prunedThrough .. nextSeq - 1

Refusal(r) ==
  CASE receipts[r.id] # NoReceipt -> "operation-id-reused"
    [] r.generation # generation -> "generation-changed"
    [] r.incarnation # incarnation -> "incarnation-changed"
    [] r.seq < prunedThrough -> "operation-expired"
    [] OTHER -> "invalid-basis"

Refuse(r) ==
  /\ ~Eligible(r)
  /\ receipts[r.id] # NoReceipt => receipts[r.id].request # r
  /\ Answer(r, [status |-> "refused", code |-> Refusal(r)])
  /\ UNCHANGED <<storeVars, ledgerVars, generation, incarnation, requests,
                 preview, past>>

\* What the operation callbacks may do to the rows: a card goes only while it
\* was never studied; a schedule row comes and goes but is never rewritten; a row
\* they create has a fresh id.
Outcomes ==
  {after \in Rows :
     /\ \A e \in active : owned[EventCard[e]] # Absent => after[EventCard[e]] # Absent
     /\ \A k \in StateKeys : owned[k] # Absent => after[k] \in {owned[k], Absent}
     /\ \A k \in Keys : owned[k] = Absent /\ after[k] # Absent =>
          \A v \in 1 .. rev : past[v].owned[k] = Absent}

\* Mutant of Stamped: the trimming takes one entry too many.
StampedTooShort(after, revision) ==
  [k \in Keys |->
     IF after[k] = owned[k] THEN history[k]
     ELSE {e \in history[k] : e.revision > lastNonOp + 1}
            \cup {[revision |-> revision, before |-> owned[k], after |-> after[k]]}]

\* Stamp every changed row with its images; entries no basis can need go.
Stamped(after, revision) ==
  [k \in Keys |->
     IF after[k] = owned[k] THEN history[k]
     ELSE {e \in history[k] : e.revision > lastNonOp}
            \cup {[revision |-> revision, before |-> owned[k], after |-> after[k]]}]

\* pruneOperationReceipts deletes every receipt up to the doomed one.
Pruned(receipt, through) ==
  IF receipt # NoReceipt /\ receipt.seq <= through THEN NoReceipt ELSE receipt

\* The receipt and what pruning leaves, in the transaction of the effect.  Sequence
\* numbers are contiguous, so age and cap together doom a prefix of any length
\* that leaves at most ReceiptCap receipts and keeps the new one.
IssueReceipt(r, status, revision) ==
  LET receipt == [request |-> r, seq |-> nextSeq, revision |-> revision,
                  generation |-> generation, status |-> status]
  IN \E through \in prunedThrough .. nextSeq - 1 :
       /\ through >= nextSeq - ReceiptCap
       /\ receipts' = [o \in OpIds |->
            IF o = r.id THEN receipt ELSE Pruned(receipts[o], through)]
       /\ prunedThrough' = through
       /\ nextSeq' = nextSeq + 1
       /\ issued' = issued \cup {receipt}
       /\ Answer(r, receipt)

\* The callback found the intent in conflict: a receipt and nothing else.
Conflict(r) ==
  /\ Eligible(r)
  /\ IssueReceipt(r, "conflict", rev)
  /\ UNCHANGED <<storeVars, protection, generation, incarnation, requests,
                 preview, past>>

\* Applied without changing a row (a capture that joined an existing item).
ApplyUnchanged(r) ==
  /\ Eligible(r)
  /\ IssueReceipt(r, "applied", rev)
  /\ protection' = TRUE
  /\ UNCHANGED <<storeVars, generation, incarnation, requests, preview, past>>

\* Applied: rows, stamps, revision, receipt and pruning commit together.
Apply(r) ==
  /\ Eligible(r)
  /\ rev < MaxRev
  /\ \E after \in Outcomes \ {owned} :
       /\ owned' = after
       /\ history' = Stamped(after, rev + 1)
       /\ past' = [v \in 1 .. rev + 1 |->
                    IF v = rev + 1
                      THEN [owned |-> after, doc |-> doc, active |-> active,
                            audit |-> audit, bundles |-> bundles]
                      ELSE past[v]]
  /\ rev' = rev + 1
  /\ protection' = TRUE
  /\ IssueReceipt(r, "applied", rev + 1)
  /\ UNCHANGED <<lastNonOp, doc, active, audit, bundles, generation, incarnation,
                 requests, preview>>

\* A crash or an orderly restart: the file survives, the process token does not.
Restart ==
  /\ incarnation < MaxIncarnation
  /\ incarnation' = incarnation + 1
  /\ UNCHANGED <<storeVars, ledgerVars, generation, requests, answers, preview, past>>

-----------------------------------------------------------------------------
\* A fresh file after the migrations: no rows, revision 1, no operation yet.
Init ==
  /\ rev = 1 /\ lastNonOp = 1
  /\ generation = 0 /\ incarnation = 0
  /\ nextSeq = 1 /\ prunedThrough = 0 /\ protection = FALSE
  /\ owned = [k \in Keys |-> Absent]
  /\ history = [k \in Keys |-> {}]
  /\ doc \in Docs
  /\ active = {} /\ audit = {} /\ bundles = {}
  /\ receipts = [o \in OpIds |-> NoReceipt]
  /\ requests = {} /\ answers = {} /\ issued = {}
  /\ preview = NoPreview
  /\ past = [r \in {1} |-> [owned |-> owned, doc |-> doc, active |-> {},
                            audit |-> {}, bundles |-> {}]]

Deliver(r) == Replay(r) \/ Refuse(r) \/ Conflict(r) \/ ApplyUnchanged(r) \/ Apply(r)

Next ==
  \/ SaveLearnerState
  \/ SaveSnapshot
  \/ SaveTrackTranscript
  \/ PreviewRestore
  \/ CommitRestore
  \/ NewRequest
  \/ \E r \in requests : Deliver(r)
  \/ Restart

Spec == Init /\ [][Next]_vars
-----------------------------------------------------------------------------
(***************************************************************************)
(* Properties.                                                             *)
(***************************************************************************)

\* However often a request is delivered, retried or delayed, across restarts,
\* restores and pruning, it is executed at most once, and every receipt a
\* browser ever gets for it is that one (applyLearnerOperation).
OneReceiptPerRequest ==
  /\ \A x, y \in issued : x.request = y.request => x = y
  /\ \A a \in answers : a[2].status # "refused" => a[2] \in issued /\ a[2].request = a[1]

\* Pruning removes a prefix and moves the eligibility boundary exactly past it:
\* the retained receipts are the issued ones above the boundary, at most
\* ReceiptCap of them (pruneOperationReceipts).
RetainedAboveBoundary ==
  /\ \A x \in issued : x.seq > prunedThrough => receipts[x.request.id] = x
  /\ \A o \in OpIds : receipts[o] # NoReceipt =>
        /\ receipts[o] \in issued
        /\ receipts[o].seq > prunedThrough
  /\ nextSeq - 1 - prunedThrough \in 0 .. ReceiptCap

\* The fence tells an untouched old copy from an edit exactly: for every basis
\* a save may still use, a row of the body passes if and only if it is a copy
\* the store really held at the basis or later (fenceOperationOwned,
\* reconcileOperationOwned and the trimming of operation_owned_row).
FenceExact ==
  \A basis \in lastNonOp .. rev, image \in Images \cup {Absent} :
    /\ \A k \in RowKeys : KeyAccepted(k, image, basis) <=>
         \E v \in basis .. rev : past[v].owned[k] = image
    /\ \A k \in StateKeys : KeyAccepted(k, image, basis) <=>
         \E v \in basis .. rev : (past[v].owned[k] = Absent) = (image = Absent)

\* No lost update: whoever may still save a document has read the present
\* document-owned state, however many operations came in between
\* (assertDocumentBasis, markNonOperationWrite).
DocumentBasisIsCurrent ==
  \A basis \in lastNonOp .. rev :
    /\ past[basis].doc = doc
    /\ past[basis].active = active
    /\ past[basis].audit = audit
    /\ past[basis].bundles = bundles
    /\ \A k \in StateKeys : owned[k] # Absent /\ past[basis].owned[k] # Absent
         => past[basis].owned[k] = owned[k]

\* Study history never loses its card: an Undo of another browser and a save
\* of new reviews cannot cross so that a review is stored for a removed card.
NoOrphanHistory == \A e \in active : owned[EventCard[e]] # Absent

\* History is append-only, and only a restore brings inactive history back.
HistoryKept ==
  [][/\ audit \cup active \subseteq audit'
     /\ active \subseteq active' \/ generation' # generation
     /\ (active' \ active) \cap audit = {} \/ generation' # generation]_vars

\* Once an operation was applied, no document writer changes a vocabulary row
\* or adds or removes a schedule row, with whatever body it comes.
DocumentsKeepOwnedRows ==
  [][protection /\ lastNonOp' # lastNonOp /\ generation' = generation =>
       /\ \A k \in RowKeys : owned'[k] = owned[k]
       /\ \A k \in StateKeys : (owned'[k] = Absent) = (owned[k] = Absent)]_vars

\* A restore commits on exactly the rows and history its preview showed; an
\* operation or a save in between voids the confirmation (restorePlan).
RestoreOfWhatWasSeen ==
  [][generation' # generation =>
       /\ past[preview.revision].owned = owned
       /\ past[preview.revision].active = active]_vars

-----------------------------------------------------------------------------
(***************************************************************************)
(* The store implements the contract.  Of the rows the contract sees the   *)
(* operation-owned ones; schedule values belong to the documents.          *)
(***************************************************************************)
Contract == INSTANCE OperationContract WITH
  Tables <- [RowKeys -> Images \cup {Absent}],
  Requests <- Request,
  Receipts <- Receipt,
  Refusals <- Refusals,
  asked <- requests,
  executed <- issued,
  answered <- answers,
  table <- [k \in RowKeys |-> owned[k]],
  fenced <- protection,
  lineage <- generation

\* Every step of the store is a step of the contract or changes nothing it sees.
ImplementsContract == Contract!ContractSpec
=============================================================================
