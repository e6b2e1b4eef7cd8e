------------------------- MODULE LearnerStoreProofs -------------------------
(***************************************************************************)
(* Theorems of LearnerStore, for every set of rows, events, operation ids, *)
(* payloads and export files and every receipt cap.  The bounds MaxRev,    *)
(* MaxIncarnation and MaxRequests play no part.                            *)
(*                                                                         *)
(* First the types and the receipts.  Then the documents: which bodies     *)
(* pass the fence, that a save which is let through has read the present   *)
(* document, and what saves, operations and restores may never do to rows  *)
(* and history.  At the end the learner store implements                   *)
(* OperationContract, every committed transaction being one step of the    *)
(* contract or invisible.                                                  *)
(***************************************************************************)
EXTENDS LearnerStore, TLAPS

-----------------------------------------------------------------------------
(***************************************************************************)
(* Types.                                                                  *)
(***************************************************************************)

\* What one committed document write leaves behind.
LEMMA CommitDocumentType ==
  ASSUME TypeOK,
         NEW o \in Rows, NEW d \in Docs, NEW a \in SUBSET Events,
         NEW u \in SUBSET Events, NEW b \in SUBSET Tracks,
         CommitDocument(o, d, a, u, b)
  PROVE  /\ rev' \in Nat \ {0} /\ lastNonOp' \in Nat
         /\ owned' \in Rows /\ history' \in [Keys -> SUBSET Entry]
         /\ doc' \in Docs /\ active' \in SUBSET Events /\ audit' \in SUBSET Events
         /\ bundles' \in SUBSET Tracks
         /\ past' \in [1 .. rev' -> View]
  <1> DEFINE new == [owned |-> o, doc |-> d, active |-> a, audit |-> u, bundles |-> b]
  <1>1. new \in View
    BY DEF View
  <1>2. \A r \in 1 .. rev + 1 : (IF r = rev + 1 THEN new ELSE past[r]) \in View
    BY <1>1 DEF TypeOK
  <1>3. past' \in [1 .. rev' -> View]
    BY <1>2 DEF CommitDocument
  <1>4. QED
    BY <1>3 DEF CommitDocument, TypeOK

\* What the fence makes of a save are rows (fenceOperationOwned).
LEMMA FencedRowsType ==
  ASSUME TypeOK, NEW body, body.owned \in Rows
  PROVE  FencedRows(body) \in Rows
  BY DEF TypeOK, FencedRows, Rows

\* What a restore plans are rows (planLearnerRestore).
LEMMA PlannedRowsType ==
  ASSUME TypeOK, NEW mode \in Modes, NEW content \in Files
  PROVE  PlannedRows(mode, content) \in Rows
  <1>1. content.owned \in Rows
    BY FilesAssumption DEF Rows, Keys
  <1>2. QED
    BY <1>1 DEF PlannedRows, Rows, TypeOK

\* A fenced write keeps the types (saveLearnerState).
LEMMA WriteFencedType ==
  ASSUME TypeOK, NEW basis \in 1 .. rev, NEW body \in Bodies(basis),
         NEW b \in SUBSET Tracks, WriteFenced(body, basis, b)
  PROVE  TypeOK'
  <1>1. /\ body.owned \in Rows /\ body.doc \in Docs
        /\ body.events \in SUBSET Events /\ body.audit \in SUBSET Events
    BY DEF Bodies
  <1> DEFINE o == IF protection THEN FencedRows(body) ELSE body.owned
  <1>2. o \in Rows
    BY <1>1, FencedRowsType
  <1>3. CommitDocument(o, body.doc, active \cup body.events, audit \cup body.audit, b)
    BY DEF WriteFenced
  <1>4. active \cup body.events \in SUBSET Events /\ audit \cup body.audit \in SUBSET Events
    BY <1>1 DEF TypeOK
  <1>5. /\ rev' \in Nat \ {0} /\ lastNonOp' \in Nat
        /\ owned' \in Rows /\ history' \in [Keys -> SUBSET Entry]
        /\ doc' \in Docs /\ active' \in SUBSET Events /\ audit' \in SUBSET Events
        /\ bundles' \in SUBSET Tracks
        /\ past' \in [1 .. rev' -> View]
    <2> HIDE DEF o
    <2> QED BY <1>1, <1>2, <1>3, <1>4, CommitDocumentType
  <1>6. UNCHANGED <<ledgerVars, generation, incarnation, requests, answers, preview>>
    BY DEF WriteFenced
  <1>7. QED
    BY <1>5, <1>6 DEF TypeOK, ledgerVars

\* Issuing a receipt, with its pruning, keeps the types of the ledger
\* (applyLearnerOperation).
LEMMA IssueReceiptType ==
  ASSUME TypeOK, NEW r \in requests, NEW status \in {"applied", "conflict"},
         NEW revision \in Nat \ {0}, IssueReceipt(r, status, revision)
  PROVE  /\ receipts' \in [OpIds -> Receipt \cup {NoReceipt}]
         /\ prunedThrough' \in Nat /\ nextSeq' \in Nat \ {0}
         /\ issued' \in SUBSET Receipt
         /\ answers' \subseteq (Request \X (Receipt \cup Refusals))
  <1> DEFINE receipt == [request |-> r, seq |-> nextSeq, revision |-> revision,
                         generation |-> generation, status |-> status]
  <1>1. r \in Request /\ receipt \in Receipt
    BY DEF TypeOK, Receipt
  <1>2. QED
    BY <1>1 DEF IssueReceipt, Pruned, Answer, TypeOK

\* Every reachable state has the declared shape.
THEOREM TypeCorrect == Spec => []TypeOK
  <1>1. Init => TypeOK
    <2> SUFFICES ASSUME Init PROVE TypeOK
      OBVIOUS
    <2>1. owned \in Rows
      BY DEF Init, Rows
    <2>2. [owned |-> owned, doc |-> doc, active |-> {}, audit |-> {}, bundles |-> {}] \in View
      BY <2>1 DEF Init, View
    <2>3. past \in [1 .. rev -> View]
      BY <2>2 DEF Init
    <2>4. history \in [Keys -> SUBSET Entry] /\ receipts \in [OpIds -> Receipt \cup {NoReceipt}]
      BY DEF Init
    <2>5. /\ rev \in Nat \ {0} /\ lastNonOp \in Nat /\ generation \in Nat
          /\ incarnation \in Nat /\ nextSeq \in Nat \ {0} /\ prunedThrough \in Nat
          /\ doc \in Docs
      BY DEF Init
    <2>6. protection \in BOOLEAN
      BY DEF Init
    <2>7. /\ active \in SUBSET Events /\ audit \in SUBSET Events /\ bundles \in SUBSET Tracks
          /\ requests \in SUBSET Request /\ issued \in SUBSET Receipt
          /\ answers \subseteq (Request \X (Receipt \cup Refusals))
          /\ preview \in Preview \cup {NoPreview}
      BY DEF Init
    <2>8. QED
      BY <2>1, <2>3, <2>4, <2>5, <2>6, <2>7 DEF TypeOK
  <1>2. TypeOK /\ [Next]_vars => TypeOK'
    <2> SUFFICES ASSUME TypeOK, [Next]_vars PROVE TypeOK'
      OBVIOUS
    <2>1. CASE SaveLearnerState
      <3>1. PICK basis \in 1 .. rev :
               \E body \in Bodies(basis) : WriteFenced(body, basis, bundles)
        BY <2>1 DEF SaveLearnerState
      <3>2. PICK body \in Bodies(basis) : WriteFenced(body, basis, bundles)
        BY <3>1
      <3>3. bundles \in SUBSET Tracks
        BY DEF TypeOK
      <3>4. QED
        BY <3>2, <3>3, WriteFencedType
    <2>2. CASE SaveSnapshot
      <3>1. PICK body \in Bodies(rev), new \in SUBSET Tracks : WriteFenced(body, rev, bundles \cup new)
        BY <2>2 DEF SaveSnapshot
      <3>2. rev \in 1 .. rev /\ bundles \cup new \in SUBSET Tracks
        BY DEF TypeOK
      <3>3. QED
        BY <3>1, <3>2, WriteFencedType
    <2>3. CASE SaveTrackTranscript
      <3>1. PICK track \in Tracks : CommitDocument(owned, doc, active, audit, bundles \cup {track})
        BY <2>3 DEF SaveTrackTranscript
      <3>2. /\ owned \in Rows /\ doc \in Docs /\ active \in SUBSET Events
            /\ audit \in SUBSET Events /\ bundles \cup {track} \in SUBSET Tracks
        BY DEF TypeOK
      <3>3. UNCHANGED <<ledgerVars, generation, incarnation, requests, answers, preview>>
        BY <2>3 DEF SaveTrackTranscript
      <3>4. QED
        BY <3>1, <3>2, <3>3, CommitDocumentType DEF TypeOK, ledgerVars
    <2>4. CASE PreviewRestore
      BY <2>4 DEF PreviewRestore, TypeOK, Preview, storeVars, ledgerVars
    <2>5. CASE CommitRestore
      <3>1. preview \in Preview
        BY <2>5 DEF CommitRestore, PreviewIsCurrent, TypeOK
      <3>2. preview.mode \in Modes /\ preview.content \in Files
        BY <3>1 DEF Preview
      <3>3. PlannedRows(preview.mode, preview.content) \in Rows
        BY <3>2, PlannedRowsType
      <3>4. preview.content.events \in SUBSET Events
        BY <3>2, FilesAssumption
      <3>5. PlannedHistory(preview.mode, preview.content) \in SUBSET Events
        BY <3>4 DEF PlannedHistory, TypeOK
      <3>6. /\ doc \in Docs /\ bundles \in SUBSET Tracks
            /\ audit \cup active \cup preview.content.events \in SUBSET Events
        BY <3>4 DEF TypeOK
      <3>7. /\ rev' \in Nat \ {0} /\ lastNonOp' \in Nat
            /\ owned' \in Rows /\ history' \in [Keys -> SUBSET Entry]
            /\ doc' \in Docs /\ active' \in SUBSET Events /\ audit' \in SUBSET Events
            /\ bundles' \in SUBSET Tracks
            /\ past' \in [1 .. rev' -> View]
        BY <2>5, <3>3, <3>5, <3>6, CommitDocumentType DEF CommitRestore
      <3>8. QED
        BY <2>5, <3>7 DEF CommitRestore, TypeOK, ledgerVars
    <2>6. CASE NewRequest
      BY <2>6 DEF NewRequest, TypeOK, Request, storeVars, ledgerVars
    <2>7. ASSUME NEW r \in requests, Deliver(r) PROVE TypeOK'
      <3>0. r \in Request
        BY DEF TypeOK
      <3>1. CASE Replay(r)
        <4>1. r.id \in OpIds
          BY <3>0 DEF Request
        <4>2. receipts[r.id] \in Receipt
          BY <3>1, <4>1 DEF Replay, TypeOK
        <4>3. QED
          BY <3>0, <3>1, <4>2 DEF Replay, Answer, TypeOK, storeVars, ledgerVars
      <3>2. CASE Refuse(r)
        <4>1. [status |-> "refused", code |-> Refusal(r)] \in Refusals
          BY DEF Refusals, Refusal
        <4>2. QED
          BY <3>0, <3>2, <4>1 DEF Refuse, Answer, TypeOK, storeVars, ledgerVars
      <3>3. CASE Conflict(r)
        BY <3>3, IssueReceiptType DEF Conflict, TypeOK, storeVars
      <3>4. CASE ApplyUnchanged(r)
        BY <3>4, IssueReceiptType DEF ApplyUnchanged, TypeOK, storeVars
      <3>5. CASE Apply(r)
        <4>1. rev + 1 \in Nat \ {0}
          BY DEF TypeOK
        <4>2. PICK after \in Outcomes :
                 /\ owned' = after
                 /\ history' = Stamped(after, rev + 1)
                 /\ past' = [v \in 1 .. rev + 1 |->
                              IF v = rev + 1
                                THEN [owned |-> after, doc |-> doc, active |-> active,
                                      audit |-> audit, bundles |-> bundles]
                                ELSE past[v]]
          BY <3>5 DEF Apply
        <4>3. after \in Rows
          BY DEF Outcomes
        <4>4. history' \in [Keys -> SUBSET Entry]
          <5>1. \A k \in Keys : /\ owned[k] \in Images \cup {Absent}
                                /\ after[k] \in Images \cup {Absent}
                                /\ history[k] \in SUBSET Entry
            BY <4>3 DEF TypeOK, Rows
          <5>2. \A k \in Keys : [revision |-> rev + 1, before |-> owned[k], after |-> after[k]] \in Entry
            BY <5>1, <4>1 DEF Entry
          <5>3. QED
            BY <4>2, <5>1, <5>2 DEF Stamped
        <4>5. past' \in [1 .. rev' -> View]
          <5>1. [owned |-> after, doc |-> doc, active |-> active, audit |-> audit,
                 bundles |-> bundles] \in View
            BY <4>3 DEF View, TypeOK
          <5>2. QED
            BY <3>5, <4>2, <5>1 DEF Apply, TypeOK
        <4>6. QED
          BY <3>5, <4>1, <4>2, <4>3, <4>4, <4>5, IssueReceiptType DEF Apply, TypeOK
      <3>6. QED
        BY <2>7, <3>1, <3>2, <3>3, <3>4, <3>5 DEF Deliver
    <2>8. CASE Restart
      BY <2>8 DEF Restart, TypeOK, storeVars, ledgerVars
    <2>9. CASE UNCHANGED vars
      BY <2>9 DEF vars, TypeOK, storeVars, ledgerVars
    <2>10. QED
      BY <2>1, <2>2, <2>3, <2>4, <2>5, <2>6, <2>7, <2>8, <2>9 DEF Next
  <1>3. QED
    BY <1>1, <1>2, PTL DEF Spec

-----------------------------------------------------------------------------
(***************************************************************************)
(* Exactly once.                                                           *)
(***************************************************************************)

\* The sequence number of a receipt lies above the horizon its request was made
\* at: this is what makes the boundary check of an unknown id sound.
LedgerInv ==
  /\ OneReceiptPerRequest
  /\ RetainedAboveBoundary
  /\ \A x \in issued : x.seq < nextSeq /\ x.request.seq < x.seq

\* An eligible request has never been executed.
LEMMA EligibleIsNew ==
  ASSUME TypeOK, LedgerInv, NEW r \in requests, Eligible(r)
  PROVE  \A x \in issued : x.request # r
  <1> SUFFICES ASSUME NEW x \in issued, x.request = r PROVE FALSE
    OBVIOUS
  <1>1. x \in Receipt /\ r \in Request
    BY DEF TypeOK
  <1>2. x.status # "none" /\ NoReceipt.status = "none"
    BY <1>1 DEF Receipt, NoReceipt
  <1>3. CASE x.seq > prunedThrough
    BY <1>2, <1>3 DEF LedgerInv, RetainedAboveBoundary, Eligible
  <1>4. CASE ~(x.seq > prunedThrough)
    <2>1. r.seq < x.seq
      BY DEF LedgerInv
    <2>2. r.seq >= prunedThrough /\ r.seq \in Nat /\ x.seq \in Nat
      BY <1>1 DEF Eligible, Request, Receipt, TypeOK
    <2>3. QED
      BY <1>4, <2>1, <2>2 DEF TypeOK
  <1>5. QED
    BY <1>3, <1>4

\* A receipt issued for an eligible request keeps what LedgerInv says of the ledger.
LEMMA IssueKeepsLedger ==
  ASSUME TypeOK, LedgerInv, NEW r \in requests, Eligible(r),
         NEW status \in {"applied", "conflict"}, NEW revision \in Nat \ {0},
         IssueReceipt(r, status, revision)
  PROVE  LedgerInv'
  <1> DEFINE receipt == [request |-> r, seq |-> nextSeq, revision |-> revision,
                         generation |-> generation, status |-> status]
  <1>0. /\ r \in Request /\ r.id \in OpIds /\ r.seq \in Nat /\ r.seq <= nextSeq - 1
        /\ receipt \in Receipt /\ nextSeq \in Nat \ {0} /\ prunedThrough \in Nat
        /\ issued \in SUBSET Receipt
    BY DEF TypeOK, Request, Receipt, Eligible
  <1>1. PICK through \in prunedThrough .. nextSeq - 1 :
          /\ through >= nextSeq - ReceiptCap
          /\ receipts' = [o \in OpIds |->
               IF o = r.id THEN receipt ELSE Pruned(receipts[o], through)]
          /\ prunedThrough' = through
          /\ nextSeq' = nextSeq + 1
          /\ issued' = issued \cup {receipt}
          /\ Answer(r, receipt)
    BY DEF IssueReceipt
  <1>2. receipt.request = r /\ receipt.seq = nextSeq /\ receipt.status # "refused"
    OBVIOUS
  <1> HIDE DEF receipt
  <1>3. \A x \in issued : x.request # r
    BY EligibleIsNew
  <1>4. OneReceiptPerRequest'
    <2>1. \A x, y \in issued' : x.request = y.request => x = y
      BY <1>1, <1>2, <1>3 DEF LedgerInv, OneReceiptPerRequest
    <2>2. \A a \in answers' : a[2].status # "refused" => a[2] \in issued' /\ a[2].request = a[1]
      BY <1>1, <1>2 DEF LedgerInv, OneReceiptPerRequest, Answer
    <2>3. QED
      BY <2>1, <2>2 DEF OneReceiptPerRequest
  <1>5. RetainedAboveBoundary'
    <2>1. ASSUME NEW x \in issued', x.seq > prunedThrough'
          PROVE  receipts'[x.request.id] = x
      <3>1. CASE x = receipt
        BY <3>1, <1>0, <1>1, <1>2
      <3>2. CASE x \in issued
        <4>1. x \in Receipt /\ x.seq \in Nat /\ x.request.id \in OpIds /\ x # NoReceipt
          <5>1. x \in Receipt
            BY <3>2, <1>0
          <5>2. x.status # "none" /\ NoReceipt.status = "none"
            BY <5>1 DEF Receipt, NoReceipt
          <5>3. QED
            BY <5>1, <5>2 DEF Receipt, Request
        <4>2. x.seq > through /\ x.seq > prunedThrough
          BY <2>1, <1>0, <1>1, <4>1
        <4>3. receipts[x.request.id] = x
          BY <3>2, <4>2 DEF LedgerInv, RetainedAboveBoundary
        <4>4. x.request.id # r.id
          BY <4>1, <4>3 DEF Eligible
        <4>5. QED
          BY <1>0, <1>1, <4>1, <4>2, <4>3, <4>4 DEF Pruned
      <3>3. QED
        BY <3>1, <3>2, <2>1, <1>1
    <2>2. ASSUME NEW o \in OpIds, receipts'[o] # NoReceipt
          PROVE  receipts'[o] \in issued' /\ receipts'[o].seq > prunedThrough'
      <3>1. CASE o = r.id
        BY <3>1, <1>0, <1>1, <1>2
      <3>2. CASE o # r.id
        <4>1. receipts[o] # NoReceipt /\ receipts'[o] = receipts[o] /\ ~(receipts[o].seq <= through)
          BY <2>2, <3>2, <1>1 DEF Pruned
        <4>2. receipts[o] \in issued
          BY <4>1 DEF LedgerInv, RetainedAboveBoundary
        <4>3. receipts[o].seq \in Nat
          BY <4>2, <1>0 DEF Receipt
        <4>4. QED
          BY <4>1, <4>2, <4>3, <1>0, <1>1
      <3>3. QED
        BY <3>1, <3>2
    <2>3. nextSeq' - 1 - prunedThrough' \in 0 .. ReceiptCap
      BY <1>0, <1>1, CapAssumption
    <2>4. QED
      BY <2>1, <2>2, <2>3 DEF RetainedAboveBoundary
  <1>6. \A x \in issued' : x.seq < nextSeq' /\ x.request.seq < x.seq
    <2>1. \A x \in issued : x.seq \in Nat
      BY <1>0 DEF Receipt
    <2>2. QED
      BY <1>0, <1>1, <1>2, <2>1 DEF LedgerInv
  <1>7. QED
    BY <1>4, <1>5, <1>6 DEF LedgerInv

\* The ledger invariant holds of every reachable state.
LEMMA LedgerInvariant == Spec => []LedgerInv
  <1>1. Init => LedgerInv
    BY CapAssumption DEF Init, LedgerInv, OneReceiptPerRequest, RetainedAboveBoundary
  <1>2. TypeOK /\ LedgerInv /\ [Next]_vars => LedgerInv'
    <2> SUFFICES ASSUME TypeOK, LedgerInv, [Next]_vars PROVE LedgerInv'
      OBVIOUS
    <2> USE DEF LedgerInv, OneReceiptPerRequest, RetainedAboveBoundary
    <2>1. CASE UNCHANGED <<ledgerVars, answers>>
      BY <2>1 DEF ledgerVars
    <2>2. ASSUME NEW r \in requests, Deliver(r) PROVE LedgerInv'
      <3> HIDE DEF LedgerInv
      <3>1. CASE Replay(r)
        <4>1. r.id \in OpIds
          BY DEF TypeOK, Request
        <4>2. receipts[r.id] \in issued /\ receipts[r.id].request = r
          BY <3>1, <4>1 DEF Replay, LedgerInv
        <4>3. QED
          BY <3>1, <4>2 DEF Replay, Answer, LedgerInv, ledgerVars
      <3>2. CASE Refuse(r)
        <4>1. PICK a : a.status = "refused" /\ answers' = answers \cup {<<r, a>>}
          BY <3>2 DEF Refuse, Answer
        <4>2. QED
          BY <3>2, <4>1 DEF Refuse, LedgerInv, ledgerVars
      <3>3. CASE Conflict(r)
        BY <3>3, IssueKeepsLedger DEF Conflict, TypeOK
      <3>4. CASE ApplyUnchanged(r)
        BY <3>4, IssueKeepsLedger DEF ApplyUnchanged, TypeOK
      <3>5. CASE Apply(r)
        <4>1. rev + 1 \in Nat \ {0}
          BY DEF TypeOK
        <4>2. QED
          BY <3>5, <4>1, IssueKeepsLedger DEF Apply
      <3>6. QED
        BY <2>2, <3>1, <3>2, <3>3, <3>4, <3>5 DEF Deliver
    <2>3. SaveLearnerState => UNCHANGED <<ledgerVars, answers>>
      BY DEF SaveLearnerState, WriteFenced
    <2>4. SaveSnapshot => UNCHANGED <<ledgerVars, answers>>
      BY DEF SaveSnapshot, WriteFenced
    <2>5. SaveTrackTranscript \/ PreviewRestore \/ CommitRestore => UNCHANGED <<ledgerVars, answers>>
      BY DEF SaveTrackTranscript, PreviewRestore, CommitRestore
    <2>6. NewRequest \/ Restart \/ UNCHANGED vars => UNCHANGED <<ledgerVars, answers>>
      BY DEF NewRequest, Restart, vars
    <2>7. QED
      BY <2>1, <2>2, <2>3, <2>4, <2>5, <2>6 DEF Next
  <1>3. QED
    BY <1>1, <1>2, TypeCorrect, PTL DEF Spec

\* A request is executed at most once and always answered with that execution's
\* receipt, and what pruning retains is exactly what lies above the boundary.
THEOREM ExactlyOnce == Spec => [](OneReceiptPerRequest /\ RetainedAboveBoundary)
  <1>1. LedgerInv => OneReceiptPerRequest /\ RetainedAboveBoundary
    BY DEF LedgerInv
  <1>2. QED
    BY <1>1, LedgerInvariant, PTL

-----------------------------------------------------------------------------
(***************************************************************************)
(* What every step does to the versioned part of the store.                *)
(***************************************************************************)

\* The last version is the present one.
VersionsInv ==
  /\ lastNonOp \in 1 .. rev
  /\ past[rev].owned = owned
  /\ past[rev].doc = doc
  /\ past[rev].active = active
  /\ past[rev].audit = audit
  /\ past[rev].bundles = bundles

\* A step that commits: a new version, the older ones as they were.
NewVersion ==
  /\ rev' = rev + 1
  /\ \A v \in 1 .. rev : past'[v] = past[v]
  /\ past'[rev + 1].owned = owned'
  /\ past'[rev + 1].doc = doc'
  /\ past'[rev + 1].active = active'
  /\ past'[rev + 1].audit = audit'
  /\ past'[rev + 1].bundles = bundles'

\* A document write or a restore: no earlier basis is good any more.
DocumentStep == NewVersion /\ lastNonOp' = rev + 1 /\ history' = history

\* An operation that changes rows.
OperationStep ==
  /\ NewVersion
  /\ lastNonOp' = lastNonOp
  /\ UNCHANGED <<doc, active, audit, bundles>>
  /\ \E after \in Outcomes : owned' = after /\ history' = Stamped(after, rev + 1)

\* A committed document write is a document step.
LEMMA CommitIsDocumentStep ==
  ASSUME TypeOK,
         NEW o, NEW d, NEW a, NEW u, NEW b,
         CommitDocument(o, d, a, u, b)
  PROVE  DocumentStep /\ owned' = o /\ doc' = d /\ active' = a /\ audit' = u /\ bundles' = b
  BY DEF CommitDocument, DocumentStep, NewVersion, TypeOK

\* The four document writers, the restore, the row-changing operation, the rest.
LEMMA StepKinds ==
  ASSUME TypeOK, [Next]_vars
  PROVE  \/ DocumentStep
         \/ OperationStep
         \/ UNCHANGED <<storeVars, past>>
  <1>1. CASE SaveLearnerState
    <2>1. PICK basis \in 1 .. rev : \E body \in Bodies(basis) : WriteFenced(body, basis, bundles)
      BY <1>1 DEF SaveLearnerState
    <2>2. QED
      BY <2>1, CommitIsDocumentStep DEF WriteFenced
  <1>2. CASE SaveSnapshot
    BY <1>2, CommitIsDocumentStep DEF SaveSnapshot, WriteFenced
  <1>3. CASE SaveTrackTranscript
    BY <1>3, CommitIsDocumentStep DEF SaveTrackTranscript
  <1>4. CASE CommitRestore
    BY <1>4, CommitIsDocumentStep DEF CommitRestore
  <1>5. CASE PreviewRestore \/ NewRequest \/ Restart
    BY <1>5 DEF PreviewRestore, NewRequest, Restart
  <1>6. ASSUME NEW r \in requests, Deliver(r)
        PROVE  OperationStep \/ UNCHANGED <<storeVars, past>>
    <2>1. CASE Apply(r)
      <3>1. /\ rev' = rev + 1 /\ UNCHANGED <<lastNonOp, doc, active, audit, bundles>>
        BY <2>1 DEF Apply
      <3>2. PICK after \in Outcomes :
               /\ owned' = after
               /\ history' = Stamped(after, rev + 1)
               /\ past' = [v \in 1 .. rev + 1 |->
                            IF v = rev + 1
                              THEN [owned |-> after, doc |-> doc, active |-> active,
                                    audit |-> audit, bundles |-> bundles]
                              ELSE past[v]]
        BY <2>1 DEF Apply
      <3>3. NewVersion
        BY <3>1, <3>2 DEF NewVersion, TypeOK
      <3>4. QED
        BY <3>1, <3>2, <3>3 DEF OperationStep
    <2>2. CASE Replay(r) \/ Refuse(r) \/ Conflict(r) \/ ApplyUnchanged(r)
      BY <2>2 DEF Replay, Refuse, Conflict, ApplyUnchanged
    <2>3. QED
      BY <1>6, <2>1, <2>2 DEF Deliver
  <1>7. CASE UNCHANGED vars
    BY <1>7 DEF vars
  <1>8. QED
    BY <1>1, <1>2, <1>3, <1>4, <1>5, <1>6, <1>7 DEF Next

\* The version of the present revision is the present state, and the oldest basis
\* a save may use is a version of its own.
THEOREM VersionsTrue == Spec => []VersionsInv
  <1>1. Init => VersionsInv
    BY DEF Init, VersionsInv
  <1>2. TypeOK /\ VersionsInv /\ [Next]_vars => VersionsInv'
    <2> SUFFICES ASSUME TypeOK, VersionsInv, [Next]_vars PROVE VersionsInv'
      OBVIOUS
    <2>1. CASE DocumentStep
      BY <2>1 DEF DocumentStep, NewVersion, VersionsInv, TypeOK
    <2>2. CASE OperationStep
      BY <2>2 DEF OperationStep, NewVersion, VersionsInv, TypeOK
    <2>3. CASE UNCHANGED <<storeVars, past>>
      BY <2>3 DEF storeVars, VersionsInv
    <2>4. QED
      BY <2>1, <2>2, <2>3, StepKinds
  <1>3. QED
    BY <1>1, <1>2, TypeCorrect, PTL DEF Spec

-----------------------------------------------------------------------------
(***************************************************************************)
(* The fence is exact.                                                     *)
(***************************************************************************)

\* Row histories reach from every usable basis to the present row.
HistoryInv ==
  /\ \A k \in Keys : \A e \in history[k] : e.revision <= rev
  /\ \A k \in Keys : \A basis \in lastNonOp .. rev :
       Since(k, basis) # {} => owned[k] \in {e.after : e \in Since(k, basis)}
  /\ \A k \in Keys : \A basis \in lastNonOp .. rev : \A image \in Images \cup {Absent} :
       (image = owned[k] \/ image \in ImagesSinceBasis(k, basis))
         <=> \E v \in basis .. rev : past[v].owned[k] = image

\* At a basis that no operation followed, only the present image passes.
LEMMA NothingSince ==
  ASSUME NEW k, NEW basis, Since(k, basis) = {}
  PROVE  ImagesSinceBasis(k, basis) = {}
  BY DEF ImagesSinceBasis

\* One more stamp adds the new image and keeps the older ones and the first.
LEMMA StampExtends ==
  ASSUME TypeOK, VersionsInv, HistoryInv,
         NEW after \in Rows, NEW k \in Keys, NEW basis \in lastNonOp .. rev,
         after[k] # owned[k],
         owned' = after, history' = Stamped(after, rev + 1)
  PROVE  /\ Since(k, basis)' # {}
         /\ owned'[k] \in {e.after : e \in Since(k, basis)'}
         /\ \A image : (image = owned'[k] \/ image \in ImagesSinceBasis(k, basis)')
              <=> \/ image = after[k] \/ image = owned[k]
                  \/ image \in ImagesSinceBasis(k, basis)
  <1> DEFINE new == [revision |-> rev + 1, before |-> owned[k], after |-> after[k]]
             S == Since(k, basis)
             T == Since(k, basis)'
  <1>1. history'[k] = {e \in history[k] : e.revision > lastNonOp} \cup {new}
    BY DEF Stamped
  <1>2. /\ lastNonOp \in Nat /\ rev \in Nat /\ basis \in Nat /\ lastNonOp <= basis /\ basis <= rev
        /\ \A e \in history[k] : e.revision \in Nat /\ e.revision <= rev
    BY DEF TypeOK, VersionsInv, HistoryInv, Entry
  <1>3. T = {e \in history'[k] : e.revision > basis}
    BY DEF Since
  <1>4. new.revision = rev + 1 /\ new.before = owned[k] /\ new.after = after[k]
    OBVIOUS
  <1> HIDE DEF new
  <1>5. T = S \cup {new}
    BY <1>1, <1>2, <1>3, <1>4 DEF Since
  <1>6. S # {} => owned[k] \in {e.after : e \in S}
    BY DEF HistoryInv
  <1>7. \A e \in S : e.revision \in Nat /\ e.revision <= rev
    BY <1>2 DEF Since
  <1> DEFINE FirstOf(X) == {f \in X : \A g \in X : f.revision <= g.revision}
  <1>8. ImagesSinceBasis(k, basis) = {e.after : e \in S} \cup {e.before : e \in FirstOf(S)}
    BY DEF ImagesSinceBasis
  <1>9. ImagesSinceBasis(k, basis)' = {e.after : e \in T} \cup {e.before : e \in FirstOf(T)}
    BY DEF ImagesSinceBasis
  <1> HIDE DEF S, T
  <1>10. CASE S = {}
    <2>1. T = {new} /\ FirstOf(T) = {new} /\ FirstOf(S) = {}
      BY <1>10, <1>5, <1>4, <1>2
    <2>2. QED
      BY <2>1, <1>8, <1>9, <1>10, <1>4 DEF T
  <1>11. CASE S # {}
    <2>1. FirstOf(T) = FirstOf(S)
      BY <1>11, <1>5, <1>7, <1>4, <1>2
    <2>2. {e.after : e \in T} = {e.after : e \in S} \cup {after[k]}
      BY <1>5, <1>4
    <2>3. T # {} /\ owned'[k] \in {e.after : e \in T}
      BY <2>2, <1>5
    <2>4. ImagesSinceBasis(k, basis)' = ImagesSinceBasis(k, basis) \cup {after[k]}
      BY <2>1, <2>2, <1>8, <1>9
    <2>5. owned[k] \in ImagesSinceBasis(k, basis)
      BY <1>6, <1>8, <1>11
    <2>6. QED
      BY <2>3, <2>4, <2>5 DEF T
  <1>12. QED
    BY <1>10, <1>11

\* The row histories explain every version a save may still be based on.
LEMMA HistoryInvariant == Spec => []HistoryInv
  <1>1. Init => HistoryInv
    <2> SUFFICES ASSUME Init PROVE HistoryInv
      OBVIOUS
    <2>1. \A k \in Keys : \A b : Since(k, b) = {}
      BY DEF Init, Since
    <2>2. \A k \in Keys : \A b : ImagesSinceBasis(k, b) = {}
      BY <2>1, NothingSince
    <2>3. past[1].owned = owned /\ rev = 1 /\ lastNonOp = 1 /\ 1 .. 1 = {1}
      BY DEF Init
    <2>4. QED
      BY <2>1, <2>2, <2>3 DEF HistoryInv, Init
  <1>2. TypeOK /\ VersionsInv /\ HistoryInv /\ [Next]_vars => HistoryInv'
    <2> SUFFICES ASSUME TypeOK, VersionsInv, HistoryInv, [Next]_vars PROVE HistoryInv'
      OBVIOUS
    <2>0. /\ rev \in Nat \ {0} /\ lastNonOp \in Nat
          /\ \A k \in Keys : \A e \in history[k] : e.revision \in Nat /\ e.revision <= rev
      BY DEF TypeOK, HistoryInv, Entry
    <2>1. CASE UNCHANGED <<storeVars, past>>
      <3>1. \A k, b : Since(k, b)' = Since(k, b)
        BY <2>1 DEF Since, storeVars
      <3>2. \A k, b : ImagesSinceBasis(k, b)' = ImagesSinceBasis(k, b)
        BY <3>1 DEF ImagesSinceBasis
      <3>3. QED
        BY <2>1, <3>1, <3>2 DEF HistoryInv, storeVars
    <2>2. ASSUME DocumentStep PROVE HistoryInv'
      <3>1. /\ history' = history /\ rev' = rev + 1 /\ lastNonOp' = rev + 1
            /\ past'[rev + 1].owned = owned'
        BY <2>2 DEF DocumentStep, NewVersion
      <3>2. \A k \in Keys : \A b : b = rev + 1 => Since(k, b)' = {}
        BY <3>1, <2>0 DEF Since
      <3>3. \A k \in Keys : \A b : b = rev + 1 => ImagesSinceBasis(k, b)' = {}
        BY <3>2 DEF ImagesSinceBasis
      <3>4. lastNonOp' .. rev' = {rev + 1}
        BY <3>1, <2>0
      <3>5. \A k \in Keys : \A e \in history'[k] : e.revision <= rev'
        BY <3>1, <2>0
      <3>6. QED
        <4>1. ASSUME NEW k \in Keys, NEW b \in lastNonOp' .. rev'
              PROVE  /\ Since(k, b)' = {} /\ ImagesSinceBasis(k, b)' = {}
                     /\ b .. rev' = {rev + 1} /\ past'[rev + 1].owned = owned'
          BY <3>1, <3>2, <3>3, <3>4, <2>0
        <4>2. QED
          BY <3>5, <4>1 DEF HistoryInv
    <2>3. ASSUME OperationStep PROVE HistoryInv'
      <3>1. PICK after \in Outcomes : owned' = after /\ history' = Stamped(after, rev + 1)
        BY <2>3 DEF OperationStep
      <3>2. /\ after \in Rows /\ rev' = rev + 1 /\ lastNonOp' = lastNonOp
            /\ past'[rev + 1].owned = owned'
            /\ \A v \in 1 .. rev : past'[v].owned = past[v].owned
        BY <2>3, <3>1 DEF OperationStep, NewVersion, Outcomes
      <3>3. \A k \in Keys : \A e \in history'[k] : e.revision \in Nat /\ e.revision <= rev'
        BY <3>1, <3>2, <2>0 DEF Stamped
      <3>4. \A k \in Keys : \A b : b = rev + 1 => Since(k, b)' = {}
        BY <3>2, <3>3, <2>0 DEF Since
      <3>5. \A k \in Keys : \A b : b = rev + 1 => ImagesSinceBasis(k, b)' = {}
        BY <3>4 DEF ImagesSinceBasis
      <3>6. ASSUME NEW k \in Keys, NEW basis \in lastNonOp' .. rev'
            PROVE  /\ Since(k, basis)' # {} => owned'[k] \in {e.after : e \in Since(k, basis)'}
                   /\ \A image \in Images \cup {Absent} :
                        (image = owned'[k] \/ image \in ImagesSinceBasis(k, basis)')
                          <=> \E v \in basis .. rev' : past'[v].owned[k] = image
        <4>1. CASE basis = rev + 1
          <5>1. basis .. rev' = {rev + 1}
            BY <4>1, <3>2, <2>0
          <5>2. QED
            BY <5>1, <4>1, <3>4, <3>5, <3>2
        <4>2. CASE basis # rev + 1
          <5>1. basis \in lastNonOp .. rev /\ basis \in 1 .. rev
            BY <4>2, <3>2, <2>0 DEF VersionsInv
          <5>2. \A image : (\E v \in basis .. rev' : past'[v].owned[k] = image)
                  <=> image = owned'[k] \/ \E v \in basis .. rev : past[v].owned[k] = image
            <6>1. basis .. rev' = (basis .. rev) \cup {rev + 1}
              BY <5>1, <3>2, <2>0
            <6>2. \A v \in basis .. rev : past'[v].owned = past[v].owned
              BY <5>1, <3>2, <2>0
            <6>3. QED
              BY <6>1, <6>2, <3>2
          <5>3. \A image \in Images \cup {Absent} :
                  (image = owned[k] \/ image \in ImagesSinceBasis(k, basis))
                    <=> \E v \in basis .. rev : past[v].owned[k] = image
            BY <5>1 DEF HistoryInv
          <5>4. CASE after[k] = owned[k]
            <6>1. history'[k] = history[k] /\ owned'[k] = owned[k]
              BY <5>4, <3>1 DEF Stamped
            <6>2. Since(k, basis)' = Since(k, basis)
              BY <6>1 DEF Since
            <6>3. ImagesSinceBasis(k, basis)' = ImagesSinceBasis(k, basis)
              BY <6>2 DEF ImagesSinceBasis
            <6>4. Since(k, basis) # {} => owned[k] \in {e.after : e \in Since(k, basis)}
              BY <5>1 DEF HistoryInv
            <6>5. QED
              BY <6>1, <6>2, <6>3, <6>4, <5>2, <5>3
          <5>5. CASE after[k] # owned[k]
            <6>1. /\ owned'[k] \in {e.after : e \in Since(k, basis)'}
                  /\ \A image : (image = owned'[k] \/ image \in ImagesSinceBasis(k, basis)')
                       <=> \/ image = after[k] \/ image = owned[k]
                           \/ image \in ImagesSinceBasis(k, basis)
              BY <5>5, <5>1, <3>1, <3>2, StampExtends
            <6>2. QED
              BY <6>1, <5>2, <5>3, <3>1
          <5>6. QED
            BY <5>4, <5>5
        <4>3. QED
          BY <4>1, <4>2
      <3>7. QED
        BY <3>3, <3>6 DEF HistoryInv
    <2>4. QED
      BY <2>1, <2>2, <2>3, StepKinds
  <1>3. QED
    BY <1>1, <1>2, TypeCorrect, VersionsTrue, PTL DEF Spec

\* For every basis a save may still use, the fence lets a row pass if and only
\* if the store held exactly that row at the basis or later.
THEOREM FenceIsExact == Spec => []FenceExact
  <1>1. TypeOK /\ VersionsInv /\ HistoryInv => FenceExact
    <2> SUFFICES ASSUME TypeOK, VersionsInv, HistoryInv,
                        NEW basis \in lastNonOp .. rev, NEW image \in Images \cup {Absent}
                 PROVE  /\ \A k \in RowKeys : KeyAccepted(k, image, basis) <=>
                             \E v \in basis .. rev : past[v].owned[k] = image
                        /\ \A k \in StateKeys : KeyAccepted(k, image, basis) <=>
                             \E v \in basis .. rev : (past[v].owned[k] = Absent) = (image = Absent)
      BY DEF FenceExact
    <2>1. ASSUME NEW k \in RowKeys
          PROVE  KeyAccepted(k, image, basis) <=> \E v \in basis .. rev : past[v].owned[k] = image
      <3>1. k \in Keys /\ k \notin StateKeys
        BY KeysAssumption DEF Keys
      <3>2. QED
        BY <3>1 DEF KeyAccepted, HistoryInv
    <2>2. ASSUME NEW k \in StateKeys
          PROVE  KeyAccepted(k, image, basis) <=>
                   \E v \in basis .. rev : (past[v].owned[k] = Absent) = (image = Absent)
      <3>1. k \in Keys /\ k \notin RowKeys
        BY KeysAssumption DEF Keys
      <3>2. \A i \in Images \cup {Absent} :
              (i = owned[k] \/ i \in ImagesSinceBasis(k, basis))
                <=> \E v \in basis .. rev : past[v].owned[k] = i
        BY <3>1 DEF HistoryInv
      <3>3. ImagesSinceBasis(k, basis) \subseteq Images \cup {Absent}
        BY <3>1 DEF ImagesSinceBasis, Since, TypeOK, Entry
      <3>4. owned[k] \in Images \cup {Absent}
        BY <3>1 DEF TypeOK, Rows
      <3>5. \A v \in basis .. rev : past[v].owned[k] \in Images \cup {Absent}
        <4>1. \A v \in basis .. rev : past[v].owned[k] \in Images \cup {Absent} \/ v \notin 1 .. rev
          BY <3>1 DEF TypeOK, View, Rows
        <4>2. QED
          BY <4>1 DEF TypeOK, VersionsInv
      <3>6. KeyAccepted(k, image, basis)
              <=> \E i \in ImagesSinceBasis(k, basis) \cup {owned[k]} :
                    (i = Absent) = (image = Absent)
        BY <3>1 DEF KeyAccepted
      <3>7. QED
        BY <3>2, <3>3, <3>4, <3>5, <3>6
    <2>3. QED
      BY <2>1, <2>2
  <1>2. QED
    BY <1>1, TypeCorrect, VersionsTrue, HistoryInvariant, PTL

-----------------------------------------------------------------------------
(***************************************************************************)
(* No lost update.                                                         *)
(***************************************************************************)

\* A basis that still passes saw the present document, and every schedule row it
\* saw is still as it was, unless an operation removed the card.
THEOREM SavesSawThePresent == Spec => []DocumentBasisIsCurrent
  <1>1. Init => DocumentBasisIsCurrent
    BY DEF Init, DocumentBasisIsCurrent
  <1>2. TypeOK /\ VersionsInv /\ DocumentBasisIsCurrent /\ [Next]_vars => DocumentBasisIsCurrent'
    <2> SUFFICES ASSUME TypeOK, VersionsInv, DocumentBasisIsCurrent, [Next]_vars
                 PROVE  DocumentBasisIsCurrent'
      OBVIOUS
    <2>0. rev \in Nat \ {0} /\ lastNonOp \in 1 .. rev
      BY DEF TypeOK, VersionsInv
    <2>1. CASE DocumentStep
      <3>1. lastNonOp' .. rev' = {rev + 1}
        BY <2>1, <2>0 DEF DocumentStep, NewVersion
      <3>2. QED
        BY <2>1, <3>1 DEF DocumentStep, NewVersion, DocumentBasisIsCurrent
    <2>2. CASE OperationStep
      <3>1. PICK after \in Outcomes : owned' = after
        BY <2>2 DEF OperationStep
      <3>2. /\ rev' = rev + 1 /\ UNCHANGED <<lastNonOp, doc, active, audit, bundles>>
            /\ \A v \in 1 .. rev : past'[v] = past[v]
            /\ past'[rev + 1].owned = owned' /\ past'[rev + 1].doc = doc'
            /\ past'[rev + 1].active = active' /\ past'[rev + 1].audit = audit'
            /\ past'[rev + 1].bundles = bundles'
        BY <2>2 DEF OperationStep, NewVersion
      <3>3. ASSUME NEW basis \in lastNonOp' .. rev'
            PROVE  /\ past'[basis].doc = doc' /\ past'[basis].active = active'
                   /\ past'[basis].audit = audit' /\ past'[basis].bundles = bundles'
                   /\ \A k \in StateKeys : owned'[k] # Absent /\ past'[basis].owned[k] # Absent
                        => past'[basis].owned[k] = owned'[k]
        <4>1. CASE basis = rev + 1
          BY <4>1, <3>2
        <4>2. CASE basis # rev + 1
          <5>1. basis \in lastNonOp .. rev /\ basis \in 1 .. rev
            BY <4>2, <3>2, <2>0
          <5>2. /\ past[basis].doc = doc /\ past[basis].active = active
                /\ past[basis].audit = audit /\ past[basis].bundles = bundles
                /\ \A k \in StateKeys : owned[k] # Absent /\ past[basis].owned[k] # Absent
                     => past[basis].owned[k] = owned[k]
            BY <5>1 DEF DocumentBasisIsCurrent
          <5>3. ASSUME NEW k \in StateKeys, owned'[k] # Absent, past[basis].owned[k] # Absent
                PROVE  past[basis].owned[k] = owned'[k]
            <6>1. CASE owned[k] # Absent
              BY <6>1, <5>2, <5>3, <3>1 DEF Outcomes
            <6>2. CASE owned[k] = Absent
              <7>1. k \in Keys
                BY DEF Keys
              <7>2. \A v \in 1 .. rev : past[v].owned[k] = Absent
                BY <6>2, <7>1, <5>3, <3>1 DEF Outcomes
              <7>3. QED
                BY <7>2, <5>1, <5>3
            <6>3. QED
              BY <6>1, <6>2
          <5>4. past'[basis] = past[basis]
            BY <5>1, <3>2
          <5>5. QED
            BY <5>2, <5>3, <5>4, <3>2
        <4>3. QED
          BY <4>1, <4>2
      <3>4. QED
        BY <3>3 DEF DocumentBasisIsCurrent
    <2>3. CASE UNCHANGED <<storeVars, past>>
      BY <2>3 DEF storeVars, DocumentBasisIsCurrent
    <2>4. QED
      BY <2>1, <2>2, <2>3, StepKinds
  <1>3. QED
    BY <1>1, <1>2, TypeCorrect, VersionsTrue, PTL DEF Spec

-----------------------------------------------------------------------------
(***************************************************************************)
(* What a fenced write, a restore and every other step do to the rows.     *)
(***************************************************************************)

\* A document save whose basis passed, or the unconditional writer.
SaveStep ==
  \E basis \in lastNonOp .. rev : \E body \in Bodies(basis) : \E b \in SUBSET Tracks :
    WriteFenced(body, basis, b)

\* A step is one of five kinds for the rows and the history.
LEMMA Cases ==
  ASSUME TypeOK, VersionsInv, [Next]_vars
  PROVE  \/ SaveStep
         \/ SaveTrackTranscript
         \/ CommitRestore
         \/ OperationStep /\ generation' = generation
         \/ UNCHANGED <<storeVars, past, generation>>
  <1>0. rev \in lastNonOp .. rev /\ bundles \in SUBSET Tracks
    BY DEF VersionsInv, TypeOK
  <1>1. CASE SaveLearnerState
    <2>1. PICK basis \in 1 .. rev :
             DocumentBasisOK(basis) /\ \E body \in Bodies(basis) : WriteFenced(body, basis, bundles)
      BY <1>1 DEF SaveLearnerState
    <2>2. QED
      BY <2>1, <1>0 DEF SaveStep, DocumentBasisOK
  <1>2. CASE SaveSnapshot
    <2>1. PICK body \in Bodies(rev), new \in SUBSET Tracks : WriteFenced(body, rev, bundles \cup new)
      BY <1>2 DEF SaveSnapshot
    <2>2. bundles \cup new \in SUBSET Tracks
      BY <1>0
    <2>3. QED
      BY <2>1, <2>2, <1>0 DEF SaveStep
  <1>3. CASE PreviewRestore \/ NewRequest \/ Restart
    BY <1>3 DEF PreviewRestore, NewRequest, Restart
  <1>4. ASSUME NEW r \in requests, Deliver(r)
        PROVE  \/ OperationStep /\ generation' = generation
               \/ UNCHANGED <<storeVars, past, generation>>
    <2>1. CASE Apply(r)
      <3>1. generation' = generation /\ rev' = rev + 1
        BY <2>1 DEF Apply
      <3>2. rev' # rev
        BY <3>1 DEF TypeOK
      <3>3. ~DocumentStep
        BY <2>1 DEF Apply, DocumentStep, VersionsInv, TypeOK
      <3>4. OperationStep \/ UNCHANGED <<storeVars, past>>
        BY <1>4, <3>3, StepKinds DEF Next
      <3>5. QED
        BY <3>1, <3>2, <3>4 DEF storeVars
    <2>2. CASE Replay(r) \/ Refuse(r) \/ Conflict(r) \/ ApplyUnchanged(r)
      BY <2>2 DEF Replay, Refuse, Conflict, ApplyUnchanged
    <2>3. QED
      BY <1>4, <2>1, <2>2 DEF Deliver
  <1>5. CASE UNCHANGED vars
    BY <1>5 DEF vars
  <1>6. QED
    BY <1>1, <1>2, <1>3, <1>4, <1>5 DEF Next

\* What a fenced save does to rows and history.
LEMMA SaveEffect ==
  ASSUME TypeOK, NEW basis, NEW body, NEW b, WriteFenced(body, basis, b)
  PROVE  /\ owned' = (IF protection THEN FencedRows(body) ELSE body.owned)
         /\ active' = active \cup body.events
         /\ audit' = audit \cup body.audit
         /\ generation' = generation
  BY CommitIsDocumentStep DEF WriteFenced

\* A saved transcript leaves rows, history and document alone.
LEMMA TrackEffect ==
  ASSUME TypeOK, SaveTrackTranscript
  PROVE  UNCHANGED <<owned, active, audit, generation, doc>>
  BY CommitIsDocumentStep DEF SaveTrackTranscript

\* What a committed restore does to rows and history.
LEMMA RestoreEffect ==
  ASSUME TypeOK, CommitRestore
  PROVE  /\ preview \in Preview /\ preview.revision = rev
         /\ ReferencesOK(preview.mode, preview.content)
         /\ owned' = PlannedRows(preview.mode, preview.content)
         /\ active' = PlannedHistory(preview.mode, preview.content)
         /\ audit' = audit \cup active \cup preview.content.events
         /\ generation' = generation + 1
  BY CommitIsDocumentStep DEF CommitRestore, PreviewIsCurrent, TypeOK

\* A document writer leaves the vocabulary rows and the set of schedule rows
\* alone once the fence is up.
THEOREM FenceKeepsRows == Spec => DocumentsKeepOwnedRows
  <1>1. ASSUME TypeOK, VersionsInv, [Next]_vars,
               protection, lastNonOp' # lastNonOp, generation' = generation
        PROVE  /\ \A k \in RowKeys : owned'[k] = owned[k]
               /\ \A k \in StateKeys : (owned'[k] = Absent) = (owned[k] = Absent)
    <2>1. CASE SaveStep
      <3>1. PICK basis \in lastNonOp .. rev :
               \E body \in Bodies(basis) : \E b \in SUBSET Tracks : WriteFenced(body, basis, b)
        BY <2>1 DEF SaveStep
      <3>2. PICK body \in Bodies(basis) : \E b \in SUBSET Tracks : WriteFenced(body, basis, b)
        BY <3>1
      <3>3. owned' = FencedRows(body)
        BY <1>1, <3>2, SaveEffect
      <3>4. RowKeys \cap StateKeys = {}
        BY KeysAssumption
      <3>5. QED
        BY <3>3, <3>4 DEF FencedRows, Keys
    <2>2. CASE SaveTrackTranscript
      BY <1>1, <2>2, TrackEffect
    <2>3. CASE CommitRestore
      BY <1>1, <2>3, RestoreEffect DEF TypeOK
    <2>4. CASE OperationStep
      BY <1>1, <2>4 DEF OperationStep
    <2>5. CASE UNCHANGED <<storeVars, past, generation>>
      BY <2>5 DEF storeVars
    <2>6. QED
      BY <1>1, <2>1, <2>2, <2>3, <2>4, <2>5, Cases
  <1>2. TypeOK /\ VersionsInv /\ [Next]_vars =>
          [protection /\ lastNonOp' # lastNonOp /\ generation' = generation =>
             /\ \A k \in RowKeys : owned'[k] = owned[k]
             /\ \A k \in StateKeys : (owned'[k] = Absent) = (owned[k] = Absent)]_vars
    BY <1>1
  <1>3. QED
    BY <1>2, TypeCorrect, VersionsTrue, PTL DEF Spec, DocumentsKeepOwnedRows

\* What a restore commits is computed from the rows and history the confirmed
\* preview was computed from.
THEOREM RestoreAsConfirmed == Spec => RestoreOfWhatWasSeen
  <1>1. ASSUME TypeOK, VersionsInv, [Next]_vars, generation' # generation
        PROVE  past[preview.revision].owned = owned /\ past[preview.revision].active = active
    <2>1. CASE SaveStep
      BY <1>1, <2>1, SaveEffect DEF SaveStep
    <2>2. CASE SaveTrackTranscript
      BY <1>1, <2>2, TrackEffect
    <2>3. CASE CommitRestore
      BY <1>1, <2>3, RestoreEffect DEF VersionsInv
    <2>4. QED
      BY <1>1, <2>1, <2>2, <2>3, Cases
  <1>2. TypeOK /\ VersionsInv /\ [Next]_vars =>
          [generation' # generation => /\ past[preview.revision].owned = owned
                                       /\ past[preview.revision].active = active]_vars
    BY <1>1
  <1>3. QED
    BY <1>2, TypeCorrect, VersionsTrue, PTL DEF Spec, RestoreOfWhatWasSeen

-----------------------------------------------------------------------------
(***************************************************************************)
(* Study history.                                                          *)
(***************************************************************************)

\* Active history is audited.
ActiveInv == NoOrphanHistory /\ active \subseteq audit

\* A save that passes carries the present history: new events are on cards the
\* store still has, whichever of rows and body wins.
LEMMA SaveKeepsCards ==
  ASSUME TypeOK, VersionsInv, DocumentBasisIsCurrent, ActiveInv, SaveStep
  PROVE  ActiveInv' /\ audit \subseteq audit' /\ active \subseteq active'
         /\ (active' \ active) \cap audit = {} /\ generation' = generation
  <1>1. PICK basis \in lastNonOp .. rev :
           \E body \in Bodies(basis) : \E b \in SUBSET Tracks : WriteFenced(body, basis, b)
    BY DEF SaveStep
  <1>2. PICK body \in Bodies(basis) : \E b \in SUBSET Tracks : WriteFenced(body, basis, b)
    BY <1>1
  <1>3. /\ owned' = (IF protection THEN FencedRows(body) ELSE body.owned)
        /\ active' = active \cup body.events
        /\ audit' = audit \cup body.audit
        /\ generation' = generation
    BY <1>2, SaveEffect
  <1>4. /\ active \subseteq body.events /\ body.events \subseteq body.audit
        /\ \A e \in body.events : body.owned[EventCard[e]] # Absent
        /\ body.events \subseteq Events /\ active \subseteq Events
    BY <1>1, <1>2 DEF Bodies, DocumentBasisIsCurrent, TypeOK
  <1>5. /\ body.events \cap (audit \ active) = {}
        /\ protection => Orphans(body.audit) = {}
    BY <1>2 DEF WriteFenced, Reactivates
  <1>6. ASSUME NEW e \in active' PROVE owned'[EventCard[e]] # Absent
    <2>1. e \in body.events /\ e \in Events
      BY <1>3, <1>4
    <2>2. CASE ~protection
      BY <2>1, <2>2, <1>3, <1>4
    <2>3. CASE protection
      <3>1. EventCard[e] \in RowKeys /\ EventCard[e] \in Keys /\ EventCard[e] \notin StateKeys
        BY <2>1, KeysAssumption DEF Keys
      <3>2. owned'[EventCard[e]] = owned[EventCard[e]]
        BY <2>3, <1>3, <3>1 DEF FencedRows
      <3>3. CASE e \in active
        BY <3>2, <3>3 DEF ActiveInv, NoOrphanHistory
      <3>4. CASE e \notin active
        <4>1. e \in body.audit /\ e \notin audit \cup active
          BY <2>1, <3>4, <1>4, <1>5
        <4>2. QED
          BY <4>1, <3>2, <2>3, <1>5 DEF Orphans
      <3>5. QED
        BY <3>3, <3>4
    <2>4. QED
      BY <2>2, <2>3
  <1>7. NoOrphanHistory'
    BY <1>6 DEF NoOrphanHistory
  <1>8. QED
    BY <1>3, <1>4, <1>5, <1>7 DEF ActiveInv

\* A restore keeps every active event on a card that is there, and forgets none.
LEMMA RestoreKeepsCards ==
  ASSUME TypeOK, ActiveInv, CommitRestore
  PROVE  ActiveInv' /\ audit \cup active \subseteq audit' /\ generation' # generation
  <1> DEFINE mode == preview.mode
             content == preview.content
  <1>1. /\ content \in Files /\ ReferencesOK(mode, content)
        /\ owned' = PlannedRows(mode, content)
        /\ active' = PlannedHistory(mode, content)
        /\ audit' = audit \cup active \cup content.events
        /\ generation' = generation + 1
    BY RestoreEffect DEF Preview
  <1>2. content.events \subseteq Events
    BY <1>1, FilesAssumption
  <1> HIDE DEF mode, content
  <1>3. ASSUME NEW e \in active' PROVE owned'[EventCard[e]] # Absent
    <2>1. CASE e \in content.events
      BY <2>1, <1>1 DEF ReferencesOK
    <2>2. CASE e \notin content.events
      <3>1. mode = "merge" /\ e \in active
        BY <1>1, <2>2 DEF PlannedHistory
      <3>2. e \in Events /\ EventCard[e] \in Keys /\ owned[EventCard[e]] # Absent
        BY <3>1, KeysAssumption DEF TypeOK, Keys, ActiveInv, NoOrphanHistory
      <3>3. QED
        BY <1>1, <3>1, <3>2 DEF PlannedRows
    <2>3. QED
      BY <2>1, <2>2
  <1>4. active' \subseteq audit'
    BY <1>1 DEF PlannedHistory
  <1>5. QED
    BY <1>1, <1>3, <1>4 DEF ActiveInv, NoOrphanHistory, TypeOK

\* Every kind of step keeps the history and the cards it is about.
LEMMA HistoryStep ==
  ASSUME TypeOK, VersionsInv, DocumentBasisIsCurrent, ActiveInv, [Next]_vars
  PROVE  /\ ActiveInv'
         /\ audit \cup active \subseteq audit'
         /\ active \subseteq active' \/ generation' # generation
         /\ (active' \ active) \cap audit = {} \/ generation' # generation
  <1>1. CASE SaveStep
    BY <1>1, SaveKeepsCards DEF ActiveInv
  <1>2. CASE SaveTrackTranscript
    BY <1>2, TrackEffect DEF ActiveInv, NoOrphanHistory
  <1>3. CASE CommitRestore
    BY <1>3, RestoreKeepsCards
  <1>4. CASE OperationStep
    <2>1. PICK after \in Outcomes : owned' = after
      BY <1>4 DEF OperationStep
    <2>2. UNCHANGED <<active, audit>>
      BY <1>4 DEF OperationStep
    <2>3. QED
      BY <2>1, <2>2 DEF Outcomes, ActiveInv, NoOrphanHistory
  <1>5. CASE UNCHANGED <<storeVars, past>>
    BY <1>5 DEF storeVars, ActiveInv, NoOrphanHistory
  <1>6. QED
    BY <1>1, <1>2, <1>3, <1>4, <1>5, Cases

\* The active history always lies in the audit and on cards that are there.
LEMMA ActiveInvariant == Spec => []ActiveInv
  <1>1. Init => ActiveInv
    BY DEF Init, ActiveInv, NoOrphanHistory
  <1>2. TypeOK /\ VersionsInv /\ DocumentBasisIsCurrent /\ ActiveInv /\ [Next]_vars => ActiveInv'
    BY HistoryStep
  <1>3. QED
    BY <1>1, <1>2, TypeCorrect, VersionsTrue, SavesSawThePresent, PTL DEF Spec

\* No review is ever stored for a card that is gone.
THEOREM HistoryHasItsCards == Spec => []NoOrphanHistory
  <1>1. ActiveInv => NoOrphanHistory
    BY DEF ActiveInv
  <1>2. QED
    BY <1>1, ActiveInvariant, PTL

\* History only grows; what a restore made inactive stays so until a restore.
THEOREM HistoryIsKept == Spec => HistoryKept
  <1>1. TypeOK /\ VersionsInv /\ DocumentBasisIsCurrent /\ ActiveInv /\ [Next]_vars =>
          [/\ audit \cup active \subseteq audit'
           /\ active \subseteq active' \/ generation' # generation
           /\ (active' \ active) \cap audit = {} \/ generation' # generation]_vars
    BY HistoryStep
  <1>2. QED
    BY <1>1, TypeCorrect, VersionsTrue, SavesSawThePresent, ActiveInvariant, PTL
    DEF Spec, HistoryKept

-----------------------------------------------------------------------------
(***************************************************************************)
(* The learner store implements OperationContract.                         *)
(***************************************************************************)
\* Deciding a request is the contract's Execute, with the receipt just issued.
LEMMA DecidingExecutes ==
  ASSUME TypeOK, TypeOK', LedgerInv, NEW r \in requests, Eligible(r),
         NEW status \in {"applied", "conflict"}, NEW revision \in Nat \ {0},
         IssueReceipt(r, status, revision),
         UNCHANGED <<requests, generation>>,
         status = "conflict" => UNCHANGED <<owned, protection>>,
         status = "applied" => protection' = TRUE
  PROVE  Contract!ContractNext
  <1>0. PICK receipt : receipt = [request |-> r, seq |-> nextSeq, revision |-> revision,
                                  generation |-> generation, status |-> status]
    OBVIOUS
  <1>1. issued' = issued \cup {receipt} /\ answers' = answers \cup {<<r, receipt>>}
    BY <1>0 DEF IssueReceipt, Answer
  <1>2. receipt \in Receipt
    BY <1>0 DEF TypeOK, Receipt
  <1>3. receipt.request = r /\ receipt.generation = generation /\ receipt.status = status
    BY <1>0
  <1>4. \A x \in issued : x.request # r
    BY EligibleIsNew
  <1>5. receipt \in issued' \ issued
    BY <1>1, <1>3, <1>4
  <1>6. CASE status = "conflict"
    <2>1. Contract!Execute(r, receipt)
      BY <1>1, <1>2, <1>3, <1>4, <1>6 DEF Contract!Execute
    <2>2. QED
      BY <2>1, <1>5 DEF Contract!ContractNext
  <1>7. CASE status = "applied"
    <2>1. [k \in RowKeys |-> owned[k]]' \in [RowKeys -> Images \cup {Absent}]
      BY DEF TypeOK, Rows, Keys
    <2>2. Contract!Execute(r, receipt)
      BY <1>1, <1>2, <1>3, <1>4, <1>7, <2>1 DEF Contract!Execute
    <2>3. QED
      BY <2>2, <1>5 DEF Contract!ContractNext
  <1>8. QED
    BY <1>6, <1>7

\* The store keeps the promises of the contract: exactly-once execution with one
\* receipt, and vocabulary changed by operations and restores only.
THEOREM StoreImplementsContract == Spec => ImplementsContract
  <1>1. Init => Contract!ContractInit
    <2> SUFFICES ASSUME Init PROVE Contract!ContractInit
      OBVIOUS
    <2>1. [k \in RowKeys |-> owned[k]] \in [RowKeys -> Images \cup {Absent}]
      BY DEF Init, Keys
    <2>2. protection = FALSE
      BY DEF Init
    <2>3. requests = {} /\ issued = {} /\ answers = {} /\ generation = 0
      BY DEF Init
    <2>4. QED
      BY <2>1, <2>2, <2>3 DEF Contract!ContractInit
  <1>2. TypeOK /\ TypeOK' /\ LedgerInv /\ VersionsInv /\ [Next]_vars
          => [Contract!ContractNext]_(Contract!contractVars)
    <2> SUFFICES ASSUME TypeOK, TypeOK', LedgerInv, VersionsInv, [Next]_vars
                 PROVE  Contract!ContractNext \/ UNCHANGED Contract!contractVars
      OBVIOUS
    <2>0. /\ [k \in RowKeys |-> owned[k]] \in [RowKeys -> Images \cup {Absent}]
          /\ [k \in RowKeys |-> owned[k]]' \in [RowKeys -> Images \cup {Absent}]
      BY DEF TypeOK, Rows, Keys
    <2>1. ASSUME UNCHANGED <<requests, issued, answers, protection, generation>>,
                 protection => \A k \in RowKeys : owned'[k] = owned[k]
          PROVE  Contract!ContractNext \/ UNCHANGED Contract!contractVars
      <3>1. CASE protection
        <4>1. [k \in RowKeys |-> owned[k]]' = [k \in RowKeys |-> owned[k]]
          BY <2>1, <3>1
        <4>2. QED
          BY <2>1, <4>1 DEF Contract!contractVars
      <3>2. CASE ~protection
        <4>1. Contract!WriteDocument
          BY <2>0, <2>1, <3>2 DEF Contract!WriteDocument
        <4>2. QED
          BY <4>1 DEF Contract!ContractNext
      <3>3. QED
        BY <3>1, <3>2
    <2>2. ASSUME NEW basis, NEW body, NEW b, WriteFenced(body, basis, b)
          PROVE  Contract!ContractNext \/ UNCHANGED Contract!contractVars
      <3>1. UNCHANGED <<requests, issued, answers, protection, generation>>
        BY <2>2 DEF WriteFenced, ledgerVars
      <3>2. owned' = (IF protection THEN FencedRows(body) ELSE body.owned)
        BY <2>2, SaveEffect
      <3>3. protection => \A k \in RowKeys : owned'[k] = owned[k]
        BY <3>2, KeysAssumption DEF FencedRows, Keys
      <3>4. QED
        BY <2>1, <3>1, <3>3
    <2>3. CASE SaveLearnerState
      BY <2>2, <2>3 DEF SaveLearnerState
    <2>4. CASE SaveSnapshot
      BY <2>2, <2>4 DEF SaveSnapshot
    <2>5. CASE SaveTrackTranscript
      <3>1. UNCHANGED <<requests, issued, answers, protection, generation>>
        BY <2>5 DEF SaveTrackTranscript, ledgerVars
      <3>2. QED
        BY <2>1, <2>5, <3>1, TrackEffect
    <2>6. CASE PreviewRestore \/ Restart \/ UNCHANGED vars
      BY <2>6 DEF PreviewRestore, Restart, vars, storeVars, ledgerVars, Contract!contractVars
    <2>7. CASE CommitRestore
      <3>1. /\ UNCHANGED <<requests, issued, answers, protection>>
            /\ generation' = generation + 1
        BY <2>7 DEF CommitRestore, ledgerVars
      <3>2. Contract!Replace
        BY <2>0, <3>1 DEF Contract!Replace
      <3>3. QED
        BY <3>2 DEF Contract!ContractNext
    <2>8. CASE NewRequest
      <3>1. requests \subseteq requests' /\ requests' \subseteq Request
        BY <2>8 DEF NewRequest, TypeOK
      <3>2. UNCHANGED <<issued, answers, protection, generation, owned>>
        BY <2>8 DEF NewRequest, storeVars, ledgerVars
      <3>3. Contract!Ask
        BY <3>1, <3>2 DEF Contract!Ask
      <3>4. QED
        BY <3>3 DEF Contract!ContractNext
    <2>9. ASSUME NEW r \in requests, Deliver(r)
          PROVE  Contract!ContractNext
      <3>0. r.id \in OpIds
        BY DEF TypeOK, Request
      <3>1. CASE Replay(r)
        <4>1. receipts[r.id] \in issued /\ receipts[r.id].request = r
          BY <3>0, <3>1 DEF Replay, LedgerInv, RetainedAboveBoundary
        <4>2. /\ answers' = answers \cup {<<r, receipts[r.id]>>}
              /\ UNCHANGED <<requests, issued, protection, generation, owned>>
          BY <3>1 DEF Replay, Answer, storeVars, ledgerVars
        <4>3. Contract!AnswerAgain(r, receipts[r.id])
          BY <4>1, <4>2 DEF Contract!AnswerAgain
        <4>4. QED
          BY <4>1, <4>3 DEF Contract!ContractNext
      <3>2. CASE Refuse(r)
        <4> DEFINE refusal == [status |-> "refused", code |-> Refusal(r)]
        <4>1. refusal \in Refusals
          BY DEF Refusals, Refusal
        <4>2. /\ answers' = answers \cup {<<r, refusal>>}
              /\ UNCHANGED <<requests, issued, protection, generation, owned>>
          BY <3>2 DEF Refuse, Answer, storeVars, ledgerVars
        <4> HIDE DEF refusal
        <4>3. Contract!AnswerAgain(r, refusal)
          BY <4>1, <4>2 DEF Contract!AnswerAgain
        <4>4. QED
          BY <4>1, <4>3 DEF Contract!ContractNext
      <3>3. CASE Conflict(r)
        <4>1. /\ Eligible(r) /\ IssueReceipt(r, "conflict", rev)
              /\ UNCHANGED <<requests, generation, owned, protection>>
          BY <3>3 DEF Conflict, storeVars
        <4>2. rev \in Nat \ {0}
          BY DEF TypeOK
        <4>3. QED
          BY <4>1, <4>2, DecidingExecutes
      <3>4. CASE ApplyUnchanged(r)
        <4>1. /\ Eligible(r) /\ IssueReceipt(r, "applied", rev)
              /\ UNCHANGED <<requests, generation>>
          BY <3>4 DEF ApplyUnchanged
        <4>2. rev \in Nat \ {0}
          BY DEF TypeOK
        <4>3. protection' = TRUE
          BY <3>4 DEF ApplyUnchanged
        <4>4. QED
          BY <4>1, <4>2, <4>3, DecidingExecutes
      <3>5. CASE Apply(r)
        <4>1. /\ Eligible(r) /\ IssueReceipt(r, "applied", rev + 1)
              /\ UNCHANGED <<requests, generation>>
          BY <3>5 DEF Apply
        <4>2. rev + 1 \in Nat \ {0}
          BY DEF TypeOK
        <4>3. protection' = TRUE
          BY <3>5 DEF Apply
        <4>4. QED
          BY <4>1, <4>2, <4>3, DecidingExecutes
      <3>6. QED
        BY <2>9, <3>1, <3>2, <3>3, <3>4, <3>5 DEF Deliver
    <2>10. QED
      BY <2>3, <2>4, <2>5, <2>6, <2>7, <2>8, <2>9 DEF Next
  <1>3. QED
    BY <1>1, <1>2, TypeCorrect, LedgerInvariant, VersionsTrue, PTL
    DEF Spec, ImplementsContract, Contract!ContractSpec
=============================================================================
