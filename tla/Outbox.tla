------------------------------- MODULE Outbox -------------------------------
(***************************************************************************)
(* The operation outbox of one browser (apps/web/src/operationOutbox.ts    *)
(* and the flush of apps/web/src/model.ts) against the operation endpoint  *)
(* of the service.                                                         *)
(*                                                                         *)
(* Every tab of the browser shares one IndexedDB store of records; each    *)
(* access is one readwrite transaction, hence one action here.  A tab      *)
(* flushes from a list it read at the start, one request at a time.  A     *)
(* request has no timeout: it may be answered late, fail while it is still *)
(* under way, or outlive the page that sent it.                            *)
(*                                                                         *)
(* Of the service the module has what LearnerStore shows: a request is     *)
(* executed at most once, a retained receipt is returned to every retry,   *)
(* and a request of an earlier lineage or process is refused.              *)
(***************************************************************************)
EXTENDS Integers, FiniteSets

CONSTANTS
  Tabs,            \* pages of the browser, by position: a reload keeps it
  MaxOps,          \* bound on the operations the learner creates
  Cap,             \* OUTBOX_CAP
  MaxLineage,      \* bound on restores of the service
  MaxProcess,      \* bound on restarts of the service
  MaxReloads,      \* bound on killed pages
  MaxStray,        \* bound on requests under way that no page waits for
  MaxForgotten,    \* bound on operations below the service's pruning boundary
  Kinds,           \* the kinds of operation the learner uses
  Drafts           \* the fields a capture may leave unapplied

\* Operations are numbered in creation order (OutboxRecord.order).
Ops == 1 .. MaxOps
None == 0

\* DraftField
Fields == {"meaning", "notes"}

ASSUME OutboxAssumption ==
  /\ MaxOps \in Nat
  /\ Cap \in Nat \ {0}
  /\ None \notin Tabs
  /\ Kinds \subseteq {"capture", "meaning", "undo"}
  /\ {} \in Drafts /\ Drafts \subseteq SUBSET Fields

VARIABLES
  outbox,     \* the operations object store
  todo,       \* tab -> records its flush has still to look at
  view,       \* tab -> the statuses its flush read, with its own changes
  flight,     \* tab -> the request it awaits, and the answer once there
  stray,      \* requests under way that no page waits for
  reapply,    \* tab -> the record whose Reapply is under way, and how far
  service,    \* what the service did with each operation
  forgotten,  \* operations below the service's pruning boundary
  lineage,    \* generation of the service
  process,    \* incarnation of the service
  source,     \* media and transcript of the captures are stored there
  reloads     \* killed pages so far

flushVars == <<todo, view, flight>>
serviceVars == <<service, forgotten, lineage, process, source>>
vars == <<outbox, flushVars, stray, reapply, serviceVars, reloads>>

-----------------------------------------------------------------------------
Unresolved == {"pending", "sending", "conflict", "blocked"}
Stored == Unresolved \cup {"acked", "cancelled"}
Statuses == Stored \cup {"unborn", "pruned"}
Codes == {"none", "not-applied", "source-unavailable", "superseded-by-restore",
          "depends-on-unresolved"}

(***************************************************************************)
(* prior is the operation a record was built on: the capture an undo       *)
(* depends on, the unresolved edit an edit of the same meaning is chained  *)
(* behind.  instead is the record a Reapply or a draft handoff replaces.   *)
(* open are the undecided fields of an unapplied draft, taken says that    *)
(* its meaning was handed off.  A deleted record keeps its fields here for *)
(* the properties only.                                                    *)
(***************************************************************************)
Record == [status: Stored \cup {"pruned"}, kind: {"capture", "meaning", "undo"},
           prior: Ops \cup {None}, instead: Ops \cup {None}, lineage: Nat, process: Nat,
           owner: Tabs \cup {None}, leased: BOOLEAN, sent: BOOLEAN, code: Codes,
           receipt: BOOLEAN, open: SUBSET Fields, taken: BOOLEAN]

NoRecord == [status |-> "unborn"]

\* What a receipt records, and what a browser makes of an answer.
Receipt == [outcome: {"applied", "conflict"}, lineage: Nat, draft: SUBSET Fields]
NotDone == [outcome |-> "none"]
Answers == [status: {"acked", "conflict", "blocked"}, code: Codes, receipt: BOOLEAN,
            open: SUBSET Fields]

Silence == [status |-> "silence"]
Idle == [op |-> None]
NoReapply == [op |-> None]

\* An undo was built on a capture, a meaning edit on an edit or on nothing.
PriorOK(o) ==
  LET prior == outbox[o].prior
  IN /\ prior = None <=> outbox[o].kind = "capture" \/ (outbox[o].kind = "meaning" /\ prior = None)
     /\ prior # None =>
          /\ prior < o
          /\ outbox[prior].kind = IF outbox[o].kind = "undo" THEN "capture" ELSE "meaning"

\* The records, their links and the browser's and the service's state have the
\* declared shape.
TypeOK ==
  /\ outbox \in [Ops -> Record \cup {NoRecord}]
  /\ todo \in [Tabs -> SUBSET Ops]
  /\ view \in [Tabs -> [Ops -> Statuses]]
  /\ flight \in [Tabs -> [op: Ops, answer: Answers \cup {Silence}] \cup {Idle}]
  /\ stray \in SUBSET Ops
  /\ reapply \in [Tabs -> [op: Ops, stored: BOOLEAN] \cup {NoReapply}]
  /\ service \in [Ops -> Receipt \cup {NotDone}]
  /\ forgotten \in SUBSET Ops
  /\ lineage \in Nat /\ process \in Nat /\ reloads \in Nat
  /\ source \in BOOLEAN
  /\ \A o \in Ops : outbox[o].status # "unborn" => PriorOK(o)

With(status) == {o \in Ops : outbox[o].status \in status}

NoView == [o \in Ops |-> "unborn"]

-----------------------------------------------------------------------------
(***************************************************************************)
(* Storing intents.                                                        *)
(***************************************************************************)

\* Mutant of Room: the record being added is not counted.
RoomForOneMore == Cardinality(With(Unresolved)) <= Cap

\* Unresolved records are counted in the transaction of the add.
Room == Cardinality(With(Unresolved)) < Cap

\* A new record of any tab, built on the identity the tab last saw: the service's
\* present one or an earlier one.
NewRecord(kind, prior, instead, l, p) ==
  [status |-> "pending", kind |-> kind, prior |-> prior, instead |-> instead,
   lineage |-> l, process |-> p, owner |-> None, leased |-> FALSE, sent |-> FALSE,
   code |-> "none", receipt |-> FALSE, open |-> {}, taken |-> FALSE]

\* add: o is the next free position in creation order.
Add(o, kind, prior, instead) ==
  /\ Room
  /\ kind \in Kinds
  /\ outbox[o].status = "unborn"
  /\ o > 1 => outbox[o - 1].status # "unborn"
  /\ \E l \in 0 .. lineage, p \in 0 .. process :
       outbox' = [outbox EXCEPT ![o] = NewRecord(kind, prior, instead, l, p)]

\* Mutant of PendingMeaning: what was pending is not asked for its kind.
PendingOfAnyKind == {None} \cup {o \in Ops : outbox[o].status # "unborn"}

\* pendingMeaningFor, on the list the tab shows: the last edit of the meaning under way
\* there.  The list is as old as the tab's last refresh, so the edit may be settled.
PendingMeaning ==
  {None} \cup {o \in Ops : outbox[o].status # "unborn" /\ outbox[o].kind = "meaning"}

Capture ==
  \E o \in Ops :
    /\ Add(o, "capture", None, None)
    /\ UNCHANGED <<flushVars, stray, reapply, serviceVars, reloads>>

EditMeaning ==
  \E o \in Ops, prior \in PendingMeaning :
    /\ Add(o, "meaning", prior, None)
    /\ UNCHANGED <<flushVars, stray, reapply, serviceVars, reloads>>

\* undoOperationSave of a capture that was sent; one never sent is discarded.
UndoCapture ==
  \E o \in Ops, c \in With(Stored) :
    /\ outbox[c].kind = "capture" /\ outbox[c].sent
    /\ Add(o, "undo", c, None)
    /\ UNCHANGED <<flushVars, stray, reapply, serviceVars, reloads>>

-----------------------------------------------------------------------------
(***************************************************************************)
(* The service.                                                            *)
(***************************************************************************)
Current(o) ==
  /\ outbox[o].lineage = lineage
  /\ outbox[o].process = process
  /\ o \notin forgotten

Applied(o) == service[o].outcome = "applied"

\* What a first execution may record; {} where the callback throws instead.
Executions(o) ==
  LET receipt(outcome, draft) == [outcome |-> outcome, lineage |-> lineage, draft |-> draft]
  IN CASE outbox[o].kind = "capture" ->
            {receipt("applied", d) : d \in IF source THEN Drafts ELSE {}}
       [] outbox[o].kind = "undo" /\ ~(Applied(outbox[o].prior) /\ outbox[o].prior \notin forgotten) ->
            {receipt("conflict", {})}
       [] OTHER -> {receipt("applied", {}), receipt("conflict", {})}

Refused(code) == [status |-> "blocked", code |-> code, receipt |-> FALSE, open |-> {}]

\* Mutant of Settled: HTTP 200 is taken for applied.
SettledAsOK(r) ==
  [status |-> "acked", code |-> "none", receipt |-> TRUE, open |-> r.draft]

\* What the flush makes of receipt r: a receipt of an earlier lineage is no
\* statement about the present rows.
Settled(r) ==
  CASE r.lineage # lineage ->
         [status |-> "blocked", code |-> "superseded-by-restore", receipt |-> TRUE, open |-> {}]
    [] r.outcome = "applied" ->
         [status |-> "acked", code |-> "none", receipt |-> TRUE, open |-> r.draft]
    [] OTHER -> [status |-> "conflict", code |-> "none", receipt |-> TRUE, open |-> {}]

\* The service handles the request of operation o; a is the answer it gives.
Handle(o, a) ==
  \/ /\ service[o] # NotDone /\ o \notin forgotten
     /\ a = Settled(service[o])
     /\ UNCHANGED service
  \/ /\ service[o] # NotDone /\ o \in forgotten
     /\ a = Refused("not-applied")
     /\ UNCHANGED service
  \/ /\ service[o] = NotDone /\ ~Current(o)
     /\ a = Refused("not-applied")
     /\ UNCHANGED service
  \/ /\ service[o] = NotDone /\ Current(o) /\ Executions(o) = {}
     /\ a = Refused("source-unavailable")
     /\ UNCHANGED service
  \/ /\ service[o] = NotDone /\ Current(o)
     /\ \E r \in Executions(o) :
          /\ service' = [service EXCEPT ![o] = r]
          /\ a = Settled(r)

\* Bundles and document are saved: captures find their source from now on.
SaveSource ==
  /\ ~source
  /\ source' = TRUE
  /\ UNCHANGED <<outbox, flushVars, stray, reapply, service, forgotten, lineage,
                 process, reloads>>

Restore ==
  /\ lineage < MaxLineage
  /\ lineage' = lineage + 1
  /\ UNCHANGED <<outbox, flushVars, stray, reapply, service, forgotten, process,
                 source, reloads>>

RestartService ==
  /\ process < MaxProcess
  /\ process' = process + 1
  /\ UNCHANGED <<outbox, flushVars, stray, reapply, service, forgotten, lineage,
                 source, reloads>>

\* The pruning boundary passes the receipt of o, or the basis of o if it has none.
Forget ==
  \E o \in Ops \ forgotten :
    /\ outbox[o].status # "unborn"
    /\ Cardinality(forgotten) < MaxForgotten
    /\ forgotten' = forgotten \cup {o}
    /\ UNCHANGED <<outbox, flushVars, stray, reapply, service, lineage, process,
                   source, reloads>>

-----------------------------------------------------------------------------
(***************************************************************************)
(* The flush.                                                              *)
(***************************************************************************)
Flushing(t) == todo[t] # {}

\* Of what the flush read it uses the captures of the undos still to come, and keeps
\* here nothing else.
Seen(statuses, rest) ==
  [o \in Ops |-> IF \E u \in rest : outbox[u].kind = "undo" /\ outbox[u].prior = o
                   THEN statuses[o] ELSE "unborn"]

StartFlush(t) ==
  /\ ~Flushing(t)
  /\ With({"pending", "sending"}) # {}
  /\ todo' = [todo EXCEPT ![t] = With({"pending", "sending"})]
  /\ view' = [view EXCEPT ![t] = Seen([o \in Ops |-> outbox[o].status],
                                      With({"pending", "sending"}))]
  /\ UNCHANGED <<outbox, flight, stray, reapply, serviceVars, reloads>>

\* The flush of t looks at o, the first record of its list it has not looked at.
At(t, o) ==
  /\ o \in todo[t] /\ flight[t] = Idle
  /\ \A n \in todo[t] : o <= n

\* The list shrinks; the flush knows now that o has the given status.
Advance(t, rest, o, status) ==
  /\ todo' = [todo EXCEPT ![t] = rest]
  /\ view' = [view EXCEPT ![t] = Seen([@ EXCEPT ![o] = status], rest)]

\* Mutant of Waits: an Undo goes out with the capture it depends on.
WaitsUntilSent(t, o) ==
  outbox[o].kind = "undo" /\ view[t][outbox[o].prior] \notin {"sending", "acked"}

\* An undo waits until its capture is acknowledged, as far as this flush knows.
Waits(t, o) == outbox[o].kind = "undo" /\ view[t][outbox[o].prior] # "acked"

\* The capture will not be acknowledged: the undo is blocked, unless claimed or
\* cancelled meanwhile.
BlockUndo(t, o) ==
  /\ At(t, o) /\ Waits(t, o)
  /\ view[t][outbox[o].prior] \in {"blocked", "conflict", "cancelled", "pruned"}
  /\ outbox' = IF outbox[o].status = "pending"
                 THEN [outbox EXCEPT ![o].status = "blocked",
                                     ![o].code = "depends-on-unresolved"]
                 ELSE outbox
  /\ Advance(t, todo[t] \ {o}, o, outbox'[o].status)
  /\ UNCHANGED <<flight, stray, reapply, serviceVars, reloads>>

\* The undo's capture is still under way: look at the next record.
PassUndo(t, o) ==
  /\ At(t, o) /\ Waits(t, o)
  /\ view[t][outbox[o].prior] \in {"pending", "sending"}
  /\ Advance(t, todo[t] \ {o}, o, view[t][o])
  /\ UNCHANGED <<outbox, flight, stray, reapply, serviceVars, reloads>>

\* Mutant of Claimable: the claim does not look at the stored record again.
ClaimableAsListed(t, o) == TRUE

\* Mutant of Claimable: only the tab that claimed a record may send it again.
ClaimableByOwner(t, o) ==
  \/ outbox[o].status = "pending"
  \/ outbox[o].status = "sending" /\ outbox[o].owner = t

\* The guard of the claim, on the stored record: never claimed, claimed by this
\* tab, or the lease of the claim ran out.
Claimable(t, o) ==
  \/ outbox[o].status = "pending"
  \/ outbox[o].status = "sending" /\ (outbox[o].owner = t \/ ~outbox[o].leased)

\* `sending' is durable before the request leaves.
Claim(t, o) ==
  /\ At(t, o) /\ ~Waits(t, o)
  /\ Claimable(t, o)
  /\ outbox' = [outbox EXCEPT ![o].status = "sending", ![o].owner = t,
                              ![o].leased = TRUE, ![o].sent = TRUE]
  /\ flight' = [flight EXCEPT ![t] = [op |-> o, answer |-> Silence]]
  /\ UNCHANGED <<todo, view, stray, reapply, serviceVars, reloads>>

\* The transcript of the capture is neither in this page nor acknowledged.
PassUnsourced(t, o) ==
  /\ At(t, o) /\ outbox[o].kind = "capture"
  /\ Advance(t, todo[t] \ {o}, o, view[t][o])
  /\ UNCHANGED <<outbox, flight, stray, reapply, serviceVars, reloads>>

\* Another tab owns the record, or it was settled or cancelled meanwhile.
PassClaimed(t, o) ==
  /\ At(t, o) /\ ~Waits(t, o)
  /\ ~Claimable(t, o)
  /\ Advance(t, todo[t] \ {o}, o, view[t][o])
  /\ UNCHANGED <<outbox, flight, stray, reapply, serviceVars, reloads>>

\* The request reaches the service, which answers.
Deliver(t, o) ==
  /\ flight[t].op = o /\ flight[t].answer = Silence
  /\ \E a \in Answers :
       /\ Handle(o, a)
       /\ flight' = [flight EXCEPT ![t].answer = a]
  /\ UNCHANGED <<outbox, todo, view, stray, reapply, forgotten, lineage, process,
                 source, reloads>>

\* Mutant of Settle: the outcome is written whatever the record says by now.
SettleAnyway(o, a) ==
  outbox' = [outbox EXCEPT ![o] = [@ EXCEPT !.status = a.status, !.code = a.code,
                                            !.receipt = a.receipt, !.open = a.open]]

\* The outcome is recorded if the stored record is still `sending'.  Its dispatch is
\* not looked at again before the next claim.
Settle(o, a) ==
  outbox' = [outbox EXCEPT ![o] =
    IF @.status = "sending"
      THEN [@ EXCEPT !.status = a.status, !.code = a.code, !.receipt = a.receipt,
                     !.open = a.open, !.owner = None, !.leased = FALSE]
      ELSE @]

\* The answer arrives: the record is settled and the flush goes on.
Receive(t, o) ==
  /\ flight[t].op = o /\ flight[t].answer # Silence
  /\ LET a == flight[t].answer
     IN /\ Settle(o, a)
        /\ Advance(t, todo[t] \ {o}, o,
                   IF outbox[o].status = "sending" THEN a.status ELSE view[t][o])
  /\ flight' = [flight EXCEPT ![t] = Idle]
  /\ UNCHANGED <<stray, reapply, serviceVars, reloads>>

\* A request nobody awaits any more is lost, or stays under way if the service has
\* not handled it yet.
Abandon(t) ==
  /\ flight' = [flight EXCEPT ![t] = Idle]
  /\ todo' = [todo EXCEPT ![t] = {}]
  /\ view' = [view EXCEPT ![t] = NoView]
  /\ \/ UNCHANGED stray
     \/ /\ flight[t] # Idle /\ flight[t].answer = Silence
        /\ Cardinality(stray) < MaxStray
        /\ stray' = stray \cup {flight[t].op}

\* A network error or HTTP 5xx: the record stays `sending' and the flush stops.
Fail(t) ==
  /\ flight[t] # Idle
  /\ Abandon(t)
  /\ UNCHANGED <<outbox, reapply, serviceVars, reloads>>

\* The connection changed: the flush stops before its next record.
Supersede(t) ==
  /\ Flushing(t) /\ flight[t] = Idle
  /\ Abandon(t)
  /\ UNCHANGED <<outbox, reapply, serviceVars, reloads>>

\* A stray request reaches the service after all.
Late(o) ==
  /\ o \in stray
  /\ stray' = stray \ {o}
  /\ \E a \in Answers : Handle(o, a)
  /\ UNCHANGED <<outbox, flushVars, reapply, forgotten, lineage, process, source,
                 reloads>>

\* OUTBOX_DISPATCH_LEASE_MS passes.
LeaseExpires(o) ==
  /\ outbox[o].status = "sending" /\ outbox[o].leased
  /\ outbox' = [outbox EXCEPT ![o].leased = FALSE]
  /\ UNCHANGED <<flushVars, stray, reapply, serviceVars, reloads>>

\* The page is killed and loaded again.  With Web Locks it adopts its tab id, else
\* it gets a fresh one and its claims belong to nobody.
Reload(t) ==
  /\ reloads < MaxReloads
  /\ reloads' = reloads + 1
  /\ \/ UNCHANGED outbox
     \/ /\ \E o \in Ops : outbox[o].status = "sending" /\ outbox[o].owner = t
        /\ outbox' = [o \in Ops |->
             IF outbox[o].status # "unborn" /\ outbox[o].owner = t
               THEN [outbox[o] EXCEPT !.owner = None] ELSE outbox[o]]
  /\ Abandon(t)
  /\ reapply' = [reapply EXCEPT ![t] = NoReapply]
  /\ UNCHANGED serviceVars

-----------------------------------------------------------------------------
(***************************************************************************)
(* Decisions of the learner.                                               *)
(***************************************************************************)

\* discardLearnerOperation, undoOperationSave of an unsent capture, and the edit of
\* an enrolment that replaces a pending one.
Discard(o) ==
  /\ outbox[o].status \in {"pending", "blocked", "conflict"}
  /\ outbox' = [outbox EXCEPT ![o].status = "cancelled"]
  /\ UNCHANGED <<flushVars, stray, reapply, serviceVars, reloads>>

Retry(o) ==
  /\ outbox[o].status = "blocked"
  /\ outbox[o].code \in {"source-unavailable", "depends-on-unresolved"}
  /\ outbox' = [outbox EXCEPT ![o].status = "pending", ![o].code = "none"]
  /\ UNCHANGED <<flushVars, stray, reapply, serviceVars, reloads>>

\* reapplyLearnerOperation reads the record, stores the new operation and cancels
\* the old one: three steps.
ReapplyRead(t, o) ==
  /\ reapply[t] = NoReapply
  /\ outbox[o].status \in {"blocked", "conflict"}
  /\ outbox[MaxOps].status = "unborn"
  /\ reapply' = [reapply EXCEPT ![t] = [op |-> o, stored |-> FALSE]]
  /\ UNCHANGED <<outbox, flushVars, stray, serviceVars, reloads>>

ReapplyStore(t) ==
  /\ reapply[t] # NoReapply /\ ~reapply[t].stored
  /\ LET old == reapply[t].op
         depends == IF outbox[old].kind = "undo" THEN outbox[old].prior ELSE None
     IN \E o \in Ops : Add(o, outbox[old].kind, depends, old)
  /\ reapply' = [reapply EXCEPT ![t].stored = TRUE]
  /\ UNCHANGED <<flushVars, stray, serviceVars, reloads>>

ReapplyCancel(t) ==
  /\ reapply[t] # NoReapply /\ reapply[t].stored
  /\ outbox' = [outbox EXCEPT ![reapply[t].op] =
       IF @.status \in {"blocked", "conflict"} THEN [@ EXCEPT !.status = "cancelled"] ELSE @]
  /\ reapply' = [reapply EXCEPT ![t] = NoReapply]
  /\ UNCHANGED <<flushVars, stray, serviceVars, reloads>>

\* Mutant of Undecided: the decision is taken on the list the tab shows.
UndecidedOnScreen(o, field) == outbox[o].status = "acked" /\ outbox[o].kind = "capture"

\* resolveDraft, on the stored record: the field is still open there.
Undecided(o, field) == outbox[o].status = "acked" /\ field \in outbox[o].open

KeepSaved(o, field) ==
  /\ Undecided(o, field)
  /\ outbox' = [outbox EXCEPT ![o].open = @ \ {field}]
  /\ UNCHANGED <<flushVars, stray, reapply, serviceVars, reloads>>

\* handoff: the new edit is added and the draft's meaning resolved in one transaction.
HandOff(o) ==
  /\ Undecided(o, "meaning")
  /\ Room
  /\ \E n \in Ops, prior \in PendingMeaning, l \in 0 .. lineage, p \in 0 .. process :
       /\ outbox[n].status = "unborn"
       /\ n > 1 => outbox[n - 1].status # "unborn"
       /\ outbox' = [outbox EXCEPT ![n] = NewRecord("meaning", prior, o, l, p),
                                   ![o].open = @ \ {"meaning"},
                                   ![o].taken = TRUE]
  /\ UNCHANGED <<flushVars, stray, reapply, serviceVars, reloads>>

\* Mutant of Prunable: the resolved go, whatever is still open on them.
PrunableResolved(o) == outbox[o].status \in {"acked", "cancelled"}

Prunable(o) == outbox[o].status \in {"acked", "cancelled"} /\ outbox[o].open = {}

Prune(o) ==
  /\ Prunable(o)
  /\ outbox' = [outbox EXCEPT ![o].status = "pruned"]
  /\ UNCHANGED <<flushVars, stray, reapply, serviceVars, reloads>>

-----------------------------------------------------------------------------
Init ==
  /\ outbox = [o \in Ops |-> NoRecord]
  /\ todo = [t \in Tabs |-> {}]
  /\ view = [t \in Tabs |-> NoView]
  /\ flight = [t \in Tabs |-> Idle]
  /\ stray = {}
  /\ reapply = [t \in Tabs |-> NoReapply]
  /\ service = [o \in Ops |-> NotDone]
  /\ forgotten = {}
  /\ lineage = 0 /\ process = 0 /\ reloads = 0
  /\ source \in BOOLEAN

Pass(t, o) == PassUndo(t, o) \/ PassUnsourced(t, o) \/ PassClaimed(t, o)

Decide(o) ==
  \/ Discard(o)
  \/ Retry(o)
  \/ \E field \in Fields : KeepSaved(o, field)
  \/ HandOff(o)

Next ==
  \/ Capture \/ EditMeaning \/ UndoCapture
  \/ SaveSource \/ Restore \/ RestartService \/ Forget
  \/ \E t \in Tabs :
       \/ StartFlush(t)
       \/ \E o \in Ops : BlockUndo(t, o) \/ Pass(t, o) \/ Claim(t, o) \/ Deliver(t, o)
                         \/ Receive(t, o) \/ ReapplyRead(t, o)
       \/ Fail(t) \/ Supersede(t) \/ Reload(t)
       \/ ReapplyStore(t) \/ ReapplyCancel(t)
  \/ \E o \in Ops : Decide(o) \/ Prune(o) \/ Late(o) \/ LeaseExpires(o)

Spec == Init /\ [][Next]_vars

(***************************************************************************)
(* What the liveness properties assume of the surroundings: saving is      *)
(* attempted again and again (autosave, or a learner who presses Save),    *)
(* leases run out, and for every record that flushes keep reaching, some   *)
(* attempt is left alone long enough to be claimed, delivered and          *)
(* answered.  The learner need not decide anything.                        *)
(***************************************************************************)
Fairness ==
  /\ WF_vars(\E t \in Tabs : StartFlush(t))
  /\ \A t \in Tabs : WF_vars(\E o \in Ops : Pass(t, o))
  /\ \A o \in Ops :
       /\ WF_vars(LeaseExpires(o))
       /\ SF_vars(\E t \in Tabs : Claim(t, o) \/ BlockUndo(t, o))
       /\ SF_vars(\E t \in Tabs : Deliver(t, o))
       /\ SF_vars(\E t \in Tabs : Receive(t, o))

FairSpec == Spec /\ Fairness

-----------------------------------------------------------------------------
(***************************************************************************)
(* Properties.                                                             *)
(***************************************************************************)

\* A record is acknowledged only if the service applied its operation, and in
\* conflict only if the service recorded a conflict for it: whatever copies of the
\* request were answered, and in whatever order (flush, model.ts:1099-1116).
AcknowledgedIsApplied ==
  \A o \in Ops :
    /\ outbox[o].status = "acked" => service[o].outcome = "applied"
    /\ outbox[o].status = "conflict" => service[o].outcome = "conflict"

\* However many tabs add and hand off at once, the unresolved records never exceed
\* the cap (operationOutbox.ts:12).
CapKept == Cardinality(With(Unresolved)) <= Cap

OnTheWire(o) == o \in stray \/ \E t \in Tabs : flight[t].op = o

\* An Undo reaches the service only after the capture it depends on was applied
\* (model.ts:1075-1083).
UndoAfterCapture ==
  \A o \in Ops : outbox[o].status # "unborn" =>
    (outbox[o].kind = "undo" /\ (OnTheWire(o) \/ service[o] # NotDone) => Applied(outbox[o].prior))

\* A draft's meaning is handed off to exactly one replacement, or still open or kept,
\* and then there is none (operationOutbox.ts:13-15, model.ts:1328-1334).
HandedOffOnce ==
  \A c \in Ops : outbox[c].status # "unborn" /\ outbox[c].kind = "capture" =>
    LET replacements == {o \in Ops : /\ outbox[o].status # "unborn"
                                     /\ outbox[o].kind = "meaning" /\ outbox[o].instead = c}
    IN /\ Cardinality(replacements) = IF outbox[c].taken THEN 1 ELSE 0
       /\ outbox[c].taken => "meaning" \notin outbox[c].open

\* The state machine of the record (ADR-0004 section 5): what was claimed is settled
\* by an answer only and never cancelled, and the terminal states are left for
\* deletion only, whatever answers and tabs come late.
Moves ==
  {<<"unborn", "pending">>, <<"pending", "sending">>,
   <<"sending", "acked">>, <<"sending", "conflict">>, <<"sending", "blocked">>,
   <<"pending", "blocked">>, <<"blocked", "pending">>,
   <<"pending", "cancelled">>, <<"blocked", "cancelled">>, <<"conflict", "cancelled">>,
   <<"acked", "pruned">>, <<"cancelled", "pruned">>}

\* No step takes a record along a transition that Moves does not have.
OnlyAllowedMoves ==
  [][\A o \in Ops : LET before == outbox[o].status
                        after == outbox'[o].status
                    IN before = after \/ <<before, after>> \in Moves]_vars

\* An undecided draft field goes away only by a decision on that field, one record
\* and one field at a time: pruning, late answers and reloads keep it (model.ts:1316).
OpenDraftKept ==
  [][\A o \in Ops : outbox[o].status = "acked" /\ outbox'[o] # outbox[o] /\ outbox[o].open # {} =>
       /\ outbox'[o].status = "acked"
       /\ \E field \in outbox[o].open : outbox'[o].open = outbox[o].open \ {field}]_vars

InDoubt(o) == outbox[o].status \in {"pending", "sending"}

\* Every stored intent is settled in the end, although pages die and requests are
\* lost; except an undo whose capture was pruned meanwhile (model.ts:1058-1061).
EveryIntentSettles ==
  \A o \in Ops :
    InDoubt(o) ~> \/ ~InDoubt(o)
                  \/ outbox[o].kind = "undo" /\ outbox[outbox[o].prior].status = "pruned"

-----------------------------------------------------------------------------
(***************************************************************************)
(* What comments of the code say and the code does not keep.               *)
(***************************************************************************)

\* model.ts:1351: an edit is chained `behind this item's own pending meaning edit: its
\* result is what this edit expects'; it is not executed while that edit waits.
EditsInOrder ==
  \A o \in Ops : outbox[o].status # "unborn" /\ outbox[o].kind = "meaning" /\ outbox[o].prior # None =>
    (service[o] # NotDone => ~(InDoubt(outbox[o].prior) /\ service[outbox[o].prior] = NotDone))
-----------------------------------------------------------------------------
(***************************************************************************)
(* The service of this module keeps the contract that LearnerStore         *)
(* implements.  Its rows are not modelled here, so the vocabulary is       *)
(* opaque; of the answers, which the service does not remember, it has the *)
(* first: that of the execution.                                           *)
(***************************************************************************)
Done == {o \in Ops : service[o] # NotDone}
Issued(o) ==
  [request |-> o, generation |-> service[o].lineage, status |-> service[o].outcome,
   draft |-> service[o].draft]

Contract == INSTANCE OperationContract WITH
  Tables <- {None},
  Requests <- Ops,
  Receipts <- [request: Ops, generation: Nat, status: {"applied", "conflict"}, draft: SUBSET Fields],
  Refusals <- {},
  asked <- {o \in Ops : outbox[o].status # "unborn"},
  executed <- {Issued(o) : o \in Done},
  answered <- {<<o, Issued(o)>> : o \in Done},
  table <- None,
  fenced <- \E o \in Ops : Applied(o),
  lineage <- lineage

\* Whatever copies of a request arrive, and whenever: the service executes what a browser
\* asked for, each operation once, under the lineage of that moment.
ServiceKeepsContract == Contract!ContractSpec
=============================================================================
