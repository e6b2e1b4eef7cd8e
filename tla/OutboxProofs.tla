---------------------------- MODULE OutboxProofs ----------------------------
(***************************************************************************)
(* Theorems of Outbox, for every number of tabs, operations, restores and  *)
(* restarts.                                                               *)
(*                                                                         *)
(* TypeOK is inductive with two additions: records are created in order    *)
(* (Prefix), so that every link leads to a record that exists, and a       *)
(* Reapply under way is one of an existing record (ReapplyBorn).  What a   *)
(* step may do to the records is said once, in Evolves, and proved action  *)
(* by action.                                                              *)
(*                                                                         *)
(* An acknowledgement goes from the service into an answer, from there     *)
(* into the store and into what the flush knows, and from the store into   *)
(* the list of a later flush.  Inv says at each of these places that the   *)
(* service applied the operation: AnswersOK, AcknowledgedIsApplied, Knows. *)
(* With that an Undo, sent on what the flush knows, follows its capture.   *)
(*                                                                         *)
(* What a record says of drafts is kept by every step but a handoff        *)
(* (DraftsEvolve, HandsOff).  That only claimed records have an owner      *)
(* (OwnedIsSending) makes a reload harmless to open drafts; DraftInv links *)
(* a capture that was handed off to its one replacement.                   *)
(*                                                                         *)
(* Seen from the service a step executes one request that was on the wire, *)
(* restores the store, or does nothing (ServiceActs); so the service keeps *)
(* OperationContract (OutboxKeepsContract), as the learner store does.     *)
(***************************************************************************)
EXTENDS Outbox, FiniteSetTheorems, TLAPS

\* The record exists, deleted or not.
Born(o) == outbox[o].status # "unborn"

\* Records are created in order.
Prefix == \A o, p \in Ops : p <= o /\ Born(o) => Born(p)

\* What TypeOK says of the records.
Records ==
  /\ outbox \in [Ops -> Record \cup {NoRecord}]
  /\ \A o \in Ops : Born(o) => PriorOK(o)
  /\ Prefix

\* Some tab holds an answer that says so of o.
ByAnswer(o, status) ==
  \E t \in Tabs : /\ flight[t].op = o /\ flight[t].answer # Silence
                  /\ flight[t].answer.status = status

\* The record o may go to status: by an allowed move, and by an answer if the status is
\* an outcome of the service.
MayGo(o, status) ==
  \/ status = outbox[o].status
  \/ /\ <<outbox[o].status, status>> \in Moves
     /\ status \in {"acked", "conflict"} => ByAnswer(o, status)

\* r is the record o with other contents.
Patch(o, r) ==
  /\ r \in Record
  /\ r.kind = outbox[o].kind /\ r.prior = outbox[o].prior
  /\ MayGo(o, r.status)

\* A position of the store holds a record exactly when it was created.
LEMMA Unborn ==
  ASSUME Records, NEW o \in Ops
  PROVE  /\ Born(o) <=> outbox[o] \in Record
         /\ ~Born(o) <=> outbox[o] = NoRecord
  <1>1. \A r \in Record : r.status # "unborn"
    BY DEF Record, Stored, Unresolved
  <1>2. NoRecord.status = "unborn"
    BY DEF NoRecord
  <1>3. outbox[o] \in Record \cup {NoRecord}
    BY DEF Records
  <1>4. QED
    BY <1>1, <1>2, <1>3 DEF Born

\* A patched record keeps its place in the order and its links, and so do all others
\* (transition, operationOutbox.ts:180-188).
LEMMA PatchOne ==
  ASSUME Records, NEW o \in Ops, Born(o), NEW r, Patch(o, r),
         outbox' = [outbox EXCEPT ![o] = r]
  PROVE  /\ Records'
         /\ \A p \in Ops : p # o => outbox'[p] = outbox[p]
         /\ outbox'[o] = r
  <1>1. r \in Record /\ r.kind = outbox[o].kind /\ r.prior = outbox[o].prior
    BY DEF Patch
  <1>2. \A p \in Ops : outbox'[p] = IF p = o THEN r ELSE outbox[p]
    BY DEF Records
  <1>3. outbox' \in [Ops -> Record \cup {NoRecord}]
    BY <1>1 DEF Records
  <1>4. r.status # "unborn"
    BY <1>1 DEF Record, Stored, Unresolved
  <1>5. \A p \in Ops : /\ Born(p)' <=> Born(p)
                       /\ Born(p) => /\ outbox'[p].kind = outbox[p].kind
                                     /\ outbox'[p].prior = outbox[p].prior
    BY <1>1, <1>2, <1>4 DEF Born
  <1>6. \A p \in Ops : Born(p)' => PriorOK(p)'
    <2> SUFFICES ASSUME NEW p \in Ops, Born(p)'
                 PROVE  PriorOK(p)'
      OBVIOUS
    <2>1. Born(p) /\ PriorOK(p)
      BY <1>5 DEF Records
    <2>2. /\ outbox'[p].kind = outbox[p].kind
          /\ outbox'[p].prior = outbox[p].prior
      BY <1>5, <2>1
    <2>3. outbox[p].prior # None => /\ outbox[p].prior \in Ops
                                    /\ Born(outbox[p].prior)
      <3>1. outbox[p].prior \in Ops \cup {None}
        BY <2>1, Unborn DEF Record
      <3>2. outbox[p].prior # None => outbox[p].prior < p
        BY <2>1 DEF PriorOK
      <3>3. QED
        BY <3>1, <3>2, <2>1 DEF Records, Prefix, Ops
    <2>4. outbox[p].prior # None => outbox'[outbox[p].prior].kind = outbox[outbox[p].prior].kind
      BY <1>5, <2>3
    <2>5. QED
      BY <2>1, <2>2, <2>4 DEF PriorOK
  <1>7. Prefix'
    BY <1>5 DEF Records, Prefix
  <1>8. QED
    BY <1>2, <1>3, <1>6, <1>7 DEF Records

\* A new record built on a capture or an edit, or on nothing.
Builds(kind, prior, instead) ==
  /\ kind \in {"capture", "meaning", "undo"}
  /\ instead \in Ops \cup {None}
  /\ IF prior = None THEN kind # "undo"
     ELSE /\ prior \in Ops /\ Born(prior)
          /\ kind # "capture"
          /\ outbox[prior].kind = IF kind = "undo" THEN "capture" ELSE "meaning"

\* A record created next in order, linked to an earlier one of the right kind, leaves
\* all records well linked (add, operationOutbox.ts:173-179).
LEMMA CreateOne ==
  ASSUME Records, NEW o \in Ops, ~Born(o), o > 1 => Born(o - 1),
         NEW kind, NEW prior, NEW instead, Builds(kind, prior, instead),
         NEW l \in Nat, NEW p \in Nat, NEW f, f \in [Ops -> Record \cup {NoRecord}],
         f[o] = NewRecord(kind, prior, instead, l, p),
         \A q \in Ops : q # o => IF Born(q) THEN /\ f[q] \in Record
                                                 /\ f[q].kind = outbox[q].kind
                                                 /\ f[q].prior = outbox[q].prior
                                 ELSE f[q] = NoRecord,
         outbox' = f
  PROVE  Records'
  <1>1. f[o].kind = kind /\ f[o].prior = prior /\ f[o].status = "pending"
    BY DEF NewRecord
  <1>2. \A q \in Ops : q # o => (f[q].status # "unborn" <=> Born(q))
    BY DEF Record, Stored, Unresolved, NoRecord
  <1>3. \A q \in Ops : Born(q)' <=> Born(q) \/ q = o
    BY <1>1, <1>2 DEF Born
  <1>4. ASSUME NEW q \in Ops, q < o
        PROVE  Born(q)
    <2>1. o > 1 /\ o - 1 \in Ops /\ q <= o - 1
      BY <1>4, OutboxAssumption DEF Ops
    <2>2. QED
      BY <2>1 DEF Records, Prefix
  <1>5. \A q \in Ops : Born(q) => q < o
    BY DEF Records, Prefix, Ops
  <1>6. Prefix'
    BY <1>3, <1>4, <1>5 DEF Records, Prefix, Ops
  <1>7. PriorOK(o)'
    <2>1. prior # None => prior < o /\ prior # o /\ outbox'[prior].kind = outbox[prior].kind
      BY <1>5 DEF Builds, Ops
    <2>2. QED
      BY <1>1, <2>1 DEF Builds, PriorOK
  <1>8. ASSUME NEW q \in Ops, q # o, Born(q)
        PROVE  PriorOK(q)'
    <2>1. PriorOK(q)
      BY <1>8 DEF Records
    <2>2. outbox[q].prior \in Ops \cup {None}
      BY <1>8, Unborn DEF Record
    <2>3. outbox[q].prior # None => /\ outbox[q].prior \in Ops
                                    /\ outbox[q].prior # o
                                    /\ Born(outbox[q].prior)
      <3>1. outbox[q].prior # None => outbox[q].prior < q
        BY <2>1 DEF PriorOK
      <3>2. q < o
        BY <1>5, <1>8
      <3>3. QED
        BY <3>1, <3>2, <2>2, <1>8 DEF Records, Prefix, Ops
    <2>4. /\ outbox'[q].kind = outbox[q].kind
          /\ outbox'[q].prior = outbox[q].prior
          /\ outbox[q].prior # None => outbox'[outbox[q].prior].kind = outbox[outbox[q].prior].kind
      BY <1>8, <2>3
    <2>5. QED
      BY <2>1, <2>4 DEF PriorOK
  <1>9. QED
    BY <1>3, <1>6, <1>7, <1>8 DEF Records

-----------------------------------------------------------------------------
\* At most one record is created at a time, and that only with room for it.
Grows ==
  \/ \A o \in Ops : Born(o)' => Born(o)
  \/ Room /\ \E n \in Ops : \A o \in Ops : Born(o)' => Born(o) \/ o = n

\* What any step does to the records.
Evolves ==
  /\ Records'
  /\ Grows
  /\ \A o \in Ops : MayGo(o, outbox'[o].status)
  /\ \A o \in Ops : Born(o) => /\ outbox'[o].kind = outbox[o].kind
                               /\ outbox'[o].prior = outbox[o].prior

\* A Reapply under way has a record.
ReapplyBorn == \A t \in Tabs : reapply[t] # NoReapply => /\ reapply[t].op \in Ops
                                                            /\ Born(reapply[t].op)

\* What is on the wire or executed has a record.
WireBorn == \A o \in Ops : OnTheWire(o) \/ service[o] # NotDone => Born(o)

\* A patch is an evolution.
LEMMA PatchEvolves ==
  ASSUME Records, NEW o \in Ops, Born(o), NEW r, Patch(o, r),
         outbox' = [outbox EXCEPT ![o] = r]
  PROVE  Evolves
  <1>1. /\ Records'
        /\ \A p \in Ops : p # o => outbox'[p] = outbox[p]
        /\ outbox'[o] = r
    BY PatchOne
  <1>2. Grows
    BY <1>1 DEF Grows, Born
  <1>3. QED
    BY <1>1, <1>2 DEF Evolves, Patch, MayGo

\* Nothing happens to the records.
LEMMA SameEvolves ==
  ASSUME Records, outbox' = outbox
  PROVE  Evolves
  BY DEF Evolves, Grows, MayGo, Records, Prefix, PriorOK, Born

\* A record added.
LEMMA AddEvolves ==
  ASSUME Records, NEW o \in Ops, NEW kind, NEW prior, NEW instead,
         Builds(kind, prior, instead), lineage \in Nat, process \in Nat,
         Add(o, kind, prior, instead)
  PROVE  Evolves
  <1>1. PICK l \in 0 .. lineage, p \in 0 .. process :
          outbox' = [outbox EXCEPT ![o] = NewRecord(kind, prior, instead, l, p)]
    BY DEF Add
  <1>2. ~Born(o) /\ (o > 1 => Born(o - 1))
    BY DEF Add, Born
  <1>3. l \in Nat /\ p \in Nat
    OBVIOUS
  <1>4. \A q \in Ops : outbox'[q] = IF q = o THEN NewRecord(kind, prior, instead, l, p)
                                            ELSE outbox[q]
    BY <1>1 DEF Records
  <1>5. NewRecord(kind, prior, instead, l, p) \in Record
    BY <1>3 DEF NewRecord, Record, Builds, Stored, Unresolved, Codes
  <1>6. outbox' \in [Ops -> Record \cup {NoRecord}]
    BY <1>1, <1>5 DEF Records
  <1>7. \A q \in Ops : q # o => IF Born(q) THEN /\ outbox'[q] \in Record
                                                 /\ outbox'[q].kind = outbox[q].kind
                                                 /\ outbox'[q].prior = outbox[q].prior
                                 ELSE outbox'[q] = NoRecord
    BY <1>4, Unborn
  <1>8. Records'
    BY <1>2, <1>3, <1>4, <1>6, <1>7, CreateOne
  <1>9. /\ outbox[o].status = "unborn"
        /\ outbox'[o].status = "pending"
    BY <1>2, <1>4 DEF Born, NewRecord
  <1>10. Grows
    BY <1>4 DEF Add, Grows, Born
  <1>11. QED
    BY <1>2, <1>4, <1>8, <1>9, <1>10 DEF Evolves, MayGo, Moves

-----------------------------------------------------------------------------
(***************************************************************************)
(* The records evolve.                                                     *)
(***************************************************************************)
\* The generations a new record may name.
Counters == lineage \in Nat /\ process \in Nat

\* The learner stores an intent: Capture, EditMeaning, UndoCapture, ReapplyStore.
LEMMA StoreEvolves ==
  ASSUME Records, Counters, ReapplyBorn,
         Capture \/ EditMeaning \/ UndoCapture \/ \E t \in Tabs : ReapplyStore(t)
  PROVE  Evolves
  <1>0. USE DEF Counters
  <1>1. CASE Capture
    <2>1. PICK o \in Ops : Add(o, "capture", None, None)
      BY <1>1 DEF Capture
    <2>2. Builds("capture", None, None)
      BY DEF Builds
    <2>3. QED
      BY <2>1, <2>2, AddEvolves
  <1>2. CASE EditMeaning
    <2>1. PICK o \in Ops, prior \in PendingMeaning : Add(o, "meaning", prior, None)
      BY <1>2 DEF EditMeaning
    <2>2. Builds("meaning", prior, None)
      BY <2>1 DEF Builds, PendingMeaning, Born
    <2>3. QED
      BY <2>1, <2>2, AddEvolves
  <1>3. CASE UndoCapture
    <2>1. PICK o \in Ops, c \in With(Stored) : /\ outbox[c].kind = "capture"
                                               /\ Add(o, "undo", c, None)
      BY <1>3 DEF UndoCapture
    <2>2. c \in Ops /\ c # None /\ Born(c)
      BY <2>1 DEF With, Stored, Unresolved, Born, Ops, None
    <2>3. Builds("undo", c, None)
      BY <2>1, <2>2 DEF Builds
    <2>4. QED
      BY <2>1, <2>3, AddEvolves
  <1>4. CASE \E t \in Tabs : ReapplyStore(t)
    <2>1. PICK t \in Tabs : ReapplyStore(t)
      BY <1>4
    <2> DEFINE old == reapply[t].op
               depends == IF outbox[old].kind = "undo" THEN outbox[old].prior ELSE None
    <2>2. PICK o \in Ops : Add(o, outbox[old].kind, depends, old)
      BY <2>1 DEF ReapplyStore
    <2>3. old \in Ops /\ Born(old)
      BY <2>1 DEF ReapplyStore, ReapplyBorn, Born
    <2>4. outbox[old].kind \in {"capture", "meaning", "undo"} /\ PriorOK(old)
          /\ outbox[old].prior \in Ops \cup {None}
      BY <2>3, Unborn DEF Records, Record
    <2>5. depends # None => /\ depends \in Ops /\ Born(depends)
                            /\ outbox[depends].kind = "capture"
                            /\ outbox[old].kind = "undo"
      <3>1. CASE outbox[old].kind = "undo"
        BY <2>3, <2>4, <3>1 DEF PriorOK, Records, Prefix, Ops
      <3>2. QED
        BY <3>1
    <2>6. depends = None => outbox[old].kind # "undo"
      BY <2>4 DEF PriorOK
    <2>7. Builds(outbox[old].kind, depends, old)
      BY <2>3, <2>4, <2>5, <2>6 DEF Builds
    <2>8. QED
      BY <2>2, <2>7, AddEvolves
  <1>5. QED
    BY <1>1, <1>2, <1>3, <1>4

\* One record changes by the decision of a learner, the clock or the clean-up.
LEMMA DecisionEvolves ==
  ASSUME Records, NEW o \in Ops,
         \/ Discard(o) \/ Retry(o) \/ Prune(o) \/ LeaseExpires(o)
         \/ \E field \in Fields : KeepSaved(o, field)
  PROVE  Evolves
  <1>1. CASE Discard(o)
    <2> DEFINE r == [outbox[o] EXCEPT !.status = "cancelled"]
    <2>1. Born(o) /\ outbox' = [outbox EXCEPT ![o] = r]
      BY <1>1 DEF Discard, Born
    <2>2. Patch(o, r)
      BY <1>1, <2>1, Unborn DEF Discard, Patch, MayGo, Record, Moves, Stored, Unresolved
    <2>3. QED
      BY <2>1, <2>2, PatchEvolves
  <1>2. CASE Retry(o)
    <2> DEFINE r == [outbox[o] EXCEPT !.status = "pending", !.code = "none"]
    <2>1. Born(o) /\ outbox' = [outbox EXCEPT ![o] = r]
      BY <1>2 DEF Retry, Born
    <2>2. Patch(o, r)
      BY ZenonT(40), <1>2, <2>1, Unborn DEF Retry, Patch, MayGo, Record, Moves, Stored, Unresolved, Codes
    <2>3. QED
      BY <2>1, <2>2, PatchEvolves
  <1>3. CASE Prune(o)
    <2> DEFINE r == [outbox[o] EXCEPT !.status = "pruned"]
    <2>1. Born(o) /\ outbox' = [outbox EXCEPT ![o] = r]
      BY <1>3 DEF Prune, Prunable, Born
    <2>2. Patch(o, r)
      BY <1>3, <2>1, Unborn DEF Prune, Prunable, Patch, MayGo, Record, Moves, Stored, Unresolved
    <2>3. QED
      BY <2>1, <2>2, PatchEvolves
  <1>4. CASE LeaseExpires(o)
    <2> DEFINE r == [outbox[o] EXCEPT !.leased = FALSE]
    <2>1. Born(o) /\ outbox' = [outbox EXCEPT ![o] = r]
      BY <1>4 DEF LeaseExpires, Born
    <2>2. Patch(o, r)
      BY <1>4, <2>1, Unborn DEF LeaseExpires, Patch, MayGo, Record
    <2>3. QED
      BY <2>1, <2>2, PatchEvolves
  <1>5. ASSUME NEW field \in Fields, KeepSaved(o, field)
        PROVE  Evolves
    <2> DEFINE r == [outbox[o] EXCEPT !.open = @ \ {field}]
    <2>1. Born(o) /\ outbox' = [outbox EXCEPT ![o] = r]
      BY <1>5 DEF KeepSaved, Undecided, Born
    <2>2. Patch(o, r)
      BY <2>1, Unborn DEF Patch, MayGo, Record
    <2>3. QED
      BY <2>1, <2>2, PatchEvolves
  <1>6. QED
    BY <1>1, <1>2, <1>3, <1>4, <1>5

\* A draft's meaning is handed off: a record is added, another one patched.
LEMMA HandOffEvolves ==
  ASSUME Records, Counters, NEW o \in Ops, HandOff(o)
  PROVE  Evolves
  <1>1. PICK n \in Ops, prior \in PendingMeaning, l \in 0 .. lineage, p \in 0 .. process :
          /\ outbox[n].status = "unborn"
          /\ n > 1 => outbox[n - 1].status # "unborn"
          /\ outbox' = [outbox EXCEPT ![n] = NewRecord("meaning", prior, o, l, p),
                                      ![o].open = @ \ {"meaning"},
                                      ![o].taken = TRUE]
    BY DEF HandOff
  <1>2. Born(o) /\ ~Born(n) /\ n # o /\ (n > 1 => Born(n - 1))
    BY <1>1 DEF HandOff, Undecided, Born
  <1>3. l \in Nat /\ p \in Nat
    BY DEF Counters
  <1>4. Builds("meaning", prior, o)
    BY <1>1 DEF Builds, PendingMeaning, Born
  <1> DEFINE new == NewRecord("meaning", prior, o, l, p)
             r == [outbox[o] EXCEPT !.open = @ \ {"meaning"}, !.taken = TRUE]
  <1>5. new \in Record
    BY <1>3, <1>4 DEF NewRecord, Record, Builds, Stored, Unresolved, Codes
  <1>6. r \in Record /\ r.kind = outbox[o].kind /\ r.prior = outbox[o].prior
        /\ r.status = outbox[o].status
    BY ZenonT(40), <1>2, Unborn DEF Record
  <1>7. outbox' = [q \in Ops |-> IF q = n THEN new ELSE IF q = o THEN r ELSE outbox[q]]
    BY <1>1, <1>2 DEF Records
  <1> HIDE DEF new, r
  <1>8. outbox' \in [Ops -> Record \cup {NoRecord}]
    BY <1>5, <1>6, <1>7 DEF Records
  <1>9. \A q \in Ops : q # n => IF Born(q) THEN /\ outbox'[q] \in Record
                                                 /\ outbox'[q].kind = outbox[q].kind
                                                 /\ outbox'[q].prior = outbox[q].prior
                                 ELSE outbox'[q] = NoRecord
    BY <1>2, <1>6, <1>7, Unborn
  <1>10. outbox'[n] = NewRecord("meaning", prior, o, l, p)
    BY <1>7 DEF new
  <1>11. Records'
    BY <1>2, <1>3, <1>4, <1>8, <1>9, <1>10, CreateOne
  <1>12. outbox'[n].status = "pending" /\ outbox[n].status = "unborn"
    BY <1>1, <1>10 DEF NewRecord
  <1>13. Grows
    BY <1>2, <1>7 DEF HandOff, Grows, Born
  <1>14. QED
    BY <1>2, <1>6, <1>7, <1>11, <1>12, <1>13 DEF Evolves, MayGo, Moves

\* What TypeOK says of the requests awaited.
Flights == flight \in [Tabs -> [op: Ops, answer: Answers \cup {Silence}] \cup {Idle}]

\* A step of a flush, of a Reapply or of the page.
LEMMA TabEvolves ==
  ASSUME Records, ReapplyBorn, Flights, NEW t \in Tabs,
         \/ \E o \in Ops : Claim(t, o) \/ BlockUndo(t, o) \/ Receive(t, o)
         \/ ReapplyCancel(t) \/ Reload(t)
  PROVE  Evolves
  <1>1. ASSUME NEW o \in Ops, Claim(t, o)
        PROVE  Evolves
    <2> DEFINE r == [outbox[o] EXCEPT !.status = "sending", !.owner = t,
                                      !.leased = TRUE, !.sent = TRUE]
    <2>1. outbox' = [outbox EXCEPT ![o] = r] /\ outbox[o].status \in {"pending", "sending"}
      BY <1>1 DEF Claim, Claimable
    <2>2. Born(o)
      BY <2>1 DEF Born
    <2>3. Patch(o, r)
      BY ZenonT(40), <2>1, <2>2, Unborn DEF Patch, MayGo, Record, Moves, Stored, Unresolved
    <2>4. QED
      BY <2>1, <2>2, <2>3, PatchEvolves
  <1>2. ASSUME NEW o \in Ops, BlockUndo(t, o)
        PROVE  Evolves
    <2>1. CASE outbox[o].status = "pending"
      <3> DEFINE r == [outbox[o] EXCEPT !.status = "blocked", !.code = "depends-on-unresolved"]
      <3>1. outbox' = [outbox EXCEPT ![o] = r]
        BY <1>2, <2>1 DEF BlockUndo
      <3>2. Born(o)
        BY <2>1 DEF Born
      <3>3. Patch(o, r)
        BY ZenonT(40), <2>1, <3>2, Unborn DEF Patch, MayGo, Record, Moves, Stored, Unresolved, Codes
      <3>4. QED
        BY <3>1, <3>2, <3>3, PatchEvolves
    <2>2. CASE outbox[o].status # "pending"
      <3>1. outbox' = outbox
        BY <1>2, <2>2 DEF BlockUndo
      <3>2. QED
        BY <3>1, SameEvolves
    <2>3. QED
      BY <2>1, <2>2
  <1>3. ASSUME NEW o \in Ops, Receive(t, o)
        PROVE  Evolves
    <2>1. Settle(o, flight[t].answer) /\ flight[t].answer \in Answers
      BY <1>3 DEF Receive, Flights, Idle, Ops, None
    <2> DEFINE a == flight[t].answer
               r == [outbox[o] EXCEPT !.status = a.status, !.code = a.code,
                                      !.receipt = a.receipt, !.open = a.open,
                                      !.owner = None, !.leased = FALSE]
    <2>2. CASE outbox[o].status = "sending"
      <3>1. outbox' = [outbox EXCEPT ![o] = r]
        BY <2>1, <2>2 DEF Settle
      <3>2. Born(o)
        BY <2>2 DEF Born
      <3>3. r \in Record /\ r.kind = outbox[o].kind /\ r.prior = outbox[o].prior
            /\ r.status = a.status
        <4>1. outbox[o] \in Record
          BY <3>2, Unborn
        <4>2. r \in Record
          BY <2>1, <4>1 DEF Record, Stored, Unresolved, Answers
        <4>3. r.kind = outbox[o].kind /\ r.prior = outbox[o].prior
          BY <4>1 DEF Record
        <4>4. r.status = a.status
          BY <4>1 DEF Record
        <4>5. QED
          BY <4>2, <4>3, <4>4
      <3>4. ByAnswer(o, a.status)
        BY <1>3 DEF Receive, ByAnswer
      <3>5. a.status \in {"acked", "conflict", "blocked"}
        BY <2>1 DEF Answers
      <3> HIDE DEF a, r
      <3>6. MayGo(o, a.status)
        BY <2>2, <3>4, <3>5 DEF MayGo, Moves
      <3>7. Patch(o, r)
        BY <3>3, <3>6 DEF Patch
      <3>8. QED
        BY <3>1, <3>2, <3>7, PatchEvolves
    <2>3. CASE outbox[o].status # "sending"
      <3>1. outbox' = outbox
        BY <2>1, <2>3 DEF Settle, Records
      <3>2. QED
        BY <3>1, SameEvolves
    <2>4. QED
      BY <2>2, <2>3
  <1>4. CASE ReapplyCancel(t)
    <2> DEFINE o == reapply[t].op
               r == [outbox[o] EXCEPT !.status = "cancelled"]
    <2>1. o \in Ops /\ Born(o)
      BY <1>4 DEF ReapplyCancel, ReapplyBorn
    <2>2. CASE outbox[o].status \in {"blocked", "conflict"}
      <3>1. outbox' = [outbox EXCEPT ![o] = r]
        BY <1>4, <2>2 DEF ReapplyCancel
      <3>2. Patch(o, r)
        BY <2>1, <2>2, Unborn DEF Patch, MayGo, Record, Moves, Stored, Unresolved
      <3>3. QED
        BY <2>1, <3>1, <3>2, PatchEvolves
    <2>3. CASE outbox[o].status \notin {"blocked", "conflict"}
      <3>1. outbox' = outbox
        BY <1>4, <2>3 DEF ReapplyCancel, Records
      <3>2. QED
        BY <3>1, SameEvolves
    <2>4. QED
      BY <2>2, <2>3
  <1>5. CASE Reload(t)
    <2>1. CASE outbox' = outbox
      BY <2>1, SameEvolves
    <2>2. CASE outbox' = [o \in Ops |->
                 IF outbox[o].status # "unborn" /\ outbox[o].owner = t
                   THEN [outbox[o] EXCEPT !.owner = None] ELSE outbox[o]]
      <3>1. \A o \in Ops :
              /\ outbox'[o] \in Record \cup {NoRecord}
              /\ outbox'[o].status = outbox[o].status
              /\ Born(o) => /\ outbox'[o].kind = outbox[o].kind
                            /\ outbox'[o].prior = outbox[o].prior
        <4> SUFFICES ASSUME NEW o \in Ops
                     PROVE  /\ outbox'[o] \in Record \cup {NoRecord}
                            /\ outbox'[o].status = outbox[o].status
                            /\ Born(o) => /\ outbox'[o].kind = outbox[o].kind
                                          /\ outbox'[o].prior = outbox[o].prior
          OBVIOUS
        <4>1. CASE Born(o) /\ outbox[o].owner = t
          <5>1. outbox'[o] = [outbox[o] EXCEPT !.owner = None]
            BY <2>2, <4>1 DEF Born
          <5>2. outbox[o] \in Record
            BY <4>1, Unborn
          <5>3. QED
            BY <5>1, <5>2 DEF Record
        <4>2. CASE ~(Born(o) /\ outbox[o].owner = t)
          <5>1. outbox'[o] = outbox[o]
            BY <2>2, <4>2 DEF Born
          <5>2. QED
            BY <5>1 DEF Records
        <4>3. QED
          BY <4>1, <4>2
      <3>2. outbox' \in [Ops -> Record \cup {NoRecord}]
        BY <2>2, <3>1
      <3>3. \A o \in Ops : Born(o)' <=> Born(o)
        BY <3>1 DEF Born
      <3>4. ASSUME NEW o \in Ops, Born(o)
            PROVE  PriorOK(o)'
        <4>1. PriorOK(o) /\ outbox[o].prior \in Ops \cup {None}
          BY <3>4, Unborn DEF Records, Record
        <4>2. outbox[o].prior # None => outbox[o].prior \in Ops /\ Born(outbox[o].prior)
          BY <3>4, <4>1 DEF PriorOK, Records, Prefix, Ops
        <4>3. /\ outbox'[o].kind = outbox[o].kind
              /\ outbox'[o].prior = outbox[o].prior
              /\ outbox[o].prior # None => outbox'[outbox[o].prior].kind = outbox[outbox[o].prior].kind
          BY <3>1, <3>4, <4>2
        <4>4. QED
          BY <4>1, <4>3 DEF PriorOK
      <3>5. QED
        BY <3>1, <3>2, <3>3, <3>4 DEF Evolves, Grows, MayGo, Records, Prefix
    <2>3. QED
      BY <1>5, <2>1, <2>2 DEF Reload
  <1>6. QED
    BY <1>1, <1>2, <1>3, <1>4, <1>5

\* The steps that leave the records alone.
Elsewhere ==
  \/ SaveSource \/ Restore \/ RestartService \/ Forget
  \/ \E t \in Tabs :
       \/ StartFlush(t) \/ Fail(t) \/ Supersede(t)
       \/ \E o \in Ops : Pass(t, o) \/ Deliver(t, o) \/ ReapplyRead(t, o)
  \/ \E o \in Ops : Late(o)
  \/ UNCHANGED vars

\* The service and the requests under way never touch the store of records.
LEMMA ElsewhereSame ==
  ASSUME Elsewhere
  PROVE  outbox' = outbox
  <1>1. SaveSource \/ Restore \/ RestartService \/ Forget => outbox' = outbox
    BY DEF SaveSource, Restore, RestartService, Forget
  <1>2. \A t \in Tabs : StartFlush(t) \/ Fail(t) \/ Supersede(t) => outbox' = outbox
    BY DEF StartFlush, Fail, Supersede
  <1>3. \A t \in Tabs, o \in Ops : Pass(t, o) \/ Deliver(t, o) \/ ReapplyRead(t, o)
                                  => outbox' = outbox
    BY DEF Pass, PassUndo, PassUnsourced, PassClaimed, Deliver, ReapplyRead
  <1>4. \A o \in Ops : Late(o) => outbox' = outbox
    BY DEF Late
  <1>5. UNCHANGED vars => outbox' = outbox
    BY DEF vars
  <1>6. QED
    BY <1>1, <1>2, <1>3, <1>4, <1>5 DEF Elsewhere

\* Every step lets the records evolve.
LEMMA StepEvolves ==
  ASSUME TypeOK, Prefix, ReapplyBorn, [Next]_vars
  PROVE  Evolves
  <1>1. Records /\ Counters /\ Flights
    BY DEF TypeOK, Records, Counters, Flights, Born
  <1>2. CASE Capture \/ EditMeaning \/ UndoCapture \/ \E t \in Tabs : ReapplyStore(t)
    BY <1>1, <1>2, StoreEvolves
  <1>3. ASSUME NEW o \in Ops, Decide(o) \/ Prune(o) \/ LeaseExpires(o)
        PROVE  Evolves
    BY <1>1, <1>3, DecisionEvolves, HandOffEvolves DEF Decide
  <1>4. ASSUME NEW t \in Tabs,
               \/ \E o \in Ops : Claim(t, o) \/ BlockUndo(t, o) \/ Receive(t, o)
               \/ ReapplyCancel(t) \/ Reload(t)
        PROVE  Evolves
    BY <1>1, <1>4, TabEvolves
  <1>5. CASE Elsewhere
    BY <1>1, <1>5, ElsewhereSame, SameEvolves
  <1>6. QED
    BY <1>2, <1>3, <1>4, <1>5 DEF Next, Elsewhere

-----------------------------------------------------------------------------
(***************************************************************************)
(* The browser's and the service's state keep their types.                 *)
(***************************************************************************)
\* What TypeOK says of the flushes.
FlushType ==
  /\ todo \in [Tabs -> SUBSET Ops]
  /\ view \in [Tabs -> [Ops -> Statuses]]
  /\ Flights
  /\ stray \in SUBSET Ops

\* The statuses a flush reads and keeps are statuses.
LEMMA StatusType ==
  ASSUME Records
  PROVE  \A o \in Ops : outbox[o].status \in Statuses
  BY DEF Records, Record, NoRecord, Statuses, Stored, Unresolved

\* Going on in the list keeps the types of the list and of what the flush knows.
LEMMA AdvanceType ==
  ASSUME FlushType, NEW t \in Tabs, NEW o \in Ops, NEW rest \in SUBSET Ops,
         NEW status \in Statuses, Advance(t, rest, o, status)
  PROVE  todo' \in [Tabs -> SUBSET Ops] /\ view' \in [Tabs -> [Ops -> Statuses]]
  <1>1. [view[t] EXCEPT ![o] = status] \in [Ops -> Statuses]
    BY DEF FlushType
  <1>2. Seen([view[t] EXCEPT ![o] = status], rest) \in [Ops -> Statuses]
    BY <1>1 DEF Seen, Statuses
  <1>3. QED
    BY <1>2 DEF Advance, FlushType

\* Giving up a flush keeps the types.
LEMMA AbandonType ==
  ASSUME FlushType, NEW t \in Tabs, Abandon(t)
  PROVE  FlushType'
  <1>1. NoView \in [Ops -> Statuses]
    BY DEF NoView, Statuses
  <1>2. flight[t] # Idle => flight[t].op \in Ops
    BY DEF FlushType, Flights
  <1>3. stray' \in SUBSET Ops
    BY <1>2 DEF Abandon, FlushType
  <1>4. todo' \in [Tabs -> SUBSET Ops] /\ view' \in [Tabs -> [Ops -> Statuses]]
    BY <1>1 DEF Abandon, FlushType
  <1>5. Flights'
    BY DEF Abandon, FlushType, Flights
  <1>6. QED
    BY <1>3, <1>4, <1>5 DEF FlushType

\* Every step keeps the types of the flushes.
LEMMA FlushTypeStep ==
  ASSUME FlushType, Records, [Next]_vars
  PROVE  FlushType'
  <1>1. ASSUME NEW t \in Tabs, StartFlush(t)
        PROVE  FlushType'
    <2>1. With({"pending", "sending"}) \in SUBSET Ops
      BY DEF With
    <2>2. Seen([o \in Ops |-> outbox[o].status], With({"pending", "sending"})) \in [Ops -> Statuses]
      BY StatusType DEF Seen, Statuses
    <2>3. QED
      BY <1>1, <2>1, <2>2 DEF StartFlush, FlushType, Flights
  <1>2. ASSUME NEW t \in Tabs, NEW o \in Ops, NEW status \in Statuses,
               Advance(t, todo[t] \ {o}, o, status), UNCHANGED <<flight, stray>>
        PROVE  FlushType'
    <2>1. todo[t] \ {o} \in SUBSET Ops
      BY DEF FlushType
    <2>2. todo' \in [Tabs -> SUBSET Ops] /\ view' \in [Tabs -> [Ops -> Statuses]]
      BY <1>2, <2>1, AdvanceType
    <2>3. QED
      BY <1>2, <2>2 DEF FlushType, Flights
  <1>2a. ASSUME NEW t \in Tabs, NEW o \in Ops, BlockUndo(t, o)
         PROVE  FlushType'
    <2>1. outbox'[o].status \in Statuses
      <3>1. CASE outbox[o].status = "pending"
        <4>1. outbox' = [outbox EXCEPT ![o] = [outbox[o] EXCEPT !.status = "blocked",
                                                 !.code = "depends-on-unresolved"]]
          BY <1>2a, <3>1 DEF BlockUndo
        <4>2. outbox[o] \in Record
          BY <3>1, Unborn DEF Born
        <4>3. outbox'[o].status = "blocked"
          BY <4>1, <4>2 DEF Records, Record
        <4>4. QED
          BY <4>3 DEF Statuses, Stored, Unresolved
      <3>2. CASE outbox[o].status # "pending"
        BY <1>2a, <3>2, StatusType DEF BlockUndo
      <3>3. QED
        BY <3>1, <3>2
    <2>2. QED
      BY <1>2, <1>2a, <2>1 DEF BlockUndo
  <1>2b. ASSUME NEW t \in Tabs, NEW o \in Ops, Pass(t, o)
         PROVE  FlushType'
    <2>1. view[t][o] \in Statuses
      BY DEF FlushType
    <2>2. Advance(t, todo[t] \ {o}, o, view[t][o]) /\ UNCHANGED <<flight, stray>>
      BY <1>2b DEF Pass, PassUndo, PassUnsourced, PassClaimed
    <2>3. QED
      BY <1>2, <2>1, <2>2
  <1>3. ASSUME NEW t \in Tabs, NEW o \in Ops, Claim(t, o)
        PROVE  FlushType'
    BY <1>3 DEF Claim, FlushType, Flights
  <1>4. ASSUME NEW t \in Tabs, NEW o \in Ops, Deliver(t, o)
        PROVE  FlushType'
    <2>1. PICK a \in Answers : flight' = [flight EXCEPT ![t].answer = a]
      BY <1>4 DEF Deliver
    <2>2. flight[t] \in [op: Ops, answer: Answers \cup {Silence}]
      BY <1>4 DEF Deliver, FlushType, Flights, Idle, Ops, None
    <2>3. QED
      BY <1>4, <2>1, <2>2 DEF Deliver, FlushType, Flights
  <1>5. ASSUME NEW t \in Tabs, NEW o \in Ops, Receive(t, o)
        PROVE  FlushType'
    <2>1. flight[t].answer.status \in Statuses
      BY <1>5 DEF Receive, FlushType, Flights, Idle, Ops, None, Answers, Statuses, Stored, Unresolved
    <2>2. view[t][o] \in Statuses /\ todo[t] \ {o} \in SUBSET Ops
      BY DEF FlushType
    <2>3. todo' \in [Tabs -> SUBSET Ops] /\ view' \in [Tabs -> [Ops -> Statuses]]
      BY <1>5, <2>1, <2>2, AdvanceType DEF Receive
    <2>4. QED
      BY <1>5, <2>3 DEF Receive, FlushType, Flights
  <1>6. ASSUME NEW t \in Tabs, Fail(t) \/ Supersede(t) \/ Reload(t)
        PROVE  FlushType'
    BY <1>6, AbandonType DEF Fail, Supersede, Reload
  <1>7. ASSUME NEW o \in Ops, Late(o)
        PROVE  FlushType'
    BY <1>7 DEF Late, FlushType, Flights, flushVars
  <1>8. ASSUME UNCHANGED <<flushVars, stray>>
        PROVE  FlushType'
    BY <1>8 DEF FlushType, Flights, flushVars
  <1>9. ASSUME NEW t \in Tabs,
               \/ \E o \in Ops : ReapplyRead(t, o)
               \/ ReapplyStore(t) \/ ReapplyCancel(t)
        PROVE  UNCHANGED <<flushVars, stray>>
    BY <1>9 DEF ReapplyRead, ReapplyStore, ReapplyCancel
  <1>10. ASSUME NEW o \in Ops, Decide(o) \/ Prune(o) \/ LeaseExpires(o)
         PROVE  UNCHANGED <<flushVars, stray>>
    BY <1>10 DEF Decide, Discard, Retry, KeepSaved, HandOff, Prune, LeaseExpires
  <1>11. CASE Capture \/ EditMeaning \/ UndoCapture
    BY <1>8, <1>11 DEF Capture, EditMeaning, UndoCapture
  <1>12. CASE SaveSource \/ Restore \/ RestartService \/ Forget
    BY <1>8, <1>12 DEF SaveSource, Restore, RestartService, Forget
  <1>13. CASE UNCHANGED vars
    BY <1>8, <1>13 DEF vars
  <1>14. QED
    BY <1>1, <1>3, <1>4, <1>5, <1>6, <1>7, <1>8, <1>9, <1>10, <1>11, <1>12, <1>13,
       <1>2a, <1>2b
       DEF Next

\* The answer a says of o what the service did.
Answered(a, o) ==
  /\ a.status = "acked" => service[o].outcome = "applied"
  /\ a.status = "conflict" => service[o].outcome = "conflict"

ServiceType == service \in [Ops -> Receipt \cup {NotDone}] /\ lineage \in Nat

\* A handled request changes its own entry at most, and that only once; the answer
\* says what the entry says.
LEMMA HandleEffect ==
  ASSUME ServiceType, NEW o \in Ops, NEW a \in Answers, Handle(o, a)
  PROVE  /\ service' \in [Ops -> Receipt \cup {NotDone}]
         /\ \A p \in Ops : p # o \/ service[p] # NotDone => service'[p] = service[p]
         /\ Answered(a, o)'
  <1>1. \A r \in Executions(o) : r \in Receipt
    <2> DEFINE made(outcome, draft) ==
                 [outcome |-> outcome, lineage |-> lineage, draft |-> draft]
    <2>1. \A outcome \in {"applied", "conflict"} : \A draft \in SUBSET Fields :
            made(outcome, draft) \in Receipt
      BY DEF ServiceType, Receipt
    <2>2. \A d \in (IF source THEN Drafts ELSE {}) : d \in SUBSET Fields
      BY OutboxAssumption
    <2>3. Executions(o) \subseteq {made("applied", d) : d \in IF source THEN Drafts ELSE {}}
                               \cup {made("applied", {}), made("conflict", {})}
      BY DEF Executions
    <2> HIDE DEF made
    <2>4. QED
      BY <2>1, <2>2, <2>3
  <1>2. \A r \in Receipt : /\ Settled(r).status = "acked" => r.outcome = "applied"
                           /\ Settled(r).status = "conflict" => r.outcome = "conflict"
    BY DEF Settled, Receipt
  <1>3. \A code : Refused(code).status = "blocked"
    BY DEF Refused
  <1>4. CASE service[o] # NotDone /\ a = Settled(service[o]) /\ UNCHANGED service
    <2>1. service[o] \in Receipt
      BY <1>4 DEF ServiceType
    <2>2. Answered(a, o)'
      BY <1>2, <1>4, <2>1 DEF Answered
    <2>3. QED
      BY <1>4, <2>2 DEF ServiceType
  <1>5. CASE (\E code : a = Refused(code)) /\ UNCHANGED service
    <2>1. a.status = "blocked"
      BY <1>3, <1>5
    <2>2. QED
      BY <1>5, <2>1 DEF ServiceType, Answered
  <1>6. CASE /\ service[o] = NotDone
             /\ \E r \in Executions(o) : service' = [service EXCEPT ![o] = r] /\ a = Settled(r)
    <2>1. PICK r \in Executions(o) : service' = [service EXCEPT ![o] = r] /\ a = Settled(r)
      BY <1>6
    <2>2. r \in Receipt /\ service'[o] = r
      BY <1>1, <2>1 DEF ServiceType
    <2>3. Answered(a, o)'
      BY <1>2, <2>1, <2>2 DEF Answered
    <2>4. QED
      BY <1>6, <2>1, <2>2, <2>3 DEF ServiceType
  <1>7. QED
    BY <1>4, <1>5, <1>6 DEF Handle

\* What the service did with an operation, it did.
StableService == \A p \in Ops : service[p] # NotDone => service'[p] = service[p]

\* The requests a step lets the service handle were on the wire.
ByWire == \A p \in Ops : service'[p] # service[p] => OnTheWire(p)

\* What the service did with an operation stays, and it acts only on requests that
\* reached it.
LEMMA ServiceStep ==
  ASSUME ServiceType, Flights, [Next]_vars
  PROVE  service' \in [Ops -> Receipt \cup {NotDone}] /\ StableService /\ ByWire
  <1>1. ASSUME NEW o \in Ops, NEW a \in Answers, Handle(o, a), OnTheWire(o)
        PROVE  service' \in [Ops -> Receipt \cup {NotDone}] /\ StableService /\ ByWire
    <2>1. /\ service' \in [Ops -> Receipt \cup {NotDone}]
          /\ \A p \in Ops : p # o \/ service[p] # NotDone => service'[p] = service[p]
      BY <1>1, HandleEffect
    <2>2. QED
      BY <1>1, <2>1 DEF StableService, ByWire
  <1>2. ASSUME NEW t \in Tabs, NEW o \in Ops, Deliver(t, o)
        PROVE  service' \in [Ops -> Receipt \cup {NotDone}] /\ StableService /\ ByWire
    <2>1. PICK a \in Answers : Handle(o, a)
      BY <1>2 DEF Deliver
    <2>2. OnTheWire(o)
      BY <1>2 DEF Deliver, OnTheWire
    <2>3. QED
      BY <1>1, <2>1, <2>2
  <1>3. ASSUME NEW o \in Ops, Late(o)
        PROVE  service' \in [Ops -> Receipt \cup {NotDone}] /\ StableService /\ ByWire
    <2>1. PICK a \in Answers : Handle(o, a)
      BY <1>3 DEF Late
    <2>2. OnTheWire(o)
      BY <1>3 DEF Late, OnTheWire
    <2>3. QED
      BY <1>1, <2>1, <2>2
  <1>4. CASE UNCHANGED service
    BY <1>4 DEF StableService, ByWire, ServiceType
  <1>5. ASSUME NEW t \in Tabs,
               \/ StartFlush(t) \/ Fail(t) \/ Supersede(t) \/ Reload(t)
               \/ ReapplyStore(t) \/ ReapplyCancel(t)
               \/ \E o \in Ops : BlockUndo(t, o) \/ Pass(t, o) \/ Claim(t, o) \/ Receive(t, o)
                                \/ ReapplyRead(t, o)
        PROVE  UNCHANGED service
    BY <1>5 DEF StartFlush, Fail, Supersede, Reload, ReapplyStore, ReapplyCancel, BlockUndo,
       Pass, PassUndo, PassUnsourced, PassClaimed, Claim, Receive, ReapplyRead, serviceVars
  <1>6. ASSUME NEW o \in Ops, Decide(o) \/ Prune(o) \/ LeaseExpires(o)
        PROVE  UNCHANGED service
    BY <1>6 DEF Decide, Discard, Retry, KeepSaved, HandOff, Prune, LeaseExpires, serviceVars
  <1>7. Capture \/ EditMeaning \/ UndoCapture => UNCHANGED service
    BY DEF Capture, EditMeaning, UndoCapture, serviceVars
  <1>8. SaveSource \/ Restore \/ RestartService \/ Forget => UNCHANGED service
    BY DEF SaveSource, Restore, RestartService, Forget
  <1>9. UNCHANGED vars => UNCHANGED service
    BY DEF vars, serviceVars
  <1>10. QED
    BY <1>2, <1>3, <1>4, <1>5, <1>6, <1>7, <1>8, <1>9 DEF Next

\* Only a claim puts a request on the wire.
LEMMA WireStep ==
  ASSUME FlushType, NEW o \in Ops, OnTheWire(o)', [Next]_vars
  PROVE  OnTheWire(o) \/ \E t \in Tabs : Claim(t, o)
  <1>1. ASSUME NEW t \in Tabs, Abandon(t)
        PROVE  OnTheWire(o)
    <2>1. \A p \in Ops : Idle.op # p
      BY DEF Idle, Ops, None
    <2>2. \A u \in Tabs : flight'[u] = IF u = t THEN Idle ELSE flight[u]
      BY <1>1 DEF Abandon, FlushType, Flights
    <2>3. stray' \subseteq stray \cup {flight[t].op}
      BY <1>1 DEF Abandon
    <2>4. QED
      BY <2>1, <2>2, <2>3 DEF OnTheWire
  <1>2. ASSUME NEW t \in Tabs, NEW p \in Ops, Claim(t, p)
        PROVE  OnTheWire(o) \/ Claim(t, o)
    <2>1. stray' = stray /\ flight' = [flight EXCEPT ![t] = [op |-> p, answer |-> Silence]]
      BY <1>2 DEF Claim
    <2>2. \A u \in Tabs : flight'[u].op = IF u = t THEN p ELSE flight[u].op
      BY <2>1 DEF FlushType, Flights
    <2>3. QED
      BY <1>2, <2>1, <2>2 DEF OnTheWire
  <1>3. ASSUME NEW t \in Tabs, NEW p \in Ops, Deliver(t, p)
        PROVE  OnTheWire(o)
    <2>1. PICK a \in Answers : flight' = [flight EXCEPT ![t].answer = a]
      BY <1>3 DEF Deliver
    <2>2. flight[t] \in [op: Ops, answer: Answers \cup {Silence}]
      BY <1>3 DEF Deliver, FlushType, Flights, Idle, Ops, None
    <2>3. \A u \in Tabs : flight'[u].op = flight[u].op
      BY <2>1, <2>2 DEF FlushType, Flights
    <2>4. stray' = stray
      BY <1>3 DEF Deliver
    <2>5. QED
      BY <2>3, <2>4 DEF OnTheWire
  <1>4. ASSUME NEW t \in Tabs, NEW p \in Ops, Receive(t, p)
        PROVE  OnTheWire(o)
    <2>1. \A u \in Tabs : flight'[u] = IF u = t THEN Idle ELSE flight[u]
      BY <1>4 DEF Receive, FlushType, Flights
    <2>2. \A q \in Ops : Idle.op # q
      BY DEF Idle, Ops, None
    <2>3. stray' = stray
      BY <1>4 DEF Receive
    <2>4. QED
      BY <2>1, <2>2, <2>3 DEF OnTheWire
  <1>5. ASSUME NEW p \in Ops, Late(p)
        PROVE  OnTheWire(o)
    BY <1>5 DEF Late, OnTheWire, flushVars
  <1>6. ASSUME UNCHANGED <<flight, stray>>
        PROVE  OnTheWire(o)
    BY <1>6 DEF OnTheWire
  <1>7. ASSUME NEW t \in Tabs,
               \/ StartFlush(t) \/ ReapplyStore(t) \/ ReapplyCancel(t)
               \/ \E p \in Ops : BlockUndo(t, p) \/ Pass(t, p) \/ ReapplyRead(t, p)
        PROVE  UNCHANGED <<flight, stray>>
    BY <1>7 DEF StartFlush, ReapplyStore, ReapplyCancel, BlockUndo,
       Pass, PassUndo, PassUnsourced, PassClaimed, ReapplyRead, flushVars
  <1>8. ASSUME NEW p \in Ops, Decide(p) \/ Prune(p) \/ LeaseExpires(p)
        PROVE  UNCHANGED <<flight, stray>>
    BY <1>8 DEF Decide, Discard, Retry, KeepSaved, HandOff, Prune, LeaseExpires, flushVars
  <1>9. Capture \/ EditMeaning \/ UndoCapture => UNCHANGED <<flight, stray>>
    BY DEF Capture, EditMeaning, UndoCapture, flushVars
  <1>10. SaveSource \/ Restore \/ RestartService \/ Forget => UNCHANGED <<flight, stray>>
    BY DEF SaveSource, Restore, RestartService, Forget, flushVars
  <1>11. UNCHANGED vars => UNCHANGED <<flight, stray>>
    BY DEF vars, flushVars
  <1>12. ASSUME NEW t \in Tabs, Fail(t) \/ Supersede(t) \/ Reload(t)
         PROVE  Abandon(t)
    BY <1>12 DEF Fail, Supersede, Reload
  <1>13. QED
    BY <1>1, <1>2, <1>3, <1>4, <1>5, <1>6, <1>7, <1>8, <1>9, <1>10, <1>11, <1>12 DEF Next

-----------------------------------------------------------------------------
\* What TypeOK says of the rest.
RestType ==
  /\ reapply \in [Tabs -> [op: Ops, stored: BOOLEAN] \cup {NoReapply}]
  /\ forgotten \in SUBSET Ops
  /\ lineage \in Nat /\ process \in Nat /\ reloads \in Nat
  /\ source \in BOOLEAN

\* Born records stay.
LEMMA BornStays ==
  ASSUME Evolves, NEW o \in Ops, Born(o)
  PROVE  Born(o)'
  BY DEF Evolves, MayGo, Moves, Born

\* What is left: Reapply, the service's generations and its pruning boundary.
LEMMA RestStep ==
  ASSUME RestType, ReapplyBorn, Evolves, [Next]_vars
  PROVE  RestType' /\ ReapplyBorn'
  <1>1. CASE UNCHANGED reapply
    <2>1. ReapplyBorn'
      BY <1>1, BornStays DEF ReapplyBorn
    <2>2. SaveSource \/ Restore \/ RestartService \/ Forget => RestType'
      <3>1. SaveSource => RestType'
        BY <1>1 DEF RestType, SaveSource
      <3>2. Restore => RestType'
        BY <1>1 DEF RestType, Restore
      <3>3. RestartService => RestType'
        BY <1>1 DEF RestType, RestartService
      <3>4. Forget => RestType'
        BY <1>1 DEF RestType, Forget
      <3>5. QED
        BY <3>1, <3>2, <3>3, <3>4
    <2>3. UNCHANGED <<serviceVars, reloads>> => RestType'
      BY <1>1 DEF RestType, serviceVars
    <2>4. UNCHANGED <<forgotten, lineage, process, source, reloads>> => RestType'
      BY <1>1 DEF RestType
    <2>5. ASSUME NEW t \in Tabs,
                 \/ StartFlush(t) \/ Fail(t) \/ Supersede(t)
                 \/ ReapplyStore(t) \/ ReapplyCancel(t)
                 \/ \E o \in Ops : BlockUndo(t, o) \/ Pass(t, o) \/ Claim(t, o) \/ Receive(t, o)
                                  \/ ReapplyRead(t, o)
          PROVE  UNCHANGED <<serviceVars, reloads>>
      BY <2>5 DEF StartFlush, Fail, Supersede, ReapplyStore, ReapplyCancel, BlockUndo, Pass,
         PassUndo, PassUnsourced, PassClaimed, Claim, Receive, ReapplyRead
    <2>6. ASSUME NEW t \in Tabs, Reload(t)
          PROVE  RestType'
      BY <1>1, <2>6 DEF Reload, RestType, serviceVars
    <2>7. ASSUME NEW o \in Ops, Late(o) \/ \E t \in Tabs : Deliver(t, o)
          PROVE  UNCHANGED <<forgotten, lineage, process, source, reloads>>
      BY <2>7 DEF Late, Deliver
    <2>8. ASSUME NEW o \in Ops, Decide(o) \/ Prune(o) \/ LeaseExpires(o)
          PROVE  UNCHANGED <<serviceVars, reloads>>
      BY <2>8 DEF Decide, Discard, Retry, KeepSaved, HandOff, Prune, LeaseExpires
    <2>9. Capture \/ EditMeaning \/ UndoCapture => UNCHANGED <<serviceVars, reloads>>
      BY DEF Capture, EditMeaning, UndoCapture
    <2>10. UNCHANGED vars => UNCHANGED <<serviceVars, reloads>>
      BY DEF vars
    <2>11. RestType'
      BY <2>2, <2>3, <2>4, <2>5, <2>6, <2>7, <2>8, <2>9, <2>10 DEF Next
    <2>12. QED
      BY <2>1, <2>11
  <1>2. ASSUME NEW t \in Tabs, NEW o \in Ops, ReapplyRead(t, o)
        PROVE  RestType' /\ ReapplyBorn'
    <2>1. Born(o)'
      BY <1>2, BornStays DEF ReapplyRead, Born
    <2>2. reapply' = [reapply EXCEPT ![t] = [op |-> o, stored |-> FALSE]]
          /\ UNCHANGED <<serviceVars, reloads>>
      BY <1>2 DEF ReapplyRead
    <2>3. RestType'
      BY <2>2 DEF RestType, serviceVars
    <2>4. \A u \in Tabs : u # t => reapply'[u] = reapply[u]
      BY <2>2 DEF RestType
    <2>5. reapply'[t].op = o
      BY <2>2 DEF RestType
    <2>6. ReapplyBorn'
      BY <2>1, <2>4, <2>5, BornStays DEF ReapplyBorn
    <2>7. QED
      BY <2>3, <2>6
  <1>3. ASSUME NEW t \in Tabs, ReapplyStore(t)
        PROVE  RestType' /\ ReapplyBorn'
    <2>1. /\ reapply' = [reapply EXCEPT ![t].stored = TRUE]
          /\ UNCHANGED <<serviceVars, reloads>>
          /\ reapply[t] # NoReapply
      BY <1>3 DEF ReapplyStore
    <2>2. reapply[t] \in [op: Ops, stored: BOOLEAN]
      BY <2>1 DEF RestType
    <2>3. RestType'
      BY <2>1, <2>2 DEF RestType, serviceVars
    <2>4. \A u \in Tabs : reapply'[u].op = reapply[u].op
      BY <2>1, <2>2 DEF RestType
    <2>5. \A u \in Tabs : reapply'[u] # NoReapply => reapply[u] # NoReapply
      BY <2>1 DEF RestType
    <2>6. ReapplyBorn'
      BY <2>4, <2>5, BornStays DEF ReapplyBorn
    <2>7. QED
      BY <2>3, <2>6
  <1>4. ASSUME NEW t \in Tabs, reapply' = [reapply EXCEPT ![t] = NoReapply],
               UNCHANGED serviceVars, reloads' \in Nat
        PROVE  RestType' /\ ReapplyBorn'
    <2>1. RestType'
      BY <1>4 DEF RestType, serviceVars
    <2>2. \A u \in Tabs : reapply'[u] # NoReapply => reapply'[u] = reapply[u]
      BY <1>4 DEF RestType
    <2>3. ReapplyBorn'
      BY <2>2, BornStays DEF ReapplyBorn
    <2>4. QED
      BY <2>1, <2>3
  <1>5. ASSUME NEW t \in Tabs, ReapplyCancel(t) \/ Reload(t)
        PROVE  RestType' /\ ReapplyBorn'
    BY <1>4, <1>5 DEF ReapplyCancel, Reload, RestType
  <1>6. ASSUME NEW t \in Tabs,
               \/ StartFlush(t) \/ Fail(t) \/ Supersede(t)
               \/ \E o \in Ops : BlockUndo(t, o) \/ Pass(t, o) \/ Claim(t, o) \/ Receive(t, o)
                                \/ Deliver(t, o)
        PROVE  UNCHANGED reapply
    BY <1>6 DEF StartFlush, Fail, Supersede, BlockUndo, Pass,
       PassUndo, PassUnsourced, PassClaimed, Claim, Receive, Deliver
  <1>7. ASSUME NEW o \in Ops, Decide(o) \/ Prune(o) \/ LeaseExpires(o) \/ Late(o)
        PROVE  UNCHANGED reapply
    BY <1>7 DEF Decide, Discard, Retry, KeepSaved, HandOff, Prune, LeaseExpires, Late
  <1>8. \/ Capture \/ EditMeaning \/ UndoCapture
        \/ SaveSource \/ Restore \/ RestartService \/ Forget
        \/ UNCHANGED vars
        => UNCHANGED reapply
    BY DEF Capture, EditMeaning, UndoCapture, SaveSource, Restore, RestartService, Forget, vars
  <1>9. QED
    BY <1>1, <1>2, <1>3, <1>5, <1>6, <1>7, <1>8 DEF Next

\* The inductive form of TypeOK.
TypeInv == TypeOK /\ Prefix /\ ReapplyBorn

\* The strengthened type invariant is inductive.
LEMMA TypeStep ==
  ASSUME TypeInv, [Next]_vars
  PROVE  TypeInv' /\ Evolves
  <1>1. Evolves
    BY StepEvolves DEF TypeInv
  <1>2. FlushType /\ RestType /\ Records /\ ServiceType /\ Flights
    BY DEF TypeInv, TypeOK, FlushType, RestType, Records, ServiceType, Flights, Born
  <1>3. FlushType'
    BY <1>2, FlushTypeStep
  <1>4. RestType' /\ ReapplyBorn'
    BY <1>1, <1>2, RestStep DEF TypeInv
  <1>5. service' \in [Ops -> Receipt \cup {NotDone}]
    BY <1>2, ServiceStep
  <1>6. Records'
    BY <1>1 DEF Evolves
  <1>7. TypeOK'
    BY <1>3, <1>4, <1>5, <1>6 DEF TypeOK, FlushType, Flights, RestType, Records, Born
  <1>8. QED
    BY <1>1, <1>4, <1>6, <1>7 DEF TypeInv, Records

\* Records, links, lists and generations start with their declared shapes, in order.
LEMMA TypeInit ==
  ASSUME Init
  PROVE  TypeInv
  <1>1. \A o \in Ops : ~Born(o) /\ outbox[o] = NoRecord
    BY DEF Init, Born, NoRecord
  <1>2. NoView \in [Ops -> Statuses]
    BY DEF NoView, Statuses
  <1>3. TypeOK
    BY <1>1, <1>2 DEF Init, TypeOK, Born
  <1>4. QED
    BY <1>1, <1>3 DEF Init, TypeInv, Prefix, ReapplyBorn

\* Whatever tabs, timers and answers do, the store of operations and everything the
\* browsers and the service keep of them has its declared shape; in particular every
\* undo stays linked to an earlier capture, and every chained edit to an earlier edit.
THEOREM TypeCorrect == Spec => []TypeOK
  <1>1. TypeInv /\ [Next]_vars => TypeInv'
    BY TypeStep
  <1>2. TypeInv => TypeOK
    BY DEF TypeInv
  <1>3. QED
    BY <1>1, <1>2, TypeInit, PTL DEF Spec

-----------------------------------------------------------------------------
(***************************************************************************)
(* What the browsers believe of the service.                               *)
(***************************************************************************)
\* An answer that arrived is true of the service.
AnswersOK ==
  \A t \in Tabs : flight[t] # Idle /\ flight[t].answer # Silence =>
                  Answered(flight[t].answer, flight[t].op)

\* What a flush takes for acknowledged was applied.
Knows == \A t \in Tabs, o \in Ops : view[t][o] = "acked" => Applied(o)

\* What a tab awaits changes by a claim, an answer or the end of the wait only.
LEMMA FlightStep ==
  ASSUME FlushType, NEW t \in Tabs, [Next]_vars
  PROVE  \/ flight'[t] = flight[t]
         \/ flight'[t] = Idle
         \/ flight'[t].answer = Silence
         \/ \E o \in Ops : Deliver(t, o)
  <1> DEFINE Goal == \/ flight'[t] = flight[t]
                     \/ flight'[t] = Idle
                     \/ flight'[t].answer = Silence
                     \/ \E o \in Ops : Deliver(t, o)
  <1>1. ASSUME NEW u \in Tabs, Abandon(u) \/ \E o \in Ops : Receive(u, o)
        PROVE  Goal
    <2>1. flight' = [flight EXCEPT ![u] = Idle]
      BY <1>1 DEF Abandon, Receive
    <2>2. QED
      BY <2>1 DEF FlushType, Flights
  <1>2. ASSUME NEW u \in Tabs, NEW o \in Ops, Claim(u, o)
        PROVE  Goal
    <2>1. flight' = [flight EXCEPT ![u] = [op |-> o, answer |-> Silence]]
      BY <1>2 DEF Claim
    <2>2. QED
      BY <2>1 DEF FlushType, Flights
  <1>3. ASSUME NEW u \in Tabs, NEW o \in Ops, Deliver(u, o)
        PROVE  Goal
    <2>1. PICK a : flight' = [flight EXCEPT ![u].answer = a]
      BY <1>3 DEF Deliver
    <2>2. u # t => flight'[t] = flight[t]
      BY <2>1 DEF FlushType, Flights
    <2>3. QED
      BY <1>3, <2>2
  <1>4. ASSUME NEW u \in Tabs,
               \/ StartFlush(u) \/ ReapplyStore(u) \/ ReapplyCancel(u)
               \/ \E p \in Ops : BlockUndo(u, p) \/ Pass(u, p) \/ ReapplyRead(u, p)
        PROVE  UNCHANGED flight
    BY <1>4 DEF StartFlush, ReapplyStore, ReapplyCancel, BlockUndo,
       Pass, PassUndo, PassUnsourced, PassClaimed, ReapplyRead, flushVars
  <1>5. ASSUME NEW p \in Ops, Decide(p) \/ Prune(p) \/ LeaseExpires(p) \/ Late(p)
        PROVE  UNCHANGED flight
    BY <1>5 DEF Decide, Discard, Retry, KeepSaved, HandOff, Prune, LeaseExpires, Late, flushVars
  <1>6. \/ Capture \/ EditMeaning \/ UndoCapture
        \/ SaveSource \/ Restore \/ RestartService \/ Forget
        \/ UNCHANGED vars
        => UNCHANGED flight
    BY DEF Capture, EditMeaning, UndoCapture, SaveSource, Restore, RestartService, Forget, vars,
       flushVars
  <1>7. ASSUME NEW u \in Tabs, Fail(u) \/ Supersede(u) \/ Reload(u)
        PROVE  Abandon(u)
    BY <1>7 DEF Fail, Supersede, Reload
  <1>8. QED
    BY <1>1, <1>2, <1>3, <1>4, <1>5, <1>6, <1>7 DEF Next

\* An answer a tab holds is true of the service, and stays so.
LEMMA AnswersStep ==
  ASSUME FlushType, ServiceType, AnswersOK, [Next]_vars
  PROVE  AnswersOK'
  <1>1. StableService
    BY ServiceStep DEF FlushType
  <1>2. SUFFICES ASSUME NEW t \in Tabs, flight'[t] # Idle, flight'[t].answer # Silence
                 PROVE  Answered(flight[t].answer, flight[t].op)'
    BY DEF AnswersOK
  <1>3. CASE flight'[t] = flight[t]
    <2>1. Answered(flight[t].answer, flight[t].op)
      BY <1>2, <1>3 DEF AnswersOK
    <2>2. flight[t].op \in Ops
      BY <1>2, <1>3 DEF FlushType, Flights
    <2>3. NotDone.outcome = "none"
      BY DEF NotDone
    <2>4. QED
      BY <1>1, <1>3, <2>1, <2>2, <2>3 DEF Answered, StableService
  <1>4. ASSUME NEW o \in Ops, Deliver(t, o)
        PROVE  Answered(flight[t].answer, flight[t].op)'
    <2>1. PICK a \in Answers : Handle(o, a) /\ flight' = [flight EXCEPT ![t].answer = a]
      BY <1>4 DEF Deliver
    <2>2. Answered(a, o)'
      BY <2>1, HandleEffect
    <2>3. flight[t] \in [op: Ops, answer: Answers \cup {Silence}] /\ flight[t].op = o
      BY <1>4 DEF Deliver, FlushType, Flights, Idle, Ops, None
    <2>4. flight'[t].answer = a /\ flight'[t].op = o
      BY <2>1, <2>3 DEF FlushType, Flights
    <2>5. QED
      BY <2>2, <2>4 DEF Answered
  <1>5. QED
    BY <1>2, <1>3, <1>4, FlightStep

\* What a flush learns by going on in its list.
LEMMA AdvanceKnows ==
  ASSUME FlushType, NEW u \in Tabs, NEW o \in Ops, NEW rest, NEW status,
         Advance(u, rest, o, status), NEW t \in Tabs, NEW p \in Ops, view'[t][p] = "acked"
  PROVE  view[t][p] = "acked" \/ (t = u /\ p = o /\ status = "acked")
  <1>1. view' = [view EXCEPT ![u] = Seen([view[u] EXCEPT ![o] = status], rest)]
    BY DEF Advance
  <1>2. view \in [Tabs -> [Ops -> Statuses]]
    BY DEF FlushType
  <1>3. CASE t = u
    <2>1. view'[t][p] = Seen([view[u] EXCEPT ![o] = status], rest)[p]
      BY <1>1, <1>2, <1>3
    <2>2. [view[u] EXCEPT ![o] = status][p] = "acked"
      BY <2>1 DEF Seen
    <2>3. QED
      BY <1>2, <1>3, <2>2
  <1>4. CASE t # u
    BY <1>1, <1>2, <1>4
  <1>5. QED
    BY <1>3, <1>4

\* A flush knows of an acknowledgement by its list, by what it knew or by an answer.
LEMMA ViewStep ==
  ASSUME FlushType, NEW t \in Tabs, NEW p \in Ops, view'[t][p] = "acked", [Next]_vars
  PROVE  \/ view[t][p] = "acked" \/ outbox[p].status = "acked" \/ outbox'[p].status = "acked"
         \/ ByAnswer(p, "acked")
  <1> DEFINE Goal == \/ view[t][p] = "acked" \/ outbox[p].status = "acked"
                     \/ outbox'[p].status = "acked" \/ ByAnswer(p, "acked")
  <1>1. view \in [Tabs -> [Ops -> Statuses]]
    BY DEF FlushType
  <1>2. ASSUME NEW u \in Tabs, StartFlush(u)
        PROVE  Goal
    <2>1. view' = [view EXCEPT ![u] = Seen([o \in Ops |-> outbox[o].status],
                                           With({"pending", "sending"}))]
      BY <1>2 DEF StartFlush
    <2>2. t = u => Seen([o \in Ops |-> outbox[o].status], With({"pending", "sending"}))[p] = "acked"
      BY <1>1, <2>1
    <2>3. t # u => view'[t] = view[t]
      BY <1>1, <2>1
    <2>4. QED
      BY <2>2, <2>3 DEF Seen
  <1>3. ASSUME NEW u \in Tabs, NEW o \in Ops, Pass(u, o)
        PROVE  Goal
    <2>1. Advance(u, todo[u] \ {o}, o, view[u][o])
      BY <1>3 DEF Pass, PassUndo, PassUnsourced, PassClaimed
    <2>2. QED
      BY <2>1, AdvanceKnows
  <1>4. ASSUME NEW u \in Tabs, NEW o \in Ops, BlockUndo(u, o)
        PROVE  Goal
    <2>1. Advance(u, todo[u] \ {o}, o, outbox'[o].status)
      BY <1>4 DEF BlockUndo
    <2>2. QED
      BY <2>1, AdvanceKnows
  <1>5. ASSUME NEW u \in Tabs, NEW o \in Ops, Receive(u, o)
        PROVE  Goal
    <2> DEFINE status == IF outbox[o].status = "sending" THEN flight[u].answer.status
                         ELSE view[u][o]
    <2>1. Advance(u, todo[u] \ {o}, o, status)
      BY <1>5 DEF Receive
    <2>2. flight[u].op = o /\ flight[u].answer # Silence
      BY <1>5 DEF Receive
    <2>3. status = "acked" => view[u][o] = "acked" \/ ByAnswer(o, "acked")
      BY <2>2 DEF ByAnswer
    <2> HIDE DEF status
    <2>4. QED
      BY <2>1, <2>3, AdvanceKnows
  <1>6. ASSUME NEW u \in Tabs, Abandon(u)
        PROVE  Goal
    <2>1. view' = [view EXCEPT ![u] = NoView]
      BY <1>6 DEF Abandon
    <2>2. NoView[p] = "unborn"
      BY DEF NoView
    <2>3. QED
      BY <1>1, <2>1, <2>2
  <1>7. ASSUME NEW u \in Tabs, Fail(u) \/ Supersede(u) \/ Reload(u)
        PROVE  Abandon(u)
    BY <1>7 DEF Fail, Supersede, Reload
  <1>8. ASSUME NEW u \in Tabs,
               \/ ReapplyStore(u) \/ ReapplyCancel(u)
               \/ \E o \in Ops : Claim(u, o) \/ Deliver(u, o) \/ ReapplyRead(u, o)
        PROVE  UNCHANGED view
    BY <1>8 DEF ReapplyStore, ReapplyCancel, Claim, Deliver, ReapplyRead, flushVars
  <1>9. ASSUME NEW o \in Ops, Decide(o) \/ Prune(o) \/ LeaseExpires(o) \/ Late(o)
        PROVE  UNCHANGED view
    BY <1>9 DEF Decide, Discard, Retry, KeepSaved, HandOff, Prune, LeaseExpires, Late, flushVars
  <1>10. \/ Capture \/ EditMeaning \/ UndoCapture
         \/ SaveSource \/ Restore \/ RestartService \/ Forget
         \/ UNCHANGED vars
         => UNCHANGED view
    BY DEF Capture, EditMeaning, UndoCapture, SaveSource, Restore, RestartService, Forget, vars,
       flushVars
  <1>11. QED
    BY <1>2, <1>3, <1>4, <1>5, <1>6, <1>7, <1>8, <1>9, <1>10 DEF Next

\* The inductive invariant.
Inv ==
  /\ TypeInv
  /\ AnswersOK /\ Knows /\ WireBorn
  /\ AcknowledgedIsApplied
  /\ UndoAfterCapture

\* The acknowledgements a step adds, in the store and in a flush, were answers.
LEMMA BeliefStep ==
  ASSUME Inv, [Next]_vars
  PROVE  AcknowledgedIsApplied' /\ Knows'
  <1>1. /\ Evolves /\ TypeInv'
    BY TypeStep DEF Inv
  <1>2. FlushType /\ ServiceType /\ Flights
    BY DEF Inv, TypeInv, TypeOK, FlushType, ServiceType, Flights
  <1>3. StableService
    BY <1>2, ServiceStep
  <1>4. \A o \in Ops : \A status \in {"acked", "conflict"} : ByAnswer(o, status) =>
          service[o].outcome = IF status = "acked" THEN "applied" ELSE "conflict"
    <2>1. \A o \in Ops : Idle.op # o
      BY DEF Idle, Ops, None
    <2>2. QED
      BY <2>1 DEF ByAnswer, Inv, AnswersOK, Answered
  <1>5. \A o \in Ops : service[o].outcome \in {"applied", "conflict"} => service'[o] = service[o]
    BY <1>3 DEF StableService, NotDone
  <1>6. \A o \in Ops : \A status \in {"acked", "conflict"} : outbox'[o].status = status =>
          outbox[o].status = status \/ ByAnswer(o, status)
    BY <1>1 DEF Evolves, MayGo
  <1>7. AcknowledgedIsApplied'
    BY <1>4, <1>5, <1>6 DEF Inv, AcknowledgedIsApplied
  <1>8. ASSUME NEW t \in Tabs, NEW o \in Ops, view'[t][o] = "acked"
        PROVE  Applied(o)'
    <2>1. \/ view[t][o] = "acked" \/ outbox[o].status = "acked" \/ outbox'[o].status = "acked"
          \/ ByAnswer(o, "acked")
      BY <1>2, <1>8, ViewStep
    <2>2. CASE outbox'[o].status = "acked"
      BY <1>7, <2>2 DEF AcknowledgedIsApplied, Applied
    <2>3. CASE \/ view[t][o] = "acked" \/ outbox[o].status = "acked"
               \/ ByAnswer(o, "acked")
      <3>1. service[o].outcome = "applied"
        BY <1>4, <2>3 DEF Inv, Knows, AcknowledgedIsApplied, Applied
      <3>2. QED
        BY <1>5, <3>1 DEF Applied
    <2>4. QED
      BY <2>1, <2>2, <2>3
  <1>9. QED
    BY <1>7, <1>8 DEF Knows

\* Requests on the wire or executed belong to records, and an undo among them to an
\* applied capture.
LEMMA UndoStep ==
  ASSUME Inv, [Next]_vars
  PROVE  WireBorn' /\ UndoAfterCapture'
  <1>1. Evolves
    BY TypeStep DEF Inv
  <1>2. FlushType /\ ServiceType /\ Flights /\ Records
    BY DEF Inv, TypeInv, TypeOK, FlushType, ServiceType, Flights, Records, Born
  <1>3. StableService /\ ByWire
    BY <1>2, ServiceStep
  <1>4. ASSUME NEW o \in Ops, OnTheWire(o)' \/ service'[o] # NotDone
        PROVE  OnTheWire(o) \/ service[o] # NotDone \/ \E t \in Tabs : Claim(t, o)
    BY <1>2, <1>3, <1>4, WireStep DEF ByWire
  <1>5. ASSUME NEW o \in Ops, OnTheWire(o)' \/ service'[o] # NotDone
        PROVE  Born(o) /\ Born(o)'
    <2>1. \A t \in Tabs : Claim(t, o) => Born(o)
      BY DEF Claim, Claimable, Born
    <2>2. Born(o)
      BY <1>4, <1>5, <2>1 DEF Inv, WireBorn
    <2>3. QED
      BY <1>1, <2>2, BornStays
  <1>6. WireBorn'
    BY <1>5 DEF WireBorn
  <1>7. ASSUME NEW o \in Ops, outbox'[o].kind = "undo", OnTheWire(o)' \/ service'[o] # NotDone
        PROVE  Applied(outbox[o].prior)'
    <2>1. /\ Born(o)
          /\ outbox[o].kind = "undo" /\ outbox'[o].prior = outbox[o].prior
      BY <1>1, <1>5, <1>7 DEF Evolves
    <2>2. outbox[o].prior \in Ops
      <3>1. outbox[o].prior \in Ops \cup {None}
        BY <1>2, <2>1, Unborn DEF Record
      <3>2. outbox[o].prior # None
        BY <1>2, <2>1 DEF Records, PriorOK
      <3>3. QED
        BY <3>1, <3>2
    <2>3. Applied(outbox[o].prior)
      <3>1. CASE OnTheWire(o) \/ service[o] # NotDone
        BY <2>1, <3>1 DEF Inv, UndoAfterCapture, Born
      <3>2. ASSUME NEW t \in Tabs, Claim(t, o)
            PROVE  Applied(outbox[o].prior)
        <4>1. view[t][outbox[o].prior] = "acked"
          BY <2>1, <3>2 DEF Claim, Waits
        <4>2. QED
          BY <2>2, <4>1 DEF Inv, Knows
      <3>3. QED
        BY <1>4, <1>7, <3>1, <3>2
    <2>4. service'[outbox[o].prior] = service[outbox[o].prior]
      BY <1>3, <2>2, <2>3 DEF StableService, Applied, NotDone
    <2>5. QED
      BY <2>1, <2>3, <2>4 DEF Applied
  <1>8. UndoAfterCapture'
    BY <1>7 DEF UndoAfterCapture
  <1>9. QED
    BY <1>6, <1>8

\* The whole invariant is inductive.
LEMMA InvStep ==
  ASSUME Inv, [Next]_vars
  PROVE  Inv'
  <1>1. FlushType /\ ServiceType
    BY DEF Inv, TypeInv, TypeOK, FlushType, ServiceType, Flights
  <1>2. AnswersOK'
    BY <1>1, AnswersStep DEF Inv
  <1>3. TypeInv'
    BY TypeStep DEF Inv
  <1>4. QED
    BY <1>2, <1>3, BeliefStep, UndoStep DEF Inv

\* Nothing is believed or sent at the start.
LEMMA InvInit ==
  ASSUME Init
  PROVE  Inv
  <1>1. TypeInv
    BY TypeInit
  <1>2. \A t \in Tabs : flight[t] = Idle /\ view[t] = NoView
    BY DEF Init
  <1>3. \A o \in Ops : ~Born(o) /\ service[o] = NotDone /\ ~OnTheWire(o)
    BY <1>2 DEF Init, Born, NoRecord, OnTheWire, Idle, Ops, None
  <1>4. AnswersOK /\ Knows /\ WireBorn
    BY <1>2, <1>3 DEF AnswersOK, Knows, WireBorn, NoView
  <1>5. AcknowledgedIsApplied /\ UndoAfterCapture
    BY <1>3 DEF AcknowledgedIsApplied, UndoAfterCapture, Born
  <1>6. QED
    BY <1>1, <1>4, <1>5 DEF Inv

\* A record is acknowledged only if the service applied its operation, and in conflict
\* only if the service recorded one: for any number of tabs, copies of a request and
\* orders of their answers (flush, model.ts:1099-1116).
THEOREM SettledByService == Spec => []AcknowledgedIsApplied
  <1>1. Inv /\ [Next]_vars => Inv'
    BY InvStep
  <1>2. Inv => AcknowledgedIsApplied
    BY DEF Inv
  <1>3. QED
    BY <1>1, <1>2, InvInit, PTL DEF Spec

\* An Undo reaches the service only after the capture it depends on was applied,
\* whatever a flush remembers of it (model.ts:1075-1083).
THEOREM UndoFollowsCapture == Spec => []UndoAfterCapture
  <1>1. Inv /\ [Next]_vars => Inv'
    BY InvStep
  <1>2. Inv => UndoAfterCapture
    BY DEF Inv
  <1>3. QED
    BY <1>1, <1>2, InvInit, PTL DEF Spec

\* The record's state machine: nothing but the transitions of Moves, whoever acts and
\* whatever answers come late (transition, operationOutbox.ts:180-188).
THEOREM MovesOnly == Spec => OnlyAllowedMoves
  <1>1. TypeInv /\ [Next]_vars => TypeInv'
    BY TypeStep
  <1> DEFINE Allowed == \A o \in Ops : LET before == outbox[o].status
                                         after == outbox'[o].status
                                     IN before = after \/ <<before, after>> \in Moves
  <1>2. TypeInv /\ [Next]_vars => [Allowed]_vars
    <2>1. Evolves => Allowed
      BY DEF Evolves, MayGo
    <2>2. QED
      BY <2>1, TypeStep
  <1>3. QED
    BY <1>1, <1>2, TypeInit, PTL DEF Spec, OnlyAllowedMoves

\* A step adds at most one unresolved record, and that only below the cap.
LEMMA CapStep ==
  ASSUME TypeInv, CapKept, [Next]_vars
  PROVE  CapKept'
  <1>1. Evolves
    BY TypeStep
  <1>2. Records
    BY DEF TypeInv, TypeOK, Records, Born
  <1>3. With(Unresolved) \subseteq Ops
    BY DEF With
  <1>4. IsFiniteSet(Ops)
    BY FS_Interval, OutboxAssumption DEF Ops
  <1>5. IsFiniteSet(With(Unresolved))
    BY <1>3, <1>4, FS_Subset
  <1>6. ASSUME NEW o \in Ops, outbox'[o].status \in Unresolved, Born(o)
        PROVE  outbox[o].status \in Unresolved
    BY <1>1, <1>6 DEF Evolves, MayGo, Moves, Unresolved, Born
  <1>7. \A o \in Ops : outbox'[o].status \in Unresolved => Born(o)'
    BY DEF Unresolved, Born
  <1>8. CASE \A o \in Ops : Born(o)' => Born(o)
    <2>1. With(Unresolved)' \subseteq With(Unresolved)
      BY <1>6, <1>7, <1>8 DEF With
    <2>2. Cardinality(With(Unresolved)') <= Cardinality(With(Unresolved))
      BY <2>1, <1>5, FS_Subset
    <2>3. /\ Cardinality(With(Unresolved)') \in Nat
          /\ Cardinality(With(Unresolved)) \in Nat
      BY <2>1, <1>5, FS_Subset, FS_CardinalityType
    <2>4. QED
      BY <2>2, <2>3, OutboxAssumption DEF CapKept
  <1>9. ASSUME Room, NEW n \in Ops, \A o \in Ops : Born(o)' => Born(o) \/ o = n
        PROVE  CapKept'
    <2>1. With(Unresolved)' \subseteq With(Unresolved) \cup {n}
      BY <1>6, <1>7, <1>9 DEF With
    <2>2. /\ IsFiniteSet(With(Unresolved) \cup {n})
          /\ Cardinality(With(Unresolved) \cup {n}) \in Nat
          /\ Cardinality(With(Unresolved)) \in Nat
          /\ Cardinality(With(Unresolved) \cup {n}) <= Cardinality(With(Unresolved)) + 1
      <3> DEFINE S == With(Unresolved)
      <3> HIDE DEF S
      <3>1. IsFiniteSet(S)
        BY <1>5 DEF S
      <3>2. /\ IsFiniteSet(S \cup {n})
            /\ Cardinality(S \cup {n}) = IF n \in S THEN Cardinality(S) ELSE Cardinality(S) + 1
        BY <3>1, FS_AddElement
      <3>3. Cardinality(S) \in Nat
        BY <3>1, FS_CardinalityType
      <3>4. QED
        BY <3>1, <3>2, <3>3 DEF S
    <2>3. /\ Cardinality(With(Unresolved)') \in Nat
          /\ Cardinality(With(Unresolved)') <= Cardinality(With(Unresolved) \cup {n})
      BY <2>1, <2>2, FS_Subset, FS_CardinalityType
    <2>4. Cardinality(With(Unresolved)) < Cap
      BY <1>9 DEF Room
    <2>5. QED
      BY <2>2, <2>3, <2>4, OutboxAssumption DEF CapKept
  <1>10. QED
    BY <1>1, <1>8, <1>9 DEF Evolves, Grows

\* However many tabs add and hand off, the unresolved records never exceed the cap
\* (operationOutbox.ts:12, 173-179).
THEOREM CapHolds == Spec => []CapKept
  <1>1. TypeInv /\ CapKept /\ [Next]_vars => (TypeInv /\ CapKept)'
    BY TypeStep, CapStep
  <1>2. Init => CapKept
    <2>1. Init => With(Unresolved) = {}
      BY DEF Init, With, NoRecord, Unresolved
    <2>2. Cardinality({}) <= Cap
      BY FS_EmptySet, OutboxAssumption
    <2>3. QED
      BY <2>1, <2>2 DEF CapKept
  <1>3. QED
    BY <1>1, <1>2, TypeInit, PTL DEF Spec
-----------------------------------------------------------------------------
(***************************************************************************)
(* Unapplied drafts.                                                       *)
(***************************************************************************)
\* Only a claimed record that waits for its answer has an owner.
OwnedIsSending ==
  \A o \in Ops : Born(o) /\ outbox[o].owner # None => outbox[o].status = "sending"

\* What a step may do to what a record says of drafts: an answer opens fields, decisions
\* and handoffs close one.
KeepsDraft(o) ==
  /\ outbox'[o].instead = outbox[o].instead
  /\ outbox'[o].taken = outbox[o].taken
  /\ outbox[o].status # "sending" =>
       \/ outbox'[o].open = outbox[o].open
       \/ outbox'[o].status = "acked" /\ \E field \in outbox[o].open : outbox'[o].open = outbox[o].open \ {field}
  /\ outbox[o].status = "acked" /\ outbox[o].open # {} /\ outbox'[o] # outbox[o] =>
       outbox'[o].status = "acked" /\ outbox'[o].open # outbox[o].open
  /\ outbox'[o].owner # None => outbox'[o].status = "sending"

\* A new record takes nothing, and replaces a capture only by a handoff.
FreshDraft(o) ==
  /\ outbox'[o].owner = None /\ ~outbox'[o].taken
  /\ outbox'[o].instead # None =>
       /\ outbox'[o].instead \in Ops /\ Born(outbox'[o].instead)
       /\ outbox'[o].kind = "meaning" => outbox[outbox'[o].instead].kind = "meaning"

DraftsEvolve == \A o \in Ops : IF Born(o) THEN KeepsDraft(o) ELSE Born(o)' => FreshDraft(o)

\* A patched record is the only one that changes.
LEMMA PatchDraft ==
  ASSUME Records, OwnedIsSending, NEW o \in Ops, Born(o),
         NEW r, outbox' = [outbox EXCEPT ![o] = r],
         outbox'[o] = r => KeepsDraft(o)
  PROVE  DraftsEvolve
  <1>1. \A p \in Ops : outbox'[p] = IF p = o THEN r ELSE outbox[p]
    BY DEF Records
  <1>2. KeepsDraft(o)
    BY <1>1
  <1>3. ASSUME NEW p \in Ops, p # o, Born(p)
        PROVE  KeepsDraft(p)
    BY <1>1, <1>3 DEF KeepsDraft, OwnedIsSending
  <1>4. \A p \in Ops : p # o => (Born(p)' <=> Born(p))
    BY <1>1 DEF Born
  <1>5. QED
    BY <1>2, <1>3, <1>4 DEF DraftsEvolve

LEMMA SameDrafts ==
  ASSUME OwnedIsSending, outbox' = outbox
  PROVE  DraftsEvolve
  BY DEF OwnedIsSending, DraftsEvolve, KeepsDraft, Born

\* A record added.
LEMMA AddDraft ==
  ASSUME Records, OwnedIsSending, NEW o \in Ops, NEW kind, NEW prior, NEW instead,
         instead # None => /\ instead \in Ops /\ Born(instead)
                           /\ kind = "meaning" => outbox[instead].kind = "meaning",
         Add(o, kind, prior, instead)
  PROVE  DraftsEvolve
  <1>1. PICK l \in 0 .. lineage, p \in 0 .. process :
          outbox' = [outbox EXCEPT ![o] = NewRecord(kind, prior, instead, l, p)]
    BY DEF Add
  <1>2. \A q \in Ops : outbox'[q] = IF q = o THEN NewRecord(kind, prior, instead, l, p) ELSE outbox[q]
    BY <1>1 DEF Records
  <1>3. ~Born(o)
    BY DEF Add, Born
  <1>4. FreshDraft(o)
    BY <1>2 DEF FreshDraft, NewRecord
  <1>5. ASSUME NEW q \in Ops, q # o, Born(q)
        PROVE  KeepsDraft(q)
    BY <1>2, <1>5 DEF KeepsDraft, OwnedIsSending
  <1>6. \A q \in Ops : q # o => (Born(q)' <=> Born(q))
    BY <1>2 DEF Born
  <1>7. QED
    BY <1>3, <1>4, <1>5, <1>6 DEF DraftsEvolve

\* Storing an intent.
LEMMA StoreDraft ==
  ASSUME Records, OwnedIsSending, ReapplyBorn,
         Capture \/ EditMeaning \/ UndoCapture \/ \E t \in Tabs : ReapplyStore(t)
  PROVE  DraftsEvolve
  <1>1. CASE Capture \/ EditMeaning \/ UndoCapture
    <2>1. \E o \in Ops : \E kind, prior : Add(o, kind, prior, None)
      BY <1>1 DEF Capture, EditMeaning, UndoCapture
    <2>2. PICK o \in Ops : \E kind, prior : Add(o, kind, prior, None)
      BY <2>1
    <2>3. PICK kind, prior : Add(o, kind, prior, None)
      BY <2>2
    <2>4. QED
      BY <2>3, AddDraft
  <1>2. CASE \E t \in Tabs : ReapplyStore(t)
    <2>1. PICK t \in Tabs : ReapplyStore(t)
      BY <1>2
    <2> DEFINE old == reapply[t].op
               depends == IF outbox[old].kind = "undo" THEN outbox[old].prior ELSE None
    <2>2. PICK o \in Ops : Add(o, outbox[old].kind, depends, old)
      BY <2>1 DEF ReapplyStore
    <2>3. old \in Ops /\ Born(old)
      BY <2>1 DEF ReapplyStore, ReapplyBorn, Born
    <2>4. QED
      BY <2>2, <2>3, AddDraft
  <1>3. QED
    BY <1>1, <1>2

\* Decisions other than a handoff, the clock and the clean-up.
LEMMA DecisionDraft ==
  ASSUME Records, OwnedIsSending, NEW o \in Ops,
         \/ Discard(o) \/ Retry(o) \/ Prune(o) \/ LeaseExpires(o)
         \/ \E field \in Fields : KeepSaved(o, field)
  PROVE  DraftsEvolve
  <1>1. Born(o)
    BY DEF Discard, Retry, Prune, Prunable, LeaseExpires, KeepSaved, Undecided, Born
  <1>2. outbox[o] \in Record /\ (outbox[o].owner # None => outbox[o].status = "sending")
    BY <1>1, Unborn DEF OwnedIsSending
  <1>3. CASE Discard(o)
    <2> DEFINE r == [outbox[o] EXCEPT !.status = "cancelled"]
    <2>1. outbox' = [outbox EXCEPT ![o] = r]
      BY <1>3 DEF Discard
    <2>2. outbox'[o] = r => KeepsDraft(o)
      BY <1>2, <1>3 DEF Discard, KeepsDraft, Record
    <2>3. QED
      BY <1>1, <2>1, <2>2, PatchDraft
  <1>4. CASE Retry(o)
    <2> DEFINE r == [outbox[o] EXCEPT !.status = "pending", !.code = "none"]
    <2>1. outbox' = [outbox EXCEPT ![o] = r]
      BY <1>4 DEF Retry
    <2>2. outbox[o].status = "blocked" /\ outbox[o].owner = None
      BY <1>2, <1>4 DEF Retry
    <2>3. /\ r.instead = outbox[o].instead /\ r.taken = outbox[o].taken
          /\ r.open = outbox[o].open /\ r.owner = outbox[o].owner
      BY <1>2 DEF Record
    <2>4. outbox'[o] = r => KeepsDraft(o)
      BY <2>2, <2>3 DEF KeepsDraft
    <2>5. QED
      BY <1>1, <2>1, <2>4, PatchDraft
  <1>5. CASE Prune(o)
    <2> DEFINE r == [outbox[o] EXCEPT !.status = "pruned"]
    <2>1. outbox' = [outbox EXCEPT ![o] = r]
      BY <1>5 DEF Prune
    <2>2. outbox'[o] = r => KeepsDraft(o)
      BY <1>2, <1>5 DEF Prune, Prunable, KeepsDraft, Record
    <2>3. QED
      BY <1>1, <2>1, <2>2, PatchDraft
  <1>6. CASE LeaseExpires(o)
    <2> DEFINE r == [outbox[o] EXCEPT !.leased = FALSE]
    <2>1. outbox' = [outbox EXCEPT ![o] = r]
      BY <1>6 DEF LeaseExpires
    <2>2. outbox'[o] = r => KeepsDraft(o)
      BY <1>2, <1>6 DEF LeaseExpires, KeepsDraft, Record
    <2>3. QED
      BY <1>1, <2>1, <2>2, PatchDraft
  <1>7. ASSUME NEW field \in Fields, KeepSaved(o, field)
        PROVE  DraftsEvolve
    <2> DEFINE r == [outbox[o] EXCEPT !.open = @ \ {field}]
    <2>1. outbox' = [outbox EXCEPT ![o] = r] /\ outbox[o].status = "acked" /\ field \in outbox[o].open
      BY <1>7 DEF KeepSaved, Undecided
    <2>2. outbox'[o] = r => KeepsDraft(o)
      BY <1>2, <2>1 DEF KeepsDraft, Record
    <2>3. QED
      BY <1>1, <2>1, <2>2, PatchDraft
  <1>8. QED
    BY <1>3, <1>4, <1>5, <1>6, <1>7

\* A step of a flush, of a Reapply or of the page.
LEMMA TabDraft ==
  ASSUME Records, OwnedIsSending, ReapplyBorn, NEW t \in Tabs,
         \/ \E o \in Ops : Claim(t, o) \/ BlockUndo(t, o) \/ Receive(t, o)
         \/ ReapplyCancel(t) \/ Reload(t)
  PROVE  DraftsEvolve
  <1>1. \A o \in Ops : Born(o) => /\ outbox[o] \in Record
                                  /\ outbox[o].owner # None => outbox[o].status = "sending"
    BY Unborn DEF OwnedIsSending
  <1>2. ASSUME NEW o \in Ops, Claim(t, o)
        PROVE  DraftsEvolve
    <2> DEFINE r == [outbox[o] EXCEPT !.status = "sending", !.owner = t,
                                      !.leased = TRUE, !.sent = TRUE]
    <2>1. outbox' = [outbox EXCEPT ![o] = r] /\ outbox[o].status \in {"pending", "sending"}
      BY <1>2 DEF Claim, Claimable
    <2>2. Born(o)
      BY <2>1 DEF Born
    <2>3. outbox'[o] = r => KeepsDraft(o)
      BY <1>1, <2>1, <2>2 DEF KeepsDraft, Record
    <2>4. QED
      BY <2>1, <2>2, <2>3, PatchDraft
  <1>3. ASSUME NEW o \in Ops, BlockUndo(t, o)
        PROVE  DraftsEvolve
    <2>1. CASE outbox[o].status = "pending"
      <3> DEFINE r == [outbox[o] EXCEPT !.status = "blocked", !.code = "depends-on-unresolved"]
      <3>1. outbox' = [outbox EXCEPT ![o] = r]
        BY <1>3, <2>1 DEF BlockUndo
      <3>2. Born(o)
        BY <2>1 DEF Born
      <3>3. outbox'[o] = r => KeepsDraft(o)
        BY <1>1, <2>1, <3>2 DEF KeepsDraft, Record
      <3>4. QED
        BY <3>1, <3>2, <3>3, PatchDraft
    <2>2. CASE outbox[o].status # "pending"
      BY <1>3, <2>2, SameDrafts DEF BlockUndo
    <2>3. QED
      BY <2>1, <2>2
  <1>4. ASSUME NEW o \in Ops, Receive(t, o)
        PROVE  DraftsEvolve
    <2> DEFINE a == flight[t].answer
               r == [outbox[o] EXCEPT !.status = a.status, !.code = a.code,
                                      !.receipt = a.receipt, !.open = a.open,
                                      !.owner = None, !.leased = FALSE]
    <2>1. CASE outbox[o].status = "sending"
      <3>1. outbox' = [outbox EXCEPT ![o] = r]
        BY <1>4, <2>1 DEF Receive, Settle
      <3>2. Born(o)
        BY <2>1 DEF Born
      <3>3. outbox'[o] = r => KeepsDraft(o)
        BY <1>1, <2>1, <3>2 DEF KeepsDraft, Record
      <3>4. QED
        BY <3>1, <3>2, <3>3, PatchDraft
    <2>2. CASE outbox[o].status # "sending"
      <3>1. outbox' = [outbox EXCEPT ![o] = outbox[o]]
        BY <1>4, <2>2 DEF Receive, Settle
      <3>2. outbox' = outbox
        BY <3>1 DEF Records
      <3>3. QED
        BY <3>2, SameDrafts
    <2>3. QED
      BY <2>1, <2>2
  <1>5. CASE ReapplyCancel(t)
    <2> DEFINE o == reapply[t].op
               r == IF outbox[o].status \in {"blocked", "conflict"}
                      THEN [outbox[o] EXCEPT !.status = "cancelled"] ELSE outbox[o]
    <2>1. outbox' = [outbox EXCEPT ![o] = r] /\ o \in Ops /\ Born(o)
      BY <1>5 DEF ReapplyCancel, ReapplyBorn
    <2>2. outbox'[o] = r => KeepsDraft(o)
      BY <1>1, <2>1 DEF KeepsDraft, Record
    <2>3. QED
      BY <2>1, <2>2, PatchDraft
  <1>6. CASE Reload(t)
    <2>1. CASE UNCHANGED outbox
      BY <2>1, SameDrafts
    <2>2. CASE outbox' # outbox
      <3>1. \A o \in Ops : outbox'[o] = IF outbox[o].status # "unborn" /\ outbox[o].owner = t
                                          THEN [outbox[o] EXCEPT !.owner = None] ELSE outbox[o]
        BY <1>6, <2>2 DEF Reload
      <3>2. ASSUME NEW o \in Ops, Born(o)
            PROVE  KeepsDraft(o)
        <4>1. outbox'[o] \in {outbox[o], [outbox[o] EXCEPT !.owner = None]}
              /\ (outbox'[o] # outbox[o] => outbox[o].owner = t)
          BY <3>1
        <4>2. outbox[o].owner = t => outbox[o].status = "sending"
          BY <1>1, <3>2, OutboxAssumption
        <4>3. QED
          BY <1>1, <3>2, <4>1, <4>2 DEF KeepsDraft, Record
      <3>3. ASSUME NEW o \in Ops, ~Born(o)
            PROVE  ~Born(o)'
        BY <3>1, <3>3 DEF Born
      <3>4. QED
        BY <3>2, <3>3 DEF DraftsEvolve
    <2>3. QED
      BY <2>1, <2>2
  <1>7. QED
    BY <1>2, <1>3, <1>4, <1>5, <1>6

\* A handoff adds one record that replaces the capture, and closes its meaning.
HandsOff(o, n) ==
  /\ n # o /\ Born(o) /\ ~Born(n) /\ outbox[o].status = "acked" /\ "meaning" \in outbox[o].open
  /\ outbox'[n].kind = "meaning" /\ outbox'[n].instead = o /\ ~outbox'[n].taken
  /\ outbox'[n].owner = None /\ outbox'[n].status = "pending"
  /\ outbox'[o] = [outbox[o] EXCEPT !.open = @ \ {"meaning"}, !.taken = TRUE]
  /\ \A q \in Ops \ {o, n} : outbox'[q] = outbox[q]

\* Every step is a handoff or leaves the drafts as KeepsDraft says.
LEMMA DraftStep ==
  ASSUME TypeInv, OwnedIsSending, [Next]_vars
  PROVE  DraftsEvolve \/ \E o, n \in Ops : HandsOff(o, n)
  <1>1. Records /\ ReapplyBorn
    BY DEF TypeInv, TypeOK, Records, Born
  <1>2. CASE Capture \/ EditMeaning \/ UndoCapture \/ \E t \in Tabs : ReapplyStore(t)
    BY <1>1, <1>2, StoreDraft
  <1>3. ASSUME NEW o \in Ops, HandOff(o)
        PROVE  \E n \in Ops : HandsOff(o, n)
    <2>1. PICK n \in Ops, prior \in PendingMeaning, l \in 0 .. lineage, p \in 0 .. process :
            /\ outbox[n].status = "unborn"
            /\ n > 1 => outbox[n - 1].status # "unborn"
            /\ outbox' = [outbox EXCEPT ![n] = NewRecord("meaning", prior, o, l, p),
                                        ![o].open = @ \ {"meaning"},
                                        ![o].taken = TRUE]
      BY <1>3 DEF HandOff
    <2>2. Born(o) /\ ~Born(n) /\ n # o /\ outbox[o].status = "acked" /\ "meaning" \in outbox[o].open
      BY <1>3, <2>1 DEF HandOff, Undecided, Born
    <2> DEFINE r == [outbox[o] EXCEPT !.open = @ \ {"meaning"}, !.taken = TRUE]
    <2>3. outbox' = [q \in Ops |-> IF q = n THEN NewRecord("meaning", prior, o, l, p)
                                   ELSE IF q = o THEN r ELSE outbox[q]]
      BY <1>1, <2>1, <2>2 DEF Records
    <2>4. QED
      BY <2>2, <2>3 DEF HandsOff, NewRecord
  <1>4. ASSUME NEW o \in Ops, Decide(o) \/ Prune(o) \/ LeaseExpires(o), ~HandOff(o)
        PROVE  DraftsEvolve
    BY <1>1, <1>4, DecisionDraft DEF Decide
  <1>5. ASSUME NEW t \in Tabs,
               \/ \E o \in Ops : Claim(t, o) \/ BlockUndo(t, o) \/ Receive(t, o)
               \/ ReapplyCancel(t) \/ Reload(t)
        PROVE  DraftsEvolve
    BY <1>1, <1>5, TabDraft
  <1>6. CASE Elsewhere
    BY <1>6, ElsewhereSame, SameDrafts
  <1>7. QED
    BY <1>2, <1>3, <1>4, <1>5, <1>6 DEF Next, Elsewhere

-----------------------------------------------------------------------------
\* A claim gives a record its owner, and the answer or the end of the page takes it.
LEMMA OwnedStep ==
  ASSUME TypeInv, OwnedIsSending, [Next]_vars
  PROVE  OwnedIsSending'
  <1>1. CASE DraftsEvolve
    BY <1>1 DEF DraftsEvolve, KeepsDraft, FreshDraft, OwnedIsSending
  <1>2. ASSUME NEW o \in Ops, NEW n \in Ops, HandsOff(o, n)
        PROVE  OwnedIsSending'
    <2>1. outbox[o] \in Record
      BY <1>2, Unborn DEF HandsOff, TypeInv, TypeOK, Records, Born
    <2>2. outbox[o].owner = None
      BY <1>2 DEF HandsOff, OwnedIsSending
    <2>3. outbox'[o].owner = None
      BY <1>2, <2>1, <2>2 DEF HandsOff, Record
    <2>4. \A q \in Ops \ {o, n} : outbox'[q] = outbox[q] /\ (Born(q)' <=> Born(q))
      BY <1>2 DEF HandsOff, Born
    <2>5. outbox'[n].owner = None
      BY <1>2 DEF HandsOff
    <2>6. QED
      BY <2>3, <2>4, <2>5 DEF OwnedIsSending
  <1>3. QED
    BY <1>1, <1>2, DraftStep

\* A draft field that is still open goes away by a decision on that field only: pruning,
\* late answers, other tabs and reloads keep it (model.ts:1316).
THEOREM OpenDraftsKept == Spec => OpenDraftKept
  <1> DEFINE Kept == \A o \in Ops :
               outbox[o].status = "acked" /\ outbox'[o] # outbox[o] /\ outbox[o].open # {} =>
                 /\ outbox'[o].status = "acked"
                 /\ \E field \in outbox[o].open : outbox'[o].open = outbox[o].open \ {field}
  <1>1. TypeInv /\ OwnedIsSending /\ [Next]_vars => (TypeInv /\ OwnedIsSending)'
    BY TypeStep, OwnedStep
  <1>2. Init => OwnedIsSending
    BY DEF Init, OwnedIsSending, Born, NoRecord
  <1>3. TypeInv /\ OwnedIsSending /\ [Next]_vars => [Kept]_vars
    <2> SUFFICES ASSUME TypeInv, OwnedIsSending, [Next]_vars,
                        NEW o \in Ops, outbox[o].status = "acked", outbox'[o] # outbox[o], outbox[o].open # {}
                 PROVE  /\ outbox'[o].status = "acked"
                        /\ \E field \in outbox[o].open : outbox'[o].open = outbox[o].open \ {field}
      OBVIOUS
    <2>1. Born(o)
      BY DEF Born
    <2>2. CASE DraftsEvolve
      BY <2>1, <2>2 DEF DraftsEvolve, KeepsDraft
    <2>3. ASSUME NEW c \in Ops, NEW n \in Ops, HandsOff(c, n)
          PROVE  /\ outbox'[o].status = "acked"
                 /\ \E field \in outbox[o].open : outbox'[o].open = outbox[o].open \ {field}
      <3>1. o = c
        BY <2>1, <2>3 DEF HandsOff
      <3>2. outbox[o] \in Record
        BY <2>1, Unborn DEF TypeInv, TypeOK, Records, Born
      <3>3. QED
        BY <2>3, <3>1, <3>2 DEF HandsOff, Record
    <2>4. QED
      BY <2>2, <2>3, DraftStep
  <1>4. QED
    BY <1>1, <1>2, <1>3, TypeInit, PTL DEF Spec, OpenDraftKept

\* The replacements of a capture's draft.
Replacements(c) == {o \in Ops : Born(o) /\ outbox[o].kind = "meaning" /\ outbox[o].instead = c}

\* A record whose meaning was handed off is past the decision and has one replacement.
LinkBorn(o) ==
  Born(o) /\ outbox[o].instead # None => outbox[o].instead \in Ops /\ Born(outbox[o].instead)
TakenDecided(o) ==
  Born(o) /\ outbox[o].taken => outbox[o].status \in {"acked", "pruned"} /\ "meaning" \notin outbox[o].open
ReplacedOnce(c) ==
  Born(c) /\ outbox[c].kind = "capture" =>
    IF outbox[c].taken THEN \E o \in Ops : Replacements(c) = {o} ELSE Replacements(c) = {}
DraftInv == \A o \in Ops : LinkBorn(o) /\ TakenDecided(o) /\ ReplacedOnce(o)

LEMMA DraftInvStep ==
  ASSUME TypeInv, OwnedIsSending, DraftInv, [Next]_vars
  PROVE  DraftInv'
  <1>1. Evolves /\ Records
    BY TypeStep DEF TypeInv, TypeOK, Records, Born
  <1>2. \A o \in Ops : Born(o) => Born(o)'
    BY <1>1 DEF Evolves, MayGo, Moves, Born
  <1>3. \A o \in Ops : Born(o) => outbox'[o].kind = outbox[o].kind
    BY <1>1 DEF Evolves
  <1>4. \A o \in Ops : /\ outbox[o].status = "acked" => outbox'[o].status \in {"acked", "pruned"}
                       /\ outbox[o].status = "pruned" => outbox'[o].status = "pruned"
    BY <1>1 DEF Evolves, MayGo, Moves
  <1>5. CASE DraftsEvolve
    <2>1. \A o \in Ops : Born(o) => outbox'[o].instead = outbox[o].instead /\ outbox'[o].taken = outbox[o].taken
      BY <1>5 DEF DraftsEvolve, KeepsDraft
    <2>2. ASSUME NEW o \in Ops
          PROVE  LinkBorn(o)'
      <3> SUFFICES ASSUME Born(o)', outbox'[o].instead # None
                   PROVE  outbox'[o].instead \in Ops /\ Born(outbox[o].instead)'
        BY DEF LinkBorn
      <3>1. outbox'[o].instead \in Ops /\ Born(outbox'[o].instead)
        BY <1>5, <2>1 DEF DraftsEvolve, FreshDraft, DraftInv, LinkBorn
      <3>2. QED
        BY <1>2, <3>1 DEF Born
    <2>3. ASSUME NEW o \in Ops
          PROVE  TakenDecided(o)'
      <3> SUFFICES ASSUME Born(o)', outbox'[o].taken
                   PROVE  outbox'[o].status \in {"acked", "pruned"} /\ "meaning" \notin outbox'[o].open
        BY DEF TakenDecided
      <3>1. Born(o) /\ outbox[o].taken
        BY <1>5, <2>1 DEF DraftsEvolve, FreshDraft
      <3>2. outbox[o].status \in {"acked", "pruned"} /\ "meaning" \notin outbox[o].open
        BY <3>1 DEF DraftInv, TakenDecided
      <3>3. "meaning" \notin outbox'[o].open
        BY <1>5, <3>1, <3>2 DEF DraftsEvolve, KeepsDraft
      <3>4. QED
        BY <1>4, <3>2, <3>3
    <2>4. ASSUME NEW c \in Ops
          PROVE  ReplacedOnce(c)'
      <3> SUFFICES ASSUME Born(c)', outbox'[c].kind = "capture"
                   PROVE  IF outbox'[c].taken THEN \E o \in Ops : Replacements(c)' = {o}
                          ELSE Replacements(c)' = {}
        BY DEF ReplacedOnce
      <3>1. CASE Born(c)
        <4>1. outbox[c].kind = "capture" /\ outbox'[c].taken = outbox[c].taken
          BY <1>3, <2>1, <3>1
        <4>2. ASSUME NEW o \in Ops, ~Born(o), Born(o)', outbox'[o].kind = "meaning"
              PROVE  outbox'[o].instead # c
          <5>1. c # None
            BY DEF Ops, None
          <5>2. QED
            BY <1>5, <4>1, <4>2, <5>1 DEF DraftsEvolve, FreshDraft
        <4>3. \A o \in Ops : o \in Replacements(c)' <=> o \in Replacements(c)
          BY <1>2, <1>3, <2>1, <4>2 DEF Replacements
        <4>4. Replacements(c)' = Replacements(c)
          BY <4>3 DEF Replacements
        <4>5. QED
          BY <3>1, <4>1, <4>4 DEF DraftInv, ReplacedOnce
      <3>2. CASE ~Born(c)
        <4>1. ~outbox'[c].taken
          BY <1>5, <3>2 DEF DraftsEvolve, FreshDraft
        <4>2. c # None
          BY DEF Ops, None
        <4>3. ASSUME NEW o \in Ops, Born(o)', outbox'[o].instead = c
              PROVE  FALSE
          BY <1>5, <2>1, <3>2, <4>2, <4>3 DEF DraftsEvolve, FreshDraft, DraftInv, LinkBorn
        <4>4. QED
          BY <4>1, <4>3 DEF Replacements
      <3>3. QED
        BY <3>1, <3>2
    <2>5. QED
      BY <2>2, <2>3, <2>4 DEF DraftInv
  <1>6. ASSUME NEW c \in Ops, NEW n \in Ops, HandsOff(c, n)
        PROVE  DraftInv'
    <2>1. outbox[c] \in Record /\ Born(c) /\ Born(c)' /\ c # None
      BY <1>1, <1>2, <1>6, Unborn DEF HandsOff, Ops, None
    <2>2. /\ outbox'[c].instead = outbox[c].instead /\ outbox'[c].taken
          /\ outbox'[c].open = outbox[c].open \ {"meaning"} /\ outbox'[c].status = "acked"
          /\ outbox'[c].kind = outbox[c].kind
      BY <1>6, <2>1 DEF HandsOff, Record
    <2>3. ~outbox[c].taken
      BY <1>6, <2>1 DEF HandsOff, DraftInv, TakenDecided
    <2>4. \A q \in Ops \ {c, n} : outbox'[q] = outbox[q] /\ (Born(q)' <=> Born(q))
      BY <1>6 DEF HandsOff, Born
    <2>5. outbox'[n].kind = "meaning" /\ outbox'[n].instead = c /\ ~outbox'[n].taken /\ ~Born(n) /\ Born(n)'
      BY <1>6 DEF HandsOff, Born
    <2>6. ASSUME NEW o \in Ops
          PROVE  LinkBorn(o)'
      <3> SUFFICES ASSUME Born(o)', outbox'[o].instead # None
                   PROVE  outbox'[o].instead \in Ops /\ Born(outbox[o].instead)'
        BY DEF LinkBorn
      <3>1. CASE o = n
        BY <2>1, <2>5, <3>1 DEF Born
      <3>2. CASE o # n
        <4>1. Born(o) /\ outbox'[o].instead = outbox[o].instead
          BY <2>1, <2>2, <2>4, <3>2
        <4>2. QED
          BY <1>2, <4>1 DEF DraftInv, LinkBorn, Born
      <3>3. QED
        BY <3>1, <3>2
    <2>7. ASSUME NEW o \in Ops
          PROVE  TakenDecided(o)'
      <3>1. CASE o = c
        BY <2>2, <3>1 DEF TakenDecided
      <3>2. CASE o = n
        BY <2>5, <3>2 DEF TakenDecided
      <3>3. CASE o \notin {c, n}
        <4>1. TakenDecided(o)
          BY DEF DraftInv
        <4>2. QED
          BY <2>4, <3>3, <4>1 DEF TakenDecided
      <3>4. QED
        BY <3>1, <3>2, <3>3
    <2>8. ASSUME NEW d \in Ops
          PROVE  ReplacedOnce(d)'
      <3> SUFFICES ASSUME Born(d)', outbox'[d].kind = "capture"
                   PROVE  IF outbox'[d].taken THEN \E o \in Ops : Replacements(d)' = {o}
                          ELSE Replacements(d)' = {}
        BY DEF ReplacedOnce
      <3>1. \A o \in Ops \ {n} : o \in Replacements(d)' <=> o \in Replacements(d)
        BY <2>1, <2>2, <2>4 DEF Replacements
      <3>2. n \in Replacements(d)' <=> d = c
        BY <2>5 DEF Replacements
      <3>3. n \notin Replacements(d)
        BY <2>5 DEF Replacements
      <3>4. CASE d = c
        <4>1. Replacements(c) = {}
          BY <2>1, <2>2, <2>3, <3>4 DEF DraftInv, ReplacedOnce
        <4>2. Replacements(d)' = {n}
          BY <3>1, <3>2, <3>4, <4>1 DEF Replacements
        <4>3. QED
          BY <2>2, <3>4, <4>2
      <3>5. CASE d # c
        <4>1. d # n /\ Born(d) /\ outbox'[d] = outbox[d]
          BY <2>4, <2>5, <3>5
        <4>2. Replacements(d)' = Replacements(d)
          BY <3>1, <3>2, <3>3, <3>5 DEF Replacements
        <4>3. QED
          BY <4>1, <4>2 DEF DraftInv, ReplacedOnce
      <3>6. QED
        BY <3>4, <3>5
    <2>9. QED
      BY <2>6, <2>7, <2>8 DEF DraftInv
  <1>7. QED
    BY <1>5, <1>6, DraftStep

\* A draft's meaning is handed off to exactly one replacement, whatever tabs decide at
\* once, and is neither open nor offered again (operationOutbox.ts:13-15).
THEOREM HandedOffToOne == Spec => []HandedOffOnce
  <1> DEFINE DInv == TypeInv /\ OwnedIsSending /\ DraftInv
  <1>1. Init => DInv
    <2>1. Init => OwnedIsSending /\ DraftInv
      BY DEF Init, OwnedIsSending, DraftInv, LinkBorn, TakenDecided, ReplacedOnce, Born, NoRecord
    <2>2. QED
      BY <2>1, TypeInit
  <1>2. DInv /\ [Next]_vars => DInv'
    BY TypeStep, OwnedStep, DraftInvStep
  <1>3. DInv => HandedOffOnce
    <2> SUFFICES ASSUME DraftInv, NEW c \in Ops, Born(c), outbox[c].kind = "capture"
                 PROVE  /\ Cardinality(Replacements(c)) = IF outbox[c].taken THEN 1 ELSE 0
                        /\ outbox[c].taken => "meaning" \notin outbox[c].open
      BY DEF HandedOffOnce, Replacements, Born
    <2>1. Cardinality({}) = 0 /\ \A o \in Ops : Cardinality({o}) = 1
      BY FS_EmptySet, FS_Singleton
    <2>2. QED
      BY <2>1 DEF DraftInv, TakenDecided, ReplacedOnce
  <1>4. QED
    BY <1>1, <1>2, <1>3, PTL DEF Spec
-----------------------------------------------------------------------------
(***************************************************************************)
(* The service keeps the contract of the learner store.                    *)
(***************************************************************************)
\* The service executes o now, under its present lineage.
Executes(o) ==
  \E r \in Receipt : /\ service[o] = NotDone /\ r.lineage = lineage
                     /\ service' = [service EXCEPT ![o] = r]

\* What a first execution records is a receipt of the present lineage.
LEMMA ExecutionsAre ==
  ASSUME ServiceType, NEW o \in Ops, NEW r \in Executions(o)
  PROVE  r \in Receipt /\ r.lineage = lineage
  <1> DEFINE made(outcome, draft) ==
               [outcome |-> outcome, lineage |-> lineage, draft |-> draft]
  <1>1. \A outcome \in {"applied", "conflict"} : \A draft \in SUBSET Fields :
          made(outcome, draft) \in Receipt /\ made(outcome, draft).lineage = lineage
    BY DEF ServiceType, Receipt
  <1>2. \A d \in (IF source THEN Drafts ELSE {}) : d \in SUBSET Fields
    BY OutboxAssumption
  <1>3. r \in {made("applied", d) : d \in IF source THEN Drafts ELSE {}}
               \cup {made("applied", {}), made("conflict", {})}
    BY DEF Executions
  <1> HIDE DEF made
  <1>4. QED
    BY <1>1, <1>2, <1>3

\* A handled request is executed now, or changes nothing.
LEMMA HandleExecutes ==
  ASSUME ServiceType, NEW o \in Ops, NEW a, Handle(o, a)
  PROVE  UNCHANGED service \/ Executes(o)
  <1>1. ASSUME service[o] = NotDone,
               NEW r \in Executions(o), service' = [service EXCEPT ![o] = r]
        PROVE  Executes(o)
    BY <1>1, ExecutionsAre DEF Executes
  <1>2. QED
    BY <1>1 DEF Handle

\* Seen from the service a step executes a request that was on the wire, or restores the
\* store, or does nothing.
LEMMA ServiceActs ==
  ASSUME ServiceType, Flights, [Next]_vars
  PROVE  \/ UNCHANGED <<service, lineage>>
         \/ UNCHANGED <<service, outbox>> /\ lineage' = lineage + 1
         \/ /\ UNCHANGED <<outbox, lineage>>
            /\ \E o \in Ops : OnTheWire(o) /\ Executes(o)
  <1>1. ASSUME NEW t \in Tabs, NEW o \in Ops, Deliver(t, o)
        PROVE  /\ UNCHANGED <<outbox, lineage>> /\ OnTheWire(o)
               /\ UNCHANGED service \/ Executes(o)
    BY <1>1, HandleExecutes DEF Deliver, OnTheWire
  <1>2. ASSUME NEW o \in Ops, Late(o)
        PROVE  /\ UNCHANGED <<outbox, lineage>> /\ OnTheWire(o)
               /\ UNCHANGED service \/ Executes(o)
    BY <1>2, HandleExecutes DEF Late, OnTheWire
  <1>3. Restore => UNCHANGED <<service, outbox>> /\ lineage' = lineage + 1
    BY DEF Restore
  <1>4. ASSUME NEW t \in Tabs,
               \/ StartFlush(t) \/ Fail(t) \/ Supersede(t) \/ Reload(t)
               \/ ReapplyStore(t) \/ ReapplyCancel(t)
               \/ \E o \in Ops : BlockUndo(t, o) \/ Pass(t, o) \/ Claim(t, o) \/ Receive(t, o)
                                \/ ReapplyRead(t, o)
        PROVE  UNCHANGED <<service, lineage>>
    <2>1. StartFlush(t) \/ Fail(t) \/ Supersede(t) \/ Reload(t) \/ ReapplyStore(t) \/ ReapplyCancel(t)
          => UNCHANGED <<service, lineage>>
      BY DEF StartFlush, Fail, Supersede, Reload, ReapplyStore, ReapplyCancel, serviceVars
    <2>2. ASSUME NEW o \in Ops,
                 BlockUndo(t, o) \/ Pass(t, o) \/ Claim(t, o) \/ Receive(t, o) \/ ReapplyRead(t, o)
          PROVE  UNCHANGED <<service, lineage>>
      BY <2>2 DEF BlockUndo, Pass, PassUndo, PassUnsourced, PassClaimed, Claim, Receive,
         ReapplyRead, serviceVars
    <2>3. QED
      BY <1>4, <2>1, <2>2
  <1>5. ASSUME NEW o \in Ops, Decide(o) \/ Prune(o) \/ LeaseExpires(o)
        PROVE  UNCHANGED <<service, lineage>>
    BY <1>5 DEF Decide, Discard, Retry, KeepSaved, HandOff, Prune, LeaseExpires, serviceVars
  <1>6. Capture \/ EditMeaning \/ UndoCapture => UNCHANGED <<service, lineage>>
    BY DEF Capture, EditMeaning, UndoCapture, serviceVars
  <1>7. SaveSource \/ RestartService \/ Forget => UNCHANGED <<service, lineage>>
    BY DEF SaveSource, RestartService, Forget
  <1>8. UNCHANGED vars => UNCHANGED <<service, lineage>>
    BY DEF vars, serviceVars
  <1>9. QED
    BY <1>1, <1>2, <1>3, <1>4, <1>5, <1>6, <1>7, <1>8 DEF Next

\* An execution is one of the contract: of an operation a browser asked for, never before
\* executed, with a receipt of the present lineage.
LEMMA ExecutionKeepsContract ==
  ASSUME TypeInv, WireBorn, NEW o \in Ops, OnTheWire(o), Executes(o),
         UNCHANGED <<outbox, lineage>>
  PROVE  Contract!ContractNext
  <1> DEFINE issued == {Issued(p) : p \in Done}
             asked == {p \in Ops : outbox[p].status # "unborn"}
  <1>1. PICK r \in Receipt : /\ service[o] = NotDone /\ r.lineage = lineage
                             /\ service' = [service EXCEPT ![o] = r]
    BY DEF Executes
  <1>2. service \in [Ops -> Receipt \cup {NotDone}] /\ lineage \in Nat
    BY DEF TypeInv, TypeOK
  <1>3. /\ service'[o] = r
        /\ \A p \in Ops : p # o => service'[p] = service[p]
    BY <1>1, <1>2
  <1>4. r # NotDone /\ r.outcome \in {"applied", "conflict"} /\ r.draft \in SUBSET Fields
    BY DEF Receipt, NotDone
  <1>5. Done' = Done \cup {o} /\ o \notin Done
    BY <1>1, <1>3, <1>4 DEF Done
  <1>6. \A p \in Done : Issued(p)' = Issued(p) /\ p \in Ops /\ p # o
    BY <1>1, <1>3 DEF Issued, Done
  <1>a. PICK made : made = [request |-> o, generation |-> lineage, status |-> r.outcome,
                            draft |-> r.draft]
    OBVIOUS
  <1>7. Issued(o)' = made
    BY <1>1, <1>3, <1>a DEF Issued
  <1>8. made \in [request: Ops, generation: Nat, status: {"applied", "conflict"},
                  draft: SUBSET Fields]
    BY <1>2, <1>4, <1>a
  <1>9. /\ made.request = o /\ made.generation = lineage /\ made.status = r.outcome
    BY <1>a
  <1>10. issued' = issued \cup {made}
    BY <1>5, <1>6, <1>7
  <1>11. \A x \in issued : x.request # o
    <2>1. \A p \in Done : Issued(p).request = p
      BY DEF Issued
    <2>2. QED
      BY <1>6, <2>1
  <1>12. made \in issued' \ issued
    BY <1>9, <1>10, <1>11
  <1>13. {<<p, Issued(p)>> : p \in Done}' = {<<p, Issued(p)>> : p \in Done} \cup {<<o, made>>}
    BY <1>5, <1>6, <1>7
  <1>14. o \in asked
    BY DEF WireBorn, Born
  <1>15. /\ r.outcome = "applied" => (\E p \in Ops : Applied(p))' = TRUE
         /\ r.outcome = "conflict" => (\E p \in Ops : Applied(p))' = (\E p \in Ops : Applied(p))
    BY <1>1, <1>3 DEF Applied, NotDone
  <1>16. asked' = asked /\ lineage' = lineage
    OBVIOUS
  <1>17. Contract!Execute(o, made)
    BY <1>4, <1>8, <1>9, <1>10, <1>11, <1>13, <1>15, <1>16 DEF Contract!Execute
  <1>18. QED
    BY <1>12, <1>14, <1>17 DEF Contract!ContractNext

\* The service this module assumes keeps what the learner store promises, for any number
\* of tabs and copies of a request: both models meet in one contract.
THEOREM OutboxKeepsContract == Spec => ServiceKeepsContract
  <1>1. Init => Contract!ContractInit
    <2> SUFFICES ASSUME Init PROVE Contract!ContractInit
      OBVIOUS
    <2>1. \A o \in Ops : outbox[o].status = "unborn" /\ service[o] = NotDone /\ ~Applied(o)
      BY DEF Init, NoRecord, Applied, NotDone
    <2>2. Done = {} /\ lineage = 0
      BY <2>1 DEF Done, Init
    <2>3. QED
      BY <2>1, <2>2 DEF Contract!ContractInit
  <1>2. Inv /\ Inv' /\ [Next]_vars => [Contract!ContractNext]_(Contract!contractVars)
    <2> SUFFICES ASSUME Inv, Inv', [Next]_vars
                 PROVE  Contract!ContractNext \/ UNCHANGED Contract!contractVars
      OBVIOUS
    <2>1. TypeInv /\ WireBorn /\ ServiceType /\ Flights
      BY DEF Inv, TypeInv, TypeOK, ServiceType, Flights
    <2>2. UNCHANGED service => /\ Done' = Done
                               /\ \A o \in Done : Issued(o)' = Issued(o)
                               /\ (\E o \in Ops : Applied(o))' = (\E o \in Ops : Applied(o))
      BY DEF Done, Issued, Applied
    <2>3. CASE UNCHANGED <<service, lineage>>
      <3>1. \A o \in Ops : Born(o) => Born(o)'
        BY <2>1, TypeStep, BornStays
      <3>2. Contract!Ask
        BY <2>2, <2>3, <3>1 DEF Contract!Ask, Born
      <3>3. QED
        BY <3>2 DEF Contract!ContractNext
    <2>4. CASE UNCHANGED <<service, outbox>> /\ lineage' = lineage + 1
      <3>1. Contract!Replace
        BY <2>2, <2>4 DEF Contract!Replace
      <3>2. QED
        BY <3>1 DEF Contract!ContractNext
    <2>5. CASE UNCHANGED <<outbox, lineage>> /\ \E o \in Ops : OnTheWire(o) /\ Executes(o)
      BY <2>1, <2>5, ExecutionKeepsContract
    <2>6. QED
      BY <2>1, <2>3, <2>4, <2>5, ServiceActs
  <1>3. Inv /\ [Next]_vars => Inv'
    BY InvStep
  <1>4. QED
    BY <1>1, <1>2, <1>3, InvInit, PTL DEF Spec, ServiceKeepsContract, Contract!ContractSpec
=============================================================================
