----------------------------- MODULE StudyProofs -----------------------------
(***************************************************************************)
(* Proofs about Study.  The undo, the restore and the gradings are only    *)
(* right together: an undo may take a row back because nothing refers to   *)
(* it, and a merge may put rows of an older file under rows of now because *)
(* both once belonged to the same collections.  The invariant therefore    *)
(* speaks of every snapshot there is, the rows of now, those of the export *)
(* file and those in the restore form: each is linked, backed by audited   *)
(* history and numbered within what was given out, and any two agree on    *)
(* the occurrences and cards both have.                                    *)
(***************************************************************************)
EXTENDS Study, FiniteSetTheorems, WellFoundedInduction, TLAPS

\* The shapes of the state: a table is a function on some of the ids.
Table(ids, Shape) == UNION {[S -> Shape] : S \in SUBSET ids}
Rows ==
  [items : Table(ItemIds, Item), occs : Table(OccIds, Occurrence), cards : Table(CardIds, Card),
   states : Table(CardIds, Schedule), events : SUBSET Event, attempts : SUBSET Attempt]
Made == [items : 0 .. MaxItems, occs : 0 .. MaxOccs, cards : 0 .. MaxCards, acts : 0 .. MaxActs]
File == [content : Rows \cup {NoRows}, hashed : Rows \cup {NoRows}]
Form ==
  [wire : File, open : BOOLEAN, mode : {"none", "merge", "replace-active"}, acked : SUBSET Warnings]
Surface == [active : CardIds \cup {Nobody}, shown : CardIds \cup {Nobody}, revealed : BOOLEAN]
Exercise == [card : CardIds \cup {Nobody}, revealed : BOOLEAN, mode : Modes]

StudyShaped ==
  /\ made \in Made /\ now \in 0 .. MaxNow
  /\ audit \in [events : SUBSET Event, attempts : SUBSET Attempt]
  /\ view \in Views /\ review \in Surface /\ practice \in Exercise
  /\ toast \in Receipt \cup {NoToast}
  /\ file \in File /\ form \in Form

\* The rows of now and those a file or the form holds.
Snapshots == {rows} \cup ({file.hashed, form.wire.hashed} \ {NoRows})

Linked(rs) ==
  /\ \A o \in DOMAIN rs.occs : rs.occs[o].item \in DOMAIN rs.items
  /\ \A c \in DOMAIN rs.cards :
       /\ rs.cards[c].occ \in DOMAIN rs.occs
       /\ rs.occs[rs.cards[c].occ].item = rs.cards[c].item
  /\ DOMAIN rs.states = DOMAIN rs.cards
  /\ \A e \in rs.events \cup rs.attempts : e.card \in DOMAIN rs.cards

EventsOf(rs, c) == {e \in rs.events : e.card = c}

Backed(rs) == \A c \in DOMAIN rs.states : rs.states[c].reps <= Cardinality(EventsOf(rs, c))

\* Ids were given out for everything there is, and all history is in the audit.
Accounted(rs) ==
  /\ DOMAIN rs.items \subseteq 1 .. made.items /\ DOMAIN rs.occs \subseteq 1 .. made.occs
  /\ DOMAIN rs.cards \subseteq 1 .. made.cards
  /\ rs.events \subseteq audit.events /\ rs.attempts \subseteq audit.attempts

RowsGood(rs) == rs \in Rows /\ Linked(rs) /\ Backed(rs) /\ Accounted(rs)

\* An occurrence stays what it is, and a card is of one item and occurrence.
Same(rs, ss) ==
  /\ \A o \in DOMAIN rs.occs \cap DOMAIN ss.occs : rs.occs[o] = ss.occs[o]
  /\ \A c \in DOMAIN rs.cards \cap DOMAIN ss.cards :
       rs.cards[c].item = ss.cards[c].item /\ rs.cards[c].occ = ss.cards[c].occ

SnapshotsAgree ==
  /\ \A rs \in Snapshots : RowsGood(rs)
  /\ \A rs, ss \in Snapshots : Same(rs, ss)

\* A grading makes one event at most and one attempt at most; a skip makes no event.
GradesAudited ==
  /\ {e.id : e \in audit.events} \cup {a.id : a \in audit.attempts} = 1 .. made.acts
  /\ \A e, f \in audit.events : e.id = f.id => e = f
  /\ \A a, b \in audit.attempts : a.id = b.id => a = b
  /\ \A a \in audit.attempts :
       /\ a.link \in {0, a.id}
       /\ a.link = 0 => \A e \in audit.events : e.id # a.id

\* What the toast offers to undo.
ToastTrue ==
  toast # NoToast =>
    /\ toast.occ <= made.occs
    /\ \A rs \in Snapshots : toast.occ \in DOMAIN rs.occs => rs.occs[toast.occ].item = toast.item
    /\ toast.newItem => toast.was.edits = 0 /\ toast.count = 1

\* Practice shows the card that Review remembers, while it is due.
PracticeDue ==
  view = "practice" =>
    /\ practice.card = review.active
    /\ review.active \in Due(rows) \cup {Nobody}

\* What can be confirmed is what was hashed.
FormVerified == form.open => form.wire.hashed # NoRows /\ form.wire.content = form.wire.hashed

StudyInv ==
  StudyShaped /\ SnapshotsAgree /\ GradesAudited /\ ToastTrue /\ PracticeDue /\ FormVerified

-----------------------------------------------------------------------------
(***************************************************************************)
(* Tables and finite sets.                                                 *)
(***************************************************************************)
LEMMA TableIs ==
  ASSUME NEW ids, NEW Shape
  PROVE  /\ \A f \in Table(ids, Shape) : /\ DOMAIN f \subseteq ids /\ \A k \in DOMAIN f : f[k] \in Shape
                                        /\ f = [k \in DOMAIN f |-> f[k]]
         /\ \A S \in SUBSET ids : [S -> Shape] \subseteq Table(ids, Shape)
  BY DEF Table

LEMMA OverInTable ==
  ASSUME NEW ids, NEW Shape, NEW f \in Table(ids, Shape), NEW g \in Table(ids, Shape)
  PROVE  /\ Over(f, g) \in Table(ids, Shape)
         /\ DOMAIN Over(f, g) = DOMAIN f \cup DOMAIN g
         /\ \A k \in DOMAIN f : Over(f, g)[k] = f[k]
         /\ \A k \in DOMAIN g \ DOMAIN f : Over(f, g)[k] = g[k]
  <1>1. DOMAIN Over(f, g) = DOMAIN f \cup DOMAIN g
    BY DEF Over
  <1>2. /\ \A k \in DOMAIN f : Over(f, g)[k] = f[k]
        /\ \A k \in DOMAIN g \ DOMAIN f : Over(f, g)[k] = g[k]
    BY DEF Over
  <1>3. DOMAIN f \cup DOMAIN g \in SUBSET ids
    BY TableIs
  <1>4. \A k \in DOMAIN f \cup DOMAIN g : Over(f, g)[k] \in Shape
    BY <1>2, TableIs
  <1>5. Over(f, g) \in [DOMAIN f \cup DOMAIN g -> Shape]
    BY <1>4 DEF Over
  <1>6. QED
    BY <1>1, <1>2, <1>3, <1>5, TableIs

LEMMA WithoutInTable ==
  ASSUME NEW ids, NEW Shape, NEW f \in Table(ids, Shape), NEW S
  PROVE  /\ Without(f, S) \in Table(ids, Shape)
         /\ DOMAIN Without(f, S) = DOMAIN f \ S
         /\ \A k \in DOMAIN f \ S : Without(f, S)[k] = f[k]
  <1>1. DOMAIN f \ S \in SUBSET ids /\ \A k \in DOMAIN f \ S : f[k] \in Shape
    BY TableIs
  <1>2. Without(f, S) \in [DOMAIN f \ S -> Shape]
    BY <1>1 DEF Without, Restrict
  <1>3. QED
    BY <1>1, <1>2, TableIs DEF Without, Restrict

LEMMA RowInTable ==
  ASSUME NEW ids, NEW Shape, NEW k \in ids, NEW row \in Shape
  PROVE  Row(k, row) \in Table(ids, Shape) /\ DOMAIN Row(k, row) = {k} /\ Row(k, row)[k] = row
  <1>1. Row(k, row) \in [{k} -> Shape]
    BY DEF Row
  <1>2. QED
    BY <1>1, TableIs DEF Row

LEMMA FiniteEvents == IsFiniteSet(Event)
  <1> DEFINE f == [p \in Acts \X CardIds |-> [id |-> p[1], card |-> p[2]]]
  <1>1. IsFiniteSet(Acts) /\ IsFiniteSet(CardIds)
    BY StudyAssumption, FS_Interval DEF Acts, CardIds
  <1>2. IsFiniteSet(Acts \X CardIds)
    BY <1>1, FS_Product
  <1>3. ASSUME NEW e \in Event PROVE \E p \in Acts \X CardIds : f[p] = e
    <2>1. e.id \in Acts /\ e.card \in CardIds /\ e = [id |-> e.id, card |-> e.card]
      BY DEF Event
    <2>2. <<e.id, e.card>> \in Acts \X CardIds /\ f[<<e.id, e.card>>] = e
      BY <2>1
    <2>3. QED
      BY <2>2
  <1>4. f \in [Acts \X CardIds -> Event]
    BY DEF Event
  <1>5. f \in Surjection(Acts \X CardIds, Event)
    BY <1>3, <1>4 DEF Surjection
  <1>6. QED
    BY <1>2, <1>5, FS_Surjection

LEMMA EventsCounted ==
  ASSUME NEW S \in SUBSET Event, NEW c
  PROVE  LET of == {e \in S : e.card = c} IN IsFiniteSet(of) /\ Cardinality(of) \in Nat
  <1> DEFINE of == {e \in S : e.card = c}
  <1>1. of \in SUBSET Event
    OBVIOUS
  <1>2. IsFiniteSet(of)
    BY <1>1, FiniteEvents, FS_Subset
  <1>3. QED
    BY <1>2, FS_CardinalityType

\* What bears distinct numbers up to n is at most n things.
LEMMA NumberedAtMost ==
  ASSUME NEW n \in Nat, NEW S, \A e \in S : e.id \in 1 .. n, \A e, f \in S : e.id = f.id => e = f
  PROVE  IsFiniteSet(S) /\ Cardinality(S) \in Nat /\ Cardinality(S) <= n
  <1> DEFINE f == [e \in S |-> e.id]
  <1>1. f \in Injection(S, 1 .. n)
    BY DEF Injection, IsInjective
  <1>2. IsFiniteSet(1 .. n) /\ Cardinality(1 .. n) = n
    BY FS_Interval
  <1>3. IsFiniteSet(S) /\ Cardinality(S) <= Cardinality(1 .. n)
    BY <1>1, <1>2, FS_Injection
  <1>4. QED
    BY <1>2, <1>3, FS_CardinalityType

\* The library's well-founded order on numbers, as a least element.
LEMMA LeastNumber ==
  ASSUME NEW S \in SUBSET Nat, S # {}
  PROVE  \E n \in S : \A k \in S : n <= k
  <1> DEFINE R == OpToRel(<, Nat)
  <1>1. IsWellFoundedOn(R, Nat)
    BY NatLessThanWellFounded
  <1>2. \A a, b \in Nat : a < b => <<a, b>> \in R
    BY DEF OpToRel
  <1> HIDE DEF R
  <1>3. PICK n \in S : \A k \in S : ~ (<<k, n>> \in R)
    BY <1>1, WFMin
  <1>4. ASSUME NEW k \in S PROVE n <= k
    <2>1. n \in Nat /\ k \in Nat
      OBVIOUS
    <2>2. ~ (k < n)
      BY <1>2, <1>3, <2>1
    <2>3. QED
      BY <2>1, <2>2
  <1>5. QED
    BY <1>4

-----------------------------------------------------------------------------
(***************************************************************************)
(* Steps that change rows.                                                 *)
(***************************************************************************)
\* Numbers are given out, gradings audited, and nothing of this is taken back.
Grown ==
  /\ made' \in Made
  /\ made.items <= made'.items /\ made.occs <= made'.occs /\ made.cards <= made'.cards
  /\ audit' \in [events : SUBSET Event, attempts : SUBSET Attempt]
  /\ audit.events \subseteq audit'.events /\ audit.attempts \subseteq audit'.attempts

LEMMA GoodStays ==
  ASSUME made \in Made, Grown, NEW rs, RowsGood(rs)
  PROVE  RowsGood(rs)'
  <1>1. /\ made.items \in Nat /\ made.occs \in Nat /\ made.cards \in Nat
        /\ made'.items \in Nat /\ made'.occs \in Nat /\ made'.cards \in Nat
    BY DEF Grown, Made
  <1>2. /\ 1 .. made.items \subseteq 1 .. made'.items /\ 1 .. made.occs \subseteq 1 .. made'.occs
        /\ 1 .. made.cards \subseteq 1 .. made'.cards
    BY <1>1 DEF Grown
  <1>3. rs \in Rows /\ Linked(rs) /\ Backed(rs) /\ Accounted(rs)
    BY DEF RowsGood
  <1>4. Accounted(rs)'
    BY <1>2, <1>3 DEF Accounted, Grown
  <1>5. QED
    BY <1>3, <1>4 DEF RowsGood

LEMMA NothingGrown ==
  ASSUME StudyInv, UNCHANGED <<made, audit>>
  PROVE  Grown /\ GradesAudited'
  BY DEF StudyInv, StudyShaped, Grown, GradesAudited, Made

LEMMA Rendered ==
  ASSUME NEW rs, NEW v, NEW r \in Surface, NEW p \in Exercise, DOMAIN rs.cards \subseteq CardIds,
         Render(rs, v, r, p)
  PROVE  /\ rows' = rs /\ view' = v /\ review' \in Surface /\ practice' \in Exercise
         /\ v = "practice" => /\ practice'.card = review'.active
                             /\ review'.active \in Due(rs) \cup {Nobody}
  <1>1. rows' = rs /\ view' = v
    BY DEF Render
  <1>2. CASE v \notin {"review", "practice"}
    BY <1>1, <1>2 DEF Render
  <1>3. CASE v \in {"review", "practice"}
    <2>1. PICK c \in ActiveDueCard(rs, r.active) :
            /\ review' = IF v = "review" THEN ReviewScreen(r, c) ELSE [r EXCEPT !.active = c]
            /\ practice' = IF v = "practice" THEN PracticeScreen(p, c) ELSE p
      BY <1>3 DEF Render
    <2>2. c \in Due(rs) \cup {Nobody}
      BY DEF ActiveDueCard, NextDue
    <2>3. Due(rs) \subseteq CardIds
      BY DEF Due, ListedDue
    <2>4. c \in CardIds \cup {Nobody}
      BY <2>2, <2>3
    <2>5. review' \in Surface /\ (v = "practice" => review'.active = c)
      <3>1. ReviewScreen(r, c) \in Surface
        BY <2>4 DEF ReviewScreen, Surface
      <3>2. [r EXCEPT !.active = c] \in Surface /\ [r EXCEPT !.active = c].active = c
        BY <2>4 DEF Surface
      <3>3. QED
        BY <2>1, <3>1, <3>2
    <2>6. practice' \in Exercise /\ (v = "practice" => practice'.card = c)
      <3>1. PracticeScreen(p, c) \in Exercise /\ PracticeScreen(p, c).card = c
        BY <2>4 DEF PracticeScreen, Exercise
      <3>2. QED
        BY <2>1, <3>1
    <2>7. QED
      BY <1>1, <2>2, <2>5, <2>6
  <1>4. QED
    BY <1>2, <1>3

\* Whatever occurrences and cards there are in rs, they are those of a snapshot or new.
Derived(rs) ==
  /\ \A o \in DOMAIN rs.occs :
       o > made.occs \/ \E ss \in Snapshots : o \in DOMAIN ss.occs /\ rs.occs[o] = ss.occs[o]
  /\ \A c \in DOMAIN rs.cards :
       \/ c > made.cards
       \/ \E ss \in Snapshots : /\ c \in DOMAIN ss.cards
                               /\ rs.cards[c].item = ss.cards[c].item
                               /\ rs.cards[c].occ = ss.cards[c].occ

LEMMA DerivedAgrees ==
  ASSUME StudyInv, NEW rs, Derived(rs), NEW ss \in Snapshots
  PROVE  Same(rs, ss) /\ Same(ss, rs)
  <1>1. made.occs \in Nat /\ made.cards \in Nat
    BY DEF StudyInv, StudyShaped, Made
  <1>2. DOMAIN ss.occs \subseteq 1 .. made.occs /\ DOMAIN ss.cards \subseteq 1 .. made.cards
    BY DEF StudyInv, SnapshotsAgree, RowsGood, Accounted
  <1>3. \A ts \in Snapshots : Same(ts, ss)
    BY DEF StudyInv, SnapshotsAgree
  <1>4. ASSUME NEW o \in DOMAIN rs.occs \cap DOMAIN ss.occs PROVE rs.occs[o] = ss.occs[o]
    <2>1. ~ (o > made.occs)
      BY <1>1, <1>2
    <2>2. PICK ts \in Snapshots : o \in DOMAIN ts.occs /\ rs.occs[o] = ts.occs[o]
      BY <2>1 DEF Derived
    <2>3. QED
      BY <1>3, <2>2 DEF Same
  <1>5. ASSUME NEW c \in DOMAIN rs.cards \cap DOMAIN ss.cards
        PROVE  rs.cards[c].item = ss.cards[c].item /\ rs.cards[c].occ = ss.cards[c].occ
    <2>1. ~ (c > made.cards)
      BY <1>1, <1>2
    <2>2. PICK ts \in Snapshots : /\ c \in DOMAIN ts.cards /\ rs.cards[c].item = ts.cards[c].item
                                 /\ rs.cards[c].occ = ts.cards[c].occ
      BY <2>1 DEF Derived
    <2>3. QED
      BY <1>3, <2>2 DEF Same
  <1>6. QED
    BY <1>4, <1>5 DEF Same

LEMMA SnapshotsKept ==
  ASSUME StudyInv, Grown, NEW rs, rows' = rs, RowsGood(rs)', Derived(rs),
         {file'.hashed, form'.wire.hashed} \ {NoRows} \subseteq Snapshots
  PROVE  SnapshotsAgree' /\ Snapshots' \subseteq Snapshots \cup {rs}
  <1>1. \A ss \in Snapshots' : ss \in Snapshots \/ ss = rs
    BY DEF Snapshots
  <1>2. \A ss \in Snapshots : RowsGood(ss)'
    BY GoodStays DEF StudyInv, StudyShaped, SnapshotsAgree
  <1>3. \A ss, ts \in Snapshots : Same(ss, ts)
    BY DEF StudyInv, SnapshotsAgree
  <1>4. \A ss \in Snapshots : Same(rs, ss) /\ Same(ss, rs)
    BY DerivedAgrees
  <1>5. Same(rs, rs)
    BY DEF Same
  <1>6. QED
    BY <1>1, <1>2, <1>3, <1>4, <1>5 DEF SnapshotsAgree

\* A toast for what rs has besides the snapshots there were.
NewReceipt(rs) ==
  /\ toast' \in Receipt /\ toast'.occ <= made'.occs
  /\ \A ss \in Snapshots \cup {rs} :
       toast'.occ \in DOMAIN ss.occs => ss.occs[toast'.occ].item = toast'.item
  /\ toast'.newItem => toast'.was.edits = 0 /\ toast'.count = 1

\* A handler that leaves good rows, derived from those there were, and renders them.
LEMMA HandlerKeeps ==
  ASSUME StudyInv, NEW rs, NEW v \in Views, NEW r \in Surface, NEW p \in Exercise, Render(rs, v, r, p),
         now' = now, Grown, GradesAudited', RowsGood(rs)', Derived(rs),
         toast' = toast \/ toast' = NoToast \/ NewReceipt(rs), file' = file, form' = form \/ form' = NoForm
  PROVE  StudyInv' /\ rows' = rs
  <1>1. DOMAIN rs.cards \subseteq CardIds
    <2>1. rs \in Rows
      BY DEF RowsGood
    <2>2. rs.cards \in Table(CardIds, Card)
      BY <2>1 DEF Rows
    <2>3. QED
      BY <2>2, TableIs
  <1>2. /\ rows' = rs /\ view' = v /\ review' \in Surface /\ practice' \in Exercise
        /\ (v = "practice" => /\ practice'.card = review'.active
                             /\ review'.active \in Due(rs) \cup {Nobody})
    BY <1>1, Rendered
  <1>3. form' \in Form /\ form'.wire.hashed \in {form.wire.hashed, NoRows}
    <2>1. NoForm \in Form /\ NoForm.wire.hashed = NoRows
      <3>1. NoFile \in File /\ NoFile.hashed = NoRows
        BY DEF NoFile, ExportOf, File
      <3>2. QED
        BY <3>1 DEF NoForm, Form
    <2>2. form \in Form
      BY DEF StudyInv, StudyShaped
    <2>3. QED
      BY <2>1, <2>2
  <1>4. StudyShaped'
    BY <1>2, <1>3 DEF StudyInv, StudyShaped, Grown, NewReceipt
  <1>5. {file'.hashed, form'.wire.hashed} \ {NoRows} \subseteq Snapshots
    BY <1>3 DEF Snapshots
  <1>6. SnapshotsAgree' /\ Snapshots' \subseteq Snapshots \cup {rs}
    BY <1>2, <1>5, SnapshotsKept
  <1>7. ToastTrue'
    <2>1. SUFFICES ASSUME toast' # NoToast, ~ NewReceipt(rs) PROVE ToastTrue'
      BY <1>6 DEF ToastTrue, NewReceipt
    <2>2. toast' = toast /\ toast # NoToast
      BY <2>1
    <2>3. /\ toast.occ <= made.occs /\ (toast.newItem => toast.was.edits = 0 /\ toast.count = 1)
          /\ \A ss \in Snapshots : toast.occ \in DOMAIN ss.occs => ss.occs[toast.occ].item = toast.item
      BY <2>2 DEF StudyInv, ToastTrue
    <2>4. toast.occ \in Nat /\ made.occs \in Nat /\ made'.occs \in Nat /\ made.occs <= made'.occs
      BY <2>2 DEF StudyInv, StudyShaped, Receipt, OccIds, Grown, Made
    <2>5. toast.occ \in DOMAIN rs.occs => rs.occs[toast.occ].item = toast.item
      BY <2>3, <2>4 DEF Derived
    <2>6. \A ss \in Snapshots' : toast.occ \in DOMAIN ss.occs => ss.occs[toast.occ].item = toast.item
      BY <1>6, <2>3, <2>5
    <2>7. toast.occ <= made'.occs
      BY <2>3, <2>4
    <2>8. QED
      BY <2>2, <2>3, <2>6, <2>7 DEF ToastTrue
  <1>8. PracticeDue'
    BY <1>2 DEF PracticeDue, Due, ListedDue
  <1>9. FormVerified'
    BY DEF StudyInv, FormVerified, NoForm
  <1>10. QED
    BY <1>2, <1>4, <1>6, <1>7, <1>8, <1>9 DEF StudyInv

\* The same for a handler that grades nothing and gives out no number.
LEMMA PlainHandlerKeeps ==
  ASSUME StudyInv, NEW rs, NEW v \in Views, NEW r \in Surface, NEW p \in Exercise, Render(rs, v, r, p),
         UNCHANGED <<now, made, audit>>, RowsGood(rs), Derived(rs),
         toast' = toast \/ toast' = NoToast, file' = file, form' = form \/ form' = NoForm
  PROVE  StudyInv' /\ rows' = rs
  <1>1. Grown /\ GradesAudited' /\ made \in Made
    BY NothingGrown DEF StudyInv, StudyShaped
  <1>2. RowsGood(rs)'
    BY <1>1, GoodStays
  <1>3. QED
    BY <1>1, <1>2, HandlerKeeps

LEMMA RowsAreGood ==
  ASSUME StudyInv
  PROVE  /\ RowsGood(rows) /\ Derived(rows) /\ rows \in Snapshots
         /\ view \in Views /\ review \in Surface /\ practice \in Exercise
  <1>1. rows \in Snapshots
    BY DEF Snapshots
  <1>2. RowsGood(rows)
    BY <1>1 DEF StudyInv, SnapshotsAgree
  <1>3. Derived(rows)
    BY <1>1 DEF Derived
  <1>4. QED
    BY <1>1, <1>2, <1>3 DEF StudyInv, StudyShaped

\* What of good rows is what.
LEMMA RowsAre ==
  ASSUME NEW rs \in Rows
  PROVE  /\ rs.items \in Table(ItemIds, Item) /\ rs.occs \in Table(OccIds, Occurrence)
         /\ rs.cards \in Table(CardIds, Card) /\ rs.states \in Table(CardIds, Schedule)
         /\ rs.events \in SUBSET Event /\ rs.attempts \in SUBSET Attempt
         /\ rs = [items |-> rs.items, occs |-> rs.occs, cards |-> rs.cards, states |-> rs.states,
                  events |-> rs.events, attempts |-> rs.attempts]
  BY DEF Rows

\* Cards whose schedules, items and occurrences stay.
LEMMA CardsChanged ==
  ASSUME StudyInv, NEW rs, RowsGood(rs), Derived(rs), NEW cards, cards \in [DOMAIN rs.cards -> Card],
         \A c \in DOMAIN rs.cards : cards[c].item = rs.cards[c].item /\ cards[c].occ = rs.cards[c].occ
  PROVE  RowsGood([rs EXCEPT !.cards = cards]) /\ Derived([rs EXCEPT !.cards = cards])
  <1>1. PICK ss : ss = [rs EXCEPT !.cards = cards]
    OBVIOUS
  <1>2. rs \in Rows /\ Linked(rs) /\ Backed(rs) /\ Accounted(rs)
    BY DEF RowsGood
  <1>3. /\ ss.cards = cards /\ ss.items = rs.items /\ ss.occs = rs.occs /\ ss.states = rs.states
        /\ ss.events = rs.events /\ ss.attempts = rs.attempts
    BY <1>1, <1>2 DEF Rows
  <1>4. cards \in Table(CardIds, Card) /\ DOMAIN cards = DOMAIN rs.cards
    <2>1. DOMAIN rs.cards \in SUBSET CardIds
      BY <1>2, RowsAre, TableIs
    <2>2. QED
      BY <2>1, TableIs
  <1>5. ss \in Rows
    BY <1>1, <1>2, <1>4 DEF Rows
  <1>6. Linked(ss)
    BY <1>2, <1>3, <1>4 DEF Linked
  <1>7. Backed(ss)
    BY <1>2, <1>3 DEF Backed, EventsOf
  <1>8. Accounted(ss)
    BY <1>2, <1>3, <1>4 DEF Accounted
  <1>9. Derived(ss)
    BY <1>3, <1>4 DEF Derived
  <1>10. QED
    BY <1>1, <1>5, <1>6, <1>7, <1>8, <1>9 DEF RowsGood

\* New cards of occurrences there are, with schedules of their own.
LEMMA CardsAdded ==
  ASSUME StudyInv, NEW rs, rs \in Rows, Linked(rs), Backed(rs), NEW cards \in Table(CardIds, Card),
         \A c \in DOMAIN cards : /\ cards[c].occ \in DOMAIN rs.occs
                                 /\ rs.occs[cards[c].occ].item = cards[c].item
  PROVE  LET ss == WithCards(rs, cards)
         IN /\ ss \in Rows /\ Linked(ss) /\ Backed(ss)
            /\ ss.items = rs.items /\ ss.occs = rs.occs
            /\ ss.events = rs.events /\ ss.attempts = rs.attempts
            /\ DOMAIN ss.cards = DOMAIN cards \cup DOMAIN rs.cards
            /\ \A c \in DOMAIN rs.cards \ DOMAIN cards : ss.cards[c] = rs.cards[c]
  <1>1. PICK ss : ss = WithCards(rs, cards)
    OBVIOUS
  <1>2. PICK states : states = [k \in DOMAIN cards |-> [reps |-> 0, due |-> now]]
    OBVIOUS
  <1>3. ss = [rs EXCEPT !.cards = Over(cards, rs.cards), !.states = Over(states, rs.states)]
    BY <1>1, <1>2 DEF WithCards
  <1>4. /\ ss.cards = Over(cards, rs.cards) /\ ss.states = Over(states, rs.states)
        /\ ss.items = rs.items /\ ss.occs = rs.occs /\ ss.events = rs.events /\ ss.attempts = rs.attempts
        /\ ss = [items |-> rs.items, occs |-> rs.occs, cards |-> Over(cards, rs.cards),
                 states |-> Over(states, rs.states), events |-> rs.events, attempts |-> rs.attempts]
    BY <1>3 DEF Rows
  <1>5. states \in Table(CardIds, Schedule) /\ DOMAIN states = DOMAIN cards
        /\ \A k \in DOMAIN cards : states[k].reps = 0
    <2>1. [reps |-> 0, due |-> now] \in Schedule
      BY StudyAssumption DEF StudyInv, StudyShaped, Schedule
    <2>2. states \in [DOMAIN cards -> Schedule] /\ DOMAIN cards \in SUBSET CardIds
      BY <1>2, <2>1, TableIs
    <2>3. QED
      BY <1>2, <2>2, TableIs
  <1>6. /\ ss.cards \in Table(CardIds, Card) /\ DOMAIN ss.cards = DOMAIN cards \cup DOMAIN rs.cards
        /\ \A c \in DOMAIN cards : ss.cards[c] = cards[c]
        /\ \A c \in DOMAIN rs.cards \ DOMAIN cards : ss.cards[c] = rs.cards[c]
    <2>1. rs.cards \in Table(CardIds, Card)
      BY RowsAre
    <2>2. PICK old \in Table(CardIds, Card) : old = rs.cards
      BY <2>1
    <2>3. Over(cards, old) \in Table(CardIds, Card)
      BY OverInTable
    <2>4. /\ DOMAIN Over(cards, old) = DOMAIN cards \cup DOMAIN old
          /\ \A c \in DOMAIN cards : Over(cards, old)[c] = cards[c]
          /\ \A c \in DOMAIN old \ DOMAIN cards : Over(cards, old)[c] = old[c]
      BY DEF Over
    <2>5. QED
      BY <1>4, <2>2, <2>3, <2>4
  <1>7. /\ ss.states \in Table(CardIds, Schedule) /\ DOMAIN ss.states = DOMAIN cards \cup DOMAIN rs.states
        /\ \A c \in DOMAIN cards : ss.states[c].reps = 0
        /\ \A c \in DOMAIN rs.states \ DOMAIN cards : ss.states[c] = rs.states[c]
    <2>1. rs.states \in Table(CardIds, Schedule)
      BY RowsAre
    <2>2. PICK old \in Table(CardIds, Schedule) : old = rs.states
      BY <2>1
    <2>3. Over(states, old) \in Table(CardIds, Schedule)
      BY <1>5, OverInTable
    <2>4. /\ DOMAIN Over(states, old) = DOMAIN states \cup DOMAIN old
          /\ \A c \in DOMAIN states : Over(states, old)[c] = states[c]
          /\ \A c \in DOMAIN old \ DOMAIN states : Over(states, old)[c] = old[c]
      BY DEF Over
    <2>5. QED
      BY <1>4, <1>5, <2>2, <2>3, <2>4
  <1>8. ss \in Rows
    BY <1>4, <1>6, <1>7, RowsAre DEF Rows
  <1>9. Linked(ss)
    BY <1>4, <1>6, <1>7 DEF Linked
  <1>10. Backed(ss)
    <2> SUFFICES ASSUME NEW c \in DOMAIN ss.states
                 PROVE  ss.states[c].reps <= Cardinality(EventsOf(ss, c))
      BY DEF Backed
    <2>1. EventsOf(ss, c) = EventsOf(rs, c)
      BY <1>4 DEF EventsOf
    <2>2. Cardinality(EventsOf(rs, c)) \in Nat
      BY RowsAre, EventsCounted DEF EventsOf
    <2>3. CASE c \in DOMAIN cards
      BY <1>7, <2>1, <2>2, <2>3
    <2>4. CASE c \in DOMAIN rs.states \ DOMAIN cards
      BY <1>7, <2>1, <2>4 DEF Backed
    <2>5. QED
      BY <1>7, <2>3, <2>4
  <1>11. QED
    BY <1>1, <1>4, <1>6, <1>8, <1>9, <1>10

-----------------------------------------------------------------------------
(***************************************************************************)
(* One lemma per handler.                                                  *)
(***************************************************************************)
LEMMA TakeOutKeeps ==
  ASSUME StudyInv, NEW i, TakeOut(i)
  PROVE  StudyInv'
  <1>1. PICK off : off = InReview(rows, i)
    OBVIOUS
  <1>2. PICK r : r = [review EXCEPT !.active = IF review.active \in off THEN Nobody ELSE review.active]
    OBVIOUS
  <1>3. Render(Archived(rows, off), view, r, practice) /\ UNCHANGED <<audit, made, now, toast, file, form>>
    BY <1>1, <1>2 DEF TakeOut
  <1>4. r \in Surface
    BY <1>2, RowsAreGood DEF Surface
  <1>5. PICK cards : cards = [c \in DOMAIN rows.cards |->
                               IF c \in off THEN [rows.cards[c] EXCEPT !.archived = now + 1] ELSE rows.cards[c]]
    OBVIOUS
  <1>6. PICK rs : rs = [rows EXCEPT !.cards = cards]
    OBVIOUS
  <1>7. rs = Archived(rows, off)
    BY <1>5, <1>6 DEF Archived
  <1>8. ASSUME NEW c \in DOMAIN rows.cards
        PROVE  cards[c] \in Card /\ cards[c].item = rows.cards[c].item /\ cards[c].occ = rows.cards[c].occ
    <2>1. rows \in Rows
      BY RowsAreGood DEF RowsGood
    <2>2. rows.cards[c] \in Card
      BY <2>1, RowsAre, TableIs
    <2>3. now + 1 \in 0 .. MaxNow + 1
      BY StudyAssumption DEF StudyInv, StudyShaped
    <2>4. QED
      BY <1>5, <2>2, <2>3 DEF Card
  <1>9. cards \in [DOMAIN rows.cards -> Card]
    BY <1>5, <1>8
  <1>10. RowsGood(rs) /\ Derived(rs)
    BY <1>6, <1>8, <1>9, RowsAreGood, CardsChanged
  <1>11. QED
    BY <1>3, <1>4, <1>7, <1>10, RowsAreGood, PlainHandlerKeeps

LEMMA SetMeaningKeeps ==
  ASSUME StudyInv, NEW i \in DOMAIN rows.items, NEW m \in {Blank} \cup Meanings, SetMeaning(i, m)
  PROVE  StudyInv'
  <1>1. PICK rs : rs = [rows EXCEPT !.items[i] = [word |-> @.word, meaning |-> m, edits |-> @.edits + 1]]
    OBVIOUS
  <1>2. Render(rs, view, review, practice) /\ UNCHANGED <<audit, made, now, toast, file, form>>
        /\ rows.items[i].edits < MaxEdits
    BY <1>1 DEF SetMeaning
  <1>3. rows \in Rows /\ Linked(rows) /\ Backed(rows) /\ Accounted(rows)
    BY RowsAreGood DEF RowsGood
  <1>4. PICK item : item = [word |-> rows.items[i].word, meaning |-> m, edits |-> rows.items[i].edits + 1]
    OBVIOUS
  <1>5. PICK items : items = [rows.items EXCEPT ![i] = item]
    OBVIOUS
  <1>6. rows.items \in Table(ItemIds, Item) /\ rows.items[i] \in Item
    BY <1>3, RowsAre, TableIs
  <1>7. item \in Item
    <2>1. rows.items[i].edits + 1 \in 0 .. MaxEdits
      BY <1>2, <1>6, StudyAssumption DEF Item
    <2>2. QED
      BY <1>4, <1>6, <2>1 DEF Item
  <1>8. items \in Table(ItemIds, Item) /\ DOMAIN items = DOMAIN rows.items
    <2>1. rows.items \in [DOMAIN rows.items -> Item] /\ DOMAIN rows.items \in SUBSET ItemIds
      BY <1>6, TableIs
    <2>2. items \in [DOMAIN rows.items -> Item]
      BY <1>5, <1>7, <2>1
    <2>3. QED
      BY <2>1, <2>2, TableIs
  <1>9. rs = [items |-> items, occs |-> rows.occs, cards |-> rows.cards, states |-> rows.states,
              events |-> rows.events, attempts |-> rows.attempts]
    <2>1. rs = [rows EXCEPT !.items[i] = item]
      BY <1>1, <1>4
    <2>2. rs = [rows EXCEPT !.items = items]
      BY <1>5, <2>1
    <2>3. QED
      BY <1>3, <2>2, RowsAre
  <1>10. rs \in Rows
    BY <1>3, <1>8, <1>9, RowsAre DEF Rows
  <1>11. RowsGood(rs) /\ Derived(rs)
    BY <1>3, <1>8, <1>9, <1>10, RowsAreGood DEF RowsGood, Linked, Backed, EventsOf, Accounted, Derived
  <1>12. QED
    BY <1>2, <1>11, RowsAreGood, PlainHandlerKeeps

LEMMA ViewsKeep ==
  ASSUME StudyInv,
         \/ \E v \in Views : GoTo(v)
         \/ Wake \/ ToggleReveal \/ RevealAnswer
         \/ \E m \in Modes : SetMode(m)
  PROVE  StudyInv'
  <1>1. /\ [review EXCEPT !.revealed = ~ review.revealed] \in Surface
        /\ [practice EXCEPT !.revealed = TRUE] \in Exercise
        /\ \A m \in Modes : [practice EXCEPT !.mode = m] \in Exercise
    BY RowsAreGood DEF Surface, Exercise
  <1>2. PICK v \in Views, r \in Surface, p \in Exercise : Render(rows, v, r, p)
    BY <1>1, RowsAreGood DEF GoTo, Wake, ToggleReveal, RevealAnswer, SetMode
  <1>3. UNCHANGED <<audit, made, now, toast, file, form>>
    BY DEF GoTo, Wake, ToggleReveal, RevealAnswer, SetMode
  <1>4. PICK rs : rs = rows
    OBVIOUS
  <1>5. QED
    BY <1>2, <1>3, <1>4, RowsAreGood, PlainHandlerKeeps

LEMMA EarliestIsOne ==
  ASSUME NEW ids \in SUBSET Nat, ids # {}
  PROVE  Earliest(ids) \in ids
  <1>1. \E k \in ids : \A l \in ids : k <= l
    BY LeastNumber
  <1>2. QED
    BY <1>1 DEF Earliest

LEMMA AddToReviewKeeps ==
  ASSUME StudyInv, NEW S, AddToReview(S)
  PROVE  StudyInv'
  <1>1. PICK back, fresh :
          LET last == made.cards + Cardinality(fresh)
          IN /\ fresh \subseteq {i \in S : OccurrencesOf(rows, i) # {}}
             /\ last <= MaxCards
             /\ \E for \in Bijection(made.cards + 1 .. last, fresh) :
                  LET first(k) == Earliest(OccurrencesOf(rows, for[k]))
                      new == [k \in DOMAIN for |-> NewCard(for[k], first(k))]
                  IN Render(WithCards(Reactivated(rows, back), new), view, review, practice)
             /\ made' = [made EXCEPT !.cards = last]
             /\ UNCHANGED <<audit, now, toast, file, form>>
    BY DEF AddToReview
  <1>2. PICK last : last = made.cards + Cardinality(fresh)
    OBVIOUS
  <1>3. PICK for \in Bijection(made.cards + 1 .. last, fresh) :
          Render(WithCards(Reactivated(rows, back),
                           [k \in DOMAIN for |-> NewCard(for[k], Earliest(OccurrencesOf(rows, for[k])))]),
                 view, review, practice)
    BY <1>1, <1>2
  <1>4. PICK new : new = [k \in DOMAIN for |-> NewCard(for[k], Earliest(OccurrencesOf(rows, for[k])))]
    OBVIOUS
  <1>5. rows \in Rows /\ Linked(rows) /\ Backed(rows) /\ Accounted(rows)
    BY RowsAreGood DEF RowsGood
  <1>6. ASSUME NEW i, OccurrencesOf(rows, i) # {}
        PROVE  /\ i \in ItemIds /\ Earliest(OccurrencesOf(rows, i)) \in DOMAIN rows.occs \cap OccIds
               /\ rows.occs[Earliest(OccurrencesOf(rows, i))].item = i
    <2>1. OccurrencesOf(rows, i) \subseteq DOMAIN rows.occs /\ DOMAIN rows.occs \subseteq OccIds
      BY <1>5, RowsAre, TableIs DEF OccurrencesOf
    <2>2. OccurrencesOf(rows, i) \in SUBSET Nat
      BY <2>1 DEF OccIds
    <2>3. PICK o : o = Earliest(OccurrencesOf(rows, i))
      OBVIOUS
    <2>4. o \in OccurrencesOf(rows, i)
      BY <1>6, <2>2, <2>3, EarliestIsOne
    <2>5. rows.occs[o] \in Occurrence /\ rows.occs[o].item = i
      BY <1>5, <2>1, <2>4, RowsAre, TableIs DEF OccurrencesOf
    <2>6. QED
      BY <2>1, <2>3, <2>4, <2>5 DEF Occurrence
  <1>7. last \in Nat /\ made.cards <= last /\ last <= MaxCards /\ made.cards \in Nat
    <2>1. fresh \in SUBSET ItemIds
      BY <1>1, <1>6
    <2>2. IsFiniteSet(ItemIds)
      BY StudyAssumption, FS_Interval DEF ItemIds
    <2>3. IsFiniteSet(fresh)
      BY <2>1, <2>2, FS_Subset
    <2>4. Cardinality(fresh) \in Nat
      BY <2>3, FS_CardinalityType
    <2>5. made.cards \in Nat
      BY DEF StudyInv, StudyShaped, Made
    <2>6. QED
      BY <1>1, <1>2, <2>4, <2>5
  <1>8. /\ DOMAIN for = made.cards + 1 .. last /\ DOMAIN for \subseteq CardIds
        /\ \A k \in DOMAIN for : for[k] \in fresh /\ k > made.cards /\ k \in 1 .. last
    <2>1. for \in [made.cards + 1 .. last -> fresh]
      BY DEF Bijection, Injection
    <2>2. made.cards + 1 .. last \subseteq 1 .. last /\ 1 .. last \subseteq 1 .. MaxCards
      BY <1>7, StudyAssumption
    <2>3. \A k \in made.cards + 1 .. last : k > made.cards
      BY <1>7
    <2>4. QED
      BY <2>1, <2>2, <2>3 DEF CardIds
  <1>9. ASSUME NEW k \in DOMAIN new
        PROVE  new[k] \in Card /\ new[k].occ \in DOMAIN rows.occs /\ rows.occs[new[k].occ].item = new[k].item
    <2>1. OccurrencesOf(rows, for[k]) # {}
      BY <1>1, <1>4, <1>8
    <2>2. new[k] = [item |-> for[k], occ |-> Earliest(OccurrencesOf(rows, for[k])), archived |-> 0]
      BY <1>4 DEF NewCard
    <2>3. 0 \in 0 .. MaxNow + 1
      BY StudyAssumption
    <2>4. new[k] \in Card
      BY <1>6, <2>1, <2>2, <2>3 DEF Card
    <2>5. QED
      BY <1>6, <2>1, <2>2, <2>4
  <1>10. new \in Table(CardIds, Card) /\ DOMAIN new = DOMAIN for
    <2>1. DOMAIN new = DOMAIN for /\ DOMAIN for \in SUBSET CardIds
      BY <1>4, <1>8
    <2>2. new \in [DOMAIN for -> Card]
      BY <1>4, <1>9
    <2>3. QED
      BY <2>1, <2>2, TableIs
  <1>11. PICK cards : cards = [c \in DOMAIN rows.cards |->
                                IF c \in back THEN [rows.cards[c] EXCEPT !.archived = 0] ELSE rows.cards[c]]
    OBVIOUS
  <1>12. PICK rs : rs = [rows EXCEPT !.cards = cards]
    OBVIOUS
  <1>13. rs = Reactivated(rows, back)
    BY <1>11, <1>12 DEF Reactivated
  <1>14. ASSUME NEW c \in DOMAIN rows.cards
         PROVE  cards[c] \in Card /\ cards[c].item = rows.cards[c].item /\ cards[c].occ = rows.cards[c].occ
    <2>1. rows.cards[c] \in Card
      BY <1>5, RowsAre, TableIs
    <2>2. 0 \in 0 .. MaxNow + 1
      BY StudyAssumption
    <2>3. QED
      BY <1>11, <2>1, <2>2 DEF Card
  <1>15. cards \in [DOMAIN rows.cards -> Card]
    BY <1>11, <1>14
  <1>16. RowsGood(rs) /\ Derived(rs)
    BY <1>12, <1>14, <1>15, RowsAreGood, CardsChanged
  <1>17. rs \in Rows /\ Linked(rs) /\ Backed(rs) /\ Accounted(rs) /\ rs.occs = rows.occs
    BY <1>12, <1>16, <1>5, RowsAre DEF RowsGood
  <1>18. PICK ss : ss = WithCards(rs, new)
    OBVIOUS
  <1>19. /\ ss \in Rows /\ Linked(ss) /\ Backed(ss) /\ ss.items = rs.items /\ ss.occs = rs.occs
         /\ ss.events = rs.events /\ ss.attempts = rs.attempts
         /\ DOMAIN ss.cards = DOMAIN new \cup DOMAIN rs.cards
         /\ \A c \in DOMAIN rs.cards \ DOMAIN new : ss.cards[c] = rs.cards[c]
    BY <1>9, <1>10, <1>17, <1>18, CardsAdded
  <1>20. Derived(ss)
    BY <1>8, <1>10, <1>16, <1>19 DEF Derived
  <1>21. Grown /\ GradesAudited'
    <2>1. made \in Made /\ audit \in [events : SUBSET Event, attempts : SUBSET Attempt]
      BY DEF StudyInv, StudyShaped
    <2>2. /\ made' = [items |-> made.items, occs |-> made.occs, cards |-> last, acts |-> made.acts]
          /\ audit' = audit
      BY <1>1, <1>2, <2>1 DEF Made
    <2>3. made' \in Made
      BY <1>7, <2>1, <2>2, StudyAssumption DEF Made
    <2>4. made.items <= made'.items /\ made.occs <= made'.occs /\ made.cards <= made'.cards
      BY <1>7, <2>1, <2>2 DEF Made
    <2>5. GradesAudited'
      BY <2>2 DEF StudyInv, GradesAudited
    <2>6. QED
      BY <2>1, <2>2, <2>3, <2>4, <2>5 DEF Grown
  <1>22. RowsGood(ss)'
    <2>1. made'.items = made.items /\ made'.occs = made.occs /\ made'.cards = last /\ audit' = audit
      <3>1. made \in Made
        BY DEF StudyInv, StudyShaped
      <3>2. QED
        BY <1>1, <1>2, <3>1 DEF Made
    <2>2. DOMAIN ss.cards \subseteq 1 .. last
      <3>1. DOMAIN rs.cards \subseteq 1 .. made.cards
        BY <1>17 DEF Accounted
      <3>2. 1 .. made.cards \subseteq 1 .. last
        BY <1>7
      <3>3. QED
        BY <1>8, <1>10, <1>19, <3>1, <3>2
    <2>3. Accounted(ss)'
      BY <1>17, <1>19, <2>1, <2>2 DEF Accounted
    <2>4. QED
      BY <1>19, <2>3 DEF RowsGood
  <1>23. UNCHANGED <<now, toast, file, form>> /\ Render(ss, view, review, practice)
    BY <1>1, <1>3, <1>4, <1>13, <1>18
  <1>24. QED
    BY <1>20, <1>21, <1>22, <1>23, RowsAreGood, HandlerKeeps

\* A word that came with the saved occurrence has no other.
LEMMA OnlyOccurrence ==
  ASSUME StudyInv, toast # NoToast, CanUndo(toast), toast.newItem
  PROVE  OccurrencesOf(rows, toast.item) = {toast.occ} /\ rows.items[toast.item].edits = 0
  <1>1. /\ toast.was.edits = 0 /\ toast.count = 1 /\ toast.occ \in DOMAIN rows.occs
        /\ rows.occs[toast.occ].item = toast.item
    BY RowsAreGood DEF StudyInv, ToastTrue, CanUndo
  <1>2. Cardinality(OccurrencesOf(rows, toast.item)) = 1
    BY <1>1 DEF CanUndo
  <1>3. IsFiniteSet(OccurrencesOf(rows, toast.item))
    <2>1. OccurrencesOf(rows, toast.item) \in SUBSET OccIds
      BY RowsAreGood, RowsAre, TableIs DEF OccurrencesOf, RowsGood
    <2>2. IsFiniteSet(OccIds)
      BY StudyAssumption, FS_Interval DEF OccIds
    <2>3. QED
      BY <2>1, <2>2, FS_Subset
  <1>4. PICK x : OccurrencesOf(rows, toast.item) = {x}
    BY <1>2, <1>3, FS_Singleton
  <1>5. toast.occ \in OccurrencesOf(rows, toast.item)
    BY <1>1 DEF OccurrencesOf
  <1>6. QED
    BY <1>1, <1>4, <1>5 DEF CanUndo

LEMMA UndoKeeps ==
  ASSUME StudyInv, Undo
  PROVE  StudyInv'
  <1>1. /\ toast # NoToast /\ toast' = NoToast
        /\ UNCHANGED <<audit, made, now, file, form>>
    BY DEF Undo
  <1>2. CASE ~ (UndoOffered(toast) /\ CanUndo(toast))
    <2>1. PICK rs : rs = rows
      OBVIOUS
    <2>2. Render(rs, view, review, practice)
      BY <1>2, <2>1 DEF Undo
    <2>3. QED
      BY <1>1, <2>1, <2>2, RowsAreGood, PlainHandlerKeeps
  <1>3. CASE UndoOffered(toast) /\ CanUndo(toast)
    <2>1. PICK t : t = toast
      OBVIOUS
    <2>2. PICK rs : rs = Undone(t)
      OBVIOUS
    <2>3. Render(rs, view, review, practice)
      BY <1>3, <2>1, <2>2 DEF Undo
    <2>4. rows \in Rows /\ Linked(rows) /\ Backed(rows) /\ Accounted(rows) /\ Derived(rows)
      BY RowsAreGood DEF RowsGood
    <2>5. /\ t \in Receipt /\ CanUndo(t) /\ (t.newItem => t.count = 1)
          /\ (t.occ \in DOMAIN rows.occs => rows.occs[t.occ].item = t.item)
      BY <1>1, <1>3, <2>1, RowsAreGood DEF StudyInv, StudyShaped, ToastTrue
    <2>6. PICK items : items = IF t.newItem THEN Without(rows.items, {t.item}) ELSE rows.items
      OBVIOUS
    <2>7. PICK occs, cards, states :
            /\ occs = Without(rows.occs, {t.occ})
            /\ cards = Without(rows.cards, {t.card}) /\ states = Without(rows.states, {t.card})
      OBVIOUS
    <2>8. rs = [items |-> items, occs |-> occs, cards |-> cards, states |-> states,
                events |-> rows.events, attempts |-> rows.attempts]
      <3>1. rs = [rows EXCEPT !.cards = cards, !.states = states, !.occs = occs, !.items = items]
        BY <2>2, <2>6, <2>7 DEF Undone
      <3>2. PICK a, b, c, d, e, f :
              rows = [items |-> a, occs |-> b, cards |-> c, states |-> d, events |-> e, attempts |-> f]
        BY <2>4, RowsAre
      <3>3. rs = [items |-> items, occs |-> occs, cards |-> cards, states |-> states,
                  events |-> e, attempts |-> f]
        BY <3>1, <3>2
      <3>4. QED
        BY <3>2, <3>3
    <2>9. items \in Table(ItemIds, Item) /\ DOMAIN items \subseteq DOMAIN rows.items
          /\ \A i \in DOMAIN rows.items : i # t.item \/ ~ t.newItem => i \in DOMAIN items
      <3>1. PICK old \in Table(ItemIds, Item) : old = rows.items
        BY <2>4, RowsAre
      <3>2. Without(old, {t.item}) \in Table(ItemIds, Item)
        BY WithoutInTable
      <3>3. DOMAIN Without(old, {t.item}) = DOMAIN old \ {t.item}
        BY DEF Without, Restrict
      <3>4. CASE t.newItem
        <4>1. items = Without(old, {t.item})
          BY <2>6, <3>1, <3>4
        <4>2. QED
          BY <3>1, <3>2, <3>3, <3>4, <4>1
      <3>5. CASE ~ t.newItem
        BY <2>6, <3>1, <3>5
      <3>6. QED
        BY <3>4, <3>5
    <2>10. /\ occs \in Table(OccIds, Occurrence) /\ DOMAIN occs = DOMAIN rows.occs \ {t.occ}
           /\ \A o \in DOMAIN occs : occs[o] = rows.occs[o]
      <3>1. PICK old \in Table(OccIds, Occurrence) : old = rows.occs
        BY <2>4, RowsAre
      <3>2. Without(old, {t.occ}) \in Table(OccIds, Occurrence)
        BY WithoutInTable
      <3>3. DOMAIN Without(old, {t.occ}) = DOMAIN old \ {t.occ}
            /\ \A o \in DOMAIN old \ {t.occ} : Without(old, {t.occ})[o] = old[o]
        BY DEF Without, Restrict
      <3>4. QED
        BY <2>7, <3>1, <3>2, <3>3
    <2>11. /\ cards \in Table(CardIds, Card) /\ DOMAIN cards = DOMAIN rows.cards \ {t.card}
           /\ \A c \in DOMAIN cards : cards[c] = rows.cards[c]
      <3>1. PICK old \in Table(CardIds, Card) : old = rows.cards
        BY <2>4, RowsAre
      <3>2. Without(old, {t.card}) \in Table(CardIds, Card)
        BY WithoutInTable
      <3>3. DOMAIN Without(old, {t.card}) = DOMAIN old \ {t.card}
            /\ \A c \in DOMAIN old \ {t.card} : Without(old, {t.card})[c] = old[c]
        BY DEF Without, Restrict
      <3>4. QED
        BY <2>7, <3>1, <3>2, <3>3
    <2>12. /\ states \in Table(CardIds, Schedule) /\ DOMAIN states = DOMAIN rows.states \ {t.card}
           /\ \A c \in DOMAIN states : states[c] = rows.states[c]
      <3>1. PICK old \in Table(CardIds, Schedule) : old = rows.states
        BY <2>4, RowsAre
      <3>2. Without(old, {t.card}) \in Table(CardIds, Schedule)
        BY WithoutInTable
      <3>3. DOMAIN Without(old, {t.card}) = DOMAIN old \ {t.card}
            /\ \A c \in DOMAIN old \ {t.card} : Without(old, {t.card})[c] = old[c]
        BY DEF Without, Restrict
      <3>4. QED
        BY <2>7, <3>1, <3>2, <3>3
    <2>13. rs \in Rows
      BY <2>4, <2>8, <2>9, <2>10, <2>11, <2>12, RowsAre DEF Rows
    <2>14. /\ rs.items = items /\ rs.occs = occs /\ rs.cards = cards /\ rs.states = states
           /\ rs.events = rows.events /\ rs.attempts = rows.attempts
      BY <2>8
    <2>15. t.newItem => \A o \in DOMAIN occs : occs[o].item # t.item
      <3> SUFFICES ASSUME t.newItem, NEW o \in DOMAIN occs, occs[o].item = t.item PROVE FALSE
        OBVIOUS
      <3>1. OccurrencesOf(rows, t.item) = {t.occ}
        BY <1>1, <1>3, <2>1, OnlyOccurrence
      <3>2. o \in OccurrencesOf(rows, t.item) /\ o # t.occ
        BY <2>10 DEF OccurrencesOf
      <3>3. QED
        BY <3>1, <3>2
    <2>16. ASSUME NEW e \in rows.events \cup rows.attempts PROVE e.card \in DOMAIN cards
      <3>1. e.card \in DOMAIN rows.cards /\ DOMAIN rows.cards \subseteq CardIds
        BY <2>4, RowsAre, TableIs DEF Linked
      <3>2. e.card # Nobody
        BY <3>1 DEF CardIds, Nobody
      <3>3. t.card # Nobody => e.card # t.card
        BY <2>5 DEF CanUndo, Unstudied
      <3>4. QED
        BY <2>11, <3>1, <3>2, <3>3
    <2>17. ASSUME NEW c \in DOMAIN cards
           PROVE  cards[c].occ \in DOMAIN occs /\ occs[cards[c].occ].item = cards[c].item
      <3>1. /\ rows.cards[c].occ \in DOMAIN rows.occs
            /\ rows.occs[rows.cards[c].occ].item = rows.cards[c].item
        BY <2>4, <2>11 DEF Linked
      <3>2. rows.cards[c].occ # t.occ
        BY <2>5, <2>11 DEF CanUndo
      <3>3. QED
        BY <2>10, <2>11, <3>1, <3>2
    <2>18. ASSUME NEW o \in DOMAIN occs PROVE occs[o].item \in DOMAIN items
      BY <2>4, <2>9, <2>10, <2>15 DEF Linked
    <2>19. Linked(rs)
      BY <2>4, <2>11, <2>12, <2>14, <2>16, <2>17, <2>18 DEF Linked
    <2>20. Backed(rs)
      BY <2>4, <2>12, <2>14 DEF Backed, EventsOf
    <2>21. Accounted(rs) /\ Derived(rs)
      BY <2>4, <2>9, <2>10, <2>11, <2>14 DEF Accounted, Derived
    <2>22. QED
      BY <1>1, <2>3, <2>13, <2>19, <2>20, <2>21, RowsAreGood, PlainHandlerKeeps DEF RowsGood
  <1>4. QED
    BY <1>2, <1>3

\* What leaves the rows and the surfaces alone.
LEMMA RowsLeftAlone ==
  ASSUME StudyInv, UNCHANGED <<rows, audit, made, view, review, practice>>,
         now' = now \/ (now < MaxNow /\ now' = now + 1), toast' = toast \/ toast' = NoToast,
         file' \in File, form' \in Form,
         {file'.hashed, form'.wire.hashed} \ {NoRows} \subseteq Snapshots, FormVerified'
  PROVE  StudyInv'
  <1>1. now' \in 0 .. MaxNow /\ now <= now' /\ now \in Nat
    BY StudyAssumption DEF StudyInv, StudyShaped
  <1>2. StudyShaped'
    BY <1>1 DEF StudyInv, StudyShaped
  <1>3. Grown /\ GradesAudited'
    BY NothingGrown
  <1>4. PICK rs : rs = rows
    OBVIOUS
  <1>5. RowsGood(rs)' /\ Derived(rs) /\ rows' = rs
    BY <1>3, <1>4, RowsAreGood, GoodStays DEF StudyInv, StudyShaped
  <1>6. SnapshotsAgree' /\ Snapshots' \subseteq Snapshots
    <2>1. SnapshotsAgree' /\ Snapshots' \subseteq Snapshots \cup {rs}
      BY <1>3, <1>5, SnapshotsKept
    <2>2. QED
      BY <1>4, <2>1, RowsAreGood
  <1>7. ToastTrue'
    BY <1>6 DEF StudyInv, ToastTrue
  <1>8. PracticeDue'
    <2>1. ASSUME NEW c \in Due(rows) PROVE c \in Due(rows)'
      <3>1. c \in DOMAIN rows.states /\ rows.states[c].due <= now
        BY DEF Due, ListedDue
      <3>2. rows.states[c].due \in Nat
        <4>1. rows.states \in Table(CardIds, Schedule)
          BY RowsAreGood, RowsAre DEF RowsGood
        <4>2. rows.states[c] \in Schedule
          BY <3>1, <4>1, TableIs
        <4>3. QED
          BY <4>2, StudyAssumption DEF Schedule
      <3>3. rows.states[c].due <= now'
        BY <1>1, <3>1, <3>2
      <3>4. QED
        BY <3>3 DEF Due, ListedDue
    <2>2. QED
      BY <2>1 DEF StudyInv, PracticeDue
  <1>9. QED
    BY <1>2, <1>3, <1>6, <1>7, <1>8 DEF StudyInv

LEMMA FilesKeep ==
  ASSUME StudyInv,
         \/ ToastExpires \/ Tick \/ Export \/ FileDamaged \/ Preview \/ ClearPreview
         \/ \E m \in {"merge", "replace-active"} : ChooseMode(m)
         \/ Acknowledge
  PROVE  StudyInv'
  <1>1. /\ file \in File /\ form \in Form /\ FormVerified
        /\ {file.hashed, form.wire.hashed} \ {NoRows} \subseteq Snapshots
    BY DEF StudyInv, StudyShaped, Snapshots
  <1>2. NoForm \in Form /\ NoForm.wire.hashed = NoRows /\ ~ NoForm.open
    <2>1. NoFile \in File /\ NoFile.hashed = NoRows
      BY DEF NoFile, ExportOf, File
    <2>2. QED
      BY <2>1 DEF NoForm, Form
  <1>3. CASE ToastExpires
    BY <1>1, <1>3, RowsLeftAlone DEF ToastExpires, FormVerified
  <1>4. CASE Tick
    BY <1>1, <1>4, RowsLeftAlone DEF Tick, FormVerified
  <1>5. CASE Export
    <2>1. file' = [content |-> rows, hashed |-> rows] /\ rows \in Rows /\ rows \in Snapshots
      BY <1>5, RowsAreGood DEF Export, ExportOf, RowsGood
    <2>2. file' \in File /\ file'.hashed \in Snapshots
      BY <2>1 DEF File
    <2>3. UNCHANGED <<rows, audit, made, now, view, review, practice, toast, form>>
      BY <1>5 DEF Export
    <2>4. QED
      BY <1>1, <2>2, <2>3, RowsLeftAlone DEF FormVerified
  <1>6. CASE FileDamaged
    <2>1. file' = [file EXCEPT !.content.events = {}, !.content.attempts = {}] /\ file.content # NoRows
      BY <1>6 DEF FileDamaged
    <2>2. file.content \in Rows
      BY <1>1, <2>1 DEF File
    <2>3. PICK rs : rs = [items |-> file.content.items, occs |-> file.content.occs,
                          cards |-> file.content.cards, states |-> file.content.states,
                          events |-> {}, attempts |-> {}]
      OBVIOUS
    <2>4. file' = [content |-> rs, hashed |-> file.hashed]
      BY <1>1, <2>1, <2>2, <2>3 DEF File, Rows
    <2>5. rs \in Rows
      BY <2>2, <2>3 DEF Rows
    <2>6. file' \in File /\ file'.hashed = file.hashed
      BY <1>1, <2>4, <2>5 DEF File
    <2>7. UNCHANGED <<rows, audit, made, now, view, review, practice, toast, form>>
      BY <1>6 DEF FileDamaged
    <2>8. QED
      BY <1>1, <2>6, <2>7, RowsLeftAlone DEF FormVerified
  <1>7. CASE Preview
    <2>1. UNCHANGED <<rows, audit, made, now, view, review, practice, toast, file>> /\ file # NoFile
      BY <1>7 DEF Preview
    <2>2. CASE Verified(file)
      <3>1. form' = [wire |-> file, open |-> TRUE, mode |-> "none", acked |-> {}]
        BY <1>7, <2>2 DEF Preview
      <3>2. form' \in Form /\ form'.wire = file
        BY <1>1, <3>1 DEF Form
      <3>3. file.content = file.hashed /\ file.hashed # NoRows
        BY <1>1, <2>1, <2>2 DEF Verified, NoFile, ExportOf, File
      <3>4. QED
        BY <1>1, <2>1, <3>2, <3>3, RowsLeftAlone DEF FormVerified
    <2>3. CASE ~ Verified(file)
      <3>1. form' = [form EXCEPT !.wire = file, !.open = FALSE]
        BY <1>7, <2>3 DEF Preview
      <3>2. form' \in Form /\ form'.wire = file /\ ~ form'.open
        BY <1>1, <3>1 DEF Form
      <3>3. QED
        BY <1>1, <2>1, <3>2, RowsLeftAlone DEF FormVerified
    <2>4. QED
      BY <2>2, <2>3
  <1>8. CASE ClearPreview
    <2>1. form' = NoForm /\ UNCHANGED <<rows, audit, made, now, view, review, practice, toast, file>>
      BY <1>8 DEF ClearPreview
    <2>2. form' \in Form /\ form'.wire.hashed = NoRows /\ ~ form'.open
      BY <1>2, <2>1
    <2>3. QED
      BY <1>1, <2>1, <2>2, RowsLeftAlone DEF FormVerified
  <1>9. CASE Acknowledge \/ \E m \in {"merge", "replace-active"} : ChooseMode(m)
    <2>1. UNCHANGED <<rows, audit, made, now, view, review, practice, toast, file>>
      BY <1>9 DEF Acknowledge, ChooseMode
    <2>2. form' \in Form /\ form'.wire = form.wire /\ form'.open = form.open
      BY <1>1, <1>9 DEF Acknowledge, ChooseMode, Form, Warnings
    <2>3. QED
      BY <1>1, <2>1, <2>2, RowsLeftAlone DEF FormVerified
  <1>10. QED
    BY <1>3, <1>4, <1>5, <1>6, <1>7, <1>8, <1>9
LEMMA CaptureKeeps ==
  ASSUME StudyInv, NEW w \in Words, NEW p \in Places, NEW m \in {Blank} \cup Meanings, Capture(w, p, m)
  PROVE  StudyInv'
  <1>1. PICK i \in ItemsFor(w) : \E o \in OccurrencesFor(i, p) :
          LET saved == SavedWith(w, p, m, i, o)
              k == made.cards + 1
              makes == CardsFor(rows, i) = {}
              after == IF makes THEN WithCards(saved, Row(k, NewCard(i, o))) ELSE saved
              newItem == i \notin DOMAIN rows.items
              newOcc == o \notin DOMAIN rows.occs
          IN /\ i \in ItemIds /\ o \in OccIds /\ (makes => k \in CardIds)
             /\ made' = [made EXCEPT !.items = IF newItem THEN i ELSE @,
                                     !.occs = IF newOcc THEN o ELSE @,
                                     !.cards = IF makes THEN k ELSE @]
             /\ toast' = [item |-> i, occ |-> o, newItem |-> newItem, newOcc |-> newOcc,
                          card |-> IF makes THEN k ELSE Nobody,
                          was |-> after.items[i], count |-> Cardinality(OccurrencesOf(after, i))]
             /\ Render(after, view, review, practice)
    BY DEF Capture
  <1>2. PICK o \in OccurrencesFor(i, p) :
          LET saved == SavedWith(w, p, m, i, o)
              k == made.cards + 1
              makes == CardsFor(rows, i) = {}
              after == IF makes THEN WithCards(saved, Row(k, NewCard(i, o))) ELSE saved
              newItem == i \notin DOMAIN rows.items
              newOcc == o \notin DOMAIN rows.occs
          IN /\ i \in ItemIds /\ o \in OccIds /\ (makes => k \in CardIds)
             /\ made' = [made EXCEPT !.items = IF newItem THEN i ELSE @,
                                     !.occs = IF newOcc THEN o ELSE @,
                                     !.cards = IF makes THEN k ELSE @]
             /\ toast' = [item |-> i, occ |-> o, newItem |-> newItem, newOcc |-> newOcc,
                          card |-> IF makes THEN k ELSE Nobody,
                          was |-> after.items[i], count |-> Cardinality(OccurrencesOf(after, i))]
             /\ Render(after, view, review, practice)
    BY <1>1
  <1>3. PICK saved, k : saved = SavedWith(w, p, m, i, o) /\ k = made.cards + 1
    OBVIOUS
  <1>4. PICK after : after = IF CardsFor(rows, i) = {} THEN WithCards(saved, Row(k, NewCard(i, o))) ELSE saved
    OBVIOUS
  <1>5. /\ i \in ItemIds /\ o \in OccIds /\ (CardsFor(rows, i) = {} => k \in CardIds)
        /\ made' = [made EXCEPT !.items = IF i \notin DOMAIN rows.items THEN i ELSE @,
                                !.occs = IF o \notin DOMAIN rows.occs THEN o ELSE @,
                                !.cards = IF CardsFor(rows, i) = {} THEN k ELSE @]
        /\ toast' = [item |-> i, occ |-> o, newItem |-> i \notin DOMAIN rows.items,
                     newOcc |-> o \notin DOMAIN rows.occs,
                     card |-> IF CardsFor(rows, i) = {} THEN k ELSE Nobody,
                     was |-> after.items[i], count |-> Cardinality(OccurrencesOf(after, i))]
        /\ Render(after, view, review, practice)
    BY <1>2, <1>3, <1>4
  <1>6. UNCHANGED <<audit, now, file, form>>
    BY DEF Capture
  <1>7. /\ made \in Made /\ made.items \in Nat /\ made.occs \in Nat /\ made.cards \in Nat
        /\ audit \in [events : SUBSET Event, attempts : SUBSET Attempt]
    BY DEF StudyInv, StudyShaped, Made
  <1>8. rows \in Rows /\ Linked(rows) /\ Backed(rows) /\ Accounted(rows) /\ Derived(rows)
    BY RowsAreGood DEF RowsGood
  <1>9. /\ i \in DOMAIN rows.items \/ i = made.items + 1
        /\ DOMAIN rows.items \subseteq 1 .. made.items
    BY <1>8 DEF ItemsFor, Accounted
  <1>10. /\ \/ o \in DOMAIN rows.occs /\ rows.occs[o].item = i
            \/ o = made.occs + 1
         /\ DOMAIN rows.occs \subseteq 1 .. made.occs
    BY <1>8 DEF OccurrencesFor, OccurrencesOf, Accounted
  <1>11. PICK items : items = Over(rows.items, Row(i, [word |-> w, meaning |-> m, edits |-> 0]))
    OBVIOUS
  <1>12. PICK occs : occs = Over(rows.occs, Row(o, [item |-> i, place |-> p]))
    OBVIOUS
  <1>13. saved = [items |-> items, occs |-> occs, cards |-> rows.cards, states |-> rows.states,
                  events |-> rows.events, attempts |-> rows.attempts]
    <2>1. saved = [rows EXCEPT !.items = items, !.occs = occs]
      BY <1>3, <1>11, <1>12 DEF SavedWith
    <2>2. PICK a, b, c, d, e, f :
            rows = [items |-> a, occs |-> b, cards |-> c, states |-> d, events |-> e, attempts |-> f]
      BY <1>8, RowsAre
    <2>3. saved = [items |-> items, occs |-> occs, cards |-> c, states |-> d, events |-> e, attempts |-> f]
      BY <2>1, <2>2
    <2>4. QED
      BY <2>2, <2>3
  <1>14. /\ items \in Table(ItemIds, Item) /\ DOMAIN items = DOMAIN rows.items \cup {i}
         /\ i \notin DOMAIN rows.items => items[i].edits = 0
    <2>1. PICK old \in Table(ItemIds, Item) : old = rows.items
      BY <1>8, RowsAre
    <2>2. PICK row : row = [word |-> w, meaning |-> m, edits |-> 0]
      OBVIOUS
    <2>3. row \in Item /\ row.edits = 0
      BY <2>2, StudyAssumption DEF Item
    <2>4. Row(i, row) \in Table(ItemIds, Item)
      BY <1>5, <2>3, RowInTable
    <2>5. Over(old, Row(i, row)) \in Table(ItemIds, Item)
      BY <2>4, OverInTable
    <2>6. /\ DOMAIN Over(old, Row(i, row)) = DOMAIN old \cup {i}
          /\ i \notin DOMAIN old => Over(old, Row(i, row))[i] = row
      BY DEF Over, Row
    <2>7. QED
      BY <1>11, <2>1, <2>2, <2>3, <2>5, <2>6
  <1>15. /\ occs \in Table(OccIds, Occurrence) /\ DOMAIN occs = DOMAIN rows.occs \cup {o}
         /\ \A q \in DOMAIN rows.occs : occs[q] = rows.occs[q]
         /\ occs[o].item = i
    <2>1. PICK old \in Table(OccIds, Occurrence) : old = rows.occs
      BY <1>8, RowsAre
    <2>2. PICK row : row = [item |-> i, place |-> p]
      OBVIOUS
    <2>3. row \in Occurrence /\ row.item = i
      BY <1>5, <2>2 DEF Occurrence
    <2>4. Row(o, row) \in Table(OccIds, Occurrence)
      BY <1>5, <2>3, RowInTable
    <2>5. Over(old, Row(o, row)) \in Table(OccIds, Occurrence)
      BY <2>4, OverInTable
    <2>6. /\ DOMAIN Over(old, Row(o, row)) = DOMAIN old \cup {o}
          /\ \A q \in DOMAIN old : Over(old, Row(o, row))[q] = old[q]
          /\ o \notin DOMAIN old => Over(old, Row(o, row))[o] = row
      BY DEF Over, Row
    <2>7. o \in DOMAIN rows.occs => rows.occs[o].item = i
      <3>1. made.occs + 1 \notin 1 .. made.occs
        BY <1>7
      <3>2. QED
        BY <1>10, <3>1
    <2>8. QED
      BY <1>12, <2>1, <2>2, <2>3, <2>5, <2>6, <2>7
  <1>16. /\ saved.items = items /\ saved.occs = occs /\ saved.cards = rows.cards
         /\ saved.states = rows.states /\ saved.events = rows.events /\ saved.attempts = rows.attempts
    BY <1>13
  <1>17. saved \in Rows
    BY <1>8, <1>13, <1>14, <1>15, RowsAre DEF Rows
  <1>18. Linked(saved)
    BY <1>8, <1>14, <1>15, <1>16 DEF Linked
  <1>19. Backed(saved)
    BY <1>8, <1>16 DEF Backed, EventsOf
  <1>20. /\ after \in Rows /\ Linked(after) /\ Backed(after) /\ after.items = items /\ after.occs = occs
         /\ after.events = rows.events /\ after.attempts = rows.attempts
         /\ \A c \in DOMAIN after.cards :
              \/ c \in DOMAIN rows.cards /\ after.cards[c] = rows.cards[c]
              \/ CardsFor(rows, i) = {} /\ c = k
    <2>1. CASE CardsFor(rows, i) # {}
      BY <1>4, <1>16, <1>17, <1>18, <1>19, <2>1
    <2>2. CASE CardsFor(rows, i) = {}
      <3>1. PICK new : new = Row(k, NewCard(i, o))
        OBVIOUS
      <3>2. NewCard(i, o) \in Card
        BY <1>5, StudyAssumption DEF NewCard, Card
      <3>3. new \in Table(CardIds, Card) /\ DOMAIN new = {k} /\ new[k].item = i /\ new[k].occ = o
        <4>1. Row(k, NewCard(i, o)) \in Table(CardIds, Card)
          BY <1>5, <2>2, <3>2, RowInTable
        <4>2. QED
          BY <3>1, <4>1 DEF Row, NewCard
      <3>4. \A c \in DOMAIN new : new[c].occ \in DOMAIN saved.occs /\ saved.occs[new[c].occ].item = new[c].item
        BY <1>15, <1>16, <3>3
      <3>5. after = WithCards(saved, new)
        BY <1>4, <2>2, <3>1
      <3>6. /\ after \in Rows /\ Linked(after) /\ Backed(after)
            /\ after.items = saved.items /\ after.occs = saved.occs
            /\ after.events = saved.events /\ after.attempts = saved.attempts
            /\ DOMAIN after.cards = DOMAIN new \cup DOMAIN saved.cards
            /\ \A c \in DOMAIN saved.cards \ DOMAIN new : after.cards[c] = saved.cards[c]
        BY <1>17, <1>18, <1>19, <3>3, <3>4, <3>5, CardsAdded
      <3>7. QED
        BY <1>16, <2>2, <3>3, <3>6
    <2>3. QED
      BY <2>1, <2>2
  <1>21. /\ made'.items = IF i \notin DOMAIN rows.items THEN i ELSE made.items
         /\ made'.occs = IF o \notin DOMAIN rows.occs THEN o ELSE made.occs
         /\ made'.cards = IF CardsFor(rows, i) = {} THEN k ELSE made.cards
         /\ made'.acts = made.acts /\ made' \in Made
    <2>1. PICK a, b, c, d : made = [items |-> a, occs |-> b, cards |-> c, acts |-> d]
      BY <1>7 DEF Made
    <2>2. made' = [items |-> IF i \notin DOMAIN rows.items THEN i ELSE a,
                   occs |-> IF o \notin DOMAIN rows.occs THEN o ELSE b,
                   cards |-> IF CardsFor(rows, i) = {} THEN k ELSE c, acts |-> d]
      BY <1>5, <2>1
    <2>3. i \in 0 .. MaxItems /\ o \in 0 .. MaxOccs /\ (CardsFor(rows, i) = {} => k \in 0 .. MaxCards)
      BY <1>5, StudyAssumption DEF ItemIds, OccIds, CardIds
    <2>4. made' \in Made
      BY <1>7, <2>1, <2>2, <2>3 DEF Made
    <2>5. QED
      BY <2>1, <2>2, <2>4
  <1>22. Grown /\ GradesAudited'
    <2>1. made.items <= made'.items
      BY <1>7, <1>9, <1>21
    <2>2. made.occs <= made'.occs
      BY <1>7, <1>10, <1>21
    <2>3. made.cards <= made'.cards
      BY <1>3, <1>7, <1>21
    <2>4. GradesAudited'
      BY <1>6, <1>21 DEF StudyInv, GradesAudited
    <2>5. QED
      BY <1>6, <1>7, <1>21, <2>1, <2>2, <2>3, <2>4 DEF Grown
  <1>23. Derived(after)
    <2>1. \A q \in DOMAIN occs : q > made.occs \/ (q \in DOMAIN rows.occs /\ occs[q] = rows.occs[q])
      BY <1>7, <1>10, <1>15
    <2>2. k > made.cards
      BY <1>3, <1>7
    <2>3. QED
      BY <1>20, <2>1, <2>2, RowsAreGood DEF Derived
  <1>24. RowsGood(after)'
    <2>1. DOMAIN after.items \subseteq 1 .. made'.items
      BY <1>7, <1>9, <1>14, <1>20, <1>21
    <2>2. DOMAIN after.occs \subseteq 1 .. made'.occs
      BY <1>7, <1>10, <1>15, <1>20, <1>21
    <2>3. DOMAIN after.cards \subseteq 1 .. made'.cards
      <3>1. DOMAIN rows.cards \subseteq 1 .. made.cards
        BY <1>8 DEF Accounted
      <3>2. QED
        BY <1>3, <1>7, <1>20, <1>21, <3>1
    <2>4. Accounted(after)'
      BY <1>6, <1>8, <1>20, <2>1, <2>2, <2>3 DEF Accounted
    <2>5. QED
      BY <1>20, <2>4 DEF RowsGood
  <1>25. NewReceipt(after)
    <2>1. OccurrencesOf(after, i) \in SUBSET OccIds /\ o \in OccurrencesOf(after, i)
      <3>1. OccurrencesOf(after, i) \subseteq DOMAIN occs /\ o \in OccurrencesOf(after, i)
        BY <1>15, <1>20 DEF OccurrencesOf
      <3>2. DOMAIN occs \subseteq OccIds
        BY <1>15, TableIs
      <3>3. QED
        BY <3>1, <3>2
    <2>2. Cardinality(OccurrencesOf(after, i)) \in 1 .. MaxOccs
      <3>1. IsFiniteSet(OccIds) /\ Cardinality(OccIds) = MaxOccs
        BY StudyAssumption, FS_Interval DEF OccIds
      <3>2. IsFiniteSet(OccurrencesOf(after, i)) /\ Cardinality(OccurrencesOf(after, i)) <= MaxOccs
        BY <2>1, <3>1, FS_Subset
      <3>3. Cardinality(OccurrencesOf(after, i)) \in Nat /\ Cardinality(OccurrencesOf(after, i)) # 0
        BY <2>1, <3>2, FS_CardinalityType, FS_EmptySet
      <3>4. QED
        BY <3>2, <3>3, StudyAssumption
    <2>3. after.items[i] \in Item
      BY <1>14, <1>20, TableIs
    <2>4. toast' \in Receipt
      <3>1. (IF CardsFor(rows, i) = {} THEN k ELSE Nobody) \in CardIds \cup {Nobody}
        BY <1>5
      <3>2. QED
        BY <1>5, <2>2, <2>3, <3>1 DEF Receipt
    <2>5. /\ toast'.item = i /\ toast'.occ = o /\ (toast'.newItem <=> i \notin DOMAIN rows.items)
          /\ toast'.was = after.items[i] /\ toast'.count = Cardinality(OccurrencesOf(after, i))
      BY <1>5
    <2>6. o <= made'.occs
      BY <1>7, <1>10, <1>21
    <2>7. ASSUME NEW ss \in Snapshots \cup {after}, o \in DOMAIN ss.occs PROVE ss.occs[o].item = i
      <3>1. CASE ss = after
        BY <1>15, <1>20, <3>1
      <3>2. CASE ss \in Snapshots
        <4>1. DOMAIN ss.occs \subseteq 1 .. made.occs
          BY <3>2 DEF StudyInv, SnapshotsAgree, RowsGood, Accounted
        <4>2. o \in DOMAIN rows.occs /\ rows.occs[o].item = i
          <5>1. o # made.occs + 1
            BY <1>7, <2>7, <4>1
          <5>2. QED
            BY <1>10, <5>1
        <4>3. ss.occs[o] = rows.occs[o]
          <5>1. Same(ss, rows)
            BY <3>2, RowsAreGood DEF StudyInv, SnapshotsAgree
          <5>2. QED
            BY <2>7, <4>2, <5>1 DEF Same
        <4>4. QED
          BY <4>2, <4>3
      <3>3. QED
        BY <3>1, <3>2
    <2>8. ASSUME i \notin DOMAIN rows.items
          PROVE  after.items[i].edits = 0 /\ Cardinality(OccurrencesOf(after, i)) = 1
      <3>1. \A q \in DOMAIN rows.occs : rows.occs[q].item # i
        BY <1>8, <2>8 DEF Linked
      <3>2. OccurrencesOf(after, i) = {o}
        BY <1>15, <1>20, <2>1, <3>1 DEF OccurrencesOf
      <3>3. Cardinality({o}) = 1
        BY FS_Singleton
      <3>4. QED
        BY <1>14, <1>20, <2>8, <3>2, <3>3
    <2>9. QED
      BY <2>4, <2>5, <2>6, <2>7, <2>8 DEF NewReceipt
  <1>26. now' = now /\ file' = file /\ form' = form
    BY <1>6
  <1>27. QED
    BY <1>5, <1>22, <1>23, <1>24, <1>25, <1>26, RowsAreGood, HandlerKeeps
\* One grading's event and attempt, both of them new.
LEMMA GradeAudited ==
  ASSUME StudyInv, NEW n, n = made.acts + 1, made'.acts = n,
         NEW E \in SUBSET Event, NEW A \in SUBSET Attempt, E \cup A # {},
         \A e \in E : e.id = n, \A a \in A : a.id = n,
         \A e, f \in E : e = f, \A a, b \in A : a = b,
         \A a \in A : a.link = IF E = {} THEN 0 ELSE n,
         audit' = [events |-> audit.events \cup E, attempts |-> audit.attempts \cup A]
  PROVE  GradesAudited'
  <1>1. made.acts \in Nat /\ GradesAudited
    BY DEF StudyInv, StudyShaped, Made
  <1>2. audit'.events = audit.events \cup E /\ audit'.attempts = audit.attempts \cup A
    OBVIOUS
  <1>3. /\ \A e \in audit.events : e.id \in 1 .. made.acts
        /\ \A a \in audit.attempts : a.id \in 1 .. made.acts
    BY <1>1 DEF GradesAudited
  <1>4. n \notin 1 .. made.acts /\ 1 .. n = 1 .. made.acts \cup {n}
    BY <1>1
  <1>5. {e.id : e \in audit'.events} \cup {a.id : a \in audit'.attempts} = 1 .. n
    <2>1. {e.id : e \in audit'.events} \cup {a.id : a \in audit'.attempts}
            = ({e.id : e \in audit.events} \cup {a.id : a \in audit.attempts})
                \cup ({e.id : e \in E} \cup {a.id : a \in A})
      BY <1>2
    <2>2. {e.id : e \in E} \cup {a.id : a \in A} = {n}
      OBVIOUS
    <2>3. QED
      BY <1>1, <1>4, <2>1, <2>2 DEF GradesAudited
  <1>6. \A e, f \in audit'.events : e.id = f.id => e = f
    BY <1>1, <1>2, <1>3, <1>4 DEF GradesAudited
  <1>7. \A a, b \in audit'.attempts : a.id = b.id => a = b
    BY <1>1, <1>2, <1>3, <1>4 DEF GradesAudited
  <1>8. ASSUME NEW a \in audit'.attempts
        PROVE  a.link \in {0, a.id} /\ (a.link = 0 => \A e \in audit'.events : e.id # a.id)
    <2>1. CASE a \in audit.attempts
      BY <1>1, <1>2, <1>3, <1>4, <2>1 DEF GradesAudited
    <2>2. CASE a \in A
      <3>1. a.id = n /\ \A e \in audit.events : e.id # n
        BY <1>3, <1>4, <2>2
      <3>2. CASE E = {}
        BY <1>2, <2>2, <3>1, <3>2
      <3>3. CASE E # {}
        <4>1. a.link = n /\ n # 0
          BY <1>1, <2>2, <3>3
        <4>2. QED
          BY <3>1, <4>1
      <3>4. QED
        BY <3>2, <3>3
    <2>3. QED
      BY <1>2, <2>1, <2>2
  <1>9. QED
    BY <1>5, <1>6, <1>7, <1>8 DEF GradesAudited

\* The rows after a rating, whose card is graded once more.
LEMMA ScheduledIs ==
  ASSUME StudyInv, NEW c \in DOMAIN rows.cards \cap DOMAIN rows.states, NEW n, n = made.acts + 1, n \in Acts,
         NEW due \in {now + 1, now + 2}
  PROVE  LET rs == Scheduled(rows, c, n, due)
         IN /\ rs \in Rows /\ Linked(rs) /\ Backed(rs)
            /\ rs.items = rows.items /\ rs.occs = rows.occs /\ rs.cards = rows.cards
            /\ rs.events = rows.events \cup {[id |-> n, card |-> c]} /\ rs.attempts = rows.attempts
  <1>1. PICK rs, e : rs = Scheduled(rows, c, n, due) /\ e = [id |-> n, card |-> c]
    OBVIOUS
  <1>2. rows \in Rows /\ Linked(rows) /\ Backed(rows) /\ Accounted(rows)
    BY RowsAreGood DEF RowsGood
  <1>3. rows.states \in Table(CardIds, Schedule) /\ rows.states[c] \in Schedule /\ c \in CardIds
    BY <1>2, RowsAre, TableIs
  <1>4. PICK state : state = [reps |-> rows.states[c].reps + 1, due |-> due]
    OBVIOUS
  <1>5. PICK states : states = [rows.states EXCEPT ![c] = state]
    OBVIOUS
  <1>6. rs = [items |-> rows.items, occs |-> rows.occs, cards |-> rows.cards, states |-> states,
              events |-> rows.events \cup {e}, attempts |-> rows.attempts]
    <2>1. rs = [rows EXCEPT !.states[c] = state, !.events = rows.events \cup {e}]
      BY <1>1, <1>4 DEF Scheduled
    <2>2. PICK a, b, x, s, y, z :
            rows = [items |-> a, occs |-> b, cards |-> x, states |-> s, events |-> y, attempts |-> z]
      BY <1>2, RowsAre
    <2>3. rs = [items |-> a, occs |-> b, cards |-> x, states |-> [s EXCEPT ![c] = state],
                events |-> y \cup {e}, attempts |-> z]
      BY <2>1, <2>2
    <2>4. QED
      BY <1>5, <2>2, <2>3
  <1>7. /\ rs.items = rows.items /\ rs.occs = rows.occs /\ rs.cards = rows.cards /\ rs.states = states
        /\ rs.events = rows.events \cup {e} /\ rs.attempts = rows.attempts
    BY <1>6
  <1>8. made.acts \in Nat /\ made.acts + 1 <= MaxActs
    BY StudyAssumption DEF StudyInv, StudyShaped, Made, Acts
  <1>9. rows.states[c].reps \in Nat /\ rows.states[c].reps <= Cardinality(EventsOf(rows, c))
    BY <1>2, <1>3, StudyAssumption DEF Backed, Schedule
  <1>10. Cardinality(EventsOf(rows, c)) \in Nat /\ Cardinality(EventsOf(rows, c)) <= made.acts
         /\ IsFiniteSet(EventsOf(rows, c))
    <2>1. EventsOf(rows, c) \subseteq audit.events
      BY <1>2 DEF EventsOf, Accounted
    <2>2. /\ \A f \in EventsOf(rows, c) : f.id \in 1 .. made.acts
          /\ \A f, g \in EventsOf(rows, c) : f.id = g.id => f = g
      BY <2>1 DEF StudyInv, GradesAudited
    <2>3. QED
      BY <1>8, <2>2, NumberedAtMost
  <1>11. state \in Schedule
    <2>1. rows.states[c].reps + 1 \in 0 .. MaxActs
      BY <1>8, <1>9, <1>10, StudyAssumption
    <2>2. due \in 0 .. MaxNow + 2
      BY StudyAssumption DEF StudyInv, StudyShaped
    <2>3. QED
      BY <1>4, <2>1, <2>2 DEF Schedule
  <1>12. /\ states \in Table(CardIds, Schedule) /\ DOMAIN states = DOMAIN rows.states
         /\ states[c] = state /\ \A d \in DOMAIN rows.states \ {c} : states[d] = rows.states[d]
    <2>1. PICK old \in Table(CardIds, Schedule) : old = rows.states
      BY <1>3
    <2>2. old \in [DOMAIN old -> Schedule] /\ DOMAIN old \in SUBSET CardIds
      BY TableIs
    <2>3. [old EXCEPT ![c] = state] \in [DOMAIN old -> Schedule]
      BY <1>11, <2>2
    <2>4. states \in Table(CardIds, Schedule)
      BY <1>5, <2>1, <2>2, <2>3, TableIs
    <2>5. QED
      BY <1>5, <2>1, <2>2, <2>4
  <1>13. e \in Event
    BY <1>1, <1>3 DEF Event
  <1>14. rs \in Rows
    BY <1>2, <1>6, <1>12, <1>13, RowsAre DEF Rows
  <1>15. Linked(rs)
    BY <1>1, <1>2, <1>7, <1>12 DEF Linked
  <1>16. Backed(rs)
    <2>1. ASSUME NEW d \in DOMAIN rows.states \ {c} PROVE EventsOf(rs, d) = EventsOf(rows, d)
      BY <1>1, <1>7 DEF EventsOf
    <2>2. EventsOf(rs, c) = EventsOf(rows, c) \cup {e}
      BY <1>1, <1>7 DEF EventsOf
    <2>3. e \notin EventsOf(rows, c)
      <3>1. ASSUME NEW f \in EventsOf(rows, c) PROVE f.id \in 1 .. made.acts
        <4>1. f \in audit.events
          BY <1>2 DEF EventsOf, Accounted
        <4>2. QED
          BY <4>1 DEF StudyInv, GradesAudited
      <3>2. e.id \notin 1 .. made.acts
        BY <1>1, <1>8
      <3>3. QED
        BY <3>1, <3>2
    <2>4. Cardinality(EventsOf(rs, c)) = Cardinality(EventsOf(rows, c)) + 1
      BY <1>10, <2>2, <2>3, FS_AddElement
    <2>5. states[c].reps <= Cardinality(EventsOf(rs, c))
      <3>1. states[c].reps = rows.states[c].reps + 1
        BY <1>4, <1>12
      <3>2. QED
        BY <1>9, <1>10, <2>4, <3>1
    <2>6. ASSUME NEW d \in DOMAIN rows.states \ {c} PROVE states[d].reps <= Cardinality(EventsOf(rs, d))
      BY <1>2, <1>12, <2>1 DEF Backed
    <2>7. QED
      BY <1>7, <1>12, <2>5, <2>6 DEF Backed
  <1>17. QED
    BY <1>1, <1>7, <1>14, <1>15, <1>16

\* Rows of the occurrences and cards there are, whose new history is audited.
LEMMA GradedKeeps ==
  ASSUME StudyInv, NEW rs, rs \in Rows, Linked(rs), Backed(rs),
         rs.items = rows.items, rs.occs = rows.occs, rs.cards = rows.cards,
         NEW E \in SUBSET Event, NEW A \in SUBSET Attempt,
         rs.events = rows.events \cup E, rs.attempts = rows.attempts \cup A,
         audit' = [events |-> audit.events \cup E, attempts |-> audit.attempts \cup A],
         made.acts + 1 \in Acts, made' = [made EXCEPT !.acts = made.acts + 1], GradesAudited',
         NEW v \in Views, NEW r \in Surface, NEW p \in Exercise, Render(rs, v, r, p),
         UNCHANGED <<now, toast, file, form>>
  PROVE  StudyInv'
  <1>1. made \in Made /\ audit \in [events : SUBSET Event, attempts : SUBSET Attempt]
    BY DEF StudyInv, StudyShaped
  <1>2. /\ made'.items = made.items /\ made'.occs = made.occs /\ made'.cards = made.cards
        /\ made' \in Made
    BY <1>1, StudyAssumption DEF Made, Acts
  <1>3. Grown
    BY <1>1, <1>2 DEF Grown, Made
  <1>4. Accounted(rows) /\ Derived(rows)
    BY RowsAreGood DEF RowsGood
  <1>5. Accounted(rs)'
    BY <1>2, <1>4 DEF Accounted
  <1>6. RowsGood(rs)' /\ Derived(rs)
    BY <1>4, <1>5 DEF RowsGood, Derived
  <1>7. QED
    BY <1>3, <1>6, HandlerKeeps

LEMMA RateKeeps ==
  ASSUME StudyInv, Rate
  PROVE  StudyInv'
  <1>1. PICK n, c : n = made.acts + 1 /\ c = review.shown
    OBVIOUS
  <1>2. /\ c \in DOMAIN rows.cards \cap DOMAIN rows.states /\ n \in Acts
        /\ audit' = [audit EXCEPT !.events = audit.events \cup {[id |-> n, card |-> c]}]
        /\ made' = [made EXCEPT !.acts = n] /\ UNCHANGED <<now, toast, file, form>>
    BY <1>1 DEF Rate
  <1>3. PICK due \in {now + 1, now + 2} :
          Render(Scheduled(rows, c, n, due), view, [review EXCEPT !.active = Nobody, !.revealed = FALSE], practice)
    BY <1>1 DEF Rate
  <1>4. PICK rs, r : rs = Scheduled(rows, c, n, due)
                     /\ r = [review EXCEPT !.active = Nobody, !.revealed = FALSE]
    OBVIOUS
  <1>5. /\ rs \in Rows /\ Linked(rs) /\ Backed(rs)
        /\ rs.items = rows.items /\ rs.occs = rows.occs /\ rs.cards = rows.cards
        /\ rs.events = rows.events \cup {[id |-> n, card |-> c]} /\ rs.attempts = rows.attempts
    BY <1>1, <1>2, <1>4, ScheduledIs
  <1>6. PICK E, A : E = {[id |-> n, card |-> c]} /\ A = {}
    OBVIOUS
  <1>7. E \in SUBSET Event /\ A \in SUBSET Attempt
    <2>1. c \in CardIds
      BY <1>2, RowsAreGood, RowsAre, TableIs DEF RowsGood
    <2>2. QED
      BY <1>2, <1>6, <2>1 DEF Event
  <1>8. audit' = [events |-> audit.events \cup E, attempts |-> audit.attempts \cup A]
    <2>1. PICK a, b : audit = [events |-> a, attempts |-> b]
      BY DEF StudyInv, StudyShaped
    <2>2. QED
      BY <1>2, <1>6, <2>1
  <1>9. made'.acts = n
    BY <1>2 DEF StudyInv, StudyShaped, Made
  <1>10. GradesAudited'
    <2>1. /\ E \cup A # {} /\ \A e \in E : e.id = n
          /\ \A a \in A : a.id = n
          /\ \A e, f \in E : e = f
          /\ \A a, b \in A : a = b
          /\ \A a \in A : a.link = IF E = {} THEN 0 ELSE n
      BY <1>6
    <2>2. QED
      BY <1>1, <1>7, <1>8, <1>9, <2>1, GradeAudited
  <1>11. r \in Surface
    <2>1. PICK a \in CardIds \cup {Nobody}, b \in CardIds \cup {Nobody}, d \in BOOLEAN :
            review = [active |-> a, shown |-> b, revealed |-> d]
      BY RowsAreGood DEF Surface
    <2>2. r = [active |-> Nobody, shown |-> b, revealed |-> FALSE]
      BY <1>4, <2>1
    <2>3. QED
      BY <2>2 DEF Surface
  <1>12. rs.events = rows.events \cup E /\ rs.attempts = rows.attempts \cup A
    BY <1>5, <1>6
  <1>13. made' = [made EXCEPT !.acts = made.acts + 1] /\ made.acts + 1 \in Acts
    BY <1>1, <1>2
  <1>14. Render(rs, view, r, practice) /\ UNCHANGED <<now, toast, file, form>>
    BY <1>2, <1>3, <1>4
  <1>15. rs \in Rows /\ Linked(rs) /\ Backed(rs) /\ rs.items = rows.items /\ rs.occs = rows.occs
         /\ rs.cards = rows.cards
    BY <1>5
  <1>16. view \in Views /\ practice \in Exercise
    BY RowsAreGood
  <1>17. QED
    BY <1>1, <1>7, <1>8, <1>10, <1>11, <1>12, <1>13, <1>14, <1>15, <1>16, GradedKeeps, Zenon
LEMMA SubmitKeeps ==
  ASSUME StudyInv, NEW answer \in Results, Submit(answer)
  PROVE  StudyInv'
  <1>1. PICK n : n = made.acts + 1
    OBVIOUS
  <1>2. n \in Acts /\ made' = [made EXCEPT !.acts = n] /\ UNCHANGED <<now, toast, file, form>>
    BY <1>1 DEF Submit
  <1>3. PICK c \in ActiveDueCard(rows, review.active) :
          /\ c # Nobody
          /\ \E due \in {now + 1, now + 2} :
               LET result == GradedAs(c, answer)
                   base == IF result = "skipped" THEN rows ELSE Scheduled(rows, c, n, due)
                   after == Attempted(base, c, n, result)
               IN /\ Render(after, view, [review EXCEPT !.active = Nobody],
                            [practice EXCEPT !.card = Nobody, !.revealed = FALSE])
                  /\ audit' = [events |-> audit.events \cup after.events,
                               attempts |-> audit.attempts \cup after.attempts]
    BY <1>1 DEF Submit
  <1>4. PICK result : result = GradedAs(c, answer)
    OBVIOUS
  <1>5. PICK due \in {now + 1, now + 2} :
          LET base == IF result = "skipped" THEN rows ELSE Scheduled(rows, c, n, due)
              after == Attempted(base, c, n, result)
          IN /\ Render(after, view, [review EXCEPT !.active = Nobody],
                       [practice EXCEPT !.card = Nobody, !.revealed = FALSE])
             /\ audit' = [events |-> audit.events \cup after.events,
                          attempts |-> audit.attempts \cup after.attempts]
    BY <1>3, <1>4
  <1>6. PICK base : base = IF result = "skipped" THEN rows ELSE Scheduled(rows, c, n, due)
    OBVIOUS
  <1>7. PICK rs : rs = Attempted(base, c, n, result)
    OBVIOUS
  <1>8. PICK r, p : /\ r = [review EXCEPT !.active = Nobody]
                    /\ p = [practice EXCEPT !.card = Nobody, !.revealed = FALSE]
    OBVIOUS
  <1>9. /\ Render(rs, view, r, p)
        /\ audit' = [events |-> audit.events \cup rs.events, attempts |-> audit.attempts \cup rs.attempts]
    BY <1>5, <1>6, <1>7, <1>8
  <1>10. result \in Results
    BY <1>4 DEF GradedAs, Results
  <1>11. rows \in Rows /\ Linked(rows) /\ Backed(rows) /\ Accounted(rows)
    BY RowsAreGood DEF RowsGood
  <1>12. c \in DOMAIN rows.cards \cap DOMAIN rows.states /\ c \in CardIds
    <2>1. c \in Due(rows)
      BY <1>3 DEF ActiveDueCard, NextDue
    <2>2. QED
      BY <1>11, <2>1, RowsAre, TableIs DEF Due, ListedDue
  <1>13. PICK a : a = [id |-> n, card |-> c, result |-> result, link |-> IF result = "skipped" THEN 0 ELSE n]
    OBVIOUS
  <1>14. PICK E : E = IF result = "skipped" THEN {} ELSE {[id |-> n, card |-> c]}
    OBVIOUS
  <1>15. PICK A : A = {a}
    OBVIOUS
  <1>16. E \in SUBSET Event /\ A \in SUBSET Attempt
    <2>1. a \in Attempt
      BY <1>2, <1>10, <1>12, <1>13 DEF Attempt
    <2>2. [id |-> n, card |-> c] \in Event
      BY <1>2, <1>12 DEF Event
    <2>3. QED
      BY <1>14, <1>15, <2>1, <2>2
  <1>17. /\ base \in Rows /\ Linked(base) /\ Backed(base)
         /\ base.items = rows.items /\ base.occs = rows.occs /\ base.cards = rows.cards
         /\ base.events = rows.events \cup E /\ base.attempts = rows.attempts
    <2>1. CASE result = "skipped"
      BY <1>6, <1>11, <1>14, <2>1
    <2>2. CASE result # "skipped"
      <3>1. base = Scheduled(rows, c, n, due)
        BY <1>6, <2>2
      <3>2. E = {[id |-> n, card |-> c]}
        BY <1>14, <2>2
      <3>3. QED
        BY <1>1, <1>2, <1>12, <3>1, <3>2, ScheduledIs
    <2>3. QED
      BY <2>1, <2>2
  <1>18. /\ rs.items = base.items /\ rs.occs = base.occs /\ rs.cards = base.cards /\ rs.states = base.states
         /\ rs.events = base.events /\ rs.attempts = base.attempts \cup A
         /\ rs \in Rows
    <2>1. rs = [base EXCEPT !.attempts = base.attempts \cup A]
      BY <1>7, <1>13, <1>15 DEF Attempted
    <2>2. PICK b1, b2, b3, b4, b5, b6 : base = [items |-> b1, occs |-> b2, cards |-> b3, states |-> b4,
                                                events |-> b5, attempts |-> b6]
      BY <1>17, RowsAre
    <2>3. rs = [items |-> b1, occs |-> b2, cards |-> b3, states |-> b4, events |-> b5, attempts |-> b6 \cup A]
      BY <2>1, <2>2
    <2>4. /\ b1 \in Table(ItemIds, Item) /\ b2 \in Table(OccIds, Occurrence) /\ b3 \in Table(CardIds, Card)
          /\ b4 \in Table(CardIds, Schedule) /\ b5 \in SUBSET Event /\ b6 \in SUBSET Attempt
      BY <1>17, <2>2, RowsAre
    <2>5. rs \in Rows
      BY <1>16, <2>3, <2>4 DEF Rows
    <2>6. QED
      BY <2>2, <2>3, <2>5
  <1>19. Linked(rs)
    BY <1>12, <1>13, <1>15, <1>17, <1>18 DEF Linked
  <1>20. Backed(rs)
    BY <1>17, <1>18 DEF Backed, EventsOf
  <1>21. audit' = [events |-> audit.events \cup E, attempts |-> audit.attempts \cup A]
    <2>1. audit.events \cup rs.events = audit.events \cup E
      BY <1>11, <1>17, <1>18 DEF Accounted
    <2>2. audit.attempts \cup rs.attempts = audit.attempts \cup A
      BY <1>11, <1>17, <1>18 DEF Accounted
    <2>3. QED
      BY <1>9, <2>1, <2>2
  <1>22. made'.acts = n
    BY <1>2 DEF StudyInv, StudyShaped, Made
  <1>23. GradesAudited'
    <2>1. /\ E \cup A # {}
          /\ \A e \in E : e.id = n
          /\ \A b \in A : b.id = n
          /\ \A e, f \in E : e = f
          /\ \A b, d \in A : b = d
      BY <1>13, <1>14, <1>15
    <2>2. \A b \in A : b.link = IF E = {} THEN 0 ELSE n
      <3>1. E = {} <=> result = "skipped"
        BY <1>14
      <3>2. a.link = IF result = "skipped" THEN 0 ELSE n
        BY <1>13
      <3>3. QED
        BY <1>15, <3>1, <3>2
    <2>3. QED
      BY <1>1, <1>16, <1>21, <1>22, <2>1, <2>2, GradeAudited
  <1>24. r \in Surface
    <2>1. PICK x \in CardIds \cup {Nobody}, y \in CardIds \cup {Nobody}, z \in BOOLEAN :
            review = [active |-> x, shown |-> y, revealed |-> z]
      BY RowsAreGood DEF Surface
    <2>2. r = [active |-> Nobody, shown |-> y, revealed |-> z]
      BY <1>8, <2>1
    <2>3. QED
      BY <2>2 DEF Surface
  <1>25. p \in Exercise
    <2>1. PICK x \in CardIds \cup {Nobody}, y \in BOOLEAN, z \in Modes :
            practice = [card |-> x, revealed |-> y, mode |-> z]
      BY RowsAreGood DEF Exercise
    <2>2. p = [card |-> Nobody, revealed |-> FALSE, mode |-> z]
      BY <1>8, <2>1
    <2>3. QED
      BY <2>2 DEF Exercise
  <1>26. /\ rs.items = rows.items /\ rs.occs = rows.occs /\ rs.cards = rows.cards
         /\ rs.events = rows.events \cup E /\ rs.attempts = rows.attempts \cup A
    BY <1>17, <1>18
  <1>27. made' = [made EXCEPT !.acts = made.acts + 1] /\ made.acts + 1 \in Acts
    BY <1>1, <1>2
  <1>28. Render(rs, view, r, p) /\ UNCHANGED <<now, toast, file, form>> /\ rs \in Rows
    BY <1>2, <1>9, <1>18
  <1>29. view \in Views
    BY RowsAreGood
  <1>30. QED
    BY <1>16, <1>19, <1>20, <1>21, <1>23, <1>24, <1>25, <1>26, <1>27, <1>28, <1>29, GradedKeeps

\* What a restore leaves is made of two snapshots that agree.
LEMMA RestoredIs ==
  ASSUME StudyInv, NEW c \in Snapshots, NEW mode
  PROVE  RowsGood(Restored(c, mode)) /\ Derived(Restored(c, mode))
  <1>1. c \in Rows /\ Linked(c) /\ Backed(c) /\ Accounted(c)
    BY DEF StudyInv, SnapshotsAgree, RowsGood
  <1>2. PICK old \in Rows : old = rows /\ old \in Snapshots
    BY RowsAreGood DEF RowsGood
  <1>3. Linked(old) /\ Backed(old) /\ Accounted(old) /\ Same(old, c)
    BY <1>2, RowsAreGood DEF RowsGood, StudyInv, SnapshotsAgree
  <1>4. PICK rs : rs = Restored(c, mode)
    OBVIOUS
  <1>5. CASE mode = "replace-active"
    BY <1>1, <1>5 DEF Restored, RowsGood, Derived
  <1>6. CASE mode # "replace-active"
    <2>1. PICK items, occs, cards, states :
            /\ items = Over(c.items, old.items) /\ occs = Over(c.occs, old.occs)
            /\ cards = Over(c.cards, old.cards) /\ states = Over(c.states, old.states)
      OBVIOUS
    <2>2. rs = [items |-> items, occs |-> occs, cards |-> cards, states |-> states,
                events |-> c.events \cup old.events, attempts |-> c.attempts \cup old.attempts]
      BY <1>2, <1>4, <1>6, <2>1 DEF Restored
    <2>3. items \in Table(ItemIds, Item) /\ DOMAIN items = DOMAIN c.items \cup DOMAIN old.items
      <3>1. PICK f \in Table(ItemIds, Item), g \in Table(ItemIds, Item) : f = c.items /\ g = old.items
        BY <1>1, <1>2, RowsAre
      <3>2. Over(f, g) \in Table(ItemIds, Item)
        BY OverInTable
      <3>3. DOMAIN Over(f, g) = DOMAIN f \cup DOMAIN g
        BY DEF Over
      <3>4. QED
        BY <2>1, <3>1, <3>2, <3>3
    <2>4. /\ occs \in Table(OccIds, Occurrence) /\ DOMAIN occs = DOMAIN c.occs \cup DOMAIN old.occs
          /\ \A o \in DOMAIN c.occs : occs[o] = c.occs[o]
          /\ \A o \in DOMAIN old.occs \ DOMAIN c.occs : occs[o] = old.occs[o]
      <3>1. PICK f \in Table(OccIds, Occurrence), g \in Table(OccIds, Occurrence) : f = c.occs /\ g = old.occs
        BY <1>1, <1>2, RowsAre
      <3>2. Over(f, g) \in Table(OccIds, Occurrence)
        BY OverInTable
      <3>3. /\ DOMAIN Over(f, g) = DOMAIN f \cup DOMAIN g
            /\ \A o \in DOMAIN f : Over(f, g)[o] = f[o]
            /\ \A o \in DOMAIN g \ DOMAIN f : Over(f, g)[o] = g[o]
        BY DEF Over
      <3>4. QED
        BY <2>1, <3>1, <3>2, <3>3
    <2>5. /\ cards \in Table(CardIds, Card) /\ DOMAIN cards = DOMAIN c.cards \cup DOMAIN old.cards
          /\ \A k \in DOMAIN c.cards : cards[k] = c.cards[k]
          /\ \A k \in DOMAIN old.cards \ DOMAIN c.cards : cards[k] = old.cards[k]
      <3>1. PICK f \in Table(CardIds, Card), g \in Table(CardIds, Card) : f = c.cards /\ g = old.cards
        BY <1>1, <1>2, RowsAre
      <3>2. Over(f, g) \in Table(CardIds, Card)
        BY OverInTable
      <3>3. /\ DOMAIN Over(f, g) = DOMAIN f \cup DOMAIN g
            /\ \A k \in DOMAIN f : Over(f, g)[k] = f[k]
            /\ \A k \in DOMAIN g \ DOMAIN f : Over(f, g)[k] = g[k]
        BY DEF Over
      <3>4. QED
        BY <2>1, <3>1, <3>2, <3>3
    <2>6. /\ states \in Table(CardIds, Schedule) /\ DOMAIN states = DOMAIN c.states \cup DOMAIN old.states
          /\ \A k \in DOMAIN c.states : states[k] = c.states[k]
          /\ \A k \in DOMAIN old.states \ DOMAIN c.states : states[k] = old.states[k]
      <3>1. PICK f \in Table(CardIds, Schedule), g \in Table(CardIds, Schedule) : f = c.states /\ g = old.states
        BY <1>1, <1>2, RowsAre
      <3>2. Over(f, g) \in Table(CardIds, Schedule)
        BY OverInTable
      <3>3. /\ DOMAIN Over(f, g) = DOMAIN f \cup DOMAIN g
            /\ \A k \in DOMAIN f : Over(f, g)[k] = f[k]
            /\ \A k \in DOMAIN g \ DOMAIN f : Over(f, g)[k] = g[k]
        BY DEF Over
      <3>4. QED
        BY <2>1, <3>1, <3>2, <3>3
    <2>7. /\ rs.items = items /\ rs.occs = occs /\ rs.cards = cards /\ rs.states = states
          /\ rs.events = c.events \cup old.events /\ rs.attempts = c.attempts \cup old.attempts
      BY <2>2
    <2>8. rs \in Rows
      BY <1>1, <1>2, <2>2, <2>3, <2>4, <2>5, <2>6, RowsAre DEF Rows
    <2>9. \A o \in DOMAIN old.occs : occs[o] = old.occs[o]
      BY <1>3, <2>4 DEF Same
    <2>10. Linked(rs)
      <3>1. ASSUME NEW o \in DOMAIN occs PROVE occs[o].item \in DOMAIN items
        BY <1>1, <1>3, <2>3, <2>4 DEF Linked
      <3>2. ASSUME NEW k \in DOMAIN cards
            PROVE  cards[k].occ \in DOMAIN occs /\ occs[cards[k].occ].item = cards[k].item
        <4>1. CASE k \in DOMAIN c.cards
          BY <1>1, <2>4, <2>5, <4>1 DEF Linked
        <4>2. CASE k \in DOMAIN old.cards \ DOMAIN c.cards
          BY <1>3, <2>4, <2>5, <2>9, <4>2 DEF Linked
        <4>3. QED
          BY <2>5, <4>1, <4>2
      <3>3. DOMAIN states = DOMAIN cards
        BY <1>1, <1>3, <2>5, <2>6 DEF Linked
      <3>4. \A e \in rs.events \cup rs.attempts : e.card \in DOMAIN cards
        BY <1>1, <1>3, <2>5, <2>7 DEF Linked
      <3>5. QED
        BY <2>7, <3>1, <3>2, <3>3, <3>4 DEF Linked
    <2>11. Backed(rs)
      <3> SUFFICES ASSUME NEW k \in DOMAIN states
                   PROVE  states[k].reps <= Cardinality(EventsOf(rs, k))
        BY <2>7 DEF Backed
      <3>1. EventsOf(rs, k) = EventsOf(c, k) \cup EventsOf(old, k)
        BY <2>7 DEF EventsOf
      <3>2. /\ IsFiniteSet(EventsOf(rs, k)) /\ Cardinality(EventsOf(rs, k)) \in Nat
            /\ Cardinality(EventsOf(c, k)) \in Nat /\ Cardinality(EventsOf(old, k)) \in Nat
        BY <1>1, <1>2, <2>8, RowsAre, EventsCounted DEF EventsOf
      <3>3. /\ Cardinality(EventsOf(c, k)) <= Cardinality(EventsOf(rs, k))
            /\ Cardinality(EventsOf(old, k)) <= Cardinality(EventsOf(rs, k))
        BY <3>1, <3>2, FS_Subset
      <3>4. states[k].reps \in Nat
        <4>1. states[k] \in Schedule
          BY <2>6, TableIs
        <4>2. QED
          BY <4>1, StudyAssumption DEF Schedule
      <3>5. \/ states[k].reps <= Cardinality(EventsOf(c, k))
            \/ states[k].reps <= Cardinality(EventsOf(old, k))
        BY <1>1, <1>3, <2>6 DEF Backed
      <3>6. QED
        BY <3>2, <3>3, <3>4, <3>5
    <2>12. Accounted(rs)
      BY <1>1, <1>3, <2>3, <2>4, <2>5, <2>7 DEF Accounted
    <2>13. Derived(rs)
      BY <1>2, <2>4, <2>5, <2>7 DEF Derived
    <2>14. QED
      BY <1>4, <2>8, <2>10, <2>11, <2>12, <2>13 DEF RowsGood
  <1>7. QED
    BY <1>5, <1>6

LEMMA ConfirmRestoreKeeps ==
  ASSUME StudyInv, ConfirmRestore
  PROVE  StudyInv'
  <1>1. PICK c, mode : c = form.wire.content /\ mode = form.mode
    OBVIOUS
  <1>2. PICK rs : rs = Restored(c, mode)
    OBVIOUS
  <1>3. PICK r, p : r = NothingShown /\ p = [practice EXCEPT !.card = Nobody, !.revealed = FALSE]
    OBVIOUS
  <1>4. /\ form.open /\ audit' = RetainedAudit(rs) /\ Render(rs, view, r, p)
        /\ form' = NoForm /\ UNCHANGED <<made, now, toast, file>>
    BY <1>1, <1>2, <1>3 DEF ConfirmRestore, CanRestore
  <1>5. c \in Snapshots
    BY <1>1, <1>4 DEF StudyInv, FormVerified, Snapshots
  <1>6. RowsGood(rs) /\ Derived(rs)
    BY <1>2, <1>5, RestoredIs
  <1>7. audit' = audit
    <2>1. PICK a, b : audit = [events |-> a, attempts |-> b]
      BY DEF StudyInv, StudyShaped
    <2>2. rs.events \subseteq a /\ rs.attempts \subseteq b
      BY <1>6, <2>1 DEF RowsGood, Accounted
    <2>3. a \cup rs.events = a /\ b \cup rs.attempts = b
      BY <2>2
    <2>4. QED
      BY <1>4, <2>1, <2>3 DEF RetainedAudit
  <1>8. r \in Surface
    BY <1>3 DEF NothingShown, Surface
  <1>9. p \in Exercise
    <2>1. PICK x \in CardIds \cup {Nobody}, y \in BOOLEAN, z \in Modes :
            practice = [card |-> x, revealed |-> y, mode |-> z]
      BY RowsAreGood DEF Exercise
    <2>2. p = [card |-> Nobody, revealed |-> FALSE, mode |-> z]
      BY <1>3, <2>1
    <2>3. QED
      BY <2>2 DEF Exercise
  <1>10. QED
    BY <1>4, <1>6, <1>7, <1>8, <1>9, RowsAreGood, PlainHandlerKeeps

-----------------------------------------------------------------------------
(***************************************************************************)
(* The invariant of the study loop.                                        *)
(***************************************************************************)
LEMMA StudyBegins == StudyInit => StudyInv
  <1> SUFFICES ASSUME StudyInit PROVE StudyInv
    OBVIOUS
  <1>1. PICK w \in Words, p \in Places :
          rows = [items |-> Row(1, [word |-> w, meaning |-> Blank, edits |-> 0]),
                  occs |-> Row(1, [item |-> 1, place |-> p]),
                  cards |-> NoRows, states |-> NoRows, events |-> {}, attempts |-> {}]
    BY DEF StudyInit
  <1>2. /\ audit = [events |-> {}, attempts |-> {}]
        /\ made = [items |-> 1, occs |-> 1, cards |-> 0, acts |-> 0]
        /\ now = 0 /\ view = "player" /\ review = NothingShown
        /\ practice = [card |-> Nobody, revealed |-> FALSE, mode |-> "typed-input"]
        /\ toast = NoToast /\ file = NoFile /\ form = NoForm
    BY DEF StudyInit
  <1>3. PICK item, occ : item = [word |-> w, meaning |-> Blank, edits |-> 0] /\ occ = [item |-> 1, place |-> p]
    OBVIOUS
  <1>4. item \in Item /\ occ \in Occurrence /\ occ.item = 1 /\ 1 \in ItemIds /\ 1 \in OccIds
    BY <1>3, StudyAssumption DEF Item, Occurrence, ItemIds, OccIds
  <1>5. /\ rows.items = Row(1, item) /\ rows.occs = Row(1, occ) /\ rows.cards = NoRows
        /\ rows.states = NoRows /\ rows.events = {} /\ rows.attempts = {}
    BY <1>1, <1>3
  <1>6. Row(1, item) \in Table(ItemIds, Item) /\ Row(1, occ) \in Table(OccIds, Occurrence)
    BY <1>4, RowInTable
  <1>7. /\ DOMAIN rows.items = {1} /\ DOMAIN rows.occs = {1} /\ rows.occs[1].item = 1
        /\ DOMAIN rows.cards = {} /\ DOMAIN rows.states = {}
    BY <1>4, <1>5 DEF Row, NoRows
  <1>8. NoRows \in Table(CardIds, Card) /\ NoRows \in Table(CardIds, Schedule)
    <2>1. {} \in SUBSET CardIds /\ NoRows \in [{} -> Card] /\ NoRows \in [{} -> Schedule]
      BY DEF NoRows
    <2>2. QED
      BY <2>1, TableIs
  <1>9. rows \in Rows
    BY <1>1, <1>3, <1>6, <1>8 DEF Rows
  <1>10. Snapshots = {rows}
    BY <1>2 DEF Snapshots, NoFile, NoForm, ExportOf
  <1>11. Linked(rows) /\ Backed(rows) /\ Accounted(rows)
    BY <1>2, <1>5, <1>7 DEF Linked, Backed, Accounted
  <1>12. SnapshotsAgree
    BY <1>9, <1>10, <1>11 DEF SnapshotsAgree, RowsGood, Same
  <1>13. made \in Made /\ audit \in [events : SUBSET Event, attempts : SUBSET Attempt] /\ now \in 0 .. MaxNow
    BY <1>2, StudyAssumption DEF Made
  <1>14. view \in Views /\ review \in Surface /\ practice \in Exercise
    BY <1>2 DEF Views, NothingShown, Surface, Exercise, Modes
  <1>15. file \in File /\ form \in Form
    <2>1. NoFile \in File
      BY DEF NoFile, ExportOf, File
    <2>2. QED
      BY <1>2, <2>1 DEF NoForm, Form
  <1>16. GradesAudited
    <2>1. 1 .. 0 = {}
      OBVIOUS
    <2>2. QED
      BY <1>2, <2>1 DEF GradesAudited
  <1>17. QED
    BY <1>2, <1>12, <1>13, <1>14, <1>15, <1>16
    DEF StudyInv, StudyShaped, ToastTrue, PracticeDue, FormVerified, NoForm

LEMMA StudyStep == StudyInv /\ [StudyNext]_studyVars => StudyInv'
  <1> SUFFICES ASSUME StudyInv, [StudyNext]_studyVars PROVE StudyInv'
    OBVIOUS
  <1>1. ASSUME NEW w \in Words, NEW p \in Places, NEW m \in {Blank} \cup Meanings, Capture(w, p, m)
        PROVE  StudyInv'
    BY <1>1, CaptureKeeps
  <1>2. CASE Undo
    BY <1>2, UndoKeeps
  <1>3. ASSUME NEW i \in DOMAIN rows.items, TakeOut(i) \/ AddToReview({i}) PROVE StudyInv'
    BY <1>3, TakeOutKeeps, AddToReviewKeeps
  <1>4. CASE AddToReview(DOMAIN rows.items)
    BY <1>4, AddToReviewKeeps
  <1>5. ASSUME NEW i \in DOMAIN rows.items, NEW m \in {Blank} \cup Meanings, SetMeaning(i, m)
        PROVE  StudyInv'
    BY <1>5, SetMeaningKeeps
  <1>6. CASE \/ \E v \in Views : GoTo(v)
             \/ Wake \/ ToggleReveal \/ RevealAnswer
             \/ \E m \in Modes : SetMode(m)
    BY <1>6, ViewsKeep
  <1>7. CASE Rate
    BY <1>7, RateKeeps
  <1>8. ASSUME NEW answer \in Results, Submit(answer) PROVE StudyInv'
    BY <1>8, SubmitKeeps
  <1>9. CASE \/ ToastExpires \/ Tick \/ Export \/ FileDamaged \/ Preview \/ ClearPreview
             \/ \E m \in {"merge", "replace-active"} : ChooseMode(m)
             \/ Acknowledge
    BY <1>9, FilesKeep
  <1>10. CASE ConfirmRestore
    BY <1>10, ConfirmRestoreKeeps
  <1>11. CASE UNCHANGED studyVars
    BY <1>11 DEF studyVars, StudyInv, StudyShaped, SnapshotsAgree, Snapshots, RowsGood, Accounted,
                 GradesAudited, ToastTrue, PracticeDue, Due, ListedDue, FormVerified
  <1>12. QED
    BY <1>1, <1>2, <1>3, <1>4, <1>5, <1>6, <1>7, <1>8, <1>9, <1>10, <1>11 DEF StudyNext

(***************************************************************************)
(* The study loop keeps its invariant: the rows of now, those in the       *)
(* export file and those the restore form was made of agree on what each   *)
(* occurrence and card is, every one of them is linked and backed by       *)
(* audited history, and Practice shows the card that Review remembers      *)
(* (capture.ts:56-93, restorePlanner.ts, practice.ts:33-80).               *)
(***************************************************************************)
THEOREM StudyInvHolds == StudySpec => []StudyInv
  BY StudyBegins, StudyStep, PTL DEF StudySpec

\* Things with numbers of their own are as many as their numbers.
LEMMA IdsCounted ==
  ASSUME NEW S, IsFiniteSet(S), \A e, f \in S : e.id = f.id => e = f
  PROVE  LET ids == {e.id : e \in S} IN IsFiniteSet(ids) /\ Cardinality(ids) = Cardinality(S)
  <1> DEFINE ids == {e.id : e \in S}
             g == [e \in S |-> e.id]
  <1>1. g \in Bijection(S, ids)
    BY DEF Bijection, Injection, Surjection, IsInjective
  <1>2. ExistsBijection(S, ids)
    BY <1>1 DEF ExistsBijection
  <1>3. QED
    BY <1>2, FS_Bijection

LEMMA InvCountsOnce == StudyInv => CountedOnce
  <1> SUFFICES ASSUME StudyInv PROVE CountedOnce
    OBVIOUS
  <1> DEFINE ids == {e.id : e \in rows.events}
             linked == {a.link : a \in rows.attempts} \cap ids
             alone == {e \in rows.events : e.id \notin linked}
             one == {e.id : e \in alone}
             two == {a.id : a \in rows.attempts}
  <1>1. /\ made.acts \in Nat /\ GradesAudited
        /\ rows.events \subseteq audit.events /\ rows.attempts \subseteq audit.attempts
    BY RowsAreGood DEF StudyInv, StudyShaped, Made, RowsGood, Accounted
  <1>2. /\ \A e \in rows.events : e.id \in 1 .. made.acts
        /\ \A a \in rows.attempts : a.id \in 1 .. made.acts
        /\ \A e, f \in rows.events : e.id = f.id => e = f
        /\ \A a, b \in rows.attempts : a.id = b.id => a = b
    BY <1>1 DEF GradesAudited
  <1>3. /\ IsFiniteSet(alone) /\ Cardinality(alone) \in Nat
        /\ IsFiniteSet(rows.attempts) /\ Cardinality(rows.attempts) \in Nat
    BY <1>1, <1>2, NumberedAtMost
  <1>4. IsFiniteSet(one) /\ Cardinality(one) = Cardinality(alone)
    BY <1>2, <1>3, IdsCounted
  <1>5. IsFiniteSet(two) /\ Cardinality(two) = Cardinality(rows.attempts)
    BY <1>2, <1>3, IdsCounted
  <1>6. ASSUME NEW e \in rows.events, e.id \in linked PROVE e.id \in two
    <2>1. PICK a \in rows.attempts : a.link = e.id
      BY <1>6
    <2>2. a.link \in {0, a.id} /\ e.id # 0
      BY <1>1, <1>2 DEF GradesAudited
    <2>3. QED
      BY <2>1, <2>2
  <1>7. ids \cup two = one \cup two
    BY <1>6
  <1>8. one \cap two = {}
    <2> SUFFICES ASSUME NEW e \in alone, NEW a \in rows.attempts, e.id = a.id PROVE FALSE
      OBVIOUS
    <2>1. e \in audit.events /\ a \in audit.attempts
      BY <1>1
    <2>2. a.link = a.id
      BY <1>1, <2>1 DEF GradesAudited
    <2>3. a.link \in linked
      BY <2>2
    <2>4. QED
      BY <2>2, <2>3
  <1>9. Cardinality(one \cup two) = Cardinality(one) + Cardinality(two) - Cardinality(one \cap two)
    BY <1>4, <1>5, FS_Union
  <1>10. Cardinality(one \cup two) = Cardinality(alone) + Cardinality(rows.attempts)
    <2>1. Cardinality(one \cap two) = 0
      BY <1>8, FS_EmptySet
    <2>2. PICK a \in Nat, b \in Nat : a = Cardinality(alone) /\ b = Cardinality(rows.attempts)
      BY <1>3
    <2>3. Cardinality(one) = a /\ Cardinality(two) = b
      BY <1>4, <1>5, <2>2
    <2>4. Cardinality(one \cup two) = a + b - 0
      BY <1>9, <2>1, <2>3
    <2>5. QED
      BY <2>2, <2>4
  <1>11. QED
    BY <1>7, <1>10 DEF CountedOnce, StudyActions

(***************************************************************************)
(* Captures, undos, gradings and restores in any order leave no dangling   *)
(* row, no schedule ahead of its history, no study action counted twice    *)
(* and no grading outside the audit.                                       *)
(***************************************************************************)
THEOREM StudyStaysSound == StudySpec => []StudySound
  <1>1. ASSUME StudyInv PROVE StudySound
    <2>1. rows \in Rows /\ Linked(rows) /\ Backed(rows) /\ Accounted(rows)
      BY <1>1, RowsAreGood DEF RowsGood
    <2>2. /\ DOMAIN rows.items \subseteq ItemIds /\ \A i \in DOMAIN rows.items : rows.items[i] \in Item
          /\ DOMAIN rows.occs \subseteq OccIds /\ \A o \in DOMAIN rows.occs : rows.occs[o] \in Occurrence
          /\ DOMAIN rows.cards \subseteq CardIds /\ \A c \in DOMAIN rows.cards : rows.cards[c] \in Card
          /\ DOMAIN rows.states \subseteq CardIds
          /\ \A c \in DOMAIN rows.states : rows.states[c] \in Schedule
          /\ rows.events \subseteq Event /\ rows.attempts \subseteq Attempt
      BY <2>1, RowsAre, TableIs
    <2>3. audit.events \subseteq Event /\ audit.attempts \subseteq Attempt
      BY <1>1 DEF StudyInv, StudyShaped
    <2>4. form.mode \in {"none", "merge", "replace-active"} /\ form.acked \subseteq Warnings
      BY <1>1 DEF StudyInv, StudyShaped, Form
    <2>5. form.open => form.wire # NoFile
      BY <1>1 DEF StudyInv, FormVerified, NoFile, ExportOf
    <2>6. StudyTypeOK
      BY <1>1, <2>2, <2>3, <2>4, <2>5 DEF StudyTypeOK, Range, StudyInv, StudyShaped, Surface, Exercise
    <2>7. RowsLinked
      BY <2>1 DEF RowsLinked, Linked
    <2>8. ScheduleBacked
      BY <2>1 DEF ScheduleBacked, Backed, EventsOf
    <2>9. CountedOnce
      BY <1>1, InvCountsOnce
    <2>10. EveryGradeAudited
      BY <1>1, <2>1 DEF EveryGradeAudited, Accounted, StudyInv, GradesAudited
    <2>11. QED
      BY <2>6, <2>7, <2>8, <2>9, <2>10 DEF StudySound
  <1>2. QED
    BY <1>1, StudyInvHolds, PTL

\* Only an Undo ends a toast and changes rows.
LEMMA UndoIs ==
  ASSUME StudyInv, [StudyNext]_studyVars, UndoStep
  PROVE  Undo /\ CanUndo(toast) /\ rows' = Undone(toast)
  <1>1. toast # NoToast /\ toast' = NoToast /\ rows' # rows
    BY DEF UndoStep
  <1>2. ASSUME NEW w \in Words, NEW p \in Places, NEW m \in {Blank} \cup Meanings, Capture(w, p, m)
        PROVE  FALSE
    <2>1. PICK i \in ItemIds : toast'.item = i
      BY <1>2 DEF Capture
    <2>2. i # 0 /\ NoToast.item = 0
      BY DEF ItemIds, NoToast
    <2>3. QED
      BY <1>1, <2>1, <2>2
  <1>3. Undo
    BY <1>1, <1>2
    DEF StudyNext, studyVars, ToastExpires, TakeOut, AddToReview, SetMeaning, GoTo, Tick, Wake, ToggleReveal,
        RevealAnswer, SetMode, Rate, Submit, Export, FileDamaged, Preview, ClearPreview, ChooseMode,
        Acknowledge, ConfirmRestore
  <1>4. QED
    BY <1>1, <1>3 DEF Undo, Render

(***************************************************************************)
(* An Undo takes back the capture it was offered for and nothing the       *)
(* learner did since (capture.ts:57-89).                                   *)
(***************************************************************************)
THEOREM UndoTakesBackOnlyItsCapture == StudySpec => UndoLosesNothingElse
  <1> DEFINE Kept ==
               /\ \A i \in DOMAIN rows.items \ DOMAIN rows'.items :
                    rows.items[i].edits = 0 /\ OccurrencesOf(rows, i) = {toast.occ}
               /\ DOMAIN rows.occs \ DOMAIN rows'.occs = {toast.occ}
               /\ \A c \in DOMAIN rows.cards \ DOMAIN rows'.cards :
                    /\ c = toast.card
                    /\ \A e \in rows.events \cup rows.attempts : e.card # c
                    /\ ~(view = "review" /\ c = review.shown) /\ ~(view = "practice" /\ c = practice.card)
  <1>1. ASSUME StudyInv, [StudyNext]_studyVars, UndoStep PROVE Kept
    <2>1. CanUndo(toast) /\ rows' = Undone(toast) /\ toast # NoToast
      BY <1>1, UndoIs DEF UndoStep
    <2>2. rows \in Rows
      BY <1>1, RowsAreGood DEF RowsGood
    <2>3. /\ rows'.items = IF toast.newItem THEN Without(rows.items, {toast.item}) ELSE rows.items
          /\ rows'.occs = Without(rows.occs, {toast.occ}) /\ rows'.cards = Without(rows.cards, {toast.card})
      <3>1. PICK a, b, c, d, e, f :
              rows = [items |-> a, occs |-> b, cards |-> c, states |-> d, events |-> e, attempts |-> f]
        BY <2>2, RowsAre
      <3>2. QED
        BY <2>1, <3>1 DEF Undone
    <2>4. /\ DOMAIN rows'.occs = DOMAIN rows.occs \ {toast.occ}
          /\ DOMAIN rows'.cards = DOMAIN rows.cards \ {toast.card}
      BY <2>3 DEF Without, Restrict
    <2>5. ASSUME NEW i \in DOMAIN rows.items \ DOMAIN rows'.items PROVE toast.newItem /\ i = toast.item
      BY <2>3 DEF Without, Restrict
    <2>6. DOMAIN rows.occs \ DOMAIN rows'.occs = {toast.occ}
      BY <2>1, <2>4 DEF CanUndo
    <2>7. ASSUME NEW c \in DOMAIN rows.cards \ DOMAIN rows'.cards
          PROVE  /\ c = toast.card
                 /\ \A e \in rows.events \cup rows.attempts : e.card # c
                 /\ ~(view = "review" /\ c = review.shown) /\ ~(view = "practice" /\ c = practice.card)
      <3>1. c = toast.card
        BY <2>4
      <3>2. toast.card # Nobody
        <4>1. c \in CardIds
          BY <2>2, RowsAre, TableIs
        <4>2. QED
          BY <3>1, <4>1 DEF CardIds, Nobody
      <3>3. QED
        BY <2>1, <3>1, <3>2 DEF CanUndo, Unstudied, OnScreen
    <2>8. QED
      BY <1>1, <2>1, <2>5, <2>6, <2>7, OnlyOccurrence
  <1>2. StudyInv /\ [StudyNext]_studyVars => [UndoStep => Kept]_studyVars
    BY <1>1
  <1>3. QED
    BY <1>2, StudyInvHolds, PTL DEF StudySpec, UndoLosesNothingElse

\* Only the two gradings give out a grading's number.
LEMMA GradingIs ==
  ASSUME StudyInv, [StudyNext]_studyVars, Graded
  PROVE  Rate \/ \E answer \in Results : Submit(answer)
  <1>1. PICK a, b, c, d : made = [items |-> a, occs |-> b, cards |-> c, acts |-> d]
    BY DEF StudyInv, StudyShaped, Made
  <1>2. ASSUME NEW w \in Words, NEW p \in Places, NEW m \in {Blank} \cup Meanings, Capture(w, p, m)
        PROVE  made'.acts = made.acts
    <2>1. PICK x, y, z : made' = [made EXCEPT !.items = x, !.occs = y, !.cards = z]
      BY <1>2 DEF Capture
    <2>2. QED
      BY <1>1, <2>1
  <1>3. ASSUME NEW S, AddToReview(S) PROVE made'.acts = made.acts
    <2>1. PICK x : made' = [made EXCEPT !.cards = x]
      BY <1>3 DEF AddToReview
    <2>2. QED
      BY <1>1, <2>1
  <1>4. QED
    BY <1>2, <1>3
    DEF Graded, StudyNext, studyVars, Undo, ToastExpires, TakeOut, SetMeaning, GoTo, Tick, Wake,
        ToggleReveal, RevealAnswer, SetMode, Export, FileDamaged, Preview, ClearPreview, ChooseMode,
        Acknowledge, ConfirmRestore

(***************************************************************************)
(* A grading is for the card on screen, and only what was done on that     *)
(* card counts: no pass after its answer was revealed in Practice, no      *)
(* rating in Review before it was (model.ts:4320-4325, review.ts:91).      *)
(***************************************************************************)
THEOREM GradesTheCardOnScreen == StudySpec => GradesWhatIsShown
  <1> DEFINE True(e) ==
               /\ e.card = IF view = "review" THEN review.shown ELSE practice.card
               /\ view = "review" => review.revealed
               /\ "result" \in DOMAIN e /\ practice.revealed => e.result \notin Passes
  <1>1. ASSUME StudyInv, [StudyNext]_studyVars, Graded,
               NEW e \in rows'.events \cup rows'.attempts, e.id = made'.acts
        PROVE  True(e)
    <2>1. made.acts \in Nat /\ made.acts + 1 \notin 1 .. made.acts
      BY <1>1 DEF StudyInv, StudyShaped, Made
    <2>2. rows \in Rows /\ Accounted(rows)
      BY <1>1, RowsAreGood DEF RowsGood
    <2>3. \A f \in rows.events \cup rows.attempts : f.id \in 1 .. made.acts
      BY <1>1, <2>2 DEF Accounted, StudyInv, GradesAudited
    <2>4. CASE Rate
      <3>1. PICK n, c : n = made.acts + 1 /\ c = review.shown
        OBVIOUS
      <3>2. /\ c \in DOMAIN rows.cards \cap DOMAIN rows.states /\ n \in Acts
            /\ made' = [made EXCEPT !.acts = n] /\ view = "review" /\ review.revealed
        BY <2>4, <3>1 DEF Rate, CardInReview
      <3>3. PICK due \in {now + 1, now + 2} : rows' = Scheduled(rows, c, n, due)
        BY <2>4, <3>1 DEF Rate, Render
      <3>4. PICK f : f = [id |-> n, card |-> c]
        OBVIOUS
      <3>5. rows'.events = rows.events \cup {f} /\ rows'.attempts = rows.attempts
        BY <1>1, <3>1, <3>2, <3>3, <3>4, ScheduledIs
      <3>6. e.id = n
        BY <1>1, <3>2 DEF StudyInv, StudyShaped, Made
      <3>7. e = f
        BY <2>1, <2>3, <3>1, <3>5, <3>6
      <3>8. e.card = c /\ "result" \notin DOMAIN e
        BY <3>4, <3>7
      <3>9. QED
        BY <3>1, <3>2, <3>8
    <2>5. ASSUME NEW answer \in Results, Submit(answer) PROVE True(e)
      <3>1. PICK n : n = made.acts + 1
        OBVIOUS
      <3>2. /\ n \in Acts /\ made' = [made EXCEPT !.acts = n]
            /\ view = "practice" /\ practice.card # Nobody
        BY <2>5, <3>1 DEF Submit, CardInPractice
      <3>3. PICK c \in ActiveDueCard(rows, review.active), due \in {now + 1, now + 2} :
              LET result == GradedAs(c, answer)
                  base == IF result = "skipped" THEN rows ELSE Scheduled(rows, c, n, due)
              IN rows' = Attempted(base, c, n, result)
        BY <2>5, <3>1 DEF Submit, Render
      <3>4. PICK result : result = GradedAs(c, answer)
        OBVIOUS
      <3>5. PICK base : base = IF result = "skipped" THEN rows ELSE Scheduled(rows, c, n, due)
        OBVIOUS
      <3>6. PICK a : a = [id |-> n, card |-> c, result |-> result, link |-> IF result = "skipped" THEN 0 ELSE n]
        OBVIOUS
      <3>7. PICK f : f = [id |-> n, card |-> c]
        OBVIOUS
      <3>8. c = practice.card /\ c \in Due(rows)
        <4>1. review.active = practice.card /\ review.active \in Due(rows)
          BY <1>1, <3>2 DEF StudyInv, PracticeDue
        <4>2. QED
          BY <4>1 DEF ActiveDueCard
      <3>9. c \in DOMAIN rows.cards \cap DOMAIN rows.states
        BY <3>8 DEF Due, ListedDue
      <3>10. base \in Rows /\ base.events \subseteq rows.events \cup {f} /\ base.attempts = rows.attempts
        <4>1. CASE result = "skipped"
          BY <2>2, <3>5, <4>1
        <4>2. CASE result # "skipped"
          <5>1. base = Scheduled(rows, c, n, due)
            BY <3>5, <4>2
          <5>2. QED
            BY <1>1, <3>1, <3>2, <3>7, <3>9, <5>1, ScheduledIs
        <4>3. QED
          BY <4>1, <4>2
      <3>11. rows'.events = base.events /\ rows'.attempts = base.attempts \cup {a}
        <4>1. rows' = [base EXCEPT !.attempts = base.attempts \cup {a}]
          BY <3>3, <3>4, <3>5, <3>6 DEF Attempted
        <4>2. PICK b1, b2, b3, b4, b5, b6 : base = [items |-> b1, occs |-> b2, cards |-> b3, states |-> b4,
                                                    events |-> b5, attempts |-> b6]
          BY <3>10, RowsAre
        <4>3. QED
          BY <4>1, <4>2
      <3>12. e.id = n
        BY <1>1, <3>2 DEF StudyInv, StudyShaped, Made
      <3>13. e = f \/ e = a
        BY <2>1, <2>3, <3>1, <3>10, <3>11, <3>12
      <3>14. e.card = c
        BY <3>6, <3>7, <3>13
      <3>15. ASSUME "result" \in DOMAIN e, practice.revealed PROVE e.result \notin Passes
        <4>1. e.result = result
          BY <3>6, <3>7, <3>13, <3>15
        <4>2. result \in {"fail", "skipped"}
          BY <3>4, <3>8, <3>15 DEF GradedAs
        <4>3. QED
          BY <4>1, <4>2 DEF Passes
      <3>16. QED
        BY <3>2, <3>8, <3>14, <3>15
    <2>6. QED
      BY <1>1, <2>4, <2>5, GradingIs
  <1>2. StudyInv /\ [StudyNext]_studyVars =>
          [Graded => \A e \in rows'.events \cup rows'.attempts : e.id = made'.acts => True(e)]_studyVars
    BY <1>1
  <1>3. QED
    BY <1>2, StudyInvHolds, PTL DEF StudySpec, GradesWhatIsShown
=============================================================================
