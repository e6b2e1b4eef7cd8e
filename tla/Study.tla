------------------------------- MODULE Study -------------------------------
(***************************************************************************)
(* The learner's study loop in one page without a service: saving a        *)
(* selection and its Undo toast, the review toggles and meanings of the    *)
(* Saved view, Review and Practice against the spaced-repetition schedule, *)
(* and the export and restore of learner state.                            *)
(*                                                                         *)
(* Every handler runs to its end and renders the page, so a step is one    *)
(* handler with its render.  What a step may have to cope with is what an  *)
(* earlier one left: a toast of a capture whose word was studied since, a  *)
(* card that became due while another was on screen, a backup older or     *)
(* newer than the rows it is merged into.                                  *)
(***************************************************************************)
EXTENDS Naturals, FiniteSets, Functions

CONSTANTS
  Words,       \* what can be selected (kind, language and normalized text)
  Places,      \* where: a cue and a span in it
  Approved,    \* the places whose transcript is approved
  Meanings,    \* what can be typed as a meaning
  Blank,       \* no meaning
  MaxItems, MaxOccs, MaxCards,   \* bounds: rows ever made
  MaxActs,     \* bound: gradings
  MaxEdits,    \* bound: edits of one meaning
  MaxNow       \* bound: the clock

ASSUME StudyAssumption ==
  /\ Approved \subseteq Places
  /\ {MaxItems, MaxOccs, MaxCards, MaxActs, MaxEdits, MaxNow} \subseteq Nat
  /\ 0 \notin {MaxItems, MaxOccs}

VARIABLES
  rows,      \* the active learner rows of the LocalStore
  audit,     \* its learner audit: every event and attempt it ever held
  made,      \* ids given out so far, per kind
  now,       \* model.clock()
  view,      \* model.view
  review,    \* model.review
  practice,  \* model.practice
  toast,     \* the receipt the Undo toast on screen holds
  file,      \* the export file the learner keeps
  form       \* the restore form: input, preview, mode and acknowledged warnings

studyVars == <<rows, audit, made, now, view, review, practice, toast, file, form>>

-----------------------------------------------------------------------------
ItemIds == 1 .. MaxItems
OccIds == 1 .. MaxOccs
CardIds == 1 .. MaxCards
Acts == 1 .. MaxActs
Nobody == 0
Views == {"player", "saved", "review", "practice", "export"}
Modes == {"typed-input", "speaking"}
Results == {"pass", "pass-with-hesitation", "fail", "skipped"}
Passes == {"pass", "pass-with-hesitation"}

\* A collection of rows: a function on the ids that are there.
NoRows == [x \in {} |-> x]
Without(f, ids) == Restrict(f, DOMAIN f \ ids)

\* The rows of f, and those of g that f lacks; one row.
Over(f, g) == [k \in DOMAIN f \cup DOMAIN g |-> IF k \in DOMAIN f THEN f[k] ELSE g[k]]
Row(k, row) == [id \in {k} |-> row]

\* edits stands for updatedAt; archived is suspendedAt, 0 in review; reps 0 is FSRS new.
Item == [word : Words, meaning : Meanings \cup {Blank}, edits : 0 .. MaxEdits]
Occurrence == [item : ItemIds, place : Places]
Card == [item : ItemIds, occ : OccIds, archived : 0 .. MaxNow + 1]
Schedule == [reps : 0 .. MaxActs, due : 0 .. MaxNow + 2]

\* An event or an attempt bears the number of the grading that made it.
Event == [id : Acts, card : CardIds]
Attempt == [id : Acts, card : CardIds, result : Results, link : Acts \cup {0}]

Receipt == [item : ItemIds, occ : OccIds, newItem : BOOLEAN, newOcc : BOOLEAN,
            card : CardIds \cup {Nobody}, was : Item, count : 1 .. MaxOccs]
NoToast == [item |-> 0]

\* An export file: the learner rows, and the rows its integrity hash was made of.
ExportOf(content) == [content |-> content, hashed |-> content]
NoFile == ExportOf(NoRows)
NoForm == [wire |-> NoFile, open |-> FALSE, mode |-> "none", acked |-> {}]
Warnings == {"privacy", "overwrites"}

\* The rows and the audit have the shape of their domain types, and ids stay within bounds.
StudyTypeOK ==
  /\ DOMAIN rows.items \subseteq ItemIds /\ Range(rows.items) \subseteq Item
  /\ DOMAIN rows.occs \subseteq OccIds /\ Range(rows.occs) \subseteq Occurrence
  /\ DOMAIN rows.cards \subseteq CardIds /\ Range(rows.cards) \subseteq Card
  /\ DOMAIN rows.states \subseteq CardIds /\ Range(rows.states) \subseteq Schedule
  /\ rows.events \cup audit.events \subseteq Event
  /\ rows.attempts \cup audit.attempts \subseteq Attempt
  /\ view \in Views /\ now \in 0 .. MaxNow
  /\ review \in [active : CardIds \cup {Nobody}, shown : CardIds \cup {Nobody}, revealed : BOOLEAN]
  /\ practice \in [card : CardIds \cup {Nobody}, revealed : BOOLEAN, mode : Modes]
  /\ toast = NoToast \/ toast \in Receipt
  /\ form.mode \in {"none", "merge", "replace-active"} /\ form.acked \subseteq Warnings
  /\ form.open => form.wire # NoFile

NothingShown == [active |-> Nobody, shown |-> Nobody, revealed |-> FALSE]

\* A learner document of before cards were made on saving: one word, no card.
StudyInit ==
  /\ \E w \in Words, p \in Places :
       rows = [items |-> Row(1, [word |-> w, meaning |-> Blank, edits |-> 0]),
               occs |-> Row(1, [item |-> 1, place |-> p]),
               cards |-> NoRows, states |-> NoRows, events |-> {}, attempts |-> {}]
  /\ audit = [events |-> {}, attempts |-> {}]
  /\ made = [items |-> 1, occs |-> 1, cards |-> 0, acts |-> 0]
  /\ now = 0 /\ view = "player"
  /\ review = NothingShown
  /\ practice = [card |-> Nobody, revealed |-> FALSE, mode |-> "typed-input"]
  /\ toast = NoToast /\ file = NoFile /\ form = NoForm

-----------------------------------------------------------------------------
(***************************************************************************)
(* What is due, and which card a surface shows: the remembered one while   *)
(* it stays due, else a new card that is due first, else (the order of     *)
(* learning and review cards is the scheduler's) any card that is due.     *)
(***************************************************************************)
ListedDue(rs) ==
  {c \in DOMAIN rs.cards \cap DOMAIN rs.states :
     rs.cards[c].archived = 0 /\ rs.states[c].due <= now}

\* listReviewBuckets drops a card whose item or occurrence is gone.
Due(rs) ==
  {c \in ListedDue(rs) :
     rs.cards[c].item \in DOMAIN rs.items /\ rs.cards[c].occ \in DOMAIN rs.occs}

NextDue(rs) ==
  LET new == {c \in Due(rs) : rs.states[c].reps = 0}
  IN IF Due(rs) = {} THEN {Nobody}
     ELSE IF new = {} THEN Due(rs)
     ELSE {c \in new : \A d \in new : rs.states[c].due <= rs.states[d].due}

\* Mutant: the surface never remembers its card.
ForgetActive(rs, active) == NextDue(rs)

ActiveDueCard(rs, active) == IF active \in Due(rs) THEN {active} ELSE NextDue(rs)

\* renderReviewView: a reveal belongs to the card it was made on.
ReviewScreen(r, c) ==
  [active |-> c, shown |-> IF c = Nobody THEN r.shown ELSE c,
   revealed |-> r.revealed /\ (c = Nobody \/ c = r.shown)]

\* renderPracticeView, syncPracticeCard.
PracticeScreen(p, c) ==
  IF p.card = c THEN p ELSE [p EXCEPT !.card = c, !.revealed = FALSE]

\* rerenderApp after a handler left the rows rs, the view v and the two surfaces r and p.
Render(rs, v, r, p) ==
  /\ rows' = rs
  /\ view' = v
  /\ IF v \in {"review", "practice"}
     THEN \E c \in ActiveDueCard(rs, r.active) :
            /\ review' = IF v = "review" THEN ReviewScreen(r, c) ELSE [r EXCEPT !.active = c]
            /\ practice' = IF v = "practice" THEN PracticeScreen(p, c) ELSE p
     ELSE review' = r /\ practice' = p

-----------------------------------------------------------------------------
(***************************************************************************)
(* Saving a selection: the item of that word is joined if there is one,    *)
(* the occurrence of that place too, and an item has one card, archived or *)
(* not, made with the first save.                                          *)
(***************************************************************************)
CardsFor(rs, i) == {c \in DOMAIN rs.cards : rs.cards[c].item = i}
InReview(rs, i) == {c \in CardsFor(rs, i) : rs.cards[c].archived = 0}
OccurrencesOf(rs, i) == {o \in DOMAIN rs.occs : rs.occs[o].item = i}

NewCard(i, o) == [item |-> i, occ |-> o, archived |-> 0]

\* rs with new cards, due at once.
WithCards(rs, cards) ==
  [rs EXCEPT !.cards = Over(cards, @),
             !.states = Over([k \in DOMAIN cards |-> [reps |-> 0, due |-> now]], @)]

ItemsFor(w) ==
  LET known == {i \in DOMAIN rows.items : rows.items[i].word = w}
  IN IF known = {} THEN {made.items + 1} ELSE known

OccurrencesFor(i, p) ==
  LET known == {o \in OccurrencesOf(rows, i) : rows.occs[o].place = p}
  IN IF known = {} THEN {made.occs + 1} ELSE known

SavedWith(w, p, m, i, o) ==
  [rows EXCEPT !.items = Over(@, Row(i, [word |-> w, meaning |-> m, edits |-> 0])),
               !.occs = Over(@, Row(o, [item |-> i, place |-> p]))]

\* openCapture: the form opens for a line of an approved transcript.
CaptureOffered(p) == view = "player" /\ p \in Approved

\* saveSelectionWithReceipt; the toast of the capture before it is replaced.
Capture(w, p, m) ==
  /\ CaptureOffered(p)
  /\ \E i \in ItemsFor(w) : \E o \in OccurrencesFor(i, p) :
       LET saved == SavedWith(w, p, m, i, o)
           k == made.cards + 1
           makes == CardsFor(rows, i) = {}
           after == IF makes THEN WithCards(saved, Row(k, NewCard(i, o))) ELSE saved
           newItem == i \notin DOMAIN rows.items
           newOcc == o \notin DOMAIN rows.occs
       IN /\ i \in ItemIds /\ o \in OccIds /\ (makes => k \in CardIds)
          /\ made' = [made EXCEPT !.items = IF newItem THEN i ELSE @,
                                  !.occs = IF newOcc THEN o ELSE @,
                                  !.cards = IF makes THEN k ELSE @]
          /\ toast' = [item |-> i, occ |-> o, newItem |-> newItem, newOcc |-> newOcc,
                       card |-> IF makes THEN k ELSE Nobody,
                       was |-> after.items[i], count |-> Cardinality(OccurrencesOf(after, i))]
          /\ Render(after, view, review, practice)
  /\ UNCHANGED <<audit, now, file, form>>

Unstudied(rs, c) ==
  /\ c \in DOMAIN rs.cards /\ rs.cards[c].archived = 0
  /\ c \in DOMAIN rs.states /\ rs.states[c].reps = 0
  /\ \A e \in rs.events \cup rs.attempts : e.card # c

OnScreen == {review.active, review.shown, practice.card}

\* Mutants: the undo looks at the item only, or not at what was typed since.
UndoStudied(t) ==
  /\ t.item \in DOMAIN rows.items /\ rows.items[t.item] = t.was
  /\ Cardinality(OccurrencesOf(rows, t.item)) = t.count
  /\ t.occ \in DOMAIN rows.occs
UndoEdited(t) ==
  /\ t.item \in DOMAIN rows.items
  /\ t.occ \in DOMAIN rows.occs
  /\ \A c \in DOMAIN rows.cards \ {t.card} :
       rows.cards[c].occ # t.occ /\ ~(t.newItem /\ rows.cards[c].item = t.item)
  /\ t.card # Nobody => Unstudied(rows, t.card) /\ t.card \notin OnScreen

CanUndo(t) ==
  /\ t.item \in DOMAIN rows.items /\ rows.items[t.item] = t.was
  /\ Cardinality(OccurrencesOf(rows, t.item)) = t.count
  /\ t.occ \in DOMAIN rows.occs
  /\ \A c \in DOMAIN rows.cards \ {t.card} :
       rows.cards[c].occ # t.occ /\ ~(t.newItem /\ rows.cards[c].item = t.item)
  /\ t.card # Nobody => Unstudied(rows, t.card) /\ t.card \notin OnScreen

Undone(t) ==
  [rows EXCEPT !.cards = Without(@, {t.card}), !.states = Without(@, {t.card}),
               !.occs = Without(@, {t.occ}),
               !.items = IF t.newItem THEN Without(@, {t.item}) ELSE @]

\* showSaveToast: Undo is offered for what the save made.
UndoOffered(t) == t.newItem \/ t.newOcc

\* The toast's Undo button; it is replaced by "Removed" or "Can't undo".
Undo ==
  /\ toast # NoToast
  /\ Render(IF UndoOffered(toast) /\ CanUndo(toast) THEN Undone(toast) ELSE rows,
            view, review, practice)
  /\ toast' = NoToast
  /\ UNCHANGED <<audit, made, now, file, form>>

ToastExpires ==
  /\ toast # NoToast
  /\ toast' = NoToast
  /\ UNCHANGED <<rows, audit, made, now, view, review, practice, file, form>>

-----------------------------------------------------------------------------
\* renderSavedView: an item's toggle takes it out of review, or puts it there.
Toggle(i) == IF InReview(rows, i) # {} THEN "off" ELSE "on"

\* CaptureService.archiveCards.
Archived(rs, off) ==
  [rs EXCEPT !.cards = [c \in DOMAIN @ |->
     IF c \in off THEN [@[c] EXCEPT !.archived = now + 1] ELSE @[c]]]

\* The Saved view: the review toggle, off and on, for one item or for all that lack a card.
TakeOut(i) ==
  LET off == InReview(rows, i)
  IN /\ view = "saved" /\ Toggle(i) = "off"
     /\ Render(Archived(rows, off), view, [review EXCEPT !.active = IF @ \in off THEN Nobody ELSE @], practice)
     /\ UNCHANGED <<audit, made, now, toast, file, form>>

Earliest(ids) == CHOOSE k \in ids : \A l \in ids : k <= l

\* The card of i that was archived last.
LastArchived(i) ==
  Earliest({c \in CardsFor(rows, i) :
              \A d \in CardsFor(rows, i) : rows.cards[d].archived <= rows.cards[c].archived})

\* CaptureService.reactivate: the card archived last comes back with its schedule.
Reactivated(rs, back) ==
  [rs EXCEPT !.cards = [c \in DOMAIN @ |->
     IF c \in back THEN [@[c] EXCEPT !.archived = 0] ELSE @[c]]]

\* An item without a card gets one, of its first occurrence.
AddToReview(S) ==
  LET lacking == {i \in S : Toggle(i) = "on"}
      back == {LastArchived(i) : i \in {j \in lacking : CardsFor(rows, j) # {}}}
      fresh == {i \in lacking : CardsFor(rows, i) = {} /\ OccurrencesOf(rows, i) # {}}
      last == made.cards + Cardinality(fresh)
  IN /\ view = "saved" /\ lacking # {} /\ last <= MaxCards
     /\ \E for \in Bijection(made.cards + 1 .. last, fresh) :
          LET first(k) == Earliest(OccurrencesOf(rows, for[k]))
              new == [k \in DOMAIN for |-> NewCard(for[k], first(k))]
          IN Render(WithCards(Reactivated(rows, back), new), view, review, practice)
     /\ made' = [made EXCEPT !.cards = last]
     /\ UNCHANGED <<audit, now, toast, file, form>>

\* renderMeaningLine and renderAddMeaning, in Saved and on the revealed card.
MeaningOffered(i) ==
  view = "saved" \/ (view = "review" /\ review.revealed /\ review.active \in InReview(rows, i))

\* setSavedItemMeaning; a re-save of the same meaning is none.
SetMeaning(i, m) ==
  /\ MeaningOffered(i)
  /\ m # rows.items[i].meaning
  /\ rows.items[i].edits < MaxEdits
  /\ Render([rows EXCEPT !.items[i] = [word |-> @.word, meaning |-> m, edits |-> @.edits + 1]],
            view, review, practice)
  /\ UNCHANGED <<audit, made, now, toast, file, form>>

-----------------------------------------------------------------------------
\* Navigation, the clock and the wake timer of the two learning surfaces.
GoTo(v) ==
  /\ v # view
  /\ Render(rows, v, review, practice)
  /\ UNCHANGED <<audit, made, now, toast, file, form>>

Tick ==
  /\ now < MaxNow
  /\ now' = now + 1
  /\ UNCHANGED <<rows, audit, made, view, review, practice, toast, file, form>>

Wake ==
  /\ view \in {"review", "practice"}
  /\ Render(rows, view, review, practice)
  /\ UNCHANGED <<audit, made, now, toast, file, form>>

\* What is on screen, with its controls.
CardInReview == view = "review" /\ review.active # Nobody
CardInPractice == view = "practice" /\ practice.card # Nobody

\* The button, and handleReviewShortcut's Space.
ToggleReveal ==
  /\ CardInReview
  /\ Render(rows, view, [review EXCEPT !.revealed = ~@], practice)
  /\ UNCHANGED <<audit, made, now, toast, file, form>>

RevealAnswer ==
  /\ CardInPractice /\ ~practice.revealed
  /\ Render(rows, view, review, [practice EXCEPT !.revealed = TRUE])
  /\ UNCHANGED <<audit, made, now, toast, file, form>>

SetMode(m) ==
  /\ view = "practice" /\ m # practice.mode
  /\ Render(rows, view, review, [practice EXCEPT !.mode = m])
  /\ UNCHANGED <<audit, made, now, toast, file, form>>

-----------------------------------------------------------------------------
(***************************************************************************)
(* Grading.  The scheduler (ts-fsrs) moves the card on to a later due date *)
(* of its choice; the event goes to the active history and to the audit.   *)
(***************************************************************************)
Scheduled(rs, c, n, due) ==
  [rs EXCEPT !.states[c] = [reps |-> @.reps + 1, due |-> due],
             !.events = @ \cup {[id |-> n, card |-> c]}]

\* practiceContractFor: every mode but Speaking has an answer to be graded against.
HasContract == practice.mode # "speaking"

\* rateReviewCard, by button or key, once the answer is revealed.
Rate ==
  LET n == made.acts + 1
      c == review.shown
  IN /\ CardInReview /\ review.revealed
     /\ c \in DOMAIN rows.cards \cap DOMAIN rows.states /\ n \in Acts
     /\ \E due \in {now + 1, now + 2} :
          Render(Scheduled(rows, c, n, due), view,
                 [review EXCEPT !.active = Nobody, !.revealed = FALSE], practice)
     /\ audit' = [audit EXCEPT !.events = @ \cup {[id |-> n, card |-> c]}]
     /\ made' = [made EXCEPT !.acts = n]
     /\ UNCHANGED <<now, toast, file, form>>

\* Mutant: the reveal is not looked at.
GradedAnyway(c, answer) == answer

\* recordPracticeAttempt: an answer given after a reveal is a fail.
GradedAs(c, answer) ==
  IF practice.revealed /\ practice.card = c /\ answer # "skipped" THEN "fail" ELSE answer

\* PracticeService.submitAttempt; a skip has no rating and leaves the schedule.
Attempted(rs, c, n, result) ==
  [rs EXCEPT !.attempts = @ \cup {[id |-> n, card |-> c, result |-> result,
                                    link |-> IF result = "skipped" THEN 0 ELSE n]}]

\* submitPracticeAttempt, submitSentenceBuilderAttempt, Skip.
Submit(answer) ==
  LET n == made.acts + 1
  IN /\ CardInPractice /\ HasContract /\ n \in Acts
     /\ \E c \in ActiveDueCard(rows, review.active) :
          /\ c # Nobody
          /\ LET result == GradedAs(c, answer)
             IN \E due \in {now + 1, now + 2} :
                  LET base == IF result = "skipped" THEN rows ELSE Scheduled(rows, c, n, due)
                      after == Attempted(base, c, n, result)
                  IN /\ result = "skipped" => due = now + 1
                     /\ Render(after, view, [review EXCEPT !.active = Nobody],
                               [practice EXCEPT !.card = Nobody, !.revealed = FALSE])
                     /\ audit' = [events |-> audit.events \cup after.events,
                                  attempts |-> audit.attempts \cup after.attempts]
     /\ made' = [made EXCEPT !.acts = n]
     /\ UNCHANGED <<now, toast, file, form>>

-----------------------------------------------------------------------------
(***************************************************************************)
(* Export and restore.  The file holds the active rows only; its integrity *)
(* hash refuses any other content.  A merge keeps rows the file lacks and  *)
(* takes the file's where both have one; a replacement keeps the file's    *)
(* only.  The audit keeps everything either way.                           *)
(***************************************************************************)
Export ==
  /\ view = "export" /\ file # ExportOf(rows)
  /\ file' = ExportOf(rows)
  /\ UNCHANGED <<rows, audit, made, now, view, review, practice, toast, form>>

\* Outside the page, the file loses its history.
FileDamaged ==
  /\ file.content # NoRows
  /\ file' = [file EXCEPT !.content.events = {}, !.content.attempts = {}]
  /\ file' # file
  /\ UNCHANGED <<rows, audit, made, now, view, review, practice, toast, form>>

\* Mutant of Verified: the hash is not recomputed.
ParsedOnly(f) == TRUE

\* validateLearnerExportManifest: the content is what the hash was made of.
Verified(f) == f.content = f.hashed

\* The file is read into the form; if it is refused, nothing is left to confirm.
Preview ==
  /\ view = "export" /\ file # NoFile
  /\ form' = IF Verified(file) THEN [wire |-> file, open |-> TRUE, mode |-> "none", acked |-> {}]
             ELSE [form EXCEPT !.wire = file, !.open = FALSE]
  /\ form' # form
  /\ UNCHANGED <<rows, audit, made, now, view, review, practice, toast, file>>

\* Mutant of ClearPreview: the pasted text goes, the preview made from it stays.
ClearInputOnly ==
  /\ view = "export" /\ form # NoForm
  /\ form' = [form EXCEPT !.wire = NoFile]
  /\ UNCHANGED <<rows, audit, made, now, view, review, practice, toast, file>>

\* clearRestorePreview, on any edit of the pasted text.
ClearPreview ==
  /\ view = "export" /\ form # NoForm
  /\ form' = NoForm
  /\ UNCHANGED <<rows, audit, made, now, view, review, practice, toast, file>>

\* Replacing is offered when there is something to replace.
ModesOffered == {"merge"} \cup (IF rows.items # NoRows THEN {"replace-active"} ELSE {})

ChooseMode(m) ==
  /\ view = "export" /\ form.open /\ form.mode # m /\ m \in ModesOffered
  /\ form' = [form EXCEPT !.mode = m]
  /\ UNCHANGED <<rows, audit, made, now, view, review, practice, toast, file>>

Acknowledge ==
  /\ view = "export" /\ form.open
  /\ form' = [form EXCEPT !.acked = IF form.mode = "replace-active" THEN Warnings ELSE {"privacy"}]
  /\ form' # form
  /\ UNCHANGED <<rows, audit, made, now, view, review, practice, toast, file>>

\* planLearnerRestore: the rows after the restore of c.
Restored(c, mode) ==
  IF mode = "replace-active" THEN c
  ELSE [items |-> Over(c.items, rows.items), occs |-> Over(c.occs, rows.occs),
        cards |-> Over(c.cards, rows.cards), states |-> Over(c.states, rows.states),
        events |-> c.events \cup rows.events, attempts |-> c.attempts \cup rows.attempts]

\* requireRef: what c brings in refers to rows that will be there.
ReferencesHold(c, after) ==
  /\ \A o \in DOMAIN c.occs : c.occs[o].item \in DOMAIN after.items
  /\ \A k \in DOMAIN c.cards :
       /\ c.cards[k].item \in DOMAIN after.items
       /\ c.cards[k].occ \in DOMAIN after.occs
       /\ after.occs[c.cards[k].occ].item = c.cards[k].item
  /\ DOMAIN c.states \subseteq DOMAIN after.cards
  /\ \A e \in c.events \cup c.attempts : e.card \in DOMAIN after.cards
  /\ \A a \in c.attempts : a.link = 0 \/ \E e \in after.events : e.id = a.link /\ e.card = a.card

\* Mutant of RetainedAudit: a restore replaces the audit by the active history.
AuditOf(after) == [events |-> after.events, attempts |-> after.attempts]

RetainedAudit(after) ==
  [events |-> audit.events \cup after.events, attempts |-> audit.attempts \cup after.attempts]

\* The button waits for one mode and for every warning.
CanRestore ==
  /\ form.open /\ form.mode # "none"
  /\ "privacy" \in form.acked /\ (form.mode = "replace-active" => "overwrites" \in form.acked)

\* confirmRestore without a service, against the rows of now; clearStaleLearnerUi.
ConfirmRestore ==
  /\ view = "export" /\ CanRestore
  /\ LET c == form.wire.content
         after == Restored(c, form.mode)
     IN /\ ReferencesHold(c, after)
        /\ audit' = RetainedAudit(after)
        /\ Render(after, view, NothingShown, [practice EXCEPT !.card = Nobody, !.revealed = FALSE])
  /\ form' = NoForm
  /\ UNCHANGED <<made, now, toast, file>>

-----------------------------------------------------------------------------
StudyNext ==
  \/ \E w \in Words, p \in Places, m \in {Blank} \cup Meanings : Capture(w, p, m)
  \/ Undo \/ ToastExpires
  \/ \E i \in DOMAIN rows.items : TakeOut(i) \/ AddToReview({i})
  \/ AddToReview(DOMAIN rows.items)
  \/ \E i \in DOMAIN rows.items, m \in {Blank} \cup Meanings : SetMeaning(i, m)
  \/ \E v \in Views : GoTo(v)
  \/ Tick \/ Wake
  \/ ToggleReveal \/ RevealAnswer \/ (\E m \in Modes : SetMode(m))
  \/ Rate \/ (\E answer \in Results : Submit(answer))
  \/ Export \/ FileDamaged \/ Preview \/ ClearPreview
  \/ (\E m \in {"merge", "replace-active"} : ChooseMode(m)) \/ Acknowledge \/ ConfirmRestore

StudySpec == StudyInit /\ [][StudyNext]_studyVars

-----------------------------------------------------------------------------
\* Every row's parents are there, and history has its card and the event it is linked to.
RowsLinked ==
  /\ \A o \in DOMAIN rows.occs : rows.occs[o].item \in DOMAIN rows.items
  /\ \A c \in DOMAIN rows.cards :
       /\ rows.cards[c].occ \in DOMAIN rows.occs
       /\ rows.occs[rows.cards[c].occ].item = rows.cards[c].item
  /\ DOMAIN rows.states = DOMAIN rows.cards
  /\ \A e \in rows.events \cup rows.attempts : e.card \in DOMAIN rows.cards

\* A schedule never runs ahead of the history it came from, whatever was restored over it.
ScheduleBacked ==
  \A c \in DOMAIN rows.states : rows.states[c].reps <= Cardinality({e \in rows.events : e.card = c})

\* studyActionInstants counts a linked event and attempt once.
StudyActions ==
  LET ids == {e.id : e \in rows.events}
      linked == {a.link : a \in rows.attempts} \cap ids
  IN Cardinality({e \in rows.events : e.id \notin linked}) + Cardinality(rows.attempts)

CountedOnce ==
  StudyActions = Cardinality({e.id : e \in rows.events} \cup {a.id : a \in rows.attempts})

\* No grading is ever lost from the audit, and what is active is in it.
EveryGradeAudited ==
  /\ rows.events \subseteq audit.events /\ rows.attempts \subseteq audit.attempts
  /\ {e.id : e \in audit.events} \cup {a.id : a \in audit.attempts} = 1 .. made.acts

(***************************************************************************)
(* Captures, undos, gradings and restores in any order leave no dangling   *)
(* row, no schedule ahead of its history, no study action counted twice    *)
(* and no grading outside the audit (capture.ts:56-93, restorePlanner.ts,  *)
(* localStore.ts:213-243, model.ts:4600-4616).                             *)
(***************************************************************************)
StudySound == StudyTypeOK /\ RowsLinked /\ ScheduleBacked /\ CountedOnce /\ EveryGradeAudited

(***************************************************************************)
(* An Undo takes back the capture it was offered for and nothing the       *)
(* learner did since: no meaning typed later, no graded card, no other     *)
(* occurrence, no card the learner is looking at.                          *)
(***************************************************************************)
UndoStep == toast # NoToast /\ toast' = NoToast /\ rows' # rows
UndoLosesNothingElse ==
  [][UndoStep =>
       /\ \A i \in DOMAIN rows.items \ DOMAIN rows'.items :
            rows.items[i].edits = 0 /\ OccurrencesOf(rows, i) = {toast.occ}
       /\ DOMAIN rows.occs \ DOMAIN rows'.occs = {toast.occ}
       /\ \A c \in DOMAIN rows.cards \ DOMAIN rows'.cards :
            /\ c = toast.card
            /\ \A e \in rows.events \cup rows.attempts : e.card # c
            /\ ~(view = "review" /\ c = review.shown) /\ ~(view = "practice" /\ c = practice.card)
     ]_studyVars

(***************************************************************************)
(* A grading is for the card on screen, and only what was done on that     *)
(* card counts: no pass after its answer was revealed in Practice, no      *)
(* rating in Review before it was (model.ts:4320-4325, review.ts:91).      *)
(***************************************************************************)
Graded == made'.acts # made.acts
GradesWhatIsShown ==
  [][Graded =>
       \A e \in rows'.events \cup rows'.attempts : e.id = made'.acts =>
         /\ e.card = IF view = "review" THEN review.shown ELSE practice.card
         /\ view = "review" => review.revealed
         /\ "result" \in DOMAIN e /\ practice.revealed => e.result \notin Passes]_studyVars
=============================================================================
