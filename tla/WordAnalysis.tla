---------------------------- MODULE WordAnalysis ----------------------------
(***************************************************************************)
(* The Player's words: the word analysis of a cue and the meanings of its  *)
(* words (morphologyPanel.ts over morphologyClient.ts and glossClient.ts), *)
(* and the capture form with its dictionary suggestion (ui/capture.ts,     *)
(* views/player/transcript.ts).                                            *)
(*                                                                         *)
(* Analyses, lookups, suggestions and paired saves are answered late and   *)
(* in any order, while the learner goes to another cue, word, video, view  *)
(* or service.  An answer counts only for what it was asked about.         *)
(*                                                                         *)
(* A cue's words are the positions Words, the same for every cue; what the *)
(* service says of a word is the same whenever it answers.                 *)
(***************************************************************************)
EXTENDS Naturals, FiniteSets, Functions

CONSTANTS
  Nil,
  Cues, Words,
  Odd,         \* words whose lemma cannot be looked up
  Contexts,    \* a media item with a target track
  TrackOf,     \* the context a cue is shown in
  Chunks,      \* how many requests the analysis of a cue takes
  Services,     \* exact service origins
  MaxPairs,    \* bound: pairings of the page
  MaxAnalyses, \* bound: generations of the panel
  MaxCaptures, \* bound: times a capture form is opened
  MaxLoads     \* bound: changes of the context

ASSUME WordAssumption ==
  /\ Words \subseteq Nat /\ Odd \subseteq Words
  /\ \E w \in Words : \A v \in Words : w <= v
  /\ Nil \notin Cues
  /\ TrackOf \in [Cues -> Contexts] /\ Chunks \in [Cues -> Nat]
  /\ MaxPairs \in Nat /\ MaxAnalyses \in Nat /\ MaxCaptures \in Nat /\ MaxLoads \in Nat

VARIABLES
  learner,     \* where the learner is: context and view; how often the context changed
  link,        \* the transport of the page (Nil: unpaired) and how many there were
  panel,       \* the panel's state (PanelState)
  analyses,    \* analyses under way
  lookups,     \* gloss requests under way
  form,        \* the capture form
  opened,      \* how often one was opened: a selection is one object
  suggestions, \* suggestions under way, each for one opening of the form
  saves,       \* paired saves under way
  receipt,     \* the save the toast offers to undo
  askedLast        \* history variable: the cue asked for last in the panel's context

captureVars == <<form, opened, suggestions, saves, receipt>>
wordVars == <<learner, link, panel, analyses, lookups, captureVars, askedLast>>

-----------------------------------------------------------------------------
(***************************************************************************)
(* The panel's state.                                                      *)
(***************************************************************************)
FirstWord == CHOOSE w \in Words : \A v \in Words : w <= v

\* A new state, and the reset of stateFor when the context changed.
PanelFor(context, gen) ==
  [gen |-> gen, context |-> context, cache |-> {}, current |-> Nil, word |-> Nil,
   pending |-> Nil, failed |-> FALSE, glosses |-> <<>>]

\* stateFor, which every render of the panel and every operation calls first.
StateFor(p, context) ==
  IF p.context = context THEN p ELSE PanelFor(context, p.gen + 1)

State == StateFor(panel, learner.context)
AskedNow == IF panel.context = learner.context THEN askedLast ELSE Nil

\* Mutant of AnswerCounts: the generation is not compared.
AnyGeneration(a) == a.context = learner.context /\ a.context = panel.context

\* isCurrent of an analysis.
AnswerCounts(a) ==
  /\ a.gen = panel.gen
  /\ a.context = learner.context

\* captureLocalServiceTransport of the page: Nil when it is not paired.
Transport == link.transport
Live(t) == t # Nil /\ t = Transport

-----------------------------------------------------------------------------
(***************************************************************************)
(* Meanings.                                                               *)
(***************************************************************************)
GlossKeys == [cue: Cues, word: Words, origin: Services]
GlossStates == {"loading", "available", "no-entry", "unavailable"}

\* What the panel's cache says of a key.
GlossOf(p, key) == IF key \in DOMAIN p.glosses THEN p.glosses[key] ELSE Nil

WithGloss(p, key, gloss) ==
  [p EXCEPT !.glosses = [k \in DOMAIN @ \cup {key} |-> IF k = key THEN gloss ELSE @[k]]]

Marker(p) == [state |-> "loading", by |-> p.gen]
Settled(state) == [state |-> state, by |-> 0]

\* A settled gloss that is shown, but asked for again.
Transient(gloss) == gloss = Nil \/ gloss.state = "unavailable"

\* glossForToken: does it send a request, and what is the panel after it?
Requests(p, key) == key.word \notin Odd /\ Transient(GlossOf(p, key))
Looked(p, key) ==
  IF Requests(p, key) THEN WithGloss(p, key, Marker(p))
  ELSE IF key.word \in Odd /\ Transient(GlossOf(p, key)) THEN WithGloss(p, key, Settled("no-entry"))
  ELSE p
LookupsAfter(p, key) ==
  IF Requests(p, key)
  THEN lookups \cup {[key |-> key, marker |-> Marker(p), context |-> p.context, transport |-> Transport]}
  ELSE lookups

\* The word the panel has selected in a view of the service (loadSelectedGloss).
SelectedKey(p) ==
  IF p.current # Nil /\ p.current.reason = "none" /\ p.word # Nil /\ Transport # Nil
  THEN [cue |-> p.current.cue, word |-> p.word, origin |-> Transport.origin]
  ELSE Nil

\* The panel goes on as p, and the gloss of its selected word is loaded.
ShowWord(p) ==
  LET key == SelectedKey(p)
  IN /\ panel' = IF key = Nil THEN p ELSE Looked(p, key)
     /\ lookups' = IF key = Nil THEN lookups ELSE LookupsAfter(p, key)

-----------------------------------------------------------------------------
(***************************************************************************)
(* Word analysis.                                                          *)
(***************************************************************************)
Shown(p, view, w) ==
  [p EXCEPT !.current = view, !.word = w, !.pending = Nil, !.failed = FALSE]

\* analyseCueMorphology until it first waits; a cached answer is shown at once.
Analyse(c) ==
  LET p == [State EXCEPT !.gen = @ + 1]
      cached == Transport # Nil /\ <<c, Transport.origin>> \in p.cache
      word == IF p.word = Nil THEN FirstWord ELSE p.word
      chunks == IF Transport = Nil THEN 0 ELSE Chunks[c]
  IN /\ learner.view = "player" /\ TrackOf[c] = learner.context
     /\ panel.gen < MaxAnalyses
     /\ askedLast' = c
     /\ \/ /\ cached
           /\ ShowWord(Shown(p, [cue |-> c, reason |-> "none"], word))
           /\ UNCHANGED analyses
        \/ /\ ~cached
           /\ panel' = [p EXCEPT !.pending = c, !.failed = FALSE]
           /\ analyses' = analyses \cup
                {[cue |-> c, gen |-> p.gen, context |-> p.context, transport |-> Transport,
                  left |-> chunks, reason |-> IF Transport = Nil THEN "not-paired" ELSE "none"]}
           /\ UNCHANGED lookups
     /\ UNCHANGED <<learner, link, captureVars>>

\* A request ends: a transport that is no longer the page's throws, a 401 ends the
\* pairing, any other refusal or failure has a reason of its own.
Answers(t) ==
  IF Live(t) THEN {"none", "service-unreachable", "not-paired"} ELSE {"service-unreachable"}
NoPair == [link EXCEPT !.transport = Nil]
LinkAfter(t, reason) == IF Live(t) /\ reason = "not-paired" THEN NoPair ELSE link

\* One chunk of words is answered; a stale analysis stops here.
ChunkAnswered(a) ==
  /\ a.left > 0 /\ a.reason = "none"
  /\ \E reason \in Answers(a.transport) :
       /\ link' = LinkAfter(a.transport, reason)
       /\ analyses' = (analyses \ {a}) \cup
            (IF AnswerCounts(a) THEN {[a EXCEPT !.left = @ - 1, !.reason = reason]} ELSE {})
  /\ UNCHANGED <<learner, panel, lookups, captureVars, askedLast>>

\* Every word is analysed, by the service or, as a whole, by the browser's estimate.
AnalysisShown(a) ==
  LET view == [cue |-> a.cue, reason |-> a.reason]
      p == Shown(panel, view, FirstWord)
  IN /\ a.left = 0 \/ a.reason # "none"
     /\ analyses' = analyses \ {a}
     /\ IF AnswerCounts(a)
        THEN ShowWord(IF a.reason # "none" THEN p
                      ELSE [p EXCEPT !.cache = @ \cup {<<a.cue, a.transport.origin>>}])
        ELSE UNCHANGED <<panel, lookups>>
     /\ UNCHANGED <<learner, link, captureVars, askedLast>>

\* The tokenizer or the browser's estimate throws.
AnalysisFails(a) ==
  /\ analyses' = analyses \ {a}
  /\ panel' = IF AnswerCounts(a)
              THEN [panel EXCEPT !.pending = Nil, !.current = Nil, !.failed = TRUE]
              ELSE panel
  /\ UNCHANGED <<learner, link, lookups, captureVars, askedLast>>

\* selectMorphologyToken.
SelectWord(w) ==
  /\ learner.view = "player" /\ State.current # Nil /\ w # State.word
  /\ ShowWord([State EXCEPT !.word = w])
  /\ askedLast' = AskedNow
  /\ UNCHANGED <<learner, link, analyses, captureVars>>

-----------------------------------------------------------------------------
(***************************************************************************)
(* The capture form.                                                       *)
(***************************************************************************)
Blank == [by |-> "nobody"]
Typed(id) == [by |-> "learner", id |-> id]
Suggested(c, w) == [by |-> "dictionary", cue |-> c, word |-> w]

\* word Nil: a phrase or a sentence.  clearSelection closes the form.
Closed == [id |-> 0, cue |-> Nil, word |-> Nil, meaning |-> Blank]

\* Mutant of StillOpen: the selection need not be the one the suggestion is for.
AnyForm(s, sel) == sel.id # 0 /\ sel.meaning = Blank /\ s.context = learner.context

\* stillOpen: the same selection, untouched, in the same context.
StillOpen(s, sel) == sel.id = s.id /\ sel.meaning = Blank /\ s.context = learner.context

\* What the panel knows of a cue: the view it shows, else a cached one.
KnownFrom(p, c) ==
  IF p.current # Nil /\ p.current.cue = c THEN p.current.reason
  ELSE IF \E o \in Services : <<c, o>> \in p.cache THEN "none"
  ELSE Nil

\* suggestMeaningForSelection for s, from a word the service analysed: its gloss is cached,
\* being looked up, or asked for; current is the form it may go to.
Suggest(s, p, current) ==
  LET key == [cue |-> s.cue, word |-> s.word, origin |-> Transport.origin]
      gloss == GlossOf(Looked(p, key), key)
  IN /\ panel' = Looked(p, key)
     /\ lookups' = LookupsAfter(p, key)
     /\ suggestions' = (suggestions \ {s}) \cup
          (IF gloss.state = "loading" THEN {[s EXCEPT !.waits = [key |-> key, marker |-> gloss]]}
           ELSE {})
     /\ form' = IF gloss.state = "available" /\ StillOpen(s, current)
                THEN [current EXCEPT !.meaning = Suggested(s.cue, s.word)]
                ELSE current

\* openCapture: a form that was open is replaced, its draft with it; a word without a
\* draft is looked up.
Open(sel) ==
  LET wanted == sel.word # Nil /\ sel.meaning = Blank /\ Transport # Nil
      rendered == wanted \/ learner.view = "player"
      p == IF rendered THEN State ELSE panel
      known == KnownFrom(p, sel.cue)
      s == [id |-> sel.id, cue |-> sel.cue, word |-> sel.word, context |-> p.context,
            transport |-> Transport, waits |-> Nil]
  IN /\ askedLast' = IF rendered THEN AskedNow ELSE askedLast
     /\ \/ /\ wanted /\ known = "none"
           /\ Suggest(s, p, sel)
        \/ /\ ~(wanted /\ known = "none")
           /\ form' = sel /\ panel' = p
           /\ suggestions' = suggestions \cup (IF wanted /\ known = Nil THEN {s} ELSE {})
           /\ UNCHANGED lookups

\* What the collect gestures select in a cue: a click on a word of a line or of the
\* subtitle overlay, a drag, and "Save sentence"; a shift-click grows the selection.
ClickedWords == Words
OverlayWords == Words
DraggedSpans == Words \cup {Nil}
SentenceSpan == {Nil}
Spans == ClickedWords \cup OverlayWords \cup DraggedSpans \cup SentenceSpan

OpenCapture(c, w) ==
  /\ learner.view = "player" /\ TrackOf[c] = learner.context
  /\ opened < MaxCaptures
  /\ opened' = opened + 1
  /\ Open([id |-> opened + 1, cue |-> c, word |-> w, meaning |-> Blank])
  /\ UNCHANGED <<learner, link, analyses, saves, receipt>>

\* The suggestion's word, which the panel does not know, is analysed by itself.
WordAnswered(s) ==
  /\ s.waits = Nil
  /\ \E reason \in Answers(s.transport) \cup {"unknown"} :
       /\ link' = LinkAfter(s.transport, reason)
       /\ IF reason = "none" /\ Live(s.transport)
          THEN Suggest(s, State, form) /\ askedLast' = AskedNow
          ELSE suggestions' = suggestions \ {s} /\ UNCHANGED <<panel, lookups, form, askedLast>>
  /\ UNCHANGED <<learner, analyses, opened, saves, receipt>>

\* isStale of a gloss request.
LookupCounts(l) ==
  /\ l.context = learner.context
  /\ GlossOf(panel, l.key) = l.marker

\* A gloss request ends; the suggestions that wait for it go on at once.
LookupAnswered(l) ==
  LET mine == {s \in suggestions : s.waits # Nil /\ s.waits = [key |-> l.key, marker |-> l.marker]}
      found == IF Live(l.transport) THEN {"available", "no-entry", "unavailable"} ELSE {"unavailable"}
  IN /\ \E state \in found, unauthorized \in BOOLEAN :
          /\ unauthorized => state = "unavailable" /\ Live(l.transport)
          /\ link' = IF unauthorized THEN NoPair ELSE link
          /\ panel' = IF LookupCounts(l) THEN WithGloss(panel, l.key, Settled(state)) ELSE panel
          /\ form' = IF /\ LookupCounts(l) /\ state = "available"
                        /\ \E s \in mine : StillOpen(s, form)
                     THEN [form EXCEPT !.meaning = Suggested(l.key.cue, l.key.word)] ELSE form
     /\ lookups' = lookups \ {l}
     /\ suggestions' = suggestions \ mine
     /\ UNCHANGED <<learner, analyses, opened, saves, receipt, askedLast>>

\* What the form's own handlers leave alone.
aroundForm == <<learner, link, panel, analyses, lookups, opened, suggestions, askedLast>>

\* setPendingMeaning, as the learner types or erases.
Type ==
  /\ form.id # 0 /\ form.meaning # Typed(form.id)
  /\ form' = [form EXCEPT !.meaning = Typed(form.id)]
  /\ UNCHANGED <<aroundForm, saves, receipt>>

EraseMeaning ==
  /\ form.meaning # Blank
  /\ form' = [form EXCEPT !.meaning = Blank]
  /\ UNCHANGED <<aroundForm, saves, receipt>>

Cancel ==
  /\ form.id # 0
  /\ form' = Closed
  /\ UNCHANGED <<aroundForm, saves, receipt>>

\* saveSelectionWithReceipt: a save becomes an operation while the form stays open, or,
\* without a service the page knows, is made at once; without its cue nothing is saved,
\* but the form closed.
Save ==
  /\ form.id # 0 /\ learner.view = "player"
  /\ \/ /\ TrackOf[form.cue] # learner.context
        /\ form' = Closed
        /\ UNCHANGED <<saves, receipt>>
     \/ /\ TrackOf[form.cue] = learner.context
        /\ saves' = saves \cup {form}
        /\ UNCHANGED <<form, receipt>>
     \/ /\ TrackOf[form.cue] = learner.context /\ Transport = Nil
        /\ form' = Closed /\ receipt' = form
        /\ UNCHANGED saves
  /\ UNCHANGED aroundForm

\* The paired save is recorded, whatever form is open now is closed; or it fails.
SaveSettles(sel) ==
  /\ saves' = saves \ {sel}
  /\ \/ form' = Closed /\ receipt' = sel
     \/ UNCHANGED <<form, receipt>>
  /\ UNCHANGED aroundForm

\* The toast's Undo succeeds: the form is open again, on the same selection and draft.
Undone ==
  /\ receipt # Nil /\ learner.context # Nil
  /\ receipt' = Nil
  /\ Open(receipt)
  /\ UNCHANGED <<learner, link, analyses, opened, saves>>

-----------------------------------------------------------------------------
(***************************************************************************)
(* Around the panel: the context, the view and the pairing.                *)
(***************************************************************************)

\* The context becomes c: shown in the Player, which renders the panel, or elsewhere.
GoTo(c, view) ==
  LET next == StateFor(panel, c)
  IN /\ learner.loads < MaxLoads
     /\ learner' = [learner EXCEPT !.context = c, !.view = view, !.loads = @ + 1]
     /\ panel' = IF view = "player" THEN next ELSE panel
     /\ askedLast' = IF view = "player" /\ next # panel THEN Nil ELSE askedLast

\* projectOpenedMedia: the form is closed.
SwitchMedia(c, view) ==
  /\ GoTo(c, view)
  /\ form' = Closed
  /\ UNCHANGED <<link, analyses, lookups, opened, suggestions, saves, receipt>>

\* jumpToOccurrence, from Saved: the form stays open.
Replay(c) ==
  /\ learner.view = "other"
  /\ GoTo(c, "player")
  /\ UNCHANGED <<link, analyses, lookups, captureVars>>

\* projectHydratedSnapshotIntoModel, in Settings, after a connection: the newest media of
\* the service, if any; the form stays.
LoadState(c) ==
  /\ learner.view = "other" /\ Transport # Nil
  /\ GoTo(c, "other")
  /\ UNCHANGED <<link, analyses, lookups, captureVars>>

\* setView, and the render that follows.
ChangeView ==
  /\ learner' = [learner EXCEPT !.view = IF @ = "player" THEN "other" ELSE "player"]
  /\ panel' = IF learner'.view = "player" THEN State ELSE panel
  /\ askedLast' = IF learner'.view = "player" THEN AskedNow ELSE askedLast
  /\ UNCHANGED <<link, analyses, lookups, captureVars>>

\* The page pairs, again or with another service; the transport it had is dead.
PairWith(o) ==
  /\ learner.view = "other" /\ link.pairs < MaxPairs
  /\ link' = [transport |-> [id |-> link.pairs + 1, origin |-> o], pairs |-> link.pairs + 1]
  /\ UNCHANGED <<learner, panel, analyses, lookups, captureVars, askedLast>>

Disconnect ==
  /\ learner.view = "other" /\ Transport # Nil
  /\ link' = NoPair
  /\ UNCHANGED <<learner, panel, analyses, lookups, captureVars, askedLast>>

-----------------------------------------------------------------------------
WordInit ==
  /\ \E c \in Contexts :
       /\ learner = [context |-> c, view |-> "player", loads |-> 0]
       /\ panel = PanelFor(c, 0)
  /\ link \in {[transport |-> Nil, pairs |-> 0]} \cup
              {[transport |-> [id |-> 1, origin |-> o], pairs |-> 1] : o \in Services}
  /\ analyses = {} /\ lookups = {}
  /\ form = Closed /\ opened = 0 /\ suggestions = {} /\ saves = {} /\ receipt = Nil
  /\ askedLast = Nil

WordNext ==
  \/ \E c \in Cues : Analyse(c)
  \/ \E a \in analyses : ChunkAnswered(a) \/ AnalysisShown(a) \/ AnalysisFails(a)
  \/ \E w \in Words : SelectWord(w)
  \/ \E c \in Cues, w \in Spans : OpenCapture(c, w)
  \/ \E s \in suggestions : WordAnswered(s)
  \/ \E l \in lookups : LookupAnswered(l)
  \/ Type \/ EraseMeaning \/ Cancel \/ Save
  \/ \E sel \in saves : SaveSettles(sel)
  \/ Undone
  \/ \E c \in Contexts \cup {Nil}, view \in {"player", "other"} : SwitchMedia(c, view)
  \/ \E c \in Contexts : Replay(c)
  \/ \E c \in Contexts \cup {Nil} : LoadState(c)
  \/ ChangeView
  \/ \E o \in Services : PairWith(o)
  \/ Disconnect

WordSpec == WordInit /\ [][WordNext]_wordVars

-----------------------------------------------------------------------------
(***************************************************************************)
(* Properties.                                                             *)
(***************************************************************************)
WordTypeOK ==
  /\ learner.context \in Contexts \cup {Nil}
  /\ panel.word \in Words \cup {Nil} /\ panel.pending \in Cues \cup {Nil}
  /\ \A k \in DOMAIN panel.glosses : k \in GlossKeys /\ panel.glosses[k].state \in GlossStates
  /\ \A a \in analyses : a.gen <= panel.gen /\ a.left \in Nat
  /\ form.id <= opened

\* Whatever answers late, the panel shows, or says it analyses, the cue the learner asked
\* for last in this video.
PanelShowsAsked ==
  /\ panel.pending # Nil => panel.pending = askedLast
  /\ panel.pending = Nil /\ panel.current # Nil => panel.current.cue = askedLast

\* The Meaning of the form is about the word that is being saved: typed for this very
\* opening of the form, or the dictionary's meaning of this very word.
MeaningIsOfWord ==
  form.meaning \in {Blank, Typed(form.id), Suggested(form.cue, form.word)}

\* What the Player says of words is about the words the learner chose.
WordsAreAsked == PanelShowsAsked /\ MeaningIsOfWord
=============================================================================
