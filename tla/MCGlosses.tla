------------------------------ MODULE MCGlosses ------------------------------
(***************************************************************************)
(* Instances of Glosses for TLC.  A scope is chosen first: what every      *)
(* small dictionary answers, a dictionary file that comes and goes, or     *)
(* Morfeusz being loaded.                                                  *)
(***************************************************************************)
EXTENDS Glosses

CONSTANTS kot, Kot, dom, mam, N, V

VARIABLE glossScope

WordLemmas == {kot, Kot, dom, mam}
WordKey == [l \in WordLemmas |-> IF l = Kot THEN kot ELSE l]

Gloss(upos) == [kind |-> "gloss", upos |-> upos, of |-> Nil]
FormOf(lemma, upos) == [kind |-> "form-of", upos |-> upos, of |-> lemma]

\* Up to two rows of any sort for one word, some for the words it may be a form of.
KotRows ==
  LET row == {Gloss(N), Gloss(V), Gloss(Nil), FormOf(dom, N), FormOf(mam, V)}
  IN  UNION {[1 .. n -> row] : n \in 0 .. 2}
DomRows == {<<>>, <<Gloss(V), Gloss(N)>>, <<FormOf(mam, N)>>}
MamRows == {<<>>, <<Gloss(N)>>, <<FormOf(Kot, V)>>}

SmallDictionaries ==
  {[l \in {kot, dom, mam} |-> CASE l = kot -> r [] l = dom -> s [] l = mam -> t] :
     r \in KotRows, s \in DomRows, t \in MamRows}
TwoDictionaries ==
  {[l \in {kot, dom, mam} |-> IF l = kot THEN r ELSE <<>>] : r \in {<<Gloss(N)>>, <<>>}}

\* One or two readings of the word, and three of which one is `dom`.
SomeReadings ==
  LET As(l, u) == [lemma |-> l, upos |-> u]
      first == {As(kot, N), As(kot, Nil), As(Kot, V)}
      other == first \cup {As(dom, N), As(mam, V)}
  IN  {<<r>> : r \in first} \cup {<<r, t>> : r \in first, t \in other}
        \cup {<<As(kot, N), As(dom, Nil), t>> : t \in other}

InGlossScope ==
  CASE glossScope = "answers" ->
         /\ dictMode = "enabled" /\ now = 0 /\ engine = "not-loaded" /\ since = 0
    [] glossScope = "file" ->
         /\ dictFile \in TwoDictionaries \cup {Missing, Broken} /\ engine = "not-loaded"
    [] glossScope = "engine" ->
         /\ dictMode = "disabled" /\ dictFile = Missing /\ now = 0

GlossMCInit == glossScope \in {"answers", "file", "engine"} /\ GlossInit /\ InGlossScope
\* The file comes and goes while one word is looked up again and again.
FileNext ==
  \/ \E content \in TwoDictionaries \cup {Missing, Broken} : ChangeFile(content)
  \/ Tick \/ Warm \/ AskMeaning(<<[lemma |-> kot, upos |-> N]>>)

GlossMCNext ==
  /\ glossScope = "answers" => reply = NoReply
  /\ UNCHANGED glossScope
  /\ IF glossScope = "file" THEN FileNext ELSE GlossNext
  /\ InGlossScope'
  /\ glossScope = "answers" => dictFile' = dictFile
GlossMCSpec == GlossMCInit /\ [][GlossMCNext]_<<glossVars, glossScope>>
=============================================================================
