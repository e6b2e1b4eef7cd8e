------------------------------- MODULE Glosses -------------------------------
(***************************************************************************)
(* The word services of the local service: the readings Morfeusz gives of  *)
(* a word (morphology.ts), and the meanings a dictionary file gives of     *)
(* those readings (gloss.ts over packages/language/src/glossStore.ts), as  *)
(* the browser accepts them (glossClient.ts).                              *)
(*                                                                         *)
(* A dictionary gives every lemma key its rows in order.  The file may     *)
(* come, go and be damaged while the service runs; it is looked for again  *)
(* only now and then.  Morfeusz is loaded once, on the first need.         *)
(***************************************************************************)
EXTENDS Naturals, Sequences, FiniteSets, SequencesExt

CONSTANTS
  Nil,
  Lemmas,          \* lemmas as they are spelled
  KeyOf,           \* their key: two lemmas may differ in letter case only
  Upos,            \* parts of speech
  Missing, Broken, \* no dictionary file, and one that cannot be read
  Dictionaries,    \* contents the dictionary file may have: the rows of every key
  Readings,        \* what Morfeusz may read a word as, the likeliest first
  MaxSenses,       \* senses asked for
  MaxForms,        \* form-of rows considered
  MaxAlternatives,
  Recheck,         \* the time a missing dictionary is not looked for again
  MaxTime,         \* bound: the clock
  MaxAsked         \* bound: analyses asked for

LemmaKeys == {KeyOf[l] : l \in Lemmas}

\* Where a meaning may come from.
Hops == {"lemma", "form-of", "form-of-text"}

\* A row explains its lemma or says which lemma it is a form of.
DictionaryRows ==
  [kind: {"gloss"}, upos: Upos \cup {Nil}, of: {Nil}]
    \cup [kind: {"form-of"}, upos: Upos \cup {Nil}, of: Lemmas]

NamedReadings == [lemma: Lemmas, upos: Upos \cup {Nil}]

ASSUME GlossAssumption ==
  /\ KeyOf \in [Lemmas -> LemmaKeys]
  /\ Dictionaries \subseteq [LemmaKeys -> Seq(DictionaryRows)]
  /\ \A rs \in Readings : rs \in Seq(NamedReadings) /\ rs # <<>>
  /\ {MaxSenses, MaxForms, MaxAlternatives, Recheck, MaxTime, MaxAsked} \subseteq Nat
  /\ MaxSenses > 0
  /\ Nil \notin Upos /\ Nil \notin Lemmas /\ Nil \notin Dictionaries
  /\ Nil \notin Hops \cup {"alternative"} /\ Nil \notin 0 .. MaxTime

VARIABLES
  dictFile,     \* what is at the configured path
  since,        \* history variable: when a good file came, Nil while there is none
  now,
  dictMode,     \* whether glosses are enabled
  opened,       \* the dictionary the service has open
  dictState,    \* the state it reports
  lastAttempt,  \* when it last tried to open one
  reply,        \* its last answer
  engine,       \* the state of Morfeusz
  waiting,      \* analyses that wait for it to be loaded
  analysed      \* how the answered ones ended

fileVars == <<dictFile, since, now>>
dictVars == <<dictMode, opened, dictState, lastAttempt, reply>>
engineVars == <<engine, waiting, analysed>>
glossVars == <<fileVars, dictVars, engineVars>>

-----------------------------------------------------------------------------
(***************************************************************************)
(* One lookup in an open dictionary.                                       *)
(***************************************************************************)
Fits(entry, upos) == upos # Nil /\ entry.upos = upos
SomeFits(entries, upos) == \E i \in 1 .. Len(entries) : Fits(entries[i], upos)

\* Positions from the first to the last, and the entries at them.
InOrder(positions) ==
  CHOOSE at \in [1 .. Cardinality(positions) -> positions] :
    \A m, n \in DOMAIN at : m < n => at[m] < at[n]
Those(entries, positions) ==
  LET at == InOrder(positions) IN [n \in DOMAIN at |-> entries[at[n]]]

\* At most so many, as LIMIT and slice do.
AtMost(entries, n) == SubSeq(entries, 1, IF Len(entries) < n THEN Len(entries) ELSE n)

\* Rows of the wanted part of speech come first, each in the order of the file.
MatchingFirst(entries, upos) ==
  LET fitting == {i \in DOMAIN entries : Fits(entries[i], upos)}
  IN  Those(entries, fitting) \o Those(entries, DOMAIN entries \ fitting)

RowsOf(d, lemma, kind) ==
  LET key == KeyOf[lemma]
      rows == d[key]
      named == [i \in DOMAIN rows |-> [key |-> key, at |-> i, kind |-> rows[i].kind,
                                       upos |-> rows[i].upos, of |-> rows[i].of]]
  IN  Those(named, {i \in DOMAIN rows : rows[i].kind = kind})

Direct(d, lemma, upos) == AtMost(MatchingFirst(RowsOf(d, lemma, "gloss"), upos), MaxSenses)
Forms(d, lemma, upos) == AtMost(MatchingFirst(RowsOf(d, lemma, "form-of"), upos), MaxForms)
Resolvable(d, lemma) == RowsOf(d, lemma, "gloss") # <<>>

Hit(via, of, senses) == [via |-> via, of |-> of, senses |-> senses]
NoHit == Hit(Nil, Nil, <<>>)

\* The glosses of the lemma, else those of the first lemma it is a form of, else what
\* its form-of rows say themselves; the last also when only they have the part of
\* speech asked for.
BestHit(d, upos, direct, resolved, loose) ==
  LET text == Hit("form-of-text", Nil, AtMost(loose, MaxSenses))
      onlyText == ~SomeFits(direct, upos) /\ SomeFits(loose, upos) /\ ~SomeFits(resolved, upos)
  IN  CASE onlyText -> text
        [] ~onlyText /\ direct # <<>> -> Hit("lemma", Nil, direct)
        [] ~onlyText /\ direct = <<>> /\ resolved # <<>> ->
             Hit("form-of", resolved[1].of, Direct(d, resolved[1].of, upos))
        [] ~onlyText /\ direct = <<>> /\ resolved = <<>> /\ loose # <<>> -> text
        [] OTHER -> NoHit

LookUp(d, lemma, upos) ==
  LET forms == Forms(d, lemma, upos)
      resolvable == {i \in DOMAIN forms : Resolvable(d, forms[i].of)}
  IN  BestHit(d, upos, Direct(d, lemma, upos),
              Those(forms, resolvable), Those(forms, DOMAIN forms \ resolvable))

Found(hit) == hit.via # Nil
Matches(hit, upos) == SomeFits(hit.senses, upos)

-----------------------------------------------------------------------------
(***************************************************************************)
(* The answer to a query: a reading and its alternatives.                  *)
(***************************************************************************)
\* What is sent of a hit on `queried`; a hop names the lemma it led to.
Reading(hit, queried, hop, senses, upos) ==
  [lemma |-> IF hit.of # Nil THEN hit.of ELSE queried,
   upos |-> IF senses # <<>> THEN senses[1].upos ELSE upos,
   hop |-> hop, formOf |-> IF hit.of # Nil THEN queried ELSE Nil, senses |-> senses]

KeyOfReading(r) == <<r.lemma, r.upos>>

\* What the dictionary says of the alternatives.
AlternativeHits(d, query) ==
  [i \in 1 .. Len(query.alternatives) |->
     LookUp(d, query.alternatives[i].lemma, query.alternatives[i].upos)]

\* The first reading that is found with the part of speech it was asked with; an
\* alternative asked without one only if the likeliest reading is unknown.
Chosen(query, primary, hits) ==
  LET alts == query.alternatives
      standing == {i \in DOMAIN hits :
        /\ Found(hits[i])
        /\ Matches(hits[i], alts[i].upos) \/ (~Found(primary) /\ alts[i].upos = Nil)}
      kept == Found(primary) /\ (query.upos = Nil \/ Matches(primary, query.upos))
      As(i) == Reading(hits[i], alts[i].lemma, hits[i].via, hits[i].senses, alts[i].upos)
  IN  IF kept \/ standing = {}
      THEN [via |-> primary.via, reading |-> Reading(primary, query.lemma, Nil, primary.senses, query.upos)]
      ELSE [via |-> "alternative", reading |-> As(CHOOSE i \in standing : \A j \in standing : i <= j)]

\* The senses of the part of speech an alternative was asked with, if it has any.
OwnSenses(hit, upos) ==
  IF Matches(hit, upos)
  THEN Those(hit.senses, {i \in DOMAIN hit.senses : Fits(hit.senses[i], upos)})
  ELSE hit.senses

\* The alternatives found, each with its own senses, that no reading in `seen` and no
\* earlier alternative gives already.
OtherReadings(query, hits, seen) ==
  LET alts == query.alternatives
      Other(i) == Reading(hits[i], alts[i].lemma, hits[i].via, OwnSenses(hits[i], alts[i].upos), Nil)
      found == {i \in DOMAIN hits : Found(hits[i])}
      new == {i \in found :
        /\ KeyOfReading(Other(i)) \notin seen
        /\ \A k \in found : k < i => KeyOfReading(Other(k)) # KeyOfReading(Other(i))}
  IN  AtMost(Those([i \in DOMAIN hits |-> Other(i)], new), MaxAlternatives)

\* A mutant: only the other readings are told apart.
AnswerApart(query, primary, hits) ==
  LET chosen == Chosen(query, primary, hits)
  IN  [via |-> chosen.via, reading |-> chosen.reading, others |-> OtherReadings(query, hits, {})]

Answer(query, primary, hits) ==
  LET chosen == Chosen(query, primary, hits)
  IN  [via |-> chosen.via, reading |-> chosen.reading,
       others |-> OtherReadings(query, hits, {KeyOfReading(chosen.reading)})]

Resolve(d, query) ==
  Answer(query, LookUp(d, query.lemma, query.upos), AlternativeHits(d, query))

-----------------------------------------------------------------------------
(***************************************************************************)
(* What the browser asks and accepts.                                      *)
(***************************************************************************)
\* The readings of a word that differ in more than letter case, the likeliest first.
Distinct(readings) ==
  LET Id(i) == <<KeyOf[readings[i].lemma], readings[i].upos>>
  IN  Those(readings, {i \in DOMAIN readings : \A k \in 1 .. i - 1 : Id(k) # Id(i)})

\* The query for a word: the likeliest reading and at most so many alternatives.
QueryFor(readings) ==
  LET distinct == Distinct(readings)
  IN  [lemma |-> distinct[1].lemma, upos |-> distinct[1].upos,
       alternatives |-> AtMost(Tail(distinct), MaxAlternatives)]

FormOfOK(hop, formOf) == (hop = "form-of") <=> (formOf # Nil)

AcceptsOther(r) ==
  /\ r.hop \in Hops /\ FormOfOK(r.hop, r.formOf)
  /\ Len(r.senses) \in 1 .. MaxSenses

AcceptsResult(answer) ==
  LET r == answer.reading
      keys == <<KeyOfReading(r)>> \o [i \in 1 .. Len(answer.others) |-> KeyOfReading(answer.others[i])]
  IN  /\ IF answer.via = Nil THEN r.senses = <<>> ELSE Len(r.senses) \in 1 .. MaxSenses
      /\ IF answer.via = "alternative" THEN r.hop \in Hops ELSE r.hop = Nil
      /\ FormOfOK(IF answer.via = "alternative" THEN r.hop ELSE answer.via, r.formOf)
      /\ Len(answer.others) <= MaxAlternatives
      /\ \A i \in 1 .. Len(answer.others) : AcceptsOther(answer.others[i])
      /\ IsInjective(keys)

-----------------------------------------------------------------------------
(***************************************************************************)
(* The dictionary file and the service's store.                            *)
(***************************************************************************)
Good == dictFile \in Dictionaries

\* The learner installs, removes or damages the file (scripts/import-glosses.ts).
ChangeFile(content) ==
  /\ dictFile' = content
  /\ since' = IF content \notin Dictionaries THEN Nil ELSE IF Good THEN since ELSE now
  /\ UNCHANGED <<now, dictVars, engineVars>>

Tick ==
  /\ now < MaxTime /\ now' = now + 1
  /\ UNCHANGED <<dictFile, since, dictVars, engineVars>>

\* A mutant: every attempt counts, also one that was not made.
AttemptedAnyway(tries) == now

Attempted(tries) == IF tries THEN now ELSE lastAttempt

\* The store, opened when there is none and the last attempt is long enough ago.
Ensure ==
  LET tries == /\ dictMode = "enabled" /\ opened = Nil
               /\ lastAttempt = Nil \/ now - lastAttempt >= Recheck
  IN  /\ opened' = IF tries /\ Good THEN dictFile ELSE opened
      /\ dictState' = IF ~tries THEN dictState
                      ELSE IF Good THEN "available"
                      ELSE IF dictFile = Missing THEN "not-installed" ELSE "invalid-dictionary"
      /\ lastAttempt' = IF dictMode = "enabled" /\ opened = Nil THEN Attempted(tries) ELSE lastAttempt

NoReply == [status |-> Nil, late |-> FALSE, query |-> Nil, answer |-> Nil]

\* History variable `late`: a good file has been there for the time of a re-check.
Answered(status, query, answer) ==
  reply' = [status |-> status, late |-> since # Nil /\ now - since >= Recheck,
            query |-> query, answer |-> answer]

Refused(status) == Answered(status, Nil, Nil)

\* As the service starts.
Warm == lastAttempt = Nil /\ Ensure /\ UNCHANGED <<fileVars, dictMode, reply, engineVars>>

\* A lookup; the file of an open store may have been damaged or replaced.
AskMeaning(readings) ==
  /\ Ensure
  /\ IF dictMode = "disabled" THEN Refused("disabled")
     ELSE IF opened' # Nil
          THEN \/ LET query == QueryFor(readings) IN Answered("available", query, Resolve(opened', query))
               \/ dictFile # opened' /\ Refused("lookup-failed")
          ELSE Refused(IF dictState' = "invalid-dictionary" THEN dictState' ELSE "not-installed")
  /\ UNCHANGED <<fileVars, dictMode, engineVars>>

-----------------------------------------------------------------------------
(***************************************************************************)
(* Morfeusz.                                                               *)
(***************************************************************************)
\* Loaded once, at the start of the service or for the first word.
EnsureEngine == engine' = IF engine = "not-loaded" THEN "loading" ELSE engine

WarmEngine == engine = "not-loaded" /\ EnsureEngine /\ UNCHANGED <<fileVars, dictVars, waiting, analysed>>

AskAnalysis(r) ==
  /\ r \notin waiting \cup DOMAIN analysed
  /\ EnsureEngine
  /\ waiting' = waiting \cup {r}
  /\ UNCHANGED <<fileVars, dictVars, analysed>>

\* The adapter is made and analyses a probe, or fails at either for good.
EngineLoads ==
  /\ engine = "loading" /\ engine' \in {"available", "unavailable"}
  /\ UNCHANGED <<fileVars, dictVars, waiting, analysed>>

Analysed(r) ==
  /\ r \in waiting /\ engine \in {"available", "unavailable"}
  /\ waiting' = waiting \ {r}
  /\ \E end \in IF engine = "available" THEN {"available", "analysis-failed"} ELSE {"adapter-load-failed"} :
       analysed' = [x \in DOMAIN analysed \cup {r} |-> IF x = r THEN end ELSE analysed[x]]
  /\ UNCHANGED <<fileVars, dictVars, engine>>

-----------------------------------------------------------------------------
Asked == 1 .. MaxAsked
Contents == {Missing, Broken} \cup Dictionaries

GlossInit ==
  /\ dictFile \in Contents /\ now = 0 /\ since = IF Good THEN 0 ELSE Nil
  /\ dictMode \in {"enabled", "disabled"} /\ opened = Nil /\ lastAttempt = Nil
  /\ dictState = IF dictMode = "disabled" THEN "disabled" ELSE "not-installed"
  /\ reply = NoReply
  /\ engine = "not-loaded" /\ waiting = {} /\ analysed = <<>>

GlossNext ==
  \/ \E content \in Contents : ChangeFile(content)
  \/ Tick \/ Warm
  \/ \E readings \in Readings : AskMeaning(readings)
  \/ WarmEngine \/ EngineLoads
  \/ \E r \in Asked : AskAnalysis(r) \/ Analysed(r)

GlossSpec == GlossInit /\ [][GlossNext]_glossVars

-----------------------------------------------------------------------------
(***************************************************************************)
(* Properties.                                                             *)
(***************************************************************************)
GlossTypeOK ==
  /\ dictFile \in {Missing, Broken} \/ dictFile \in Dictionaries
  /\ now \in 0 .. MaxTime /\ {since, lastAttempt} \subseteq (0 .. MaxTime) \cup {Nil}
  /\ dictMode \in {"enabled", "disabled"} /\ (opened = Nil \/ opened \in Dictionaries)
  /\ dictState \in {"available", "not-installed", "disabled", "invalid-dictionary"}
  /\ engine \in {"not-loaded", "loading", "available", "unavailable"}
  /\ waiting \subseteq Asked /\ DOMAIN analysed \subseteq Asked \ waiting

\* The senses of a reading are the entries of the lemma it names (gloss.ts:131-147).
NamesItsLemma(r) == \A i \in 1 .. Len(r.senses) : r.senses[i].key = KeyOf[r.lemma]

\* A likeliest reading that the dictionary explains is what is answered, and no
\* alternative that it explains is lost (gloss.ts:152-177).
NothingLost(query, answer) ==
  LET shown == {answer.reading} \cup ToSet(answer.others)
  IN  /\ Matches(LookUp(opened, query.lemma, query.upos), query.upos) =>
           answer.via # "alternative" /\ answer.reading.upos = query.upos
      /\ \A i \in 1 .. Len(query.alternatives) :
           LET alt == query.alternatives[i]
               hit == LookUp(opened, alt.lemma, alt.upos)
           IN  Found(hit) => \E r \in shown : r.lemma = (IF hit.of # Nil THEN hit.of ELSE alt.lemma)

\* Whatever the dictionary holds and whatever Morfeusz reads, the browser accepts the
\* service's answer (glossClient.ts:69-91), which names its lemmas truly and loses
\* nothing.
AnswerHonest ==
  reply.answer # Nil =>
    /\ AcceptsResult(reply.answer)
    /\ \A r \in {reply.answer.reading} \cup ToSet(reply.answer.others) : NamesItsLemma(r)
    /\ NothingLost(reply.query, reply.answer)

\* A dictionary that was installed is found: a lookup is not refused for want of one
\* that has been there for the time of a re-check (gloss.ts:187-207).
FoundInTime == reply.status \in {"not-installed", "invalid-dictionary"} => ~reply.late

\* Nobody is refused while Morfeusz may still load, or served without it.
EngineTold ==
  /\ engine \in {"not-loaded", "loading"} => analysed = <<>>
  /\ \A r \in DOMAIN analysed : (analysed[r] = "adapter-load-failed") <=> (engine = "unavailable")

MeaningsHonest == GlossTypeOK /\ AnswerHonest /\ FoundInTime /\ EngineTold
=============================================================================
