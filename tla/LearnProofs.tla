----------------------------- MODULE LearnProofs -----------------------------
(***************************************************************************)
(* Theorems of the transcript workbench, for any number of videos,         *)
(* versions and lines.                                                     *)
(*                                                                         *)
(* TranscriptInv says why the versions are a chain, and where they need    *)
(* not be: one correction at most is under way (OneCorrection), of a       *)
(* version that is not approved and that nothing was made of, unless an    *)
(* import put it on screen again, and nothing was made of what is on       *)
(* screen either, with the same exception (OnScreen).  The lines of an     *)
(* offset are a recursive function; that they do not overlap is shown by   *)
(* the least line that would (LeastNumber).                                *)
(***************************************************************************)
EXTENDS Transcripts, WellFoundedInduction, FiniteSetTheorems, SequenceTheorems, TLAPS

Text == Texts \cup {Empty}
AnyLine == [text : Text, start : Nat, end : Nat]
VersionShape ==
  [media : Media, parent : Nat, number : Nat \ {0}, status : Statuses, origin : Origins,
   lines : Seq(AnyLine)]
Edits == UNION {[keys -> Text] : keys \in SUBSET LineIds}
Correction ==
  [parent : Nat \ {0}, origin : {"apply", "structure", "offset"}, lines : Seq(AnyLine),
   sent : Edits]
JobShape ==
  [kind : {"asr", "captions", "list", "extract"}, started : BOOLEAN,
   media : Media \cup {Nothing}, path : Paths \cup {Nothing}, stream : Streams \cup {Nothing},
   current : BOOLEAN]
Embedded ==
  [path : Paths, listing : {"idle", "listing", "ready", "empty", "failed"},
   extraction : {"idle", "extracting", "imported", "failed"}, streams : SUBSET Streams,
   selected : Streams \cup {Nothing}]
ImportShape == [media : Media, picked : Nat, found : SUBSET Nat]

TranscriptShaped ==
  /\ media \in Media /\ video \in Media \cup {Nothing}
  /\ versions \in Seq(VersionShape) /\ Len(versions) <= MaxTracks
  /\ target \in 0 .. Len(versions)
  /\ pending \in Edits
  /\ corrections \in SUBSET Correction
  /\ jobs \in Seq(JobShape)
  /\ drafts \in SUBSET (Media \cup {Nothing})
  /\ embedded \in Embedded
  /\ imports \in SUBSET ImportShape /\ revived \in SUBSET (1 .. Len(versions))

Fits(lines) ==
  /\ Len(lines) <= MaxLines
  /\ \A i \in 1 .. Len(lines) : lines[i].end <= MaxTime

\* Nothing was made of t yet.
Leaf(t) == \A u \in 1 .. Len(versions) : versions[u].parent # t

\* Nor was it, when an import put t on screen.
Free(t) == t \notin revived => Leaf(t)

\* A version came of one before it, if it did: of one that was not approved and has no other,
\* unless an import put that one on screen again.
Descends(t) ==
  /\ versions[t].parent \in 0 .. t - 1 /\ versions[t].number <= t
  /\ versions[t].parent # 0 =>
       LET parent == versions[versions[t].parent]
       IN /\ parent.media = versions[t].media
          /\ parent.number + 1 = versions[t].number
          /\ versions[t].parent \notin revived =>
               /\ parent.status # "approved"
               /\ \A u \in 1 .. Len(versions) : versions[u].parent = versions[t].parent => u = t

Chained ==
  /\ \A t \in 1 .. Len(versions) : Descends(t)
  /\ \A t \in 1 .. Len(versions) :
       /\ Sound(Lines(t)) /\ Fits(Lines(t))
       /\ versions[t].origin = "offset" => Ordered(Lines(t))

\* What is on screen is a version of the open video that may be changed.
OnScreen == target # NoTrack => versions[target].media = media /\ Free(target)

\* What is pending is on lines of versions there are.
PendingKnown == \A l \in DOMAIN pending : l[1] \in 1 .. Len(versions) /\ l[2] \in 1 .. MaxLines

\* Applying takes the editors as they were.
AppliedAsSent(c) ==
  c.origin = "apply" =>
    /\ Len(c.lines) = Len(Lines(c.parent))
    /\ \A i \in 1 .. Len(c.lines) :
         <<c.parent, i>> \in DOMAIN c.sent => c.lines[i].text = c.sent[<<c.parent, i>>]

\* One correction at most is under way, of a version that may still be corrected.
OneCorrection ==
  /\ \A c, d \in corrections : c = d
  /\ \A c \in corrections :
       /\ c.parent \in 1 .. Len(versions) /\ Free(c.parent) /\ Status(c.parent) # "approved"
       /\ Fits(c.lines)
       /\ AppliedAsSent(c)
       /\ c.origin = "offset" => Ordered(c.lines)

ListedInPath == embedded.streams \subseteq StreamsIn[embedded.path]

\* What an import chooses from is of its video.
ImportsKnown ==
  \A i \in imports :
    /\ i.picked \in i.found
    /\ \A t \in i.found : t \in 1 .. Len(versions) /\ versions[t].media = i.media

TranscriptInv ==
  /\ TranscriptShaped /\ Chained /\ OnScreen /\ PendingKnown /\ OneCorrection /\ ListedInPath
  /\ ImportsKnown
-----------------------------------------------------------------------------
(***************************************************************************)
(* Least and greatest numbers: what stands for an induction here.          *)
(***************************************************************************)
LEMMA LeastNumber ==
  ASSUME NEW S \in SUBSET Nat, S # {}
  PROVE  \E n \in S : \A k \in S : n <= k
  <1> DEFINE R == OpToRel(<, Nat)
  <1>1. IsWellFoundedOn(R, Nat)
    BY NatLessThanWellFounded
  <1>2. \A a, b \in Nat : a < b => <<a, b>> \in R
    BY DEF OpToRel
  <1> HIDE DEF R
  <1>3. PICK n \in S : \A k \in S : ~ (<<k, n>> \in R)
    BY <1>1, WFMin
  <1>4. ASSUME NEW k \in S PROVE n <= k
    <2>1. n \in Nat /\ k \in Nat
      OBVIOUS
    <2>2. ~ (k < n)
      BY <1>2, <1>3, <2>1
    <2>3. QED
      BY <2>1, <2>2
  <1>5. QED
    BY <1>4

LEMMA GreatestNumber ==
  ASSUME NEW m \in Nat, NEW S \in SUBSET (0 .. m), S # {}
  PROVE  \E n \in S : \A k \in S : k <= n
  <1> DEFINE T == {m - k : k \in S}
  <1>1. T \in SUBSET Nat /\ T # {}
    <2>1. \A k \in S : k \in Nat /\ k <= m
      OBVIOUS
    <2>2. \A k \in S : m - k \in Nat
      BY <2>1
    <2>3. QED
      BY <2>2
  <1>2. PICK t \in T : \A u \in T : t <= u
    BY <1>1, LeastNumber
  <1>3. PICK n \in S : t = m - n
    BY <1>2
  <1>4. ASSUME NEW k \in S PROVE k <= n
    <2>1. m - k \in T
      OBVIOUS
    <2>2. m - n <= m - k
      BY <1>2, <1>3, <2>1
    <2>3. QED
      BY <2>2
  <1>5. QED
    BY <1>4

-----------------------------------------------------------------------------
(***************************************************************************)
(* Edits and lines.                                                        *)
(***************************************************************************)
LEMMA EditsAre ==
  /\ NoEdits \in Edits
  /\ \A e \in Edits : DOMAIN e \subseteq LineIds /\ \A l \in DOMAIN e : e[l] \in Text
  /\ \A S \in SUBSET LineIds : [S -> Text] \subseteq Edits
  <1>1. NoEdits \in [{} -> Text]
    BY DEF NoEdits
  <1>2. QED
    BY <1>1 DEF Edits

LEMMA LineShifted ==
  ASSUME NEW line \in AnyLine, NEW ms \in Int
  PROVE  /\ Shift(line, ms) \in AnyLine
         /\ Shift(line, ms).start < Shift(line, ms).end
  <1> DEFINE start == AtLeast(0, line.start + ms)
             end == AtLeast(start + 1, line.end + ms)
  <1>1. line.start + ms \in Int /\ line.end + ms \in Int
    BY DEF AnyLine
  <1>2. start \in Nat
    BY <1>1 DEF AtLeast
  <1>3. end \in Nat /\ start < end
    BY <1>1, <1>2 DEF AtLeast
  <1>4. Shift(line, ms) = [line EXCEPT !.start = start, !.end = end]
    BY DEF Shift
  <1> HIDE DEF start, end
  <1>5. QED
    BY <1>2, <1>3, <1>4 DEF AnyLine

\* The function that pushes each line behind the one before it.
Push(lines, ms, f, i) ==
  LET line == Shift(lines[i], ms)
      start == IF i = 1 THEN line.start ELSE AtLeast(line.start, f[i - 1].end)
  IN [line EXCEPT !.start = start, !.end = AtLeast(start + 1, line.end)]

LEMMA PushedOnce ==
  ASSUME NEW lines \in Seq(AnyLine), NEW ms \in Int, NEW i \in 1 .. Len(lines), NEW f,
         i # 1 => f[i - 1] \in AnyLine
  PROVE  /\ Push(lines, ms, f, i) \in AnyLine
         /\ i # 1 => f[i - 1].end <= Push(lines, ms, f, i).start
  <1> DEFINE line == Shift(lines[i], ms)
             start == IF i = 1 THEN line.start ELSE AtLeast(line.start, f[i - 1].end)
             end == AtLeast(start + 1, line.end)
  <1>1. line \in AnyLine
    BY LineShifted
  <1>2. line.start \in Nat /\ line.end \in Nat /\ (i # 1 => f[i - 1].end \in Nat)
    BY <1>1 DEF AnyLine
  <1>3. start \in Nat /\ (i # 1 => f[i - 1].end <= start)
    BY <1>2 DEF AtLeast
  <1>4. start + 1 \in Nat
    BY <1>3
  <1>5. end \in Nat
    BY <1>2, <1>4 DEF AtLeast
  <1>6. Push(lines, ms, f, i) = [line EXCEPT !.start = start, !.end = end]
    BY DEF Push
  <1> HIDE DEF line, start, end
  <1>7. QED
    BY <1>1, <1>3, <1>5, <1>6 DEF AnyLine

\* The first n lines can be pushed, whatever n is: else take the least that cannot.
LEMMA PushedSoFar ==
  ASSUME NEW lines \in Seq(AnyLine), NEW ms \in Int, NEW n \in 0 .. Len(lines)
  PROVE  \E f \in [1 .. n -> AnyLine] : \A i \in 1 .. n : f[i] = Push(lines, ms, f, i)
  <1> DEFINE Can(k) == \E f \in [1 .. k -> AnyLine] : \A i \in 1 .. k : f[i] = Push(lines, ms, f, i)
             Cannot == {k \in 0 .. Len(lines) : ~ Can(k)}
  <1>1. SUFFICES ASSUME Cannot # {} PROVE FALSE
    OBVIOUS
  <1>2. Len(lines) \in Nat /\ Cannot \in SUBSET Nat
    OBVIOUS
  <1> HIDE DEF Can
  <1>3. PICK k \in Cannot : \A j \in Cannot : k <= j
    BY <1>1, <1>2, LeastNumber
  <1>4. k # 0
    <2>1. Can(0)
      <3>1. [i \in {} |-> i] \in [1 .. 0 -> AnyLine]
        OBVIOUS
      <3>2. QED
        BY <3>1 DEF Can
    <2>2. QED
      BY <2>1
  <1>5. k \in 1 .. Len(lines) /\ k - 1 \in 0 .. Len(lines) /\ k - 1 \notin Cannot
    BY <1>2, <1>3, <1>4
  <1>6. Can(k - 1)
    BY <1>5
  <1>7. PICK f \in [1 .. k - 1 -> AnyLine] : \A i \in 1 .. k - 1 : f[i] = Push(lines, ms, f, i)
    BY <1>6 DEF Can
  <1> DEFINE g == [i \in 1 .. k |-> IF i = k THEN Push(lines, ms, f, k) ELSE f[i]]
  <1>8. Push(lines, ms, f, k) \in AnyLine
    BY <1>5, PushedOnce
  <1>9. g \in [1 .. k -> AnyLine]
    BY <1>5, <1>8
  <1>10. \A i \in 1 .. k : Push(lines, ms, g, i) = Push(lines, ms, f, i)
    <2> SUFFICES ASSUME NEW i \in 1 .. k PROVE Push(lines, ms, g, i) = Push(lines, ms, f, i)
      OBVIOUS
    <2>1. i # 1 => g[i - 1] = f[i - 1]
      BY <1>5
    <2> HIDE DEF g
    <2>2. QED
      BY <2>1 DEF Push
  <1>11. \A i \in 1 .. k : g[i] = Push(lines, ms, g, i)
    BY <1>5, <1>7, <1>10
  <1>12. Can(k)
    BY <1>9, <1>11 DEF Can
  <1>13. QED
    BY <1>3, <1>12

LEMMA ShiftedInOrder ==
  ASSUME NEW lines \in Seq(AnyLine), NEW ms \in Int
  PROVE  /\ Shifted(lines, ms) \in Seq(AnyLine)
         /\ Ordered(Shifted(lines, ms))
  <1> DEFINE F(f) == [i \in 1 .. Len(lines) |-> Push(lines, ms, f, i)]
             g == CHOOSE f : f = F(f)
  <1>1. Shifted(lines, ms) = g
    BY DEF Shifted, Push
  <1>2. Len(lines) \in 0 .. Len(lines)
    OBVIOUS
  <1>3. PICK f \in [1 .. Len(lines) -> AnyLine] : \A i \in 1 .. Len(lines) : f[i] = Push(lines, ms, f, i)
    BY <1>2, PushedSoFar
  <1>4. f = F(f)
    BY <1>3
  <1>5. g = F(g)
    BY <1>4
  <1> HIDE DEF g
  <1>6. \A i \in 1 .. Len(lines) : g[i] = Push(lines, ms, g, i)
    BY <1>5
  <1>7. \A i \in 1 .. Len(lines) : g[i] \in AnyLine
    <2> DEFINE Bad == {i \in 1 .. Len(lines) : g[i] \notin AnyLine}
    <2>1. SUFFICES ASSUME Bad # {} PROVE FALSE
      OBVIOUS
    <2>2. PICK i \in Bad : \A j \in Bad : i <= j
      <3>1. Bad \in SUBSET Nat
        OBVIOUS
      <3>2. QED
        BY <2>1, <3>1, LeastNumber
    <2>3. i # 1 => i - 1 \in 1 .. Len(lines) /\ i - 1 \notin Bad
      BY <2>2
    <2>4. i # 1 => g[i - 1] \in AnyLine
      BY <2>3
    <2>5. Push(lines, ms, g, i) \in AnyLine
      BY <2>4, PushedOnce
    <2>6. QED
      BY <1>6, <2>5
  <1>8. g = [i \in 1 .. Len(lines) |-> g[i]]
    BY <1>5
  <1>9. g \in [1 .. Len(lines) -> AnyLine]
    BY <1>7, <1>8
  <1>10. g \in Seq(AnyLine) /\ Len(g) = Len(lines)
    BY <1>9
  <1>11. ASSUME NEW i \in 2 .. Len(g) PROVE g[i - 1].end <= g[i].start
    <2>1. i \in 1 .. Len(lines) /\ i - 1 \in 1 .. Len(lines) /\ i # 1
      BY <1>10
    <2>2. g[i - 1] \in AnyLine /\ g[i] = Push(lines, ms, g, i)
      BY <1>6, <1>7, <2>1
    <2>3. QED
      BY <2>1, <2>2, PushedOnce
  <1>12. QED
    BY <1>1, <1>10, <1>11 DEF Ordered

LEMMA SplitShaped ==
  ASSUME NEW lines \in Seq(AnyLine), NEW i \in 1 .. Len(lines), NEW a \in Text, NEW b \in Text
  PROVE  Split(lines, i, a, b) \in Seq(AnyLine)
  <1> DEFINE line == lines[i]
             at == AtLeast(line.start + 1, AtMost(line.end - 1, (line.start + line.end + 1) \div 2))
             x == [line EXCEPT !.text = a, !.end = at]
             y == [line EXCEPT !.text = b, !.start = at]
  <1>0. line \in AnyLine
    OBVIOUS
  <1>1. line \in AnyLine /\ line.start \in Nat /\ line.end \in Nat
    BY <1>0 DEF AnyLine
  <1>2. (line.start + line.end + 1) \div 2 \in Int
    BY <1>1
  <1>3. AtMost(line.end - 1, (line.start + line.end + 1) \div 2) \in Int
    BY <1>1, <1>2 DEF AtMost
  <1>4. at \in Nat
    BY <1>1, <1>3 DEF AtLeast
  <1>5. x \in AnyLine /\ y \in AnyLine
    BY <1>1, <1>4 DEF AnyLine
  <1>6. Split(lines, i, a, b) = SubSeq(lines, 1, i - 1) \o <<x, y>> \o SubSeq(lines, i + 1, Len(lines))
    BY DEF Split
  <1> HIDE DEF x, y
  <1>7. SubSeq(lines, 1, i - 1) \in Seq(AnyLine) /\ SubSeq(lines, i + 1, Len(lines)) \in Seq(AnyLine)
    OBVIOUS
  <1>8. <<x, y>> \in Seq(AnyLine)
    BY <1>5
  <1>9. QED
    BY <1>6, <1>7, <1>8

LEMMA MergedShaped ==
  ASSUME NEW lines \in Seq(AnyLine), NEW i \in 1 .. Len(lines) - 1, NEW a \in Text
  PROVE  Merged(lines, i, a) \in Seq(AnyLine)
  <1> DEFINE x == [text |-> a, start |-> lines[i].start, end |-> lines[i + 1].end]
  <1>1. lines[i] \in AnyLine /\ lines[i + 1] \in AnyLine
    OBVIOUS
  <1>2. x \in AnyLine
    BY <1>1 DEF AnyLine
  <1>3. Merged(lines, i, a) = SubSeq(lines, 1, i - 1) \o <<x>> \o SubSeq(lines, i + 2, Len(lines))
    BY DEF Merged
  <1> HIDE DEF x
  <1>4. SubSeq(lines, 1, i - 1) \in Seq(AnyLine) /\ SubSeq(lines, i + 2, Len(lines)) \in Seq(AnyLine)
    OBVIOUS
  <1>5. <<x>> \in Seq(AnyLine)
    BY <1>2
  <1>6. QED
    BY <1>3, <1>4, <1>5

LEMMA EditedShaped ==
  ASSUME TranscriptShaped, NEW t \in 1 .. Len(versions)
  PROVE  /\ Edited(t) \in Seq(AnyLine) /\ Len(Edited(t)) = Len(Lines(t))
         /\ \A i \in 1 .. Len(Lines(t)) :
              <<t, i>> \in DOMAIN pending => Edited(t)[i].text = pending[<<t, i>>]
  <1>0. versions[t] \in VersionShape
    BY DEF TranscriptShaped
  <1>1. Lines(t) \in Seq(AnyLine) /\ DOMAIN Lines(t) = 1 .. Len(Lines(t)) /\ Len(Lines(t)) \in Nat
    <2>1. Lines(t) \in Seq(AnyLine)
      BY <1>0 DEF VersionShape, Lines
    <2>2. QED
      BY <2>1
  <1>2. ASSUME NEW i \in 1 .. Len(Lines(t))
        PROVE  /\ Edited(t)[i] \in AnyLine
               /\ <<t, i>> \in DOMAIN pending => Edited(t)[i].text = pending[<<t, i>>]
    <2>1. Lines(t)[i] \in AnyLine
      BY <1>1
    <2>2. <<t, i>> \in DOMAIN pending => pending[<<t, i>>] \in Text
      BY EditsAre DEF TranscriptShaped
    <2>3. Edited(t)[i] = IF <<t, i>> \in DOMAIN pending THEN [Lines(t)[i] EXCEPT !.text = pending[<<t, i>>]]
                         ELSE Lines(t)[i]
      BY <1>1 DEF Edited
    <2>4. QED
      BY <2>1, <2>2, <2>3 DEF AnyLine
  <1>3. Edited(t) \in [1 .. Len(Lines(t)) -> AnyLine]
    <2>1. Edited(t) = [i \in 1 .. Len(Lines(t)) |-> Edited(t)[i]]
      BY <1>1 DEF Edited
    <2>2. QED
      BY <1>2, <2>1
  <1>4. QED
    BY <1>1, <1>2, <1>3

-----------------------------------------------------------------------------
(***************************************************************************)
(* Versions.                                                               *)
(***************************************************************************)
\* What comes as a file, or is stored already.
LEMMA StoredIs ==
  ASSUME NEW m \in Media, NEW st \in {"draft", "approved"}, NEW t \in Texts
  PROVE  /\ Stored(m, st, t) \in VersionShape
         /\ Stored(m, st, t).media = m /\ Stored(m, st, t).parent = 0 /\ Stored(m, st, t).number = 1
         /\ Stored(m, st, t).origin \in {"import", "draft"}
         /\ Sound(Stored(m, st, t).lines) /\ Fits(Stored(m, st, t).lines)
  <1> DEFINE x == [text |-> t, start |-> 0, end |-> 1]
             y == [text |-> t, start |-> 1, end |-> 2]
  <1>1. 2 <= MaxLines /\ 2 <= MaxTime /\ MaxLines \in Nat /\ MaxTime \in Nat
    BY TranscriptAssumption
  <1>2. x \in AnyLine /\ y \in AnyLine /\ x.text # Empty /\ y.text # Empty /\ x.end = 1 /\ y.end = 2
        /\ x.start = 0 /\ y.start = 1
    BY TranscriptAssumption DEF AnyLine, Text
  <1>3. Stored(m, st, t) = [media |-> m, parent |-> 0, number |-> 1, status |-> st,
                            origin |-> IF st = "approved" THEN "import" ELSE "draft",
                            lines |-> <<x, y>>]
    BY DEF Stored, Version, NoTrack
  <1> HIDE DEF x, y
  <1>4. <<x, y>> \in Seq(AnyLine) /\ Len(<<x, y>>) = 2 /\ DOMAIN <<x, y>> = 1 .. 2
        /\ <<x, y>>[1] = x /\ <<x, y>>[2] = y
    BY <1>2
  <1>5. \A i \in 1 .. 2 : i = 1 \/ i = 2
    OBVIOUS
  <1>6. Sound(<<x, y>>)
    BY <1>2, <1>4, <1>5 DEF Sound
  <1>7. Fits(<<x, y>>)
    BY <1>1, <1>2, <1>4, <1>5 DEF Fits
  <1>8. QED
    BY <1>3, <1>4, <1>6, <1>7 DEF VersionShape, Statuses, Origins

LEMMA TranscriptsBegin == TranscriptInit => TranscriptInv
  <1> SUFFICES ASSUME TranscriptInit PROVE TranscriptInv
    OBVIOUS
  <1>1. PICK t \in Texts, s \in {"draft", "approved"}, p \in Paths :
          versions = <<Stored(1, "draft", t), Stored(2, s, t)>> /\ embedded = NoListing(p)
    BY DEF TranscriptInit
  <1>2. 1 \in Media /\ 2 \in Media /\ 2 <= MaxTracks
    BY TranscriptAssumption DEF Media
  <1>3. PICK v, w : v = Stored(1, "draft", t) /\ w = Stored(2, s, t)
    OBVIOUS
  <1>4. /\ v \in VersionShape /\ v.media = 1 /\ v.parent = 0 /\ v.number = 1 /\ v.origin # "offset"
        /\ Sound(v.lines) /\ Fits(v.lines)
    BY <1>2, <1>3, StoredIs
  <1>5. /\ w \in VersionShape /\ w.media = 2 /\ w.parent = 0 /\ w.number = 1 /\ w.origin # "offset"
        /\ Sound(w.lines) /\ Fits(w.lines)
    BY <1>2, <1>3, StoredIs
  <1>6. /\ versions \in Seq(VersionShape) /\ Len(versions) = 2 /\ versions[1].media = 1
        /\ \A u \in 1 .. 2 : /\ versions[u].parent = 0 /\ versions[u].number = 1
                             /\ versions[u].origin # "offset"
                             /\ Sound(versions[u].lines) /\ Fits(versions[u].lines)
    <2>1. versions = <<v, w>>
      BY <1>1, <1>3
    <2>2. \A u \in 1 .. 2 : u = 1 \/ u = 2
      OBVIOUS
    <2>3. QED
      BY <1>4, <1>5, <2>1, <2>2
  <1>7. embedded \in Embedded /\ embedded.streams = {}
    BY <1>1 DEF NoListing, Embedded
  <1>8. TranscriptShaped
    BY <1>2, <1>6, <1>7, EditsAre DEF TranscriptInit, TranscriptShaped
  <1>9. Chained
    BY <1>6 DEF Chained, Descends, Lines
  <1>10. OnScreen
    BY <1>6 DEF TranscriptInit, OnScreen, Free, Leaf
  <1>11. PendingKnown /\ OneCorrection /\ ListedInPath /\ ImportsKnown
    BY <1>7 DEF TranscriptInit, PendingKnown, NoEdits, OneCorrection, ListedInPath, ImportsKnown
  <1>12. QED
    BY <1>8, <1>9, <1>10, <1>11 DEF TranscriptInv

\* A version that is put is one of those there are, of its video, and on screen.
LEMMA VersionPut ==
  ASSUME TranscriptShaped, Chained, Len(versions) < MaxTracks,
         NEW v \in VersionShape, versions' = Append(versions, v), revived' = revived,
         media' = v.media, target' = Len(versions'), Sound(v.lines), Fits(v.lines),
         v.origin = "offset" => Ordered(v.lines),
         \/ v.parent = 0 /\ v.number = 1
         \/ /\ v.parent \in 1 .. Len(versions) /\ Free(v.parent) /\ Status(v.parent) # "approved"
            /\ v.media = versions[v.parent].media /\ v.number = versions[v.parent].number + 1
  PROVE  /\ versions' \in Seq(VersionShape) /\ Len(versions') = Len(versions) + 1
         /\ Len(versions) \in Nat /\ Len(versions') <= MaxTracks
         /\ \A t \in 1 .. Len(versions) : versions'[t] = versions[t]
         /\ versions'[Len(versions')] = v
         /\ media' \in Media /\ revived' \in SUBSET (1 .. Len(versions'))
         /\ Chained' /\ OnScreen'
  <1>0. PICK n \in Nat : n = Len(versions)
    BY DEF TranscriptShaped
  <1>1. versions \in Seq(VersionShape) /\ revived \in SUBSET (1 .. n)
    BY <1>0 DEF TranscriptShaped
  <1>2. /\ versions' \in Seq(VersionShape) /\ Len(versions') = n + 1
        /\ \A t \in 1 .. n : versions'[t] = versions[t]
        /\ versions'[n + 1] = v
    BY <1>0, <1>1
  <1>3. MaxTracks \in Nat /\ v.media \in Media /\ v.parent \in Nat /\ v.number \in Nat
    BY TranscriptAssumption DEF VersionShape
  <1>4. \A t \in 1 .. n : versions[t].parent \in 0 .. t - 1 /\ versions[t].number <= t
    BY <1>0 DEF Chained, Descends
  <1>5. \A t \in 1 .. n + 1 : versions'[t].parent # n + 1
    <2>1. v.parent # n + 1
      BY <1>0, <1>3
    <2>2. \A t \in 1 .. n : versions'[t].parent # n + 1
      <3> SUFFICES ASSUME NEW t \in 1 .. n PROVE versions'[t].parent # n + 1
        OBVIOUS
      <3>1. versions[t].parent \in 0 .. t - 1 /\ versions'[t] = versions[t]
        BY <1>2, <1>4
      <3>2. QED
        BY <3>1
    <2>3. \A t \in 1 .. n + 1 : t \in 1 .. n \/ t = n + 1
      OBVIOUS
    <2>4. QED
      BY <1>2, <2>1, <2>2, <2>3
  <1>6. \A t \in 1 .. n : Lines(t)' = Lines(t)
    BY <1>2 DEF Lines
  <1>7. Lines(n + 1)' = v.lines
    BY <1>2 DEF Lines
  <1>8. \A t \in 1 .. n + 1 :
          /\ Sound(Lines(t)') /\ Fits(Lines(t)')
          /\ versions'[t].origin = "offset" => Ordered(Lines(t)')
    <2> SUFFICES ASSUME NEW t \in 1 .. n + 1
                 PROVE  /\ Sound(Lines(t)') /\ Fits(Lines(t)')
                        /\ versions'[t].origin = "offset" => Ordered(Lines(t)')
      OBVIOUS
    <2>1. CASE t \in 1 .. n
      BY <1>0, <1>2, <1>6, <2>1 DEF Chained
    <2>2. CASE t = n + 1
      BY <1>2, <1>7, <2>2
    <2>3. t \in 1 .. n \/ t = n + 1
      OBVIOUS
    <2>4. QED
      BY <2>1, <2>2, <2>3
  <1>9. ASSUME NEW t \in 1 .. n PROVE Descends(t)'
    <2>1. Descends(t) /\ versions'[t] = versions[t]
      BY <1>0, <1>2 DEF Chained
    <2>2. versions[t].parent # 0 => /\ versions[t].parent \in 1 .. n
                                    /\ versions'[versions[t].parent] = versions[versions[t].parent]
      BY <1>0, <1>2, <1>4
    <2>3. versions[t].parent # 0 /\ versions[t].parent \notin revived => v.parent # versions[t].parent
      BY <1>0, <1>3, <2>2 DEF Free, Leaf
    <2>4. versions[t].parent # 0 /\ versions[t].parent \notin revived =>
            \A u \in 1 .. n + 1 : versions'[u].parent = versions[t].parent => u = t
      BY <1>0, <1>2, <2>1, <2>3 DEF Descends
    <2>5. QED
      BY <1>2, <2>1, <2>2, <2>4 DEF Descends
  <1>10. Descends(n + 1)'
    <2>1. CASE v.parent = 0 /\ v.number = 1
      BY <1>1, <1>2, <2>1 DEF Descends
    <2>2. CASE /\ v.parent \in 1 .. n /\ Free(v.parent) /\ Status(v.parent) # "approved"
               /\ v.media = versions[v.parent].media /\ v.number = versions[v.parent].number + 1
      <3>1. versions'[v.parent] = versions[v.parent] /\ versions[v.parent].number <= v.parent
            /\ versions[v.parent].number \in Nat
        <4>1. versions[v.parent] \in VersionShape
          BY <1>0, <1>1, <2>2
        <4>2. versions[v.parent].number \in Nat
          BY <4>1 DEF VersionShape
        <4>3. QED
          BY <1>2, <1>4, <2>2, <4>2
      <3>2. v.parent \in 0 .. n /\ v.number <= n + 1
        BY <1>1, <2>2, <3>1
      <3>3. v.parent \notin revived =>
              \A u \in 1 .. n + 1 : versions'[u].parent = v.parent => u = n + 1
        BY <1>0, <1>2, <2>2 DEF Free, Leaf
      <3>4. QED
        BY <1>2, <2>2, <3>1, <3>2, <3>3 DEF Descends, Status
    <2>3. QED
      BY <1>0, <2>1, <2>2
  <1>11. Chained'
    <2>1. \A t \in 1 .. n + 1 : Descends(t)'
      BY <1>1, <1>9, <1>10
    <2>2. QED
      BY <1>2, <1>8, <2>1 DEF Chained
  <1>12. OnScreen'
    BY <1>0, <1>2, <1>5 DEF OnScreen, Free, Leaf
  <1>13. revived' \in SUBSET (1 .. n + 1)
    BY <1>1
  <1>14. QED
    BY <1>0, <1>1, <1>2, <1>3, <1>11, <1>12, <1>13

-----------------------------------------------------------------------------
(***************************************************************************)
(* What each step leaves of the invariant.                                 *)
(***************************************************************************)
\* What an import chose from stays what it was: no version leaves, or changes its video.
LEMMA ImportsStay ==
  ASSUME ImportsKnown, TranscriptShaped, imports' \subseteq imports, Len(versions') \in Nat,
         Len(versions) <= Len(versions'),
         \A t \in 1 .. Len(versions) : versions'[t].media = versions[t].media
  PROVE  ImportsKnown'
  <1>1. PICK n \in Nat : n = Len(versions)
    BY DEF TranscriptShaped
  <1>2. PICK k \in Nat : k = Len(versions') /\ n <= k
    BY <1>1
  <1>3. ASSUME NEW i \in imports' PROVE i \in imports
    OBVIOUS
  <1>4. QED
    BY <1>1, <1>2, <1>3 DEF ImportsKnown

\* Jobs, drafts, the listing and the player are no part of what holds of versions.
LEMMA VersionsLeftAlone ==
  ASSUME TranscriptInv,
         UNCHANGED <<media, versions, target, pending, corrections, shelf>>,
         video' \in Media \cup {Nothing}, jobs' \in Seq(JobShape),
         drafts' \in SUBSET (Media \cup {Nothing}), embedded' \in Embedded, ListedInPath'
  PROVE  TranscriptInv'
  <1>1. TranscriptShaped'
    BY DEF TranscriptInv, TranscriptShaped, shelf
  <1>2. Chained'
    BY DEF TranscriptInv, Chained, Descends, Lines, shelf
  <1>3. OnScreen'
    BY DEF TranscriptInv, OnScreen, Free, Leaf, shelf
  <1>4. PendingKnown'
    BY DEF TranscriptInv, PendingKnown
  <1>5. OneCorrection'
    BY DEF TranscriptInv, OneCorrection, AppliedAsSent, Free, Leaf, Status, Lines, shelf
  <1>6. ImportsKnown'
    BY DEF TranscriptInv, ImportsKnown, shelf
  <1>7. QED
    BY <1>1, <1>2, <1>3, <1>4, <1>5, <1>6 DEF TranscriptInv

\* The video, the listing, the drafts, the jobs as they are.
LEMMA RestShaped ==
  ASSUME TranscriptInv
  PROVE  /\ media \in Media /\ video \in Media \cup {Nothing} /\ jobs \in Seq(JobShape)
         /\ drafts \in SUBSET (Media \cup {Nothing}) /\ embedded \in Embedded
         /\ embedded.streams \subseteq StreamsIn[embedded.path]
  BY DEF TranscriptInv, TranscriptShaped, ListedInPath

LEMMA TypeKeeps ==
  ASSUME TranscriptInv, NEW c \in LineIds, NEW text \in Text, Type(c, text)
  PROVE  TranscriptInv'
  <1>1. UNCHANGED <<media, video, versions, target, corrections, jobs, drafts, embedded, shelf>>
        /\ c \in LinesOf(target) /\ target # 0
    BY DEF Type, Editable, NoTrack
  <1>2. pending' = [l \in DOMAIN pending \cup {c} |-> IF l = c THEN text ELSE pending[l]]
    BY DEF Type
  <1>3. DOMAIN pending \subseteq LineIds /\ \A l \in DOMAIN pending : pending[l] \in Text
    BY EditsAre DEF TranscriptInv, TranscriptShaped
  <1>4. pending' \in Edits
    <2> DEFINE S == DOMAIN pending \cup {c}
    <2>1. S \in SUBSET LineIds
      BY <1>3
    <2>2. pending' \in [S -> Text]
      BY <1>2, <1>3
    <2> HIDE DEF S
    <2>3. QED
      BY <2>1, <2>2, EditsAre
  <1>5. TranscriptShaped'
    BY <1>1, <1>4 DEF TranscriptInv, TranscriptShaped, shelf
  <1>6. Chained' /\ ListedInPath' /\ ImportsKnown'
    BY <1>1 DEF TranscriptInv, Chained, Descends, Lines, ListedInPath, ImportsKnown, shelf
  <1>7. OnScreen'
    BY <1>1 DEF TranscriptInv, OnScreen, Free, Leaf, shelf
  <1>8. PendingKnown'
    <2>1. c[1] = target /\ c[2] \in DOMAIN Lines(target)
      BY <1>1 DEF LinesOf
    <2>2. target \in 1 .. Len(versions)
      BY <1>1 DEF TranscriptInv, TranscriptShaped
    <2>3. c[2] \in 1 .. MaxLines
      BY DEF LineIds
    <2>4. DOMAIN pending' = DOMAIN pending \cup {c}
      BY <1>2
    <2>5. QED
      BY <1>1, <2>1, <2>2, <2>3, <2>4 DEF TranscriptInv, PendingKnown
  <1>9. OneCorrection'
    BY <1>1 DEF TranscriptInv, OneCorrection, AppliedAsSent, Free, Leaf, Status, Lines, shelf
  <1>10. QED
    BY <1>5, <1>6, <1>7, <1>8, <1>9 DEF TranscriptInv

\* A correction is begun of the version on screen when none is under way.
LEMMA CorrectKeeps ==
  ASSUME TranscriptInv, NEW origin \in {"apply", "structure", "offset"}, NEW lines \in Seq(AnyLine),
         Editable, corrections = {}, Correct(origin, lines),
         origin = "offset" => Ordered(lines),
         origin = "apply" => /\ Len(lines) = Len(Lines(target))
                             /\ \A i \in 1 .. Len(Lines(target)) :
                                  <<target, i>> \in DOMAIN pending =>
                                    lines[i].text = pending[<<target, i>>]
  PROVE  TranscriptInv'
  <1>0. PICK c : c = [parent |-> target, origin |-> origin, lines |-> lines, sent |-> pending]
    OBVIOUS
  <1>1. corrections' = {c} /\ UNCHANGED <<media, video, versions, target, pending, jobs, drafts, embedded, shelf>>
    BY <1>0 DEF Correct
  <1>2. Fits(lines)
    BY DEF Correct, Fits
  <1>3. target \in 1 .. Len(versions) /\ Free(target) /\ Status(target) # "approved"
    BY DEF TranscriptInv, TranscriptShaped, OnScreen, Editable, NoTrack
  <1>4. c \in Correction
    BY <1>0, <1>3 DEF TranscriptInv, TranscriptShaped, Correction
  <1>5. c.parent = target /\ c.origin = origin /\ c.lines = lines /\ c.sent = pending
    BY <1>0
  <1>6. AppliedAsSent(c)
    BY <1>5 DEF AppliedAsSent
  <1>7. TranscriptShaped'
    BY <1>1, <1>4 DEF TranscriptInv, TranscriptShaped, shelf
  <1>8. Chained' /\ ListedInPath' /\ ImportsKnown'
    BY <1>1 DEF TranscriptInv, Chained, Descends, Lines, ListedInPath, ImportsKnown, shelf
  <1>9. OnScreen'
    BY <1>1 DEF TranscriptInv, OnScreen, Free, Leaf, shelf
  <1>10. PendingKnown'
    BY <1>1 DEF TranscriptInv, PendingKnown
  <1>11. OneCorrection'
    <2>1. \A d \in corrections' : d = c
      BY <1>1
    <2>2. Free(c.parent)' /\ Status(c.parent)' # "approved"
      BY <1>1, <1>3, <1>5 DEF Free, Leaf, Status, shelf
    <2>3. AppliedAsSent(c)'
      BY <1>1, <1>6 DEF AppliedAsSent, Lines
    <2>4. QED
      BY <1>1, <1>2, <1>3, <1>5, <2>1, <2>2, <2>3 DEF OneCorrection
  <1>12. QED
    BY <1>7, <1>8, <1>9, <1>10, <1>11 DEF TranscriptInv

LEMMA OnScreenLines ==
  ASSUME TranscriptInv, Editable
  PROVE  /\ target \in 1 .. Len(versions) /\ Lines(target) \in Seq(AnyLine)
         /\ DOMAIN Lines(target) = 1 .. Len(Lines(target))
  <1>1. target \in 1 .. Len(versions)
    BY DEF TranscriptInv, TranscriptShaped, Editable, NoTrack
  <1>2. versions[target] \in VersionShape
    BY <1>1 DEF TranscriptInv, TranscriptShaped
  <1>3. Lines(target) \in Seq(AnyLine)
    BY <1>2 DEF VersionShape, Lines
  <1>4. QED
    BY <1>1, <1>3

LEMMA CorrectionsBegin ==
  ASSUME TranscriptInv, Apply \/ SplitLine \/ MergeLines \/ OffsetLines
  PROVE  TranscriptInv'
  <1>1. CASE Apply
    <2>1. Editable /\ corrections = {} /\ Correct("apply", Edited(target))
      BY <1>1 DEF Apply, MayApply
    <2>2. TranscriptShaped /\ target \in 1 .. Len(versions)
      BY <2>1, OnScreenLines DEF TranscriptInv
    <2>3. QED
      BY <2>1, <2>2, EditedShaped, CorrectKeeps
  <1>2. CASE SplitLine
    <2>1. Editable /\ corrections = {}
      BY <1>2 DEF SplitLine, MayRestructure, Blocked
    <2>2. PICK i \in DOMAIN Lines(target), a \in Texts, b \in Texts :
            Correct("structure", Split(Lines(target), i, a, b))
      BY <1>2 DEF SplitLine
    <2>3. a \in Text /\ b \in Text
      BY DEF Text
    <2>4. Split(Lines(target), i, a, b) \in Seq(AnyLine)
      BY <2>1, <2>3, OnScreenLines, SplitShaped
    <2>5. QED
      BY <2>1, <2>2, <2>4, CorrectKeeps
  <1>3. CASE MergeLines
    <2>1. Editable /\ corrections = {}
      BY <1>3 DEF MergeLines, MayRestructure, Blocked
    <2>2. PICK i \in 1 .. Len(Lines(target)) - 1, a \in Texts :
            Correct("structure", Merged(Lines(target), i, a))
      BY <1>3 DEF MergeLines
    <2>3. a \in Text
      BY DEF Text
    <2>4. Merged(Lines(target), i, a) \in Seq(AnyLine)
      BY <2>1, <2>3, OnScreenLines, MergedShaped
    <2>5. QED
      BY <2>1, <2>2, <2>4, CorrectKeeps
  <1>4. CASE OffsetLines
    <2>1. Editable /\ corrections = {}
      BY <1>4 DEF OffsetLines, MayRestructure, Blocked
    <2>2. PICK ms \in Offsets : Correct("offset", Shifted(Lines(target), ms))
      BY <1>4 DEF OffsetLines
    <2>3. ms \in Int
      BY TranscriptAssumption
    <2>4. Shifted(Lines(target), ms) \in Seq(AnyLine) /\ Ordered(Shifted(Lines(target), ms))
      BY <2>1, <2>3, OnScreenLines, ShiftedInOrder
    <2>5. QED
      BY <2>1, <2>2, <2>4, CorrectKeeps
  <1>5. QED
    BY <1>1, <1>2, <1>3, <1>4

LEMMA ApproveKeeps ==
  ASSUME TranscriptInv, Approve
  PROVE  TranscriptInv'
  <1>1. /\ corrections = {}
        /\ versions' = [versions EXCEPT ![target].status = "approved"]
        /\ UNCHANGED <<media, video, target, pending, corrections, jobs, drafts, embedded, shelf>>
    BY DEF Approve, Blocked
  <1>2. target \in 1 .. Len(versions) /\ Free(target)
    BY DEF TranscriptInv, TranscriptShaped, OnScreen, Approve, Editable, NoTrack
  <1>3. PICK n \in Nat : n = Len(versions) /\ versions \in [1 .. n -> VersionShape]
    <2>1. versions \in Seq(VersionShape)
      BY DEF TranscriptInv, TranscriptShaped
    <2>2. QED
      BY <2>1
  <1>4. versions[target] \in VersionShape
    BY <1>2, <1>3
  <1>5. [versions[target] EXCEPT !.status = "approved"] \in VersionShape
    BY <1>4 DEF VersionShape, Statuses
  <1>6. versions' \in [1 .. n -> VersionShape]
    <2>1. versions' = [versions EXCEPT ![target] = [versions[target] EXCEPT !.status = "approved"]]
      BY <1>1
    <2>2. QED
      BY <1>2, <1>3, <1>5, <2>1
  <1>7. versions' \in Seq(VersionShape) /\ Len(versions') = n
    BY <1>3, <1>6
  <1>8. \A t \in 1 .. n :
          /\ versions'[t].parent = versions[t].parent /\ versions'[t].number = versions[t].number
          /\ versions'[t].media = versions[t].media /\ versions'[t].lines = versions[t].lines
          /\ versions'[t].origin = versions[t].origin
          /\ t # target => versions'[t] = versions[t]
    <2> SUFFICES ASSUME NEW t \in 1 .. n
                 PROVE /\ versions'[t].parent = versions[t].parent /\ versions'[t].number = versions[t].number
                       /\ versions'[t].media = versions[t].media /\ versions'[t].lines = versions[t].lines
                       /\ versions'[t].origin = versions[t].origin
                       /\ t # target => versions'[t] = versions[t]
      OBVIOUS
    <2>1. CASE t = target
      <3>1. versions'[t] = [versions[target] EXCEPT !.status = "approved"]
        BY <1>1, <1>3, <2>1
      <3>2. QED
        BY <1>4, <2>1, <3>1 DEF VersionShape
    <2>2. CASE t # target
      BY <1>1, <1>3, <2>2
    <2>3. QED
      BY <2>1, <2>2
  <1>9. TranscriptShaped'
    BY <1>1, <1>3, <1>7 DEF TranscriptInv, TranscriptShaped, shelf
  <1>10. \A t \in 1 .. n : Lines(t)' = Lines(t)
    BY <1>8 DEF Lines
  <1>11. \A t \in 1 .. n : Descends(t)'
    <2> SUFFICES ASSUME NEW t \in 1 .. n PROVE Descends(t)'
      OBVIOUS
    <2>1. Descends(t) /\ t \in Nat
      BY <1>3 DEF TranscriptInv, Chained
    <2>2. /\ versions[t].parent # 0 => versions[t].parent \in 1 .. n
          /\ versions[t].parent = target => target \in revived
      BY <1>2, <1>3, <2>1 DEF Descends, Free, Leaf
    <2>3. revived' = revived
      BY <1>1 DEF shelf
    <2>4. QED
      BY <1>3, <1>7, <1>8, <2>1, <2>2, <2>3 DEF Descends
  <1>12. Chained' /\ ListedInPath'
    BY <1>1, <1>3, <1>7, <1>8, <1>10, <1>11 DEF TranscriptInv, Chained, ListedInPath
  <1>13. OnScreen'
    BY <1>1, <1>2, <1>3, <1>7, <1>8 DEF TranscriptInv, OnScreen, Free, Leaf, shelf
  <1>14. PendingKnown'
    BY <1>1, <1>3, <1>7 DEF TranscriptInv, PendingKnown
  <1>15. OneCorrection'
    BY <1>1 DEF OneCorrection
  <1>16. ImportsKnown'
    BY <1>1, <1>3, <1>7, <1>8, ImportsStay DEF TranscriptInv, shelf
  <1>17. QED
    BY <1>9, <1>12, <1>13, <1>14, <1>15, <1>16 DEF TranscriptInv

\* The version a video opens with is one of its own that nothing was made of.
LEMMA ChosenIsLeaf ==
  ASSUME TranscriptInv, NEW m, ChosenTrack(m) # 0
  PROVE  /\ ChosenTrack(m) \in 1 .. Len(versions)
         /\ versions[ChosenTrack(m)].media = m /\ Leaf(ChosenTrack(m))
  <1> DEFINE of == {t \in DOMAIN versions : versions[t].media = m}
             best == {t \in of : \A u \in of : versions[u].number <= versions[t].number}
             numbers == {versions[t].number : t \in of}
  <1>0. PICK n \in Nat : n = Len(versions) /\ DOMAIN versions = 1 .. n
    BY DEF TranscriptInv, TranscriptShaped
  <1>1. of # {} /\ ChosenTrack(m) = CHOOSE t \in best : \A u \in best : u <= t
    BY DEF ChosenTrack, TracksOf, NoTrack
  <1>2. \A t \in 1 .. n : versions[t] \in VersionShape /\ Descends(t)
    BY <1>0 DEF TranscriptInv, TranscriptShaped, Chained
  <1>3. \A t \in of : versions[t].number \in 0 .. n
    <2> SUFFICES ASSUME NEW t \in of PROVE versions[t].number \in 0 .. n
      OBVIOUS
    <2>1. t \in 1 .. n
      BY <1>0
    <2>2. versions[t].number \in Nat /\ versions[t].number <= t
      BY <1>2, <2>1 DEF VersionShape, Descends
    <2>3. QED
      BY <2>1, <2>2
  <1>4. best # {}
    <2>1. numbers \in SUBSET (0 .. n) /\ numbers # {}
      BY <1>1, <1>3
    <2>2. PICK k \in numbers : \A j \in numbers : j <= k
      BY <2>1, GreatestNumber
    <2>3. QED
      BY <2>2
  <1>5. best \in SUBSET (0 .. n)
    BY <1>0
  <1>6. \E t \in best : \A u \in best : u <= t
    BY <1>4, <1>5, GreatestNumber
  <1>7. ChosenTrack(m) \in best
    BY <1>1, <1>6
  <1>8. PICK t : t = ChosenTrack(m)
    OBVIOUS
  <1>9. t \in 1 .. n /\ versions[t].media = m /\ \A u \in of : versions[u].number <= versions[t].number
    BY <1>0, <1>7, <1>8
  <1>10. ASSUME NEW u \in 1 .. n, versions[u].parent = t PROVE FALSE
    <2>1. versions[u].media = m /\ versions[t].number + 1 = versions[u].number
      BY <1>2, <1>9, <1>10 DEF Descends
    <2>2. versions[u].number <= versions[t].number
      BY <1>0, <1>9, <2>1
    <2>3. versions[t].number \in Nat
      BY <1>2, <1>9 DEF VersionShape
    <2>4. QED
      BY <2>1, <2>2, <2>3
  <1>11. QED
    BY <1>0, <1>8, <1>9, <1>10 DEF Leaf

LEMMA KnownIsMedia ==
  ASSUME TranscriptInv, NEW m \in Known
  PROVE  m \in Media
  <1>1. PICK t \in DOMAIN versions : m = versions[t].media
    BY DEF Known
  <1>2. versions[t] \in VersionShape
    BY DEF TranscriptInv, TranscriptShaped
  <1>3. QED
    BY <1>1, <1>2 DEF VersionShape

LEMMA OpenMediaKeeps ==
  ASSUME TranscriptInv, NEW m, OpenMedia(m)
  PROVE  TranscriptInv'
  <1>1. /\ m \in Known
        /\ media' = m /\ target' = ChosenTrack(m)
        /\ video' = IF m = media THEN video ELSE Nothing
        /\ UNCHANGED <<versions, pending, corrections, jobs, drafts, embedded, shelf>>
    BY DEF OpenMedia
  <1>2. PICK n \in Nat : n = Len(versions) /\ DOMAIN versions = 1 .. n
    BY DEF TranscriptInv, TranscriptShaped
  <1>3. m \in Media
    BY <1>1, KnownIsMedia
  <1>4. target' \in 0 .. n
    BY <1>1, <1>2, ChosenIsLeaf
  <1>5. TranscriptShaped'
    BY <1>1, <1>2, <1>3, <1>4 DEF TranscriptInv, TranscriptShaped, shelf
  <1>6. Chained' /\ ListedInPath' /\ PendingKnown' /\ ImportsKnown'
    BY <1>1 DEF TranscriptInv, Chained, Descends, Lines, ListedInPath, PendingKnown, ImportsKnown, shelf
  <1>7. OnScreen'
    <2>1. target' # 0 => versions[target'].media = m /\ Leaf(target')
      BY <1>1, ChosenIsLeaf
    <2>2. QED
      BY <1>1, <2>1 DEF OnScreen, Free, Leaf, NoTrack
  <1>8. OneCorrection'
    BY <1>1 DEF TranscriptInv, OneCorrection, AppliedAsSent, Free, Leaf, Status, Lines, shelf
  <1>9. QED
    BY <1>5, <1>6, <1>7, <1>8 DEF TranscriptInv

LEMMA FileRestoredKeeps == TranscriptInv /\ FileRestored => TranscriptInv'
  <1> SUFFICES ASSUME TranscriptInv, FileRestored PROVE TranscriptInv'
    OBVIOUS
  <1>1. UNCHANGED <<media, versions, target, pending, corrections, jobs, drafts, embedded, shelf>>
        /\ video' = media
    BY DEF FileRestored
  <1>2. ListedInPath'
    BY <1>1 DEF TranscriptInv, ListedInPath
  <1>3. QED
    BY <1>1, <1>2, RestShaped, VersionsLeftAlone

\* An approved version that an occurrence leads to was corrected only if an import showed it.
LEMMA JumpKeeps ==
  ASSUME TranscriptInv, NEW t, Jump(t)
  PROVE  TranscriptInv'
  <1>1. /\ t \in DOMAIN versions /\ versions[t].status = "approved"
        /\ media' = versions[t].media /\ target' = t
        /\ UNCHANGED <<video, versions, pending, corrections, jobs, drafts, embedded, shelf>>
    BY DEF Jump, Status
  <1>2. PICK n \in Nat : n = Len(versions) /\ DOMAIN versions = 1 .. n
    BY DEF TranscriptInv, TranscriptShaped
  <1>3. t \in 1 .. n /\ versions[t].media \in Media
    <2>1. t \in 1 .. n /\ versions[t] \in VersionShape
      BY <1>1, <1>2 DEF TranscriptInv, TranscriptShaped
    <2>2. QED
      BY <2>1 DEF VersionShape
  <1>4. Free(t)
    <2> SUFFICES ASSUME t \notin revived, NEW u \in 1 .. n, versions[u].parent = t PROVE FALSE
      BY <1>2 DEF Free, Leaf
    <2>1. Descends(u) /\ t # 0
      BY <1>2, <1>3 DEF TranscriptInv, Chained
    <2>2. QED
      BY <1>1, <2>1 DEF Descends
  <1>5. TranscriptShaped'
    BY <1>1, <1>2, <1>3 DEF TranscriptInv, TranscriptShaped, shelf
  <1>6. Chained' /\ ListedInPath' /\ PendingKnown' /\ ImportsKnown'
    BY <1>1 DEF TranscriptInv, Chained, Descends, Lines, ListedInPath, PendingKnown, ImportsKnown, shelf
  <1>7. OnScreen'
    BY <1>1, <1>4 DEF OnScreen, Free, Leaf, shelf
  <1>8. OneCorrection'
    BY <1>1 DEF TranscriptInv, OneCorrection, AppliedAsSent, Free, Leaf, Status, Lines, shelf
  <1>9. QED
    BY <1>5, <1>6, <1>7, <1>8 DEF TranscriptInv

-----------------------------------------------------------------------------
(***************************************************************************)
(* A stored video is added again.                                          *)
(***************************************************************************)
LEMMA FirstIsOne ==
  ASSUME NEW S \in SUBSET Nat, S # {}
  PROVE  First(S) \in S
  <1>1. \E t \in S : \A u \in S : t <= u
    BY LeastNumber
  <1>2. QED
    BY <1>1 DEF First

LEMMA PickedIsOne ==
  ASSUME TranscriptInv, NEW m \in Known
  PROVE  /\ Picked(m) \in TracksOf(m) /\ TracksOf(m) \in SUBSET Nat
         /\ \A t \in TracksOf(m) : t \in 1 .. Len(versions) /\ versions[t].media = m
  <1>1. PICK n \in Nat : n = Len(versions) /\ DOMAIN versions = 1 .. n
    BY DEF TranscriptInv, TranscriptShaped
  <1>2. /\ TracksOf(m) \in SUBSET Nat /\ TracksOf(m) # {}
        /\ \A t \in TracksOf(m) : t \in 1 .. n /\ versions[t].media = m
    BY <1>1 DEF Known, TracksOf
  <1>3. CASE media = m /\ target # NoTrack
    <2>1. target \in 1 .. n /\ versions[target].media = m
      BY <1>1, <1>3 DEF TranscriptInv, TranscriptShaped, OnScreen, NoTrack
    <2>2. QED
      BY <1>1, <1>2, <1>3, <2>1 DEF Picked, TracksOf
  <1>4. CASE ~ (media = m /\ target # NoTrack)
    <2>1. Picked(m) = First(TracksOf(m))
      BY <1>4 DEF Picked
    <2>2. QED
      BY <1>1, <1>2, <2>1, FirstIsOne
  <1>5. QED
    BY <1>3, <1>4

\* A version shown that was corrected before is one an import revived.
LEMMA ShowKeeps ==
  ASSUME TranscriptInv, NEW m \in Media, NEW t \in 1 .. Len(versions), versions[t].media = m,
         Show(m, t), imports' \subseteq imports,
         UNCHANGED <<versions, pending, corrections, jobs, drafts, embedded>>
  PROVE  TranscriptInv'
  <1>1. PICK n \in Nat : n = Len(versions) /\ DOMAIN versions = 1 .. n
    BY DEF TranscriptInv, TranscriptShaped
  <1>2. /\ media' = m /\ target' = t /\ video' = m
        /\ revived \subseteq revived' /\ revived' \subseteq revived \cup {t}
        /\ Corrected(t) => t \in revived'
    BY DEF Show
  <1>3. TranscriptShaped'
    BY <1>1, <1>2 DEF TranscriptInv, TranscriptShaped
  <1>4. \A u \in 1 .. n : Descends(u) => Descends(u)'
    BY <1>1, <1>2 DEF Descends
  <1>5. Chained'
    BY <1>1, <1>4 DEF TranscriptInv, Chained, Lines
  <1>6. ListedInPath' /\ PendingKnown' /\ ImportsKnown'
    BY DEF TranscriptInv, ListedInPath, PendingKnown, ImportsKnown
  <1>7. OnScreen'
    <2>1. Free(t)'
      BY <1>1, <1>2 DEF Free, Leaf, Corrected
    <2>2. QED
      BY <1>2, <2>1 DEF OnScreen
  <1>8. OneCorrection'
    BY <1>2 DEF TranscriptInv, OneCorrection, AppliedAsSent, Free, Leaf, Status, Lines
  <1>9. QED
    BY <1>3, <1>5, <1>6, <1>7, <1>8 DEF TranscriptInv

LEMMA RelinkKeeps ==
  ASSUME TranscriptInv, NEW m, Relink(m)
  PROVE  TranscriptInv'
  <1>1. /\ m \in Known /\ Show(m, Picked(m)) /\ imports' = imports
        /\ UNCHANGED <<versions, pending, corrections, jobs, drafts, embedded>>
    BY DEF Relink
  <1>2. m \in Media /\ Picked(m) \in 1 .. Len(versions) /\ versions[Picked(m)].media = m
    BY <1>1, KnownIsMedia, PickedIsOne
  <1>3. QED
    BY <1>1, <1>2, ShowKeeps

LEMMA BeginImportKeeps ==
  ASSUME TranscriptInv, NEW m, BeginImport(m)
  PROVE  TranscriptInv'
  <1>1. PICK i : i = [media |-> m, picked |-> Picked(m), found |-> TracksOf(m)]
    OBVIOUS
  <1>2. /\ m \in Known /\ imports' = imports \cup {i}
        /\ UNCHANGED <<media, video, versions, target, pending, corrections, jobs, drafts, embedded, revived>>
    BY <1>1 DEF BeginImport
  <1>3. /\ i \in ImportShape /\ i.picked \in i.found
        /\ \A t \in i.found : t \in 1 .. Len(versions) /\ versions[t].media = i.media
    <2>1. /\ m \in Media /\ Picked(m) \in TracksOf(m) /\ TracksOf(m) \in SUBSET Nat
          /\ \A t \in TracksOf(m) : t \in 1 .. Len(versions) /\ versions[t].media = m
      BY <1>2, KnownIsMedia, PickedIsOne
    <2>2. QED
      BY <1>1, <2>1 DEF ImportShape
  <1>4. TranscriptShaped'
    BY <1>2, <1>3 DEF TranscriptInv, TranscriptShaped
  <1>5. Chained' /\ ListedInPath' /\ PendingKnown'
    BY <1>2 DEF TranscriptInv, Chained, Descends, Lines, ListedInPath, PendingKnown
  <1>6. OnScreen'
    BY <1>2 DEF TranscriptInv, OnScreen, Free, Leaf
  <1>7. OneCorrection'
    BY <1>2 DEF TranscriptInv, OneCorrection, AppliedAsSent, Free, Leaf, Status, Lines
  <1>8. ImportsKnown'
    BY <1>2, <1>3 DEF TranscriptInv, ImportsKnown
  <1>9. QED
    BY <1>4, <1>5, <1>6, <1>7, <1>8 DEF TranscriptInv

-----------------------------------------------------------------------------
(***************************************************************************)
(* Jobs.                                                                   *)
(***************************************************************************)
LEMMA JobsEnd ==
  ASSUME TranscriptInv, jobs # <<>>
  PROVE  Tail(jobs) \in Seq(JobShape) /\ Head(jobs) \in JobShape
  BY RestShaped

LEMMA JobsAsked ==
  ASSUME TranscriptInv, AskTranscription \/ AskCaptions \/ AskListing \/ AskExtraction
  PROVE  TranscriptInv'
  <1>1. PICK kind \in {"asr", "captions", "list", "extract"} : Ask(kind)
    BY DEF AskTranscription, AskCaptions, AskListing, AskExtraction
  <1>2. Job(kind) \in JobShape
    BY DEF Job, JobShape
  <1>3. jobs' = Append(jobs, Job(kind))
        /\ UNCHANGED <<media, video, versions, target, pending, corrections, drafts, embedded, shelf>>
    BY <1>1 DEF Ask
  <1>4. jobs' \in Seq(JobShape)
    BY <1>2, <1>3, RestShaped
  <1>5. ListedInPath'
    BY <1>3 DEF TranscriptInv, ListedInPath
  <1>6. QED
    BY <1>3, <1>4, <1>5, RestShaped, VersionsLeftAlone

\* A step of the listing, the extraction or a draft that ends or drops the first job.
LEMMA FirstJobDone ==
  ASSUME TranscriptInv, jobs # <<>>, jobs' = Tail(jobs),
         UNCHANGED <<media, video, versions, target, pending, corrections, shelf>>,
         drafts' \in SUBSET (Media \cup {Nothing}), embedded' \in Embedded, ListedInPath'
  PROVE  TranscriptInv'
  BY JobsEnd, RestShaped, VersionsLeftAlone

LEMMA JobsStart ==
  ASSUME TranscriptInv, StartListing \/ StartExtraction
  PROVE  TranscriptInv'
  <1>0. /\ jobs # <<>> /\ Head(jobs) = jobs[1] /\ jobs[1] \in JobShape
        /\ UNCHANGED <<media, video, versions, target, pending, corrections, drafts, shelf>>
    <2>1. jobs # <<>>
      BY DEF StartListing, StartExtraction, Started
    <2>2. QED
      BY <2>1, RestShaped DEF StartListing, StartExtraction
  <1>1. \A j \in JobShape : [jobs EXCEPT ![1] = j] \in Seq(JobShape)
    BY <1>0, RestShaped
  <1>2. embedded.path \in Paths /\ embedded.selected \in Streams \cup {Nothing} /\ media \in Media
    BY RestShaped DEF Embedded
  <1>3. CASE StartListing
    <2>1. /\ jobs' = [jobs EXCEPT ![1] = [jobs[1] EXCEPT !.started = TRUE, !.path = embedded.path]]
          /\ embedded' = [NoListing(embedded.path) EXCEPT !.listing = "listing"]
      BY <1>3 DEF StartListing
    <2>2. [jobs[1] EXCEPT !.started = TRUE, !.path = embedded.path] \in JobShape
      BY <1>0, <1>2 DEF JobShape
    <2>3. embedded' \in Embedded /\ embedded'.streams = {}
      BY <1>2, <2>1 DEF NoListing, Embedded
    <2>4. ListedInPath'
      BY <2>3 DEF ListedInPath
    <2>5. QED
      BY <1>0, <1>1, <2>1, <2>2, <2>3, <2>4, RestShaped, VersionsLeftAlone
  <1>4. CASE StartExtraction
    <2>1. CASE embedded.selected \in embedded.streams
      <3>1. /\ jobs' = [jobs EXCEPT ![1] = [jobs[1] EXCEPT !.started = TRUE, !.path = embedded.path,
                                                           !.media = media, !.stream = embedded.selected]]
            /\ embedded' = [embedded EXCEPT !.extraction = "extracting"]
        BY <1>4, <2>1 DEF StartExtraction
      <3>2. [jobs[1] EXCEPT !.started = TRUE, !.path = embedded.path,
                            !.media = media, !.stream = embedded.selected] \in JobShape
        BY <1>0, <1>2 DEF JobShape
      <3>3. /\ embedded' \in Embedded /\ embedded'.streams = embedded.streams
            /\ embedded'.path = embedded.path
        BY <3>1, RestShaped DEF Embedded
      <3>4. ListedInPath'
        BY <3>3 DEF TranscriptInv, ListedInPath
      <3>5. QED
        BY <1>0, <1>1, <3>1, <3>2, <3>3, <3>4, RestShaped, VersionsLeftAlone
    <2>2. CASE embedded.selected \notin embedded.streams
      <3>1. jobs' = Tail(jobs) /\ embedded' = [embedded EXCEPT !.extraction = "failed"]
        BY <1>4, <2>2 DEF StartExtraction
      <3>2. /\ embedded' \in Embedded /\ embedded'.streams = embedded.streams
            /\ embedded'.path = embedded.path
        BY <3>1, RestShaped DEF Embedded
      <3>3. ListedInPath'
        BY <3>2 DEF TranscriptInv, ListedInPath
      <3>4. QED
        BY <1>0, <3>1, <3>2, <3>3, RestShaped, FirstJobDone
    <2>3. QED
      BY <2>1, <2>2
  <1>5. QED
    BY <1>3, <1>4

LEMMA JobsGiveUp ==
  ASSUME TranscriptInv,
         JobStale \/ ListingFails \/ ExtractionFails \/ TranscriptionFails \/ CaptionsFail
  PROVE  TranscriptInv'
  <1>1. /\ jobs # <<>> /\ jobs' = Tail(jobs)
        /\ UNCHANGED <<media, video, versions, target, pending, corrections, drafts, shelf>>
    BY DEF JobStale, ListingFails, ExtractionFails, EmbeddedFails, TranscriptionFails, CaptionsFail,
           DraftFails, Running
  <1>2. \/ embedded' = embedded
        \/ embedded' = [embedded EXCEPT !.listing = "failed"]
        \/ embedded' = [embedded EXCEPT !.extraction = "failed"]
    BY DEF JobStale, ListingFails, ExtractionFails, EmbeddedFails, TranscriptionFails, CaptionsFail,
           DraftFails
  <1>3. /\ embedded' \in Embedded /\ embedded'.streams = embedded.streams
        /\ embedded'.path = embedded.path
    BY <1>2, RestShaped DEF Embedded
  <1>4. ListedInPath'
    BY <1>3 DEF TranscriptInv, ListedInPath
  <1>5. QED
    BY <1>1, <1>3, <1>4, RestShaped, FirstJobDone

LEMMA ListingDoneKeeps == TranscriptInv /\ ListingDone => TranscriptInv'
  <1> SUFFICES ASSUME TranscriptInv, ListingDone PROVE TranscriptInv'
    OBVIOUS
  <1> DEFINE result == IF Found(Head(jobs).path) = {} THEN "empty" ELSE "ready"
  <1>1. /\ jobs # <<>> /\ jobs' = Tail(jobs) /\ Head(jobs).path = embedded.path
        /\ embedded' = [embedded EXCEPT !.streams = Found(embedded.path), !.listing = result]
        /\ UNCHANGED <<media, video, versions, target, pending, corrections, drafts, shelf>>
    BY DEF ListingDone, Running, InContext
  <1>2. embedded.path \in Paths /\ Found(embedded.path) \in SUBSET Streams
    BY TranscriptAssumption, RestShaped DEF Embedded, Found
  <1>3. result \in {"empty", "ready"}
    OBVIOUS
  <1> HIDE DEF result
  <1>4. /\ embedded' \in Embedded /\ embedded'.streams = StreamsIn[embedded.path]
        /\ embedded'.path = embedded.path
    BY <1>1, <1>2, <1>3, RestShaped DEF Embedded, Found
  <1>5. ListedInPath'
    BY <1>4 DEF ListedInPath
  <1>6. QED
    BY <1>1, <1>4, <1>5, RestShaped, FirstJobDone

LEMMA JobsAnswered ==
  ASSUME TranscriptInv, TranscriptionAnswered \/ CaptionsAnswered
  PROVE  TranscriptInv'
  <1>1. /\ jobs # <<>> /\ jobs' = Tail(jobs)
        /\ drafts' = drafts \cup {media} \/ drafts' = drafts \cup {Nothing}
        /\ UNCHANGED <<media, video, versions, target, pending, corrections, embedded, shelf>>
    BY DEF TranscriptionAnswered, CaptionsAnswered, Answered, Running
  <1>2. drafts' \in SUBSET (Media \cup {Nothing})
    BY <1>1, RestShaped
  <1>3. ListedInPath'
    BY <1>1 DEF TranscriptInv, ListedInPath
  <1>4. QED
    BY <1>1, <1>2, <1>3, RestShaped, FirstJobDone

LEMMA ReconnectKeeps == TranscriptInv /\ Reconnect => TranscriptInv'
  <1> SUFFICES ASSUME TranscriptInv, Reconnect PROVE TranscriptInv'
    OBVIOUS
  <1>1. jobs' = <<>> /\ drafts' = {}
        /\ UNCHANGED <<media, video, versions, target, pending, corrections, embedded, shelf>>
    BY DEF Reconnect
  <1>2. ListedInPath'
    BY <1>1 DEF TranscriptInv, ListedInPath
  <1>3. jobs' \in Seq(JobShape)
    BY <1>1
  <1>4. QED
    BY <1>1, <1>2, <1>3, RestShaped, VersionsLeftAlone

LEMMA SetPathKeeps ==
  ASSUME TranscriptInv, NEW p \in Paths, SetPath(p)
  PROVE  TranscriptInv'
  <1>1. embedded' = NoListing(p) /\ jobs' = Superseded
        /\ UNCHANGED <<media, video, versions, target, pending, corrections, drafts, shelf>>
    BY DEF SetPath
  <1>2. embedded' \in Embedded /\ embedded'.streams = {}
    BY <1>1 DEF NoListing, Embedded
  <1>3. ListedInPath'
    BY <1>2 DEF ListedInPath
  <1>4. Superseded \in Seq(JobShape)
    <2>1. PICK n \in Nat : DOMAIN jobs = 1 .. n
      BY RestShaped
    <2>2. ASSUME NEW k \in 1 .. n
          PROVE  [jobs[k] EXCEPT !.current = jobs[k].current /\ ~ jobs[k].started] \in JobShape
      <3>1. jobs[k] \in JobShape
        BY <2>1, RestShaped
      <3>2. QED
        BY <3>1 DEF JobShape
    <2>3. Superseded = [k \in 1 .. n |-> [jobs[k] EXCEPT !.current = jobs[k].current /\ ~ jobs[k].started]]
      BY <2>1 DEF Superseded
    <2>4. Superseded \in [1 .. n -> JobShape]
      BY <2>2, <2>3
    <2>5. QED
      BY <2>4
  <1>5. QED
    BY <1>1, <1>2, <1>3, <1>4, RestShaped, VersionsLeftAlone

LEMMA SelectStreamKeeps ==
  ASSUME TranscriptInv, NEW s \in Streams, SelectStream(s)
  PROVE  TranscriptInv'
  <1>1. embedded' = [embedded EXCEPT !.selected = s, !.extraction = "idle"]
        /\ UNCHANGED <<media, video, versions, target, pending, corrections, jobs, drafts, shelf>>
    BY DEF SelectStream
  <1>2. /\ embedded' \in Embedded /\ embedded'.streams = embedded.streams
        /\ embedded'.path = embedded.path
    BY <1>1, RestShaped DEF Embedded
  <1>3. ListedInPath'
    BY <1>2 DEF TranscriptInv, ListedInPath
  <1>4. QED
    BY <1>1, <1>2, <1>3, RestShaped, VersionsLeftAlone

-----------------------------------------------------------------------------
(***************************************************************************)
(* Drafts and corrections land.                                            *)
(***************************************************************************)
LEMMA NewMediaIsNumber ==
  ASSUME TranscriptInv
  PROVE  NewMedia \in Nat \ {0}
  <1> DEFINE S == Known
  <1>1. MaxMedia \in Nat
    BY TranscriptAssumption
  <1>2. IsFiniteSet(Media)
    BY <1>1, FS_Interval DEF Media
  <1>3. S \subseteq Media
    BY KnownIsMedia
  <1>4. Cardinality(S) \in Nat
    BY <1>2, <1>3, FS_Subset, FS_CardinalityType
  <1>5. QED
    BY <1>4 DEF NewMedia

\* A correction under way is not touched by a version that is not made of another.
LEMMA CorrectionsStay ==
  ASSUME TranscriptInv, NEW v \in VersionShape, v.parent = 0, versions' = Append(versions, v),
         corrections' = corrections, revived' = revived
  PROVE  OneCorrection'
  <1>1. PICK n \in Nat : n = Len(versions)
    BY DEF TranscriptInv, TranscriptShaped
  <1>2. /\ Len(versions') = n + 1 /\ versions'[n + 1] = v
        /\ \A t \in 1 .. n : versions'[t] = versions[t]
    BY <1>1 DEF TranscriptInv, TranscriptShaped
  <1>3. \A c, d \in corrections' : c = d
    BY DEF TranscriptInv, OneCorrection
  <1>4. ASSUME NEW c \in corrections'
        PROVE  /\ c.parent \in 1 .. Len(versions') /\ Free(c.parent)' /\ Status(c.parent)' # "approved"
               /\ Fits(c.lines) /\ AppliedAsSent(c)' /\ (c.origin = "offset" => Ordered(c.lines))
    <2>1. /\ c.parent \in 1 .. n /\ Free(c.parent) /\ Status(c.parent) # "approved"
          /\ Fits(c.lines) /\ AppliedAsSent(c) /\ (c.origin = "offset" => Ordered(c.lines))
      BY <1>1 DEF TranscriptInv, OneCorrection
    <2>2. versions'[c.parent] = versions[c.parent]
      BY <1>2, <2>1
    <2>3. c.parent \notin revived => \A u \in 1 .. n + 1 : versions'[u].parent # c.parent
      <3>1. c.parent \notin revived => \A u \in 1 .. n : versions'[u].parent # c.parent
        BY <1>1, <1>2, <2>1 DEF Free, Leaf
      <3>2. versions'[n + 1].parent # c.parent
        BY <1>2, <2>1
      <3>3. \A u \in 1 .. n + 1 : u \in 1 .. n \/ u = n + 1
        BY <1>1
      <3>4. QED
        BY <3>1, <3>2, <3>3
    <2>4. Free(c.parent)'
      BY <1>2, <2>3 DEF Free, Leaf
    <2>5. Status(c.parent)' # "approved" /\ AppliedAsSent(c)'
      BY <2>1, <2>2 DEF Status, AppliedAsSent, Lines
    <2>6. c.parent \in 1 .. Len(versions')
      BY <1>1, <1>2, <2>1
    <2>7. QED
      BY <2>1, <2>4, <2>5, <2>6
  <1>5. QED
    BY <1>3, <1>4 DEF OneCorrection

LEMMA ImportEndsKeeps ==
  ASSUME TranscriptInv, NEW i \in imports, NEW t \in i.found, ImportEnds(i, t), UNCHANGED versions
  PROVE  TranscriptInv'
  <1>1. /\ imports' \subseteq imports /\ Show(i.media, t)
        /\ UNCHANGED <<versions, pending, corrections, jobs, drafts, embedded>>
    BY DEF ImportEnds
  <1>2. i.media \in Media /\ t \in 1 .. Len(versions) /\ versions[t].media = i.media
    BY DEF TranscriptInv, TranscriptShaped, ImportsKnown, ImportShape
  <1>3. QED
    BY <1>1, <1>2, ShowKeeps

LEMMA ImportUnreadableKeeps ==
  ASSUME TranscriptInv, NEW i \in imports, ImportUnreadable(i)
  PROVE  TranscriptInv'
  <1>1. i.picked \in i.found
    BY DEF TranscriptInv, ImportsKnown
  <1>2. ImportEnds(i, i.picked) /\ UNCHANGED versions
    BY DEF ImportUnreadable
  <1>3. QED
    BY <1>1, <1>2, ImportEndsKeeps

LEMMA ImportLandsKeeps ==
  ASSUME TranscriptInv, NEW i \in imports, ImportLands(i)
  PROVE  /\ TranscriptInv' /\ corrections' = corrections
         /\ \/ Len(versions') = Len(versions)
            \/ Len(versions') = Len(versions) + 1 /\ versions'[Len(versions')].origin = "import"
  <1>1. PICK n \in Nat : n = Len(versions) /\ DOMAIN versions = 1 .. n
    BY DEF TranscriptInv, TranscriptShaped
  <1>2. PICK text \in Texts :
          LET file == Stored(i.media, "approved", text)
              same == {t \in i.found : versions[t] = file}
          IN \/ same # {} /\ ImportEnds(i, First(same)) /\ UNCHANGED versions
             \/ /\ Len(versions) < MaxTracks
                /\ versions' = Append(versions, file)
                /\ ImportEnds(i, Len(versions) + 1)
    BY DEF ImportLands
  <1>3. PICK v : v = Stored(i.media, "approved", text)
    OBVIOUS
  <1>4. i.media \in Media /\ i.found \in SUBSET Nat
    BY DEF TranscriptInv, TranscriptShaped, ImportShape
  <1>5. CASE {t \in i.found : versions[t] = v} # {} /\ ImportEnds(i, First({t \in i.found : versions[t] = v}))
             /\ UNCHANGED versions
    <2>1. First({t \in i.found : versions[t] = v}) \in i.found
      BY <1>4, <1>5, FirstIsOne
    <2>2. QED
      BY <1>5, <2>1, ImportEndsKeeps DEF ImportEnds
  <1>6. CASE n < MaxTracks /\ versions' = Append(versions, v) /\ ImportEnds(i, n + 1)
    <2>1. /\ v \in VersionShape /\ v.media = i.media /\ v.parent = 0 /\ v.number = 1 /\ v.origin = "import"
          /\ Sound(v.lines) /\ Fits(v.lines)
      <3>1. v.origin = "import"
        BY <1>3 DEF Stored, Version
      <3>2. QED
        BY <1>3, <1>4, <3>1, StoredIs
    <2>2. /\ versions \in Seq(VersionShape) /\ Len(versions') = n + 1 /\ versions'[n + 1] = v
          /\ \A t \in 1 .. n : versions'[t] = versions[t]
      BY <1>1, <1>6 DEF TranscriptInv, TranscriptShaped
    <2>3. /\ media' = v.media /\ target' = n + 1 /\ video' = i.media /\ imports' \subseteq imports
          /\ UNCHANGED <<pending, corrections, jobs, drafts, embedded>>
          /\ revived' = revived \cup {u \in {n + 1} : Corrected(u)}
      BY <1>6, <2>1 DEF ImportEnds, Show
    <2>4. revived' = revived
      <3>1. \A u \in 1 .. n : versions[u].parent \in 0 .. u - 1
        BY <1>1 DEF TranscriptInv, Chained, Descends
      <3>2. \A u \in 1 .. n : versions[u].parent # n + 1
        BY <3>1
      <3>3. ~ Corrected(n + 1)
        BY <1>1, <3>2 DEF Corrected
      <3>4. QED
        BY <2>3, <3>3
    <2>5. /\ versions' \in Seq(VersionShape) /\ n + 1 <= MaxTracks
          /\ media' \in Media /\ revived' \in SUBSET (1 .. n + 1)
          /\ Chained' /\ OnScreen'
      BY <1>1, <1>6, <2>1, <2>2, <2>3, <2>4, VersionPut DEF TranscriptInv
    <2>6. TranscriptShaped'
      <3>1. target' \in 0 .. Len(versions') /\ imports' \in SUBSET ImportShape
        BY <2>2, <2>3 DEF TranscriptInv, TranscriptShaped
      <3>2. QED
        BY <1>4, <2>2, <2>3, <2>5, <3>1 DEF TranscriptInv, TranscriptShaped
    <2>7. PendingKnown' /\ ListedInPath'
      BY <1>1, <2>2, <2>3 DEF TranscriptInv, PendingKnown, ListedInPath
    <2>8. OneCorrection'
      BY <1>6, <2>1, <2>3, <2>4, CorrectionsStay
    <2>9. ImportsKnown'
      BY <1>1, <2>2, <2>3, ImportsStay DEF TranscriptInv
    <2>10. QED
      BY <1>1, <2>1, <2>2, <2>3, <2>5, <2>6, <2>7, <2>8, <2>9 DEF TranscriptInv
  <1>7. QED
    BY <1>1, <1>2, <1>3, <1>5, <1>6

LEMMA DraftPut ==
  ASSUME TranscriptInv, Len(versions) < MaxTracks, NEW m \in Media, NEW text \in Texts,
         NEW origin \in {"draft", "extract"},
         Put(Version(m, NoTrack, 1, "draft", origin, DraftLines(text))),
         pending' = NoEdits, corrections' = corrections, jobs' \in Seq(JobShape),
         drafts' \in SUBSET (Media \cup {Nothing}), embedded' \in Embedded, ListedInPath',
         UNCHANGED shelf
  PROVE  /\ TranscriptInv' /\ Len(versions') = Len(versions) + 1
         /\ versions'[Len(versions')].origin = origin /\ versions'[Len(versions')].media = m
  <1> DEFINE line == [text |-> text, start |-> 0, end |-> 1]
  <1>1. line \in AnyLine /\ line.text # Empty /\ line.start = 0 /\ line.end = 1
    BY TranscriptAssumption DEF AnyLine, Text
  <1>2. DraftLines(text) = <<line>>
    BY DEF DraftLines
  <1> HIDE DEF line
  <1>3. DraftLines(text) \in Seq(AnyLine) /\ Sound(DraftLines(text)) /\ Fits(DraftLines(text))
    <2>1. <<line>> \in Seq(AnyLine) /\ DOMAIN <<line>> = 1 .. 1 /\ Len(<<line>>) = 1 /\ <<line>>[1] = line
      BY <1>1
    <2>2. 1 <= MaxLines /\ 1 <= MaxTime
      BY TranscriptAssumption
    <2>3. \A i \in 1 .. 1 : i = 1
      OBVIOUS
    <2>4. Sound(<<line>>)
      BY <1>1, <2>1, <2>3 DEF Sound
    <2>5. Fits(<<line>>)
      BY <1>1, <2>1, <2>2, <2>3 DEF Fits
    <2>6. QED
      BY <1>2, <2>1, <2>4, <2>5
  <1>4. PICK v : v = Version(m, NoTrack, 1, "draft", origin, DraftLines(text))
    OBVIOUS
  <1>5. /\ v \in VersionShape /\ v.media = m /\ v.parent = 0 /\ v.number = 1
        /\ v.origin = origin /\ origin # "offset" /\ v.lines = DraftLines(text)
    BY <1>3, <1>4 DEF Version, VersionShape, NoTrack, Statuses, Origins
  <1>6. /\ versions' = Append(versions, v) /\ media' = v.media /\ target' = Len(versions')
        /\ video' = video /\ imports' = imports /\ revived' = revived
        /\ TranscriptShaped /\ Chained
    BY <1>4 DEF TranscriptInv, Put, shelf
  <1>7. PICK n \in Nat : n = Len(versions)
    BY DEF TranscriptInv, TranscriptShaped
  <1>8. /\ versions' \in Seq(VersionShape) /\ Len(versions') = n + 1 /\ n + 1 <= MaxTracks
        /\ \A t \in 1 .. n : versions'[t] = versions[t]
        /\ versions'[n + 1] = v
        /\ media' \in Media /\ revived' \in SUBSET (1 .. Len(versions'))
        /\ Chained' /\ OnScreen'
    BY <1>3, <1>5, <1>6, <1>7, VersionPut
  <1>9. TranscriptShaped'
    <2>1. target' \in 0 .. Len(versions')
      BY <1>6, <1>7, <1>8
    <2>2. QED
      BY <1>6, <1>8, <2>1, EditsAre DEF TranscriptInv, TranscriptShaped
  <1>10. PendingKnown'
    BY DEF PendingKnown, NoEdits
  <1>11. OneCorrection'
    BY <1>5, <1>6, CorrectionsStay
  <1>12. ImportsKnown'
    BY <1>6, <1>7, <1>8, ImportsStay DEF TranscriptInv
  <1>13. QED
    BY <1>5, <1>7, <1>8, <1>9, <1>10, <1>11, <1>12 DEF TranscriptInv

LEMMA DraftLandsKeeps ==
  ASSUME TranscriptInv, NEW d \in drafts, DraftLands(d)
  PROVE  /\ TranscriptInv' /\ Len(versions') = Len(versions) + 1
         /\ versions'[Len(versions')].origin = "draft"
  <1> DEFINE m == IF d = Nothing THEN NewMedia ELSE d
  <1>1. /\ Len(versions) < MaxTracks /\ m <= MaxMedia
        /\ \E text \in Texts : Put(Version(m, NoTrack, 1, "draft", "draft", DraftLines(text)))
        /\ drafts' = drafts \ {d} /\ pending' = NoEdits
        /\ UNCHANGED <<corrections, jobs, embedded, shelf>>
    BY DEF DraftLands
  <1>2. m \in Media
    <2>1. d \in Media \cup {Nothing}
      BY RestShaped
    <2>2. MaxMedia \in Nat
      BY TranscriptAssumption
    <2>3. QED
      BY <1>1, <2>1, <2>2, NewMediaIsNumber DEF Media
  <1> HIDE DEF m
  <1>3. PICK text \in Texts : Put(Version(m, NoTrack, 1, "draft", "draft", DraftLines(text)))
    BY <1>1
  <1>4. ListedInPath'
    BY <1>1 DEF TranscriptInv, ListedInPath
  <1>5. drafts' \in SUBSET (Media \cup {Nothing}) /\ jobs' \in Seq(JobShape) /\ embedded' \in Embedded
    BY <1>1, RestShaped
  <1>6. QED
    BY <1>1, <1>2, <1>3, <1>4, <1>5, DraftPut

LEMMA ExtractionDoneKeeps ==
  ASSUME TranscriptInv, ExtractionDone
  PROVE  /\ TranscriptInv' /\ Len(versions') = Len(versions) + 1
         /\ versions'[Len(versions')].media = Head(jobs).media
  <1>1. /\ jobs # <<>> /\ Head(jobs).kind = "extract" /\ Head(jobs).media = media
        /\ Len(versions) < MaxTracks
        /\ \E text \in Texts :
             Put(Version(Head(jobs).media, NoTrack, 1, "draft", "extract", DraftLines(text)))
        /\ pending' = NoEdits
        /\ embedded' = [embedded EXCEPT !.extraction = "imported"]
        /\ jobs' = Tail(jobs)
        /\ UNCHANGED <<corrections, drafts, shelf>>
    BY DEF ExtractionDone, Running, InContext
  <1>2. PICK text \in Texts : Put(Version(media, NoTrack, 1, "draft", "extract", DraftLines(text)))
    BY <1>1
  <1>3. /\ embedded' \in Embedded /\ embedded'.streams = embedded.streams
        /\ embedded'.path = embedded.path
    BY <1>1, RestShaped DEF Embedded
  <1>4. ListedInPath'
    BY <1>3 DEF TranscriptInv, ListedInPath
  <1>5. jobs' \in Seq(JobShape) /\ drafts' \in SUBSET (Media \cup {Nothing}) /\ media \in Media
    BY <1>1, JobsEnd, RestShaped
  <1>6. QED
    BY <1>1, <1>2, <1>3, <1>4, <1>5, DraftPut

\* What was typed since Apply was clicked stays, in the editors of the new version t.
LEMMA Retained ==
  ASSUME TranscriptInv, NEW c \in corrections, NEW t \in Tracks, t = Len(versions) + 1
  PROVE  /\ Retain(c, t) \in Edits
         /\ \A l \in DOMAIN Retain(c, t) : l[1] \in 1 .. t /\ l[2] \in 1 .. MaxLines
         /\ \A l \in DOMAIN pending \cap LinesOf(c.parent) :
              ~ (l \in DOMAIN c.sent /\ c.sent[l] = pending[l]) =>
                 /\ <<t, l[2]>> \in DOMAIN Retain(c, t)
                 /\ Retain(c, t)[<<t, l[2]>>] = pending[l]
  <1> DEFINE kept == {l \in DOMAIN pending : ~ (l \in DOMAIN c.sent /\ c.sent[l] = pending[l])}
             child(l) == IF l \in LinesOf(c.parent) THEN <<t, l[2]>> ELSE l
             keys == {child(k) : k \in kept}
             source(l) == CHOOSE k \in kept : child(k) = l
  <1>0. PICK n \in Nat : n = Len(versions) /\ t = n + 1
    BY DEF TranscriptInv, TranscriptShaped
  <1>1. Retain(c, t) = [l \in keys |-> pending[source(l)]]
    BY DEF Retain
  <1>2. \A l \in DOMAIN pending :
          /\ l \in LineIds /\ pending[l] \in Text /\ l[1] \in 1 .. n /\ l[2] \in 1 .. MaxLines
          /\ l = <<l[1], l[2]>>
    BY <1>0, EditsAre DEF TranscriptInv, TranscriptShaped, PendingKnown, LineIds
  <1>3. \A k \in kept : /\ child(k) \in LineIds /\ child(k)[1] \in 1 .. t
                        /\ child(k)[2] \in 1 .. MaxLines
    BY <1>0, <1>2 DEF LineIds
  <1>4. \A l \in keys : source(l) \in kept /\ child(source(l)) = l
    OBVIOUS
  <1>5. \A k \in LinesOf(c.parent) : k = <<c.parent, k[2]>>
    BY DEF LinesOf
  <1>6. ASSUME NEW l \in kept, l \in LinesOf(c.parent)
        PROVE  child(l) = <<t, l[2]>> /\ child(l) \in keys /\ source(child(l)) = l
    <2>1. child(l) = <<t, l[2]>> /\ child(l) \in keys
      BY <1>6
    <2>2. PICK k \in kept : k = source(child(l)) /\ child(k) = <<t, l[2]>>
      BY <1>4, <2>1
    <2>3. k \in LinesOf(c.parent)
      <3>1. k[1] # t
        BY <1>0, <1>2
      <3>2. k \notin LinesOf(c.parent) => child(k) = k
        OBVIOUS
      <3>3. k = <<t, l[2]>> => k[1] = t
        OBVIOUS
      <3>4. QED
        BY <2>2, <3>1, <3>2, <3>3
    <2>4. k[2] = l[2]
      <3>1. child(k) = <<t, k[2]>>
        BY <2>3
      <3>2. QED
        BY <2>2, <3>1
    <2>5. k = l
      BY <1>5, <1>6, <2>3, <2>4
    <2>6. QED
      BY <2>1, <2>2, <2>5
  <1>7. keys \in SUBSET LineIds /\ \A l \in keys : l[1] \in 1 .. t /\ l[2] \in 1 .. MaxLines
    BY <1>3
  <1>8. \A l \in keys : pending[source(l)] \in Text
    BY <1>2, <1>4
  <1>9. \A l \in DOMAIN pending \cap LinesOf(c.parent) :
          ~ (l \in DOMAIN c.sent /\ c.sent[l] = pending[l]) => l \in kept
    OBVIOUS
  <1> HIDE DEF kept, child, keys, source
  <1>10. Retain(c, t) \in [keys -> Text] /\ DOMAIN Retain(c, t) = keys
    BY <1>1, <1>8
  <1>11. QED
    BY <1>1, <1>6, <1>7, <1>9, <1>10, EditsAre

LEMMA CorrectionLandsKeeps ==
  ASSUME TranscriptInv, NEW c \in corrections, CorrectionLands(c)
  PROVE  /\ TranscriptInv' /\ corrections' = {}
         /\ Len(versions') > Len(versions) =>
              /\ Len(versions') = Len(versions) + 1
              /\ versions'[Len(versions')].parent = c.parent
              /\ versions'[Len(versions')].lines = c.lines
              /\ versions'[Len(versions')].origin = c.origin
              /\ c.origin = "apply" => pending' = Retain(c, Len(versions'))
  <1>0. PICK n \in Nat : n = Len(versions)
    BY DEF TranscriptInv, TranscriptShaped
  <1>1. /\ corrections' = {} /\ c \in Correction
        /\ c.parent \in 1 .. n /\ Free(c.parent) /\ Status(c.parent) # "approved"
        /\ Fits(c.lines) /\ (c.origin = "offset" => Ordered(c.lines))
    BY <1>0 DEF TranscriptInv, TranscriptShaped, OneCorrection, CorrectionLands
  <1>2. UNCHANGED <<jobs, drafts, embedded, shelf>>
    BY DEF CorrectionLands
  <1>3. ListedInPath' /\ OneCorrection'
    BY <1>1, <1>2 DEF TranscriptInv, ListedInPath, OneCorrection
  <1>4. CASE ~ Sound(c.lines)
    <2>1. UNCHANGED <<media, video, versions, target, pending, shelf>>
      BY <1>4 DEF CorrectionLands
    <2>2. TranscriptShaped'
      BY <1>1, <1>2, <2>1 DEF TranscriptInv, TranscriptShaped, shelf
    <2>3. Chained' /\ OnScreen' /\ PendingKnown' /\ ImportsKnown'
      BY <2>1 DEF TranscriptInv, Chained, Descends, Lines, OnScreen, Free, Leaf, PendingKnown, ImportsKnown,
                  shelf
    <2>4. QED
      BY <1>0, <1>1, <1>3, <2>1, <2>2, <2>3 DEF TranscriptInv
  <1>5. CASE Sound(c.lines)
    <2>1. PICK v : v = Version(versions[c.parent].media, c.parent, versions[c.parent].number + 1,
                               StatusOf(c), c.origin, c.lines)
      OBVIOUS
    <2>2. /\ n < MaxTracks /\ Put(v)
          /\ pending' = IF c.origin = "apply" THEN Retain(c, Len(versions')) ELSE NoEdits
      BY <1>0, <1>5, <2>1 DEF CorrectionLands
    <2>3. versions[c.parent] \in VersionShape
      BY <1>0, <1>1 DEF TranscriptInv, TranscriptShaped
    <2>4. versions[c.parent].number + 1 \in Nat \ {0} /\ StatusOf(c) \in Statuses
          /\ versions[c.parent].media \in Media
      BY <2>3 DEF VersionShape, StatusOf, Status, Statuses
    <2>5. c.parent \in Nat /\ c.origin \in Origins /\ c.lines \in Seq(AnyLine)
      BY <1>1 DEF Correction, Origins
    <2>6. /\ v \in VersionShape /\ v.parent = c.parent /\ v.lines = c.lines /\ v.origin = c.origin
          /\ v.media = versions[c.parent].media /\ v.number = versions[c.parent].number + 1
      BY <2>1, <2>4, <2>5 DEF Version, VersionShape
    <2>7. /\ versions' \in Seq(VersionShape) /\ Len(versions') = n + 1 /\ n + 1 <= MaxTracks
          /\ versions'[n + 1] = v
          /\ \A t \in 1 .. n : versions'[t] = versions[t]
          /\ media' \in Media /\ target' = n + 1 /\ video' = video /\ imports' = imports
          /\ revived' \in SUBSET (1 .. n + 1)
          /\ Chained' /\ OnScreen'
      <3>1. /\ versions' = Append(versions, v) /\ media' = v.media /\ target' = Len(versions')
            /\ video' = video /\ imports' = imports /\ revived' = revived
            /\ TranscriptShaped /\ Chained
        BY <1>2, <2>2 DEF TranscriptInv, Put, shelf
      <3>2. QED
        BY <1>0, <1>1, <1>5, <2>2, <2>6, <3>1, VersionPut
    <2>8. n + 1 \in Tracks
      BY <1>0, <2>7, TranscriptAssumption DEF Tracks
    <2>9. pending' \in Edits /\ \A l \in DOMAIN pending' : l[1] \in 1 .. n + 1 /\ l[2] \in 1 .. MaxLines
      <3>1. CASE c.origin = "apply"
        <4>1. pending' = Retain(c, n + 1)
          BY <2>2, <2>7, <3>1
        <4>2. QED
          BY <1>0, <2>8, <4>1, Retained
      <3>2. CASE c.origin # "apply"
        <4>1. pending' = NoEdits
          BY <2>2, <3>2
        <4>2. QED
          BY <4>1, EditsAre DEF NoEdits
      <3>3. QED
        BY <3>1, <3>2
    <2>10. PendingKnown'
      BY <2>7, <2>9 DEF PendingKnown
    <2>11. target' \in 0 .. Len(versions')
      BY <1>0, <2>7
    <2>12. TranscriptShaped'
      BY <1>1, <1>2, <2>7, <2>9, <2>11 DEF TranscriptInv, TranscriptShaped
    <2>13. ImportsKnown'
      BY <1>0, <2>7, ImportsStay DEF TranscriptInv
    <2>14. TranscriptInv'
      BY <1>3, <2>7, <2>10, <2>12, <2>13 DEF TranscriptInv
    <2>15. QED
      BY <1>0, <1>1, <2>2, <2>6, <2>7, <2>14
  <1>6. QED
    BY <1>4, <1>5

-----------------------------------------------------------------------------
(***************************************************************************)
(* The theorems.                                                           *)
(***************************************************************************)
LEMMA TranscriptStep == TranscriptInv /\ [TranscriptNext]_transcriptVars => TranscriptInv'
  <1> SUFFICES ASSUME TranscriptInv, [TranscriptNext]_transcriptVars PROVE TranscriptInv'
    OBVIOUS
  <1>1. CASE UNCHANGED transcriptVars
    <2>1. UNCHANGED <<media, video, versions, target, pending, corrections, jobs, drafts, embedded, shelf>>
      BY <1>1 DEF transcriptVars
    <2>2. ListedInPath'
      BY <2>1 DEF TranscriptInv, ListedInPath
    <2>3. QED
      BY <2>1, <2>2, RestShaped, VersionsLeftAlone
  <1>2. ASSUME NEW c \in LineIds, NEW text \in Texts \cup {Empty}, Type(c, text) PROVE TranscriptInv'
    BY <1>2, TypeKeeps DEF Text
  <1>3. CASE Apply \/ SplitLine \/ MergeLines \/ OffsetLines
    BY <1>3, CorrectionsBegin
  <1>4. CASE Approve
    BY <1>4, ApproveKeeps
  <1>5. ASSUME NEW c \in corrections, CorrectionLands(c) PROVE TranscriptInv'
    BY <1>5, CorrectionLandsKeeps
  <1>6. ASSUME NEW m \in Media, OpenMedia(m) PROVE TranscriptInv'
    BY <1>6, OpenMediaKeeps
  <1>7. CASE FileRestored
    BY <1>7, FileRestoredKeeps
  <1>8. CASE AskTranscription \/ AskCaptions \/ AskListing \/ AskExtraction
    BY <1>8, JobsAsked
  <1>9. CASE StartListing \/ StartExtraction
    BY <1>9, JobsStart
  <1>10. CASE JobStale \/ ListingFails \/ ExtractionFails \/ TranscriptionFails \/ CaptionsFail
    BY <1>10, JobsGiveUp
  <1>11. CASE ListingDone
    BY <1>11, ListingDoneKeeps
  <1>12. CASE ExtractionDone
    BY <1>12, ExtractionDoneKeeps
  <1>13. CASE TranscriptionAnswered \/ CaptionsAnswered
    BY <1>13, JobsAnswered
  <1>14. ASSUME NEW d \in drafts, DraftLands(d) PROVE TranscriptInv'
    BY <1>14, DraftLandsKeeps
  <1>15. CASE Reconnect
    BY <1>15, ReconnectKeeps
  <1>16. ASSUME NEW p \in Paths, SetPath(p) PROVE TranscriptInv'
    BY <1>16, SetPathKeeps
  <1>17. ASSUME NEW s \in Streams, SelectStream(s) PROVE TranscriptInv'
    BY <1>17, SelectStreamKeeps
  <1>18. ASSUME NEW t \in Tracks, Jump(t) PROVE TranscriptInv'
    BY <1>18, JumpKeeps
  <1>19. ASSUME NEW m \in Media, Relink(m) \/ BeginImport(m) PROVE TranscriptInv'
    BY <1>19, RelinkKeeps, BeginImportKeeps
  <1>20. ASSUME NEW i \in imports, ImportUnreadable(i) \/ ImportLands(i) PROVE TranscriptInv'
    BY <1>20, ImportUnreadableKeeps, ImportLandsKeeps
  <1>21. QED
    BY <1>1, <1>2, <1>3, <1>4, <1>5, <1>6, <1>7, <1>8, <1>9, <1>10, <1>11, <1>12, <1>13, <1>14, <1>15,
       <1>16, <1>17, <1>18, <1>19, <1>20 DEF TranscriptNext

\* The whole of what holds of the workbench: versions descend one from another, at most one
\* correction is under way (withTranscriptCorrectionPending), and a version on screen was not
\* corrected before, unless an import put it on screen again (pickTrackForRelink).
THEOREM TranscriptInvHolds == TranscriptSpec => []TranscriptInv
  BY TranscriptsBegin, TranscriptStep, PTL DEF TranscriptSpec

LEMMA InvIsSound == TranscriptInv => VersionsSound
  <1> SUFFICES ASSUME TranscriptInv PROVE VersionsSound
    OBVIOUS
  <1>0. PICK n \in Nat : n = Len(versions) /\ DOMAIN versions = 1 .. n
    BY DEF TranscriptInv, TranscriptShaped
  <1>1. ASSUME NEW t \in 1 .. n
        PROVE  /\ versions[t].media \in Media /\ versions[t].parent \in 0 .. t - 1
               /\ versions[t].status \in Statuses /\ versions[t].origin \in Origins
               /\ Range(Lines(t)) \subseteq Line
    <2>1. versions[t] \in VersionShape
      BY <1>0 DEF TranscriptInv, TranscriptShaped
    <2>2. /\ versions[t].media \in Media /\ versions[t].status \in Statuses
          /\ versions[t].origin \in Origins /\ Lines(t) \in Seq(AnyLine)
      BY <2>1 DEF VersionShape, Lines
    <2>3. versions[t].parent \in 0 .. t - 1 /\ Sound(Lines(t)) /\ Fits(Lines(t))
      BY <1>0 DEF TranscriptInv, Chained, Descends
    <2>4. ASSUME NEW i \in DOMAIN Lines(t) PROVE Lines(t)[i] \in Line
      <3>1. Lines(t)[i] \in AnyLine /\ i \in 1 .. Len(Lines(t))
        BY <2>2
      <3>2. Lines(t)[i].end <= MaxTime /\ Lines(t)[i].end > Lines(t)[i].start
        BY <2>3, <3>1 DEF Fits, Sound
      <3>3. PICK l : l = Lines(t)[i]
        OBVIOUS
      <3>4. l \in AnyLine /\ l.end <= MaxTime /\ l.end > l.start
        BY <3>1, <3>2, <3>3
      <3>5. /\ l = [text |-> l.text, start |-> l.start, end |-> l.end]
            /\ l.text \in Text /\ l.start \in Nat /\ l.end \in Nat
        BY <3>4 DEF AnyLine
      <3>6. MaxTime \in Nat
        BY TranscriptAssumption
      <3>7. l.start \in 0 .. MaxTime /\ l.end \in 0 .. MaxTime
        BY <3>4, <3>5, <3>6
      <3>8. QED
        BY <3>3, <3>5, <3>7 DEF Line, Text
    <2>5. QED
      BY <2>2, <2>3, <2>4 DEF Range
  <1>2. TranscriptTypeOK
    <2>1. media \in Media /\ video \in Media \cup {Nothing} /\ Len(versions) <= MaxTracks
      BY DEF TranscriptInv, TranscriptShaped
    <2>2. target \in DOMAIN versions \cup {NoTrack} /\ (target # NoTrack => versions[target].media = media)
      BY <1>0 DEF TranscriptInv, TranscriptShaped, OnScreen, NoTrack
    <2>3. DOMAIN pending \subseteq LineIds /\ Range(pending) \subseteq Texts \cup {Empty}
      BY EditsAre DEF TranscriptInv, TranscriptShaped, Range, Text
    <2>4. /\ embedded.path \in Paths
          /\ embedded.listing \in {"idle", "listing", "ready", "empty", "failed"}
          /\ embedded.extraction \in {"idle", "extracting", "imported", "failed"}
      BY RestShaped DEF Embedded
    <2>5. /\ revived \subseteq DOMAIN versions
          /\ \A i \in imports : i.picked \in i.found /\ i.found \subseteq TracksOf(i.media)
      BY <1>0 DEF TranscriptInv, TranscriptShaped, ImportsKnown, TracksOf
    <2>6. QED
      BY <1>0, <1>1, <2>1, <2>2, <2>3, <2>4, <2>5 DEF TranscriptTypeOK
  <1>3. VersionsInOrder
    <2>1. ASSUME NEW t \in 1 .. n
          PROVE  /\ Sound(Lines(t))
                 /\ (versions[t].origin = "offset" => Ordered(Lines(t)))
                 /\ (versions[t].parent # 0 =>
                      /\ versions[versions[t].parent].media = versions[t].media
                      /\ versions[versions[t].parent].number + 1 = versions[t].number
                      /\ versions[t].parent \notin revived =>
                           /\ versions[versions[t].parent].status # "approved"
                           /\ \A u \in 1 .. n : versions[u].parent = versions[t].parent => u = t)
      BY <1>0 DEF TranscriptInv, Chained, Descends
    <2>2. \A c, d \in corrections : c = d /\ Status(c.parent) # "approved"
      BY DEF TranscriptInv, OneCorrection
    <2>3. QED
      BY <1>0, <2>1, <2>2 DEF VersionsInOrder, NoTrack
  <1>4. QED
    BY <1>2, <1>3 DEF VersionsSound

\* No correction begins while one is under way and no approval is overtaken, for any number
\* of videos, versions and lines; the chain of versions is forked, and a corrected version
\* approved, only at one that an import put on screen again (pickTrackForRelink); and the
\* lines of an offset do not overlap (applyTrackOffsetMs).
THEOREM VersionsStaySound == TranscriptSpec => []VersionsSound
  <1>1. TranscriptSpec => []TranscriptInv
    BY TranscriptInvHolds
  <1>2. QED
    BY <1>1, InvIsSound, PTL

\* Only a landing ends a correction, and only a landing makes a version.
LEMMA StepsThatMake ==
  ASSUME TranscriptInv, [TranscriptNext]_transcriptVars
  PROVE  \/ \E c \in corrections : CorrectionLands(c)
         \/ ExtractionDone /\ corrections' = corrections
         \/ \E d \in drafts : DraftLands(d) /\ corrections' = corrections
         \/ \E i \in imports : ImportLands(i) /\ corrections' = corrections
         \/ corrections \subseteq corrections' /\ Len(versions') = Len(versions)
  <1>1. CASE UNCHANGED transcriptVars
    BY <1>1 DEF transcriptVars
  <1>2. ASSUME NEW c \in LineIds, NEW text \in Texts \cup {Empty}, Type(c, text)
        PROVE  UNCHANGED <<corrections, versions>>
    BY <1>2 DEF Type
  <1>3. CASE Apply \/ SplitLine \/ MergeLines \/ OffsetLines
    BY <1>3 DEF Apply, SplitLine, MergeLines, OffsetLines, Correct
  <1>4. CASE Approve
    <2>1. corrections' = corrections /\ versions' = [versions EXCEPT ![target].status = "approved"]
      BY <1>4 DEF Approve
    <2>2. versions \in Seq(VersionShape) /\ target \in 1 .. Len(versions)
      BY <1>4 DEF TranscriptInv, TranscriptShaped, Approve, Editable, NoTrack
    <2>3. Len(versions') = Len(versions)
      BY <2>1, <2>2
    <2>4. QED
      BY <2>1, <2>3
  <1>5. ASSUME NEW m \in Media, OpenMedia(m) PROVE UNCHANGED <<corrections, versions>>
    BY <1>5 DEF OpenMedia
  <1>6. CASE FileRestored \/ AskTranscription \/ AskCaptions \/ AskListing \/ AskExtraction
    BY <1>6 DEF FileRestored, AskTranscription, AskCaptions, AskListing, AskExtraction, Ask
  <1>7. CASE StartListing \/ StartExtraction
    BY <1>7 DEF StartListing, StartExtraction
  <1>8. CASE JobStale \/ ListingFails \/ ExtractionFails \/ TranscriptionFails \/ CaptionsFail \/ ListingDone
    BY <1>8 DEF JobStale, ListingFails, ExtractionFails, EmbeddedFails, TranscriptionFails, CaptionsFail,
                DraftFails, ListingDone
  <1>9. CASE ExtractionDone
    BY <1>9 DEF ExtractionDone
  <1>10. CASE TranscriptionAnswered \/ CaptionsAnswered
    BY <1>10 DEF TranscriptionAnswered, CaptionsAnswered, Answered
  <1>11. ASSUME NEW d \in drafts, DraftLands(d) PROVE corrections' = corrections
    BY <1>11 DEF DraftLands
  <1>12. CASE Reconnect
    BY <1>12 DEF Reconnect
  <1>13. ASSUME NEW p \in Paths, SetPath(p) PROVE UNCHANGED <<corrections, versions>>
    BY <1>13 DEF SetPath
  <1>14. ASSUME NEW s \in Streams, SelectStream(s) PROVE UNCHANGED <<corrections, versions>>
    BY <1>14 DEF SelectStream
  <1>15. ASSUME NEW t \in Tracks, Jump(t) PROVE UNCHANGED <<corrections, versions>>
    BY <1>15 DEF Jump
  <1>16. ASSUME NEW m \in Media, Relink(m) \/ BeginImport(m) PROVE UNCHANGED <<corrections, versions>>
    BY <1>16 DEF Relink, BeginImport
  <1>17. ASSUME NEW i \in imports, ImportUnreadable(i) PROVE UNCHANGED <<corrections, versions>>
    BY <1>17 DEF ImportUnreadable, ImportEnds
  <1>18. ASSUME NEW i \in imports, ImportLands(i) PROVE corrections' = corrections
    BY <1>18, ImportLandsKeeps
  <1>19. QED
    BY <1>1, <1>2, <1>3, <1>4, <1>5, <1>6, <1>7, <1>8, <1>9, <1>10, <1>11, <1>12, <1>13, <1>14, <1>15,
       <1>16, <1>17, <1>18 DEF TranscriptNext

\* Apply loses no edit, also one typed while the version was made
\* (retainPendingEditsForCorrectedChild).
THEOREM EditsAreCarried == TranscriptSpec => EditsOutliveApply
  <1>1. TranscriptSpec => []TranscriptInv
    BY TranscriptInvHolds
  <1> DEFINE Kept == \A c \in corrections \ corrections' :
                      c.origin = "apply" /\ MoreVersions =>
                        \A l \in DOMAIN pending \cap LinesOf(c.parent) : Carried(l)
  <1>2. TranscriptInv /\ [TranscriptNext]_transcriptVars => Kept
    <2> SUFFICES ASSUME TranscriptInv, [TranscriptNext]_transcriptVars,
                        NEW c \in corrections, c \notin corrections', c.origin = "apply", MoreVersions,
                        NEW l \in DOMAIN pending \cap LinesOf(c.parent)
                 PROVE  Carried(l)
      OBVIOUS
    <2>1. CorrectionLands(c)
      <3>1. PICK d \in corrections : CorrectionLands(d)
        BY StepsThatMake
      <3>2. c = d
        BY DEF TranscriptInv, OneCorrection
      <3>3. QED
        BY <3>1, <3>2
    <2>2. PICK n \in Nat : n = Len(versions)
      BY DEF TranscriptInv, TranscriptShaped
    <2>3. Len(versions') > Len(versions)
      BY DEF MoreVersions
    <2>4. /\ TranscriptInv' /\ Len(versions') = n + 1
          /\ versions'[n + 1].parent = c.parent /\ versions'[n + 1].lines = c.lines
          /\ pending' = Retain(c, n + 1)
      BY <2>1, <2>2, <2>3, CorrectionLandsKeeps
    <2>5. n + 1 \in Tracks
      BY <2>2, <2>4, TranscriptAssumption DEF TranscriptInv, TranscriptShaped, Tracks
    <2>6. l = <<c.parent, l[2]>> /\ l[2] \in DOMAIN Lines(c.parent) /\ l[1] = c.parent
      BY DEF LinesOf
    <2>7. CASE l \in DOMAIN c.sent /\ c.sent[l] = pending[l]
      <3>1. c.parent \in 1 .. n /\ AppliedAsSent(c) /\ c.lines \in Seq(AnyLine)
        BY <2>2 DEF TranscriptInv, TranscriptShaped, OneCorrection, Correction
      <3>2. versions[c.parent] \in VersionShape
        BY <2>2, <3>1 DEF TranscriptInv, TranscriptShaped
      <3>3. Lines(c.parent) \in Seq(AnyLine)
        BY <3>2 DEF VersionShape, Lines
      <3>4. l[2] \in 1 .. Len(c.lines) /\ DOMAIN c.lines = 1 .. Len(c.lines)
        BY <2>6, <3>1, <3>3 DEF AppliedAsSent
      <3>5. c.lines[l[2]].text = pending[l]
        BY <2>6, <2>7, <3>1, <3>4 DEF AppliedAsSent
      <3>6. QED
        BY <2>4, <2>6, <3>4, <3>5 DEF Carried, Made, MoreVersions
    <2>8. CASE ~ (l \in DOMAIN c.sent /\ c.sent[l] = pending[l])
      <3>1. <<n + 1, l[2]>> \in DOMAIN Retain(c, n + 1) /\ Retain(c, n + 1)[<<n + 1, l[2]>>] = pending[l]
        BY <2>2, <2>5, <2>8, Retained
      <3>2. QED
        BY <2>4, <2>6, <3>1 DEF Carried, Made, MoreVersions
    <2>9. QED
      BY <2>7, <2>8
  <1>3. QED
    BY <1>1, <1>2, PTL DEF TranscriptSpec, EditsOutliveApply

\* What is listed is of the path in the input, and what is extracted lands where it was asked
\* for, whatever is typed, chosen or opened meanwhile (assertCurrentContext).
THEOREM ExtractsWhereAsked == TranscriptSpec => ExtractedWhereAsked
  <1>1. TranscriptSpec => []TranscriptInv
    BY TranscriptInvHolds
  <1> DEFINE There == MoreVersions /\ versions'[Made].origin = "extract" =>
                        LET job == Head(jobs)
                        IN /\ job.current
                           /\ versions'[Made].media = media /\ job.media = media
                           /\ job.path = embedded.path /\ job.stream = embedded.selected
             Asked == embedded'.streams \subseteq StreamsIn[embedded'.path] /\ There
  <1>2. TranscriptInv /\ [TranscriptNext]_transcriptVars => Asked
    <2> SUFFICES ASSUME TranscriptInv, [TranscriptNext]_transcriptVars PROVE Asked
      OBVIOUS
    <2>1. TranscriptInv'
      BY TranscriptStep
    <2>2. embedded'.streams \subseteq StreamsIn[embedded'.path]
      BY <2>1 DEF TranscriptInv, ListedInPath
    <2>3. PICK n \in Nat : n = Len(versions)
      BY DEF TranscriptInv, TranscriptShaped
    <2>4. ASSUME NEW c \in corrections, CorrectionLands(c) PROVE There
      <3>1. c.origin # "extract"
        BY DEF TranscriptInv, TranscriptShaped, Correction
      <3>2. QED
        BY <2>4, <3>1, CorrectionLandsKeeps DEF MoreVersions, Made
    <2>5. ASSUME ExtractionDone PROVE There
      <3>1. InContext(Head(jobs)) /\ Head(jobs).kind = "extract"
        BY <2>5 DEF ExtractionDone, Running
      <3>2. versions'[Made].media = Head(jobs).media
        BY <2>5, ExtractionDoneKeeps DEF Made
      <3>3. QED
        BY <3>1, <3>2 DEF InContext
    <2>6. ASSUME NEW d \in drafts, DraftLands(d) PROVE There
      BY <2>6, DraftLandsKeeps DEF Made
    <2>7. ASSUME NEW i \in imports, ImportLands(i), Len(versions') # Len(versions) PROVE There
      BY <2>7, ImportLandsKeeps DEF Made
    <2>8. ASSUME Len(versions') = Len(versions) PROVE There
      <3>1. ~ (Len(versions') > Len(versions))
        BY <2>3, <2>8
      <3>2. ~ MoreVersions
        BY <3>1 DEF MoreVersions
      <3>3. QED
        BY <3>2
    <2>9. QED
      BY <2>2, <2>4, <2>5, <2>6, <2>7, <2>8, StepsThatMake
  <1>3. QED
    BY <1>1, <1>2, PTL DEF TranscriptSpec, ExtractedWhereAsked
=============================================================================
