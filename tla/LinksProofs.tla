----------------------------- MODULE LinksProofs -----------------------------
(***************************************************************************)
(* Theorems of MediaLinks, for any number of files, media, imports and     *)
(* restores.                                                               *)
(*                                                                         *)
(* What plays is right because a media never changes its fingerprint       *)
(* (Fingerprinted), wherever its record is found; because the URL of an    *)
(* import under way is nobody else's, so that nothing revokes it before it *)
(* plays (ImportsOwn); and because a restore that was not outdated knows   *)
(* the fingerprint on screen (RestoresFresh).  A restore that is about to  *)
(* delete the legacy handle has seen a handle of the media it was of       *)
(* (Migrating), and handles of media are never taken away.                 *)
(***************************************************************************)
EXTENDS MediaLinks, WellFoundedInduction, TLAPS

Url == [content : Contents, live : BOOLEAN]
Surface == [current : Assets \cup {None}, media : MediaRecord \cup {None}, url : Nat]
Hashing == [pc : {"hash"}, file : Files, content : Contents, handle : BOOLEAN, new : BOOLEAN]
Reading ==
  [pc : {"subtitles"}, file : Files, content : Contents, handle : BOOLEAN, url : 1 .. MaxUrls,
   existing : Assets \cup {None}, was : MediaRecord \cup {None}]
Saving == [pc : {"save"}, file : Files, asset : Assets]
Relinking == [pc : {"hash"}, asset : Assets, expected : Contents, content : Contents]
Looking ==
  [pc : {"own", "legacy", "target", "copy", "drop", "again", "bare", "found"},
   asset : Assets \cup {None}, name : Names \cup {None}, expected : Contents \cup {None},
   file : Files \cup {None}, target : Assets \cup {None}, fresh : BOOLEAN]
Comparing ==
  [pc : {"hash"}, expected : Contents \cup {None}, content : Contents, fresh : BOOLEAN]
Libraries == [Assets -> MediaRecord \cup {None}]

LinksShaped ==
  /\ disk \in [Files -> Contents]
  /\ handles \in [Keys -> HandleRecord \cup {None}]
  /\ library \in Libraries
  /\ saved \in Libraries
  /\ made \in 0 .. MaxAssets
  /\ urls \in Seq(Url)
  /\ Len(urls) <= MaxUrls
  /\ player \in Surface
  /\ player.url <= Len(urls)
  /\ player.current # None => player.media \in MediaRecord
  /\ imports \in [Importers -> {NoImport} \cup Hashing \cup Reading \cup Saving]
  /\ relink \in {NoRelink} \cup Relinking
  /\ restores \in [Restorers -> {NoRestore} \cup Looking \cup Comparing]
  /\ opens \subseteq [asset : Assets, newest : BOOLEAN]
  /\ asked \in Assets \cup {None}

\* The import of p has made its URL and waits for the subtitles.
Waits(p) == imports[p].pc = "subtitles"

\* Where the record of a media is found: the two libraries, the screen, an import.
RecordOf(a, m) ==
  \/ m = library[a]
  \/ m = saved[a]
  \/ player.current = a /\ m = player.media
  \/ \E p \in Importers : Waits(p) /\ imports[p].existing = a /\ m = imports[p].was

\* A media has a number that was given out, and keeps its fingerprint.
Fingerprinted ==
  \A a \in Assets : \A m \in MediaRecord : RecordOf(a, m) =>
    /\ a <= made
    /\ \A l \in MediaRecord : RecordOf(a, l) => l.content = m.content

\* A label is of a URL there was.
LabelsKnown ==
  \A a \in Assets : \A m \in MediaRecord : RecordOf(a, m) =>
    m.blob = None \/ m.blob <= Len(urls)

\* Nothing names the URL u: no label, and it does not play.
Unnamed(u) ==
  /\ player.url # u
  /\ \A a \in Assets : \A m \in MediaRecord : RecordOf(a, m) => m.blob # u

\* The URL of an import under way is its own and of its file's content, which is that
\* of the media it found.
ImportsOwn ==
  \A p \in Importers : Waits(p) =>
    /\ imports[p].url <= Len(urls)
    /\ urls[imports[p].url] = [content |-> imports[p].content, live |-> TRUE]
    /\ Unnamed(imports[p].url)
    /\ imports[p].existing # None =>
         imports[p].was \in MediaRecord /\ imports[p].was.content = imports[p].content
    /\ \A q \in Importers : q # p /\ Waits(q) => imports[q].url # imports[p].url

\* A restore that is not outdated knows the fingerprint on screen.
RestoresFresh ==
  \A r \in Restorers :
    restores[r].pc # "idle" /\ restores[r].fresh /\ player.current # None =>
      restores[r].expected = player.media.content

\* A restore holds the file of the handle it found.  A migration knows whose the legacy
\* handle is, and deletes it after that media has one.
Migrating ==
  \A r \in Restorers :
    /\ restores[r].pc \in {"target", "copy", "drop", "found"} => restores[r].file \in Files
    /\ restores[r].pc \in {"target", "copy", "drop"} =>
         /\ restores[r].target \in Assets
         /\ handles[Legacy] # None => handles[Legacy].media \in {None, restores[r].target}
         /\ restores[r].pc = "drop" => handles[restores[r].target] # None

\* The newest open is of the media asked for, until that media is open.
NewestAsked ==
  asked # None =>
    /\ \A o \in opens : o.newest => o.asset = asked
    /\ player.current = asked \/ library[asked] = None \/ \E o \in opens : o.newest

RecordsInv == Fingerprinted /\ LabelsKnown /\ ImportsOwn
LinksInv ==
  LinksShaped /\ RecordsInv /\ RestoresFresh /\ Migrating /\ NewestAsked /\ PlaysOwnContent

-----------------------------------------------------------------------------
(***************************************************************************)
(* What the operators do.                                                  *)
(***************************************************************************)

\* A set of numbers has a least one.
LEMMA LeastNumber ==
  ASSUME NEW S \in SUBSET Nat, S # {}
  PROVE  \E n \in S : \A k \in S : n <= k
  <1> DEFINE R == OpToRel(<, Nat)
  <1>1. IsWellFoundedOn(R, Nat)
    BY NatLessThanWellFounded
  <1>2. \A a, b \in Nat : a < b => <<a, b>> \in R
    BY DEF OpToRel
  <1> HIDE DEF R
  <1>3. PICK n \in S : \A k \in S : ~ (<<k, n>> \in R)
    BY <1>1, WFMin
  <1>4. ASSUME NEW k \in S PROVE n <= k
    <2>1. n \in Nat /\ k \in Nat
      OBVIOUS
    <2>2. ~ (k < n)
      BY <1>2, <1>3, <2>1
    <2>3. QED
      BY <2>1, <2>2
  <1>5. QED
    BY <1>4

\* Among media there is a first and a newest one.
LEMMA FirstAndNewest ==
  ASSUME NEW S \in SUBSET Assets, S # {}
  PROVE  Min(S) \in S /\ Max(S) \in S
  <1>1. MaxAssets \in Nat
    BY LinksAssumption
  <1>2. S \in SUBSET Nat
    BY <1>1 DEF Assets
  <1>3. PICK n \in S : \A k \in S : n <= k
    BY <1>2, LeastNumber
  <1> DEFINE T == {MaxAssets - k : k \in S}
  <1>4. T \in SUBSET Nat /\ T # {}
    <2>1. \A k \in S : MaxAssets - k \in Nat
      BY <1>1, <1>2 DEF Assets
    <2>2. QED
      BY <2>1
  <1>5. PICK t \in T : \A u \in T : t <= u
    BY <1>4, LeastNumber
  <1>6. PICK g \in S : t = MaxAssets - g
    BY <1>5
  <1>7. \A k \in S : g >= k
    <2>1. \A k \in S : MaxAssets - g <= MaxAssets - k
      BY <1>5, <1>6
    <2>2. QED
      BY <1>1, <1>2, <2>1
  <1>8. QED
    BY <1>3, <1>7 DEF Min, Max

\* What a library opens newest is in it.
LEMMA NewestIs ==
  ASSUME NEW lib \in Libraries, Newest(lib) # None
  PROVE  Newest(lib) \in Assets /\ lib[Newest(lib)] \in MediaRecord
  <1> DEFINE ids == {a \in Assets : lib[a] # None}
  <1>1. ids # {} /\ Newest(lib) = Max(ids)
    BY DEF Newest
  <1>2. Max(ids) \in ids
    BY <1>1, FirstAndNewest
  <1>3. QED
    BY <1>1, <1>2 DEF Libraries

\* Revoking a URL leaves the others, and what every URL is of.
LEMMA UrlRevoked ==
  ASSUME NEW us \in Seq(Url), NEW u
  PROVE  /\ Revoked(us, u) \in Seq(Url)
         /\ Len(Revoked(us, u)) = Len(us)
         /\ \A k \in 1 .. Len(us) : k # u => Revoked(us, u)[k] = us[k]
  <1>1. CASE u \in DOMAIN us
    <2>1. Revoked(us, u) = [us EXCEPT ![u] = [us[u] EXCEPT !.live = FALSE]]
      BY <1>1 DEF Revoked
    <2>2. u \in 1 .. Len(us) /\ us[u] \in Url
      BY <1>1
    <2>3. [us[u] EXCEPT !.live = FALSE] \in Url
      BY <2>2 DEF Url
    <2>4. QED
      BY <2>1, <2>2, <2>3
  <1>2. CASE u \notin DOMAIN us
    BY <1>2 DEF Revoked
  <1>3. QED
    BY <1>1, <1>2

\* A new URL is behind the others.
LEMMA UrlMade ==
  ASSUME NEW us \in Seq(Url), NEW url \in Url
  PROVE  /\ Append(us, url) \in Seq(Url)
         /\ Len(Append(us, url)) = Len(us) + 1
         /\ \A k \in 1 .. Len(us) : Append(us, url)[k] = us[k]
         /\ Append(us, url)[Len(us) + 1] = url
  OBVIOUS

\* A record found again keeps its fingerprint, and its label names the new URL or none.
LEMMA RelinkedIs ==
  ASSUME NEW was \in MediaRecord, NEW byHandle \in BOOLEAN, NEW n, byHandle => n \in Names,
         NEW u \in 0 .. MaxUrls
  PROVE  /\ Relinked(was, byHandle, n, u) \in MediaRecord
         /\ Relinked(was, byHandle, n, u).content = was.content
         /\ Relinked(was, byHandle, n, u).blob \in {None, u}
  <1> DEFINE label == IF byHandle THEN None ELSE IF was.blob = None THEN None ELSE u
             name == IF byHandle THEN n ELSE was.name
  <1>1. Relinked(was, byHandle, n, u) = [was EXCEPT !.blob = label, !.name = name]
    BY DEF Relinked
  <1>2. label \in {None, u}
    OBVIOUS
  <1>3. name \in Names
    <2>1. CASE byHandle
      BY <2>1
    <2>2. CASE ~ byHandle
      BY <2>2 DEF MediaRecord
    <2>3. QED
      BY <2>1, <2>2
  <1> HIDE DEF label, name
  <1>4. [was EXCEPT !.blob = label, !.name = name] \in MediaRecord
    BY <1>2, <1>3 DEF MediaRecord
  <1>5. /\ [was EXCEPT !.blob = label, !.name = name].content = was.content
        /\ [was EXCEPT !.blob = label, !.name = name].blob = label
    BY DEF MediaRecord
  <1>6. QED
    BY <1>1, <1>2, <1>4, <1>5

\* What plays, or the label of what is open.
LEMMA CurrentUrlIs ==
  ASSUME LinksShaped
  PROVE  /\ CurrentUrl \in 0 .. MaxUrls
         /\ \A u \in 1 .. MaxUrls : Unnamed(u) => CurrentUrl # u
  <1>1. player \in Surface /\ player.url <= Len(urls) /\ Len(urls) <= MaxUrls /\ MaxUrls \in Nat
    BY LinksAssumption DEF LinksShaped
  <1>2. player.url \in 0 .. MaxUrls
    <2>1. Len(urls) \in Nat
      BY DEF LinksShaped
    <2>2. QED
      BY <1>1, <2>1 DEF Surface
  <1>3. player.current # None => player.current \in Assets /\ player.media \in MediaRecord
    BY <1>1 DEF LinksShaped, Surface
  <1>4. player.current # None /\ player.media.blob # None => player.media.blob \in 0 .. MaxUrls
    BY <1>3 DEF MediaRecord
  <1>5. ASSUME NEW u \in 1 .. MaxUrls, Unnamed(u) PROVE CurrentUrl # u
    <2>1. player.current # None => player.media.blob # u
      BY <1>3, <1>5 DEF Unnamed, RecordOf
    <2>2. player.url # u /\ u # 0
      BY <1>5 DEF Unnamed
    <2>3. QED
      BY <2>1, <2>2 DEF CurrentUrl
  <1>6. CurrentUrl \in 0 .. MaxUrls
    BY <1>1, <1>2, <1>4 DEF CurrentUrl
  <1>7. QED
    BY <1>5, <1>6

\* The shape of an import and of a restore tells where it is.
LEMMA ImportIs ==
  ASSUME LinksShaped, NEW p \in Importers
  PROVE  /\ imports[p].pc = "hash" => imports[p] \in Hashing
         /\ Waits(p) => imports[p] \in Reading
         /\ imports[p].pc = "save" => imports[p] \in Saving
  BY DEF LinksShaped, Waits, Hashing, Reading, Saving, NoImport

LEMMA RestoreIs ==
  ASSUME LinksShaped, NEW r \in Restorers
  PROVE  /\ restores[r].pc = "hash" => restores[r] \in Comparing
         /\ restores[r].pc \notin {"idle", "hash"} => restores[r] \in Looking
         /\ restores[r].pc = "idle" => restores[r] = NoRestore
  BY DEF LinksShaped, Looking, Comparing, NoRestore

-----------------------------------------------------------------------------
(***************************************************************************)
(* Records and the URLs of imports under way.                              *)
(***************************************************************************)

\* A step after which every record is an old one, or an old one with the new label u,
\* keeps what is known of records, if imports go on undisturbed.
LEMMA RecordsKept ==
  ASSUME LinksShaped, RecordsInv, NEW u \in 0 .. MaxUrls,
         made' = made, Len(urls') \in Nat, Len(urls) <= Len(urls'), u <= Len(urls'),
         \A a \in Assets : \A m \in MediaRecord : RecordOf(a, m)' =>
           \E l \in MediaRecord : RecordOf(a, l) /\ l.content = m.content /\ m.blob \in {l.blob, None, u},
         \A p \in Importers : Waits(p)' =>
           /\ imports'[p] = imports[p]
           /\ imports[p].url # u
           /\ player'.url # imports[p].url
           /\ urls'[imports[p].url] = urls[imports[p].url]
  PROVE  RecordsInv'
  <1>1. Fingerprinted'
    <2> SUFFICES ASSUME NEW a \in Assets, NEW m \in MediaRecord, RecordOf(a, m)'
                 PROVE  /\ a <= made'
                        /\ \A k \in MediaRecord : RecordOf(a, k)' => k.content = m.content
      BY DEF Fingerprinted
    <2>1. PICK l \in MediaRecord : RecordOf(a, l) /\ l.content = m.content
      OBVIOUS
    <2>2. a <= made
      BY <2>1 DEF RecordsInv, Fingerprinted
    <2>3. ASSUME NEW k \in MediaRecord, RecordOf(a, k)' PROVE k.content = m.content
      <3>1. PICK j \in MediaRecord : RecordOf(a, j) /\ j.content = k.content
        BY <2>3
      <3>2. j.content = l.content
        BY <2>1, <3>1 DEF RecordsInv, Fingerprinted
      <3>3. QED
        BY <2>1, <3>1, <3>2
    <2>4. QED
      BY <2>2, <2>3
  <1>2. LabelsKnown'
    <2> SUFFICES ASSUME NEW a \in Assets, NEW m \in MediaRecord, RecordOf(a, m)'
                 PROVE  m.blob = None \/ m.blob <= Len(urls')
      BY DEF LabelsKnown
    <2>1. PICK l \in MediaRecord : RecordOf(a, l) /\ m.blob \in {l.blob, None, u}
      OBVIOUS
    <2>2. l.blob = None \/ l.blob <= Len(urls)
      BY <2>1 DEF RecordsInv, LabelsKnown
    <2>3. l.blob # None => l.blob \in Nat
      BY DEF MediaRecord
    <2>4. Len(urls) \in Nat
      BY DEF LinksShaped
    <2>5. QED
      BY <2>1, <2>2, <2>3, <2>4
  <1>3. ImportsOwn'
    <2>1. ASSUME NEW p \in Importers, Waits(p)'
          PROVE  /\ imports'[p] = imports[p] /\ Waits(p)
                 /\ imports[p] \in Reading /\ imports[p].url \in Nat
                 /\ imports[p].url <= Len(urls')
      <3>1. imports'[p] = imports[p] /\ Waits(p)
        BY <2>1 DEF Waits
      <3>2. imports[p] \in Reading
        BY <3>1, ImportIs
      <3>3. imports[p].url \in Nat
        <4>1. imports[p].url \in 1 .. MaxUrls
          BY <3>2 DEF Reading
        <4>2. QED
          BY <4>1, LinksAssumption
      <3>4. imports[p].url <= Len(urls)
        BY <3>1 DEF RecordsInv, ImportsOwn
      <3>5. Len(urls) \in Nat
        BY DEF LinksShaped
      <3>6. QED
        BY <3>1, <3>2, <3>3, <3>4, <3>5
    <2>2. ASSUME NEW p \in Importers, Waits(p)'
          PROVE  /\ urls'[imports[p].url] = [content |-> imports[p].content, live |-> TRUE]
                 /\ imports[p].existing # None =>
                      imports[p].was \in MediaRecord /\ imports[p].was.content = imports[p].content
      BY <2>1, <2>2 DEF RecordsInv, ImportsOwn
    <2>3. ASSUME NEW p \in Importers, Waits(p)', NEW q \in Importers, q # p, Waits(q)'
          PROVE  imports[q].url # imports[p].url
      BY <2>1, <2>3 DEF RecordsInv, ImportsOwn
    <2>4. ASSUME NEW p \in Importers, Waits(p)',
                 NEW a \in Assets, NEW m \in MediaRecord, RecordOf(a, m)'
          PROVE  m.blob # imports[p].url
      <3>1. PICK l \in MediaRecord : RecordOf(a, l) /\ m.blob \in {l.blob, None, u}
        BY <2>4
      <3>2. l.blob # imports[p].url
        BY <2>1, <2>4, <3>1 DEF RecordsInv, ImportsOwn, Unnamed
      <3>3. None # imports[p].url
        BY <2>1, <2>4, NoneAssumption DEF Reading
      <3>4. imports[p].url # u
        BY <2>4
      <3>5. QED
        BY <3>1, <3>2, <3>3, <3>4
    <2>5. \A p \in Importers : Waits(p)' => Unnamed(imports[p].url)'
      BY <2>1, <2>4 DEF Unnamed
    <2>6. QED
      BY <2>1, <2>2, <2>3, <2>5 DEF ImportsOwn
  <1>4. QED
    BY <1>1, <1>2, <1>3 DEF RecordsInv

\* Records move between the libraries, the screen and the imports.
LEMMA RecordsFound ==
  ASSUME LinksShaped,
         \A a \in Assets : library'[a] \in {library[a], saved[a]} /\ saved'[a] \in {library[a], saved[a]},
         \/ player'.current = None
         \/ player'.current = player.current /\ player'.media = player.media
         \/ player'.media \in {library[player'.current], saved[player'.current]},
         \A p \in Importers : Waits(p)' =>
           \/ imports'[p] = imports[p]
           \/ imports'[p].existing = None
           \/ imports'[p].was = library[imports'[p].existing],
         NEW a \in Assets, NEW m, RecordOf(a, m)'
  PROVE  RecordOf(a, m)
  <1>1. a # None
    BY NoneAssumption
  <1>2. CASE m = library'[a] \/ m = saved'[a]
    BY <1>2 DEF RecordOf
  <1>3. CASE player'.current = a /\ m = player'.media
    BY <1>1, <1>3 DEF RecordOf
  <1>4. ASSUME NEW p \in Importers, Waits(p)', imports'[p].existing = a, m = imports'[p].was
        PROVE  RecordOf(a, m)
    <2>1. CASE imports'[p] = imports[p]
      BY <1>4, <2>1 DEF RecordOf, Waits
    <2>2. CASE imports'[p].was = library[imports'[p].existing]
      BY <1>4, <2>2 DEF RecordOf
    <2>3. QED
      BY <1>1, <1>4, <2>1, <2>2
  <1>5. QED
    BY <1>2, <1>3, <1>4 DEF RecordOf

\* A media is installed with its old fingerprint and the label u or none.
LEMMA RecordsInstalled ==
  ASSUME LinksShaped, NEW b \in Assets, NEW old \in MediaRecord, RecordOf(b, old),
         NEW media \in MediaRecord, NEW u, media.content = old.content, media.blob \in {None, u},
         library' = [library EXCEPT ![b] = media], saved' = saved,
         player'.current = b, player'.media = media,
         \A p \in Importers : Waits(p)' => imports'[p] = imports[p],
         NEW a \in Assets, NEW m \in MediaRecord, RecordOf(a, m)'
  PROVE  \E l \in MediaRecord : RecordOf(a, l) /\ l.content = m.content /\ m.blob \in {l.blob, None, u}
  <1>1. CASE a = b /\ m = media
    BY <1>1
  <1>2. CASE RecordOf(a, m)
    BY <1>2
  <1>3. library \in Libraries
    BY DEF LinksShaped
  <1>4. m = library'[a] => m = library[a] \/ (a = b /\ m = media)
    BY <1>3 DEF Libraries
  <1>5. QED
    BY <1>1, <1>2, <1>4 DEF RecordOf, Waits

-----------------------------------------------------------------------------
(***************************************************************************)
(* The other parts of the invariant.                                       *)
(***************************************************************************)

\* What a restore does to itself leaves the page alone.
LEMMA PageRests ==
  ASSUME LinksInv, UNCHANGED <<library, saved, made, urls, player, imports, opens, asked>>
  PROVE  RecordsInv' /\ NewestAsked' /\ PlaysOwnContent'
  BY DEF LinksInv, RecordsInv, Fingerprinted, LabelsKnown, ImportsOwn, Unnamed, RecordOf, Waits,
         NewestAsked, PlaysOwnContent

\* Restores rest while the screen keeps its media.
LEMMA RestoresRest ==
  ASSUME LinksInv, UNCHANGED <<handles, restores>>,
         player'.current = player.current, player'.media = player.media
  PROVE  RestoresFresh' /\ Migrating'
  BY DEF LinksInv, RestoresFresh, Migrating

\* Outdated restores go on, and are not fresh.
LEMMA RestoresOutdated ==
  ASSUME LinksInv, UNCHANGED handles,
         Outdated \/ \E r \in Restorers : OutdatedBut(r, NoRestore)
  PROVE  /\ restores' \in [Restorers -> {NoRestore} \cup Looking \cup Comparing]
         /\ RestoresFresh' /\ Migrating'
  <1> DEFINE Old(x) == IF x.pc = "idle" THEN x ELSE [x EXCEPT !.fresh = FALSE]
  <1>1. \A r \in Restorers : restores'[r] \in {NoRestore, Old(restores[r])}
    BY DEF Outdated, OutdatedBut
  <1>2. DOMAIN restores' = Restorers
    BY DEF Outdated, OutdatedBut
  <1>3. ASSUME NEW r \in Restorers
        PROVE  /\ Old(restores[r]) \in {NoRestore} \cup Looking \cup Comparing
               /\ Old(restores[r]).pc = restores[r].pc
               /\ restores[r].pc # "idle" => Old(restores[r]).fresh = FALSE
               /\ restores[r].pc \in {"target", "copy", "drop", "found"} =>
                    /\ Old(restores[r]).target = restores[r].target
                    /\ Old(restores[r]).file = restores[r].file
    <2>1. CASE restores[r].pc = "idle"
      BY <2>1, RestoreIs DEF LinksInv
    <2>2. CASE restores[r].pc = "hash"
      <3>1. restores[r] \in Comparing
        BY <2>2, RestoreIs DEF LinksInv
      <3>2. QED
        BY <2>2, <3>1 DEF Comparing
    <2>3. CASE restores[r].pc \notin {"idle", "hash"}
      <3>1. restores[r] \in Looking
        BY <2>3, RestoreIs DEF LinksInv
      <3>2. QED
        BY <2>3, <3>1 DEF Looking
    <2>4. QED
      BY <2>1, <2>2, <2>3
  <1> HIDE DEF Old
  <1>4. restores' \in [Restorers -> {NoRestore} \cup Looking \cup Comparing]
    <2>1. restores' = [r \in Restorers |-> restores'[r]]
      BY DEF Outdated, OutdatedBut
    <2>2. QED
      BY <1>1, <1>3, <2>1
  <1>5. NoRestore.pc = "idle"
    BY DEF NoRestore
  <1>6. RestoresFresh'
    BY <1>1, <1>3, <1>5 DEF RestoresFresh
  <1>7. Migrating'
    <2> SUFFICES ASSUME NEW r \in Restorers, restores'[r].pc \in {"target", "copy", "drop", "found"}
                 PROVE  /\ restores'[r].pc = restores[r].pc
                        /\ restores'[r].target = restores[r].target
                        /\ restores'[r].file = restores[r].file
      BY DEF LinksInv, Migrating
    <2>1. QED
      BY <1>1, <1>3, <1>5
  <1>8. QED
    BY <1>4, <1>6, <1>7

-----------------------------------------------------------------------------
(***************************************************************************)
(* Steps of the page.                                                      *)
(***************************************************************************)

\* The URL of an import under way is not what an opening or a restore revokes.
LEMMA ImportUrlIs ==
  ASSUME LinksShaped, RecordsInv, NEW p \in Importers, Waits(p)
  PROVE  /\ imports[p] \in Reading
         /\ imports[p].url \in 1 .. Len(urls)
         /\ imports[p].url # player.url
         /\ imports[p].url # CurrentUrl
  <1>1. imports[p] \in Reading
    BY ImportIs
  <1>2. imports[p].url \in 1 .. MaxUrls
    BY <1>1 DEF Reading
  <1>3. imports[p].url <= Len(urls) /\ Unnamed(imports[p].url)
    BY DEF RecordsInv, ImportsOwn
  <1>4. Len(urls) \in Nat
    BY DEF LinksShaped
  <1>5. imports[p].url \in 1 .. Len(urls)
    BY <1>2, <1>3, <1>4, LinksAssumption
  <1>6. imports[p].url # player.url
    BY <1>3 DEF Unnamed
  <1>7. imports[p].url # CurrentUrl
    BY <1>2, <1>3, CurrentUrlIs
  <1>8. QED
    BY <1>1, <1>5, <1>6, <1>7

\* RecordsKept, where records only move.
LEMMA RecordsMoved ==
  ASSUME LinksShaped, RecordsInv, made' = made, Len(urls') \in Nat, Len(urls) <= Len(urls'),
         \A a \in Assets : library'[a] \in {library[a], saved[a]} /\ saved'[a] \in {library[a], saved[a]},
         \/ player'.current = None
         \/ player'.current = player.current /\ player'.media = player.media
         \/ player'.media \in {library[player'.current], saved[player'.current]},
         \A p \in Importers : Waits(p)' =>
           /\ imports'[p] = imports[p]
           /\ player'.url # imports[p].url
           /\ urls'[imports[p].url] = urls[imports[p].url]
  PROVE  RecordsInv'
  <1>1. ASSUME NEW a \in Assets, NEW m \in MediaRecord, RecordOf(a, m)'
        PROVE  \E l \in MediaRecord : RecordOf(a, l) /\ l.content = m.content /\ m.blob \in {l.blob, None, 0}
    <2>1. RecordOf(a, m)
      BY <1>1, RecordsFound
    <2>2. QED
      BY <2>1
  <1>2. ASSUME NEW p \in Importers, Waits(p)' PROVE imports[p].url # 0
    <2>1. Waits(p)
      BY <1>2 DEF Waits
    <2>2. QED
      BY <2>1, ImportUrlIs
  <1>3. 0 \in 0 .. MaxUrls /\ 0 <= Len(urls')
    BY LinksAssumption
  <1>4. QED
    BY <1>1, <1>2, <1>3, RecordsKept

\* What projectOpenedMedia and a hydration show.
LEMMA ProjectedIs ==
  ASSUME NEW lib \in Libraries, NEW a \in Assets \cup {None}, a # None => lib[a] # None
  PROVE  /\ Projected(a, lib) \in Surface
         /\ Projected(a, lib).current = a
         /\ Projected(a, lib).url = 0
         /\ a # None => Projected(a, lib).media \in MediaRecord /\ Projected(a, lib).media = lib[a]
  <1>1. CASE a = None
    BY <1>1 DEF Projected, NoPage, Surface
  <1>2. CASE a # None
    <2>1. lib[a] \in MediaRecord
      BY <1>2 DEF Libraries
    <2>2. Projected(a, lib) = [current |-> a, media |-> lib[a], url |-> 0]
      BY <1>2 DEF Projected
    <2>3. QED
      BY <1>2, <2>1, <2>2 DEF Surface
  <1>3. QED
    BY <1>1, <1>2

\* Showing an opened media keeps everything but what waits for the opening.
LEMMA ShownIs ==
  ASSUME LinksInv, NEW a \in Assets, ShowOpened(a),
         UNCHANGED <<handles, library, saved, made, imports>>
  PROVE  /\ player' \in Surface
         /\ player'.url <= Len(urls')
         /\ player'.current # None => player'.media \in MediaRecord
         /\ urls' \in Seq(Url)
         /\ Len(urls') = Len(urls)
         /\ restores' \in [Restorers -> {NoRestore} \cup Looking \cup Comparing]
         /\ RecordsInv'
         /\ RestoresFresh'
         /\ Migrating'
         /\ PlaysOwnContent'
         /\ IF library[a] # None THEN player'.current = a ELSE player'.current = player.current
  <1>1. LinksShaped /\ RecordsInv /\ RestoresFresh /\ Migrating /\ PlaysOwnContent
    BY DEF LinksInv
  <1>2. /\ player \in Surface /\ player.url <= Len(urls)
        /\ player.current # None => player.media \in MediaRecord
        /\ urls \in Seq(Url) /\ Len(urls) \in Nat
        /\ library \in Libraries
        /\ restores \in [Restorers -> {NoRestore} \cup Looking \cup Comparing]
    BY <1>1 DEF LinksShaped
  <1>3. a # None
    BY NoneAssumption
  <1>4. CASE library[a] = None
    <2>1. UNCHANGED <<player, urls, restores>>
      BY <1>4 DEF ShowOpened
    <2>2. RecordsInv'
      BY <1>1, <1>2, <2>1, RecordsMoved, ImportUrlIs DEF Waits
    <2>3. RestoresFresh' /\ Migrating'
      BY <2>1, RestoresRest
    <2>4. PlaysOwnContent'
      BY <1>1, <2>1 DEF PlaysOwnContent
    <2>5. QED
      BY <1>2, <1>4, <2>1, <2>2, <2>3, <2>4
  <1>5. CASE library[a] # None
    <2>1. library[a] \in MediaRecord /\ Outdated
      BY <1>2, <1>5 DEF ShowOpened, Libraries
    <2>2. restores' \in [Restorers -> {NoRestore} \cup Looking \cup Comparing] /\ RestoresFresh' /\ Migrating'
      BY <2>1, RestoresOutdated
    <2>3. CASE player.current = a
      <3>1. player' = [player EXCEPT !.media = library[a]] /\ urls' = urls
        BY <1>5, <2>3 DEF ShowOpened
      <3>2. player' \in Surface /\ player'.current = a /\ player'.media = library[a] /\ player'.url = player.url
        BY <1>2, <2>1, <2>3, <3>1 DEF Surface
      <3>3. player.media \in MediaRecord /\ library[a].content = player.media.content
        <4>1. player.media \in MediaRecord /\ RecordOf(a, player.media) /\ RecordOf(a, library[a])
          BY <1>2, <1>3, <2>3 DEF RecordOf
        <4>2. QED
          BY <1>1, <2>1, <4>1 DEF RecordsInv, Fingerprinted
      <3>4. RecordsInv'
        <4>1. ASSUME NEW p \in Importers, Waits(p)'
              PROVE  imports'[p] = imports[p] /\ player'.url # imports[p].url
          <5>1. Waits(p)
            BY <4>1 DEF Waits
          <5>2. QED
            BY <1>1, <3>2, <5>1, ImportUrlIs
        <4>2. QED
          BY <1>1, <1>2, <3>1, <3>2, <4>1, RecordsMoved
      <3>5. PlaysOwnContent'
        BY <1>1, <1>3, <2>3, <3>1, <3>2, <3>3 DEF PlaysOwnContent
      <3>6. QED
        BY <1>2, <1>5, <2>1, <2>2, <3>1, <3>2, <3>4, <3>5
    <2>4. CASE player.current # a
      <3>1. player' = Projected(a, library) /\ urls' = Revoked(urls, CurrentUrl)
        BY <1>5, <2>4 DEF ShowOpened
      <3>2. /\ player' \in Surface /\ player'.current = a /\ player'.media = library[a]
            /\ player'.url = 0
        BY <1>2, <1>3, <1>5, <3>1, ProjectedIs
      <3>3. /\ urls' \in Seq(Url) /\ Len(urls') = Len(urls)
            /\ \A k \in 1 .. Len(urls) : k # CurrentUrl => urls'[k] = urls[k]
        BY <1>2, <3>1, UrlRevoked
      <3>4. RecordsInv'
        <4>1. ASSUME NEW p \in Importers, Waits(p)'
              PROVE  /\ imports'[p] = imports[p]
                     /\ player'.url # imports[p].url
                     /\ urls'[imports[p].url] = urls[imports[p].url]
          <5>1. Waits(p)
            BY <4>1 DEF Waits
          <5>2. QED
            BY <1>1, <3>2, <3>3, <5>1, ImportUrlIs
        <4>2. QED
          BY <1>1, <1>2, <3>2, <3>3, <4>1, RecordsMoved
      <3>5. PlaysOwnContent'
        BY <3>2 DEF PlaysOwnContent
      <3>6. QED
        BY <1>2, <1>5, <2>1, <2>2, <3>2, <3>3, <3>4, <3>5
    <2>5. QED
      BY <2>3, <2>4
  <1>6. QED
    BY <1>4, <1>5

LEMMA OpenMediaKeepsInv ==
  ASSUME LinksInv, NEW a \in Assets, OpenMedia(a)
  PROVE  LinksInv'
  <1>1. LinksShaped /\ NewestAsked /\ library[a] # None /\ a # None
    BY NoneAssumption DEF LinksInv, OpenMedia
  <1>2. UNCHANGED <<disk, handles, library, saved, made, imports, relink>> /\ asked' = a
    BY DEF OpenMedia
  <1> DEFINE older == {[o EXCEPT !.newest = FALSE] : o \in opens}
             call == [asset |-> a, newest |-> TRUE]
  <1>3. older \subseteq [asset : Assets, newest : BOOLEAN] /\ \A o \in older : ~ o.newest
    <2>1. ASSUME NEW o \in opens
          PROVE  /\ [o EXCEPT !.newest = FALSE] \in [asset : Assets, newest : BOOLEAN]
                 /\ [o EXCEPT !.newest = FALSE].newest = FALSE
      BY <1>1, <2>1 DEF LinksShaped
    <2>2. QED
      BY <2>1
  <1>4. call \in [asset : Assets, newest : BOOLEAN] /\ call.newest /\ call.asset = a
    OBVIOUS
  <1>5. CASE opens' = older /\ ShowOpened(a)
    <2>1. /\ player' \in Surface /\ player'.url <= Len(urls')
          /\ player'.current # None => player'.media \in MediaRecord
          /\ urls' \in Seq(Url) /\ Len(urls') = Len(urls)
          /\ restores' \in [Restorers -> {NoRestore} \cup Looking \cup Comparing]
          /\ RecordsInv' /\ RestoresFresh' /\ Migrating' /\ PlaysOwnContent' /\ player'.current = a
      BY <1>1, <1>2, <1>5, ShownIs
    <2> HIDE DEF older
    <2>2. LinksShaped'
      BY <1>1, <1>2, <1>3, <1>5, <2>1 DEF LinksShaped
    <2>3. NewestAsked'
      BY <1>2, <1>3, <1>5, <2>1 DEF NewestAsked
    <2>4. QED
      BY <2>1, <2>2, <2>3 DEF LinksInv
  <1>6. CASE opens' = older \cup {call} /\ UNCHANGED <<player, urls, restores>>
    <2> HIDE DEF older, call
    <2>1. LinksShaped'
      BY <1>1, <1>2, <1>3, <1>4, <1>6 DEF LinksShaped
    <2>2. NewestAsked'
      BY <1>2, <1>3, <1>4, <1>6 DEF NewestAsked
    <2>3. RecordsInv' /\ PlaysOwnContent'
      BY <1>2, <1>6 DEF LinksInv, RecordsInv, Fingerprinted, LabelsKnown, ImportsOwn, Unnamed, RecordOf,
         Waits, PlaysOwnContent
    <2>4. RestoresFresh' /\ Migrating'
      BY <1>2, <1>6, RestoresRest
    <2>5. QED
      BY <2>1, <2>2, <2>3, <2>4 DEF LinksInv
  <1>7. QED
    BY <1>5, <1>6 DEF OpenMedia

LEMMA LoadedKeepsInv ==
  ASSUME LinksInv, NEW o \in opens, Loaded(o)
  PROVE  LinksInv'
  <1>1. LinksShaped /\ NewestAsked
    BY DEF LinksInv
  <1>2. /\ UNCHANGED <<disk, handles, library, saved, made, imports, relink, asked>>
        /\ opens' = opens \ {o}
    BY DEF Loaded
  <1>3. o \in [asset : Assets, newest : BOOLEAN]
    BY <1>1 DEF LinksShaped
  <1>4. CASE o.newest
    <2>1. ShowOpened(o.asset) /\ o.asset \in Assets
      BY <1>3, <1>4 DEF Loaded, NotSuperseded
    <2>2. /\ player' \in Surface /\ player'.url <= Len(urls')
          /\ player'.current # None => player'.media \in MediaRecord
          /\ urls' \in Seq(Url) /\ Len(urls') = Len(urls)
          /\ restores' \in [Restorers -> {NoRestore} \cup Looking \cup Comparing]
          /\ RecordsInv' /\ RestoresFresh' /\ Migrating' /\ PlaysOwnContent'
          /\ IF library[o.asset] # None THEN player'.current = o.asset ELSE player'.current = player.current
      BY <1>2, <2>1, ShownIs
    <2>3. LinksShaped'
      BY <1>1, <1>2, <2>2 DEF LinksShaped
    <2>4. NewestAsked'
      BY <1>1, <1>2, <1>4, <2>2 DEF NewestAsked
    <2>5. QED
      BY <2>2, <2>3, <2>4 DEF LinksInv
  <1>5. CASE ~ o.newest
    <2>1. UNCHANGED <<player, urls, restores>>
      BY <1>5 DEF Loaded, NotSuperseded
    <2>2. LinksShaped'
      BY <1>1, <1>2, <2>1 DEF LinksShaped
    <2>3. NewestAsked'
      BY <1>1, <1>2, <1>5, <2>1 DEF NewestAsked
    <2>4. RecordsInv' /\ PlaysOwnContent'
      BY <1>2, <2>1 DEF LinksInv, RecordsInv, Fingerprinted, LabelsKnown, ImportsOwn, Unnamed, RecordOf,
         Waits, PlaysOwnContent
    <2>5. RestoresFresh' /\ Migrating'
      BY <1>2, <2>1, RestoresRest
    <2>6. QED
      BY <2>2, <2>3, <2>4, <2>5 DEF LinksInv
  <1>6. QED
    BY <1>4, <1>5

-----------------------------------------------------------------------------
(***************************************************************************)
(* Steps of an import.                                                     *)
(***************************************************************************)

\* An import goes on without touching the page; only a new URL may be waited for.
LEMMA StartImportKeepsInv ==
  ASSUME LinksInv, NEW p \in Importers, NEW f \in Files, NEW byHandle \in BOOLEAN, NEW asNew \in BOOLEAN,
         StartImport(p, f, byHandle, asNew)
  PROVE  LinksInv'
  <1> DEFINE step == [pc |-> "hash", file |-> f, content |-> disk[f], handle |-> byHandle, new |-> asNew]
  <1>1. LinksShaped /\ imports \in [Importers -> {NoImport} \cup Hashing \cup Reading \cup Saving]
    BY DEF LinksInv, LinksShaped
  <1>2. /\ imports' = [imports EXCEPT ![p] = step]
        /\ UNCHANGED <<disk, handles, library, saved, made, urls, player, relink, restores, opens, asked>>
    BY DEF StartImport
  <1>3. step \in Hashing /\ step.pc = "hash"
    BY <1>1 DEF LinksShaped, Hashing
  <1> HIDE DEF step
  <1>4. \A q \in Importers : Waits(q)' => q # p /\ Waits(q) /\ imports'[q] = imports[q]
    BY <1>1, <1>2, <1>3 DEF Waits
  <1>5. LinksShaped'
    BY <1>1, <1>2, <1>3 DEF LinksShaped
  <1>6. RecordsInv'
    BY <1>1, <1>2, <1>4, RecordsMoved, ImportUrlIs DEF LinksInv, LinksShaped
  <1>7. RestoresFresh' /\ Migrating'
    BY <1>2, RestoresRest
  <1>8. NewestAsked' /\ PlaysOwnContent'
    BY <1>2 DEF LinksInv, NewestAsked, PlaysOwnContent
  <1>9. QED
    BY <1>5, <1>6, <1>7, <1>8 DEF LinksInv

LEMMA ImportRefusedKeepsInv ==
  ASSUME LinksInv, NEW p \in Importers, ImportRefused(p)
  PROVE  LinksInv'
  <1>1. LinksShaped /\ imports \in [Importers -> {NoImport} \cup Hashing \cup Reading \cup Saving]
    BY DEF LinksInv, LinksShaped
  <1>2. /\ imports' = [imports EXCEPT ![p] = NoImport]
        /\ UNCHANGED <<disk, handles, library, saved, made, urls, player, relink, restores, opens, asked>>
    BY DEF ImportRefused
  <1>3. NoImport.pc = "idle"
    BY DEF NoImport
  <1>4. \A q \in Importers : Waits(q)' => q # p /\ Waits(q) /\ imports'[q] = imports[q]
    BY <1>1, <1>2, <1>3 DEF Waits
  <1>5. LinksShaped'
    BY <1>1, <1>2 DEF LinksShaped
  <1>6. RecordsInv'
    BY <1>1, <1>2, <1>4, RecordsMoved, ImportUrlIs DEF LinksInv, LinksShaped
  <1>7. RestoresFresh' /\ Migrating'
    BY <1>2, RestoresRest
  <1>8. NewestAsked' /\ PlaysOwnContent'
    BY <1>2 DEF LinksInv, NewestAsked, PlaysOwnContent
  <1>9. QED
    BY <1>5, <1>6, <1>7, <1>8 DEF LinksInv

\* The new URL is behind every URL there was, so nothing names it.
LEMMA HashedKeepsInv ==
  ASSUME LinksInv, NEW p \in Importers, Hashed(p)
  PROVE  LinksInv'
  <1>1. LinksShaped /\ RecordsInv
    BY DEF LinksInv
  <1>2. /\ library \in Libraries
        /\ urls \in Seq(Url) /\ Len(urls) \in Nat /\ Len(urls) <= MaxUrls
        /\ player \in Surface /\ player.url <= Len(urls)
        /\ imports \in [Importers -> {NoImport} \cup Hashing \cup Reading \cup Saving]
    BY <1>1 DEF LinksShaped
  <1>3. imports[p] \in Hashing /\ UrlRoom
    BY <1>1, ImportIs DEF Hashed
  <1>4. PICK content : content = imports[p].content
    OBVIOUS
  <1>5. content \in Contents /\ imports[p].file \in Files /\ imports[p].handle \in BOOLEAN
    BY <1>3, <1>4 DEF Hashing
  <1>6. PICK existing : existing = IF SameContent(content) = {} THEN None ELSE Min(SameContent(content))
    OBVIOUS
  <1>7. existing # None => existing \in SameContent(content)
    BY <1>6, FirstAndNewest DEF SameContent
  <1>8. existing \in Assets \cup {None}
    BY <1>7 DEF SameContent
  <1>9. PICK was : was = IF existing = None THEN None ELSE library[existing]
    OBVIOUS
  <1>10. /\ was \in MediaRecord \cup {None}
         /\ existing # None => was \in MediaRecord /\ was.content = content /\ was = library[existing]
    BY <1>2, <1>7, <1>8, <1>9 DEF SameContent, Libraries
  <1>11. PICK url : url = [content |-> content, live |-> TRUE]
    OBVIOUS
  <1>0. PICK new : new = Len(urls) + 1
    OBVIOUS
  <1>12. PICK step : step = [pc |-> "subtitles", file |-> imports[p].file, content |-> content,
                            handle |-> imports[p].handle, url |-> new,
                            existing |-> existing, was |-> was]
    OBVIOUS
  <1>13. /\ urls' = Append(urls, url)
         /\ imports' = [imports EXCEPT ![p] = step]
    BY <1>0, <1>4, <1>6, <1>9, <1>11, <1>12 DEF Hashed
  <1>14. UNCHANGED <<disk, handles, library, saved, made, player, relink, restores, opens, asked>>
    BY DEF Hashed
  <1>15. url \in Url
    BY <1>5, <1>11 DEF Url
  <1>16. /\ urls' \in Seq(Url) /\ Len(urls') = new /\ new = Len(urls) + 1
         /\ \A k \in 1 .. Len(urls) : urls'[k] = urls[k]
         /\ urls'[new] = url
    BY <1>0, <1>2, <1>13, <1>15, UrlMade
  <1>17. new \in 1 .. MaxUrls
    BY <1>0, <1>2, <1>3, LinksAssumption DEF UrlRoom
  <1>18. step \in Reading
    BY <1>5, <1>8, <1>10, <1>12, <1>17 DEF Reading
  <1>19. /\ step.pc = "subtitles" /\ step.content = content /\ step.url = new
         /\ step.existing = existing /\ step.was = was
    BY <1>12
  <1>20. imports'[p] = step /\ \A q \in Importers : q # p => imports'[q] = imports[q]
    BY <1>2, <1>13
  <1>21. LinksShaped'
    <2>1. imports' \in [Importers -> {NoImport} \cup Hashing \cup Reading \cup Saving]
      BY <1>2, <1>13, <1>18
    <2>2. player'.url <= Len(urls') /\ Len(urls') <= MaxUrls
      <3>1. player.url \in Nat
        BY <1>2 DEF Surface
      <3>2. QED
        BY <1>2, <1>14, <1>16, <1>17, <3>1
    <2>3. QED
      BY <1>1, <1>14, <1>16, <2>1, <2>2 DEF LinksShaped
  <1>22. ASSUME NEW a \in Assets, NEW m \in MediaRecord, RecordOf(a, m)'
         PROVE  RecordOf(a, m)
    BY <1>1, <1>10, <1>14, <1>19, <1>20, <1>22, RecordsFound
  <1>23. Fingerprinted'
    BY <1>1, <1>14, <1>22 DEF RecordsInv, Fingerprinted
  <1>24. ASSUME NEW a \in Assets, NEW m \in MediaRecord, RecordOf(a, m)'
         PROVE  m.blob = None \/ (m.blob \in Nat /\ m.blob <= Len(urls))
    <2>1. m.blob = None \/ m.blob <= Len(urls)
      BY <1>1, <1>22, <1>24 DEF RecordsInv, LabelsKnown
    <2>2. m.blob = None \/ m.blob \in 0 .. MaxUrls
      BY DEF MediaRecord
    <2>3. QED
      BY <2>1, <2>2, LinksAssumption
  <1>25. LabelsKnown'
    BY <1>2, <1>16, <1>24 DEF LabelsKnown
  <1>26. Unnamed(new)'
    <2>1. player'.url # new
      BY <1>0, <1>2, <1>14 DEF Surface
    <2>2. ASSUME NEW a \in Assets, NEW m \in MediaRecord, RecordOf(a, m)'
          PROVE  m.blob # new
      <3>1. None # new
        BY <1>17, NoneAssumption
      <3>2. QED
        BY <1>0, <1>2, <1>24, <2>2, <3>1
    <2>3. QED
      BY <2>1, <2>2 DEF Unnamed
  <1>27. ImportsOwn'
    <2>1. ASSUME NEW q \in Importers, q # p, Waits(q)'
          PROVE  /\ Waits(q) /\ imports'[q] = imports[q]
                 /\ imports[q].url \in 1 .. Len(urls)
                 /\ imports[q].url # new /\ imports[q].url <= Len(urls')
                 /\ urls'[imports[q].url] = [content |-> imports[q].content, live |-> TRUE]
                 /\ Unnamed(imports[q].url)'
                 /\ imports[q].existing # None =>
                      imports[q].was \in MediaRecord /\ imports[q].was.content = imports[q].content
      <3>1. Waits(q) /\ imports'[q] = imports[q]
        BY <1>20, <2>1 DEF Waits
      <3>2. imports[q].url \in 1 .. Len(urls)
        BY <1>1, <3>1, ImportUrlIs
      <3>3. Unnamed(imports[q].url)'
        <4>1. Unnamed(imports[q].url)
          BY <1>1, <3>1 DEF RecordsInv, ImportsOwn
        <4>2. QED
          BY <1>14, <1>20, <1>22, <2>1, <4>1 DEF Unnamed
      <3>4. /\ urls[imports[q].url] = [content |-> imports[q].content, live |-> TRUE]
            /\ imports[q].existing # None =>
                 imports[q].was \in MediaRecord /\ imports[q].was.content = imports[q].content
        BY <1>1, <3>1 DEF RecordsInv, ImportsOwn
      <3>5. imports[q].url # new /\ imports[q].url <= Len(urls')
        BY <1>2, <1>16, <3>2
      <3>6. QED
        BY <1>16, <3>1, <3>2, <3>3, <3>4, <3>5
    <2>2. ASSUME NEW q \in Importers, Waits(q)', NEW o \in Importers, o # q, Waits(o)'
          PROVE  imports'[q].url # imports'[o].url
      <3>1. CASE q = p
        <4>1. imports'[q].url = new
          BY <1>19, <1>20, <3>1
        <4>2. imports'[o] = imports[o] /\ imports[o].url # new
          BY <2>1, <2>2, <3>1
        <4>3. QED
          BY <4>1, <4>2
      <3>2. CASE o = p
        <4>1. imports'[o].url = new
          BY <1>19, <1>20, <3>2
        <4>2. imports'[q] = imports[q] /\ imports[q].url # new
          BY <2>1, <2>2, <3>2
        <4>3. QED
          BY <4>1, <4>2
      <3>3. CASE q # p /\ o # p
        BY <1>1, <2>1, <2>2, <3>3 DEF RecordsInv, ImportsOwn
      <3>4. QED
        BY <3>1, <3>2, <3>3
    <2>3. ASSUME NEW q \in Importers, Waits(q)'
          PROVE  /\ imports'[q].url <= Len(urls')
                 /\ urls'[imports'[q].url] = [content |-> imports'[q].content, live |-> TRUE]
                 /\ Unnamed(imports[q].url)'
                 /\ imports'[q].existing # None =>
                      imports'[q].was \in MediaRecord /\ imports'[q].was.content = imports'[q].content
      <3>1. CASE q = p
        <4>1. imports'[q].url = new
          BY <1>19, <1>20, <3>1
        <4>2. Unnamed(imports[q].url)'
          BY <1>26, <4>1 DEF Unnamed
        <4>3. imports'[q].url <= Len(urls')
          BY <1>2, <1>16, <4>1
        <4>4. /\ imports'[q].content = content
              /\ imports'[q].existing = existing
              /\ imports'[q].was = was
          BY <1>19, <1>20, <3>1
        <4>5. urls'[imports'[q].url] = [content |-> imports'[q].content, live |-> TRUE]
          BY <1>11, <1>16, <4>1, <4>4
        <4>6. QED
          BY <1>10, <4>2, <4>3, <4>4, <4>5
      <3>2. CASE q # p
        BY <2>1, <2>3, <3>2
      <3>3. QED
        BY <3>1, <3>2
    <2>4. QED
      BY <2>2, <2>3 DEF ImportsOwn
  <1>28. RestoresFresh' /\ Migrating'
    BY <1>14, RestoresRest
  <1>29. NewestAsked'
    BY <1>14 DEF LinksInv, NewestAsked
  <1>30. PlaysOwnContent'
    <2>1. player.url # 0 => player.url \in 1 .. Len(urls)
      BY <1>2 DEF Surface
    <2>2. QED
      BY <1>14, <1>16, <2>1 DEF LinksInv, PlaysOwnContent
  <1>31. QED
    BY <1>21, <1>23, <1>25, <1>27, <1>28, <1>29, <1>30 DEF LinksInv, RecordsInv

\* An import that fails takes back the URL that is its own.
LEMMA ImportFailsKeepsInv ==
  ASSUME LinksInv, NEW p \in Importers, ImportFails(p)
  PROVE  LinksInv'
  <1>1. LinksShaped /\ RecordsInv
    BY DEF LinksInv
  <1>2. /\ urls \in Seq(Url) /\ Len(urls) \in Nat
        /\ player \in Surface /\ player.url <= Len(urls)
        /\ imports \in [Importers -> {NoImport} \cup Hashing \cup Reading \cup Saving]
    BY <1>1 DEF LinksShaped
  <1>3. PICK u : u = imports[p].url
    OBVIOUS
  <1>4. Waits(p)
    BY DEF ImportFails, Waits
  <1>5. u # player.url
    BY <1>1, <1>3, <1>4, ImportUrlIs
  <1>6. /\ imports' = [imports EXCEPT ![p] = NoImport]
        /\ urls' = Revoked(urls, u)
        /\ UNCHANGED <<disk, handles, library, saved, made, player, relink, restores, opens, asked>>
    BY <1>3 DEF ImportFails
  <1>7. /\ urls' \in Seq(Url) /\ Len(urls') = Len(urls)
        /\ \A k \in 1 .. Len(urls) : k # u => urls'[k] = urls[k]
    BY <1>2, <1>6, UrlRevoked
  <1>8. NoImport.pc = "idle"
    BY DEF NoImport
  <1>9. ASSUME NEW q \in Importers, Waits(q)'
        PROVE  /\ imports'[q] = imports[q]
               /\ player'.url # imports[q].url
               /\ urls'[imports[q].url] = urls[imports[q].url]
    <2>1. q # p /\ Waits(q) /\ imports'[q] = imports[q]
      BY <1>2, <1>6, <1>8, <1>9 DEF Waits
    <2>2. imports[q].url # u
      BY <1>1, <1>3, <1>4, <2>1 DEF RecordsInv, ImportsOwn
    <2>3. QED
      BY <1>1, <1>6, <1>7, <2>1, <2>2, ImportUrlIs
  <1>10. LinksShaped'
    BY <1>1, <1>2, <1>6, <1>7 DEF LinksShaped
  <1>11. RecordsInv'
    BY <1>1, <1>2, <1>6, <1>7, <1>9, RecordsMoved
  <1>12. RestoresFresh' /\ Migrating'
    BY <1>6, RestoresRest
  <1>13. NewestAsked'
    BY <1>6 DEF LinksInv, NewestAsked
  <1>14. PlaysOwnContent'
    <2>1. player.url # 0 => player.url \in 1 .. Len(urls)
      BY <1>2 DEF Surface
    <2>2. QED
      BY <1>5, <1>6, <1>7, <2>1 DEF LinksInv, PlaysOwnContent
  <1>15. QED
    BY <1>10, <1>11, <1>12, <1>13, <1>14 DEF LinksInv

\* What is installed plays, with its own content.
LEMMA InstallIs ==
  ASSUME LinksInv, NEW a \in Assets, NEW media \in MediaRecord, NEW u \in 1 .. Len(urls),
         Install(a, media, u), UNCHANGED <<disk, handles, saved, relink, opens>>,
         u # CurrentUrl, urls[u].live, media.content \in {None, urls[u].content},
         made' \in 0 .. MaxAssets,
         imports' \in [Importers -> {NoImport} \cup Hashing \cup Reading \cup Saving]
  PROVE  /\ LinksShaped' /\ RestoresFresh' /\ Migrating' /\ NewestAsked' /\ PlaysOwnContent'
         /\ Len(urls') = Len(urls)
         /\ \A k \in 1 .. Len(urls) : k # CurrentUrl => urls'[k] = urls[k]
         /\ player'.current = a /\ player'.media = media /\ player'.url = u
  <1>1. LinksShaped
    BY DEF LinksInv
  <1>2. urls \in Seq(Url) /\ Len(urls) \in Nat /\ library \in Libraries
    BY <1>1 DEF LinksShaped
  <1>3. /\ library' = [library EXCEPT ![a] = media]
        /\ player' = [current |-> a, media |-> media, url |-> u]
        /\ urls' = Revoked(urls, CurrentUrl)
        /\ Outdated
        /\ asked' = None
    BY DEF Install
  <1>4. /\ urls' \in Seq(Url) /\ Len(urls') = Len(urls)
        /\ \A k \in 1 .. Len(urls) : k # CurrentUrl => urls'[k] = urls[k]
    BY <1>2, <1>3, UrlRevoked
  <1>5. /\ restores' \in [Restorers -> {NoRestore} \cup Looking \cup Comparing]
        /\ RestoresFresh' /\ Migrating'
    BY <1>3, RestoresOutdated
  <1>6. /\ player' \in Surface /\ player'.current = a /\ player'.media = media /\ player'.url = u
        /\ player'.url <= Len(urls')
    BY <1>2, <1>3, <1>4 DEF Surface
  <1>7. library' \in Libraries
    BY <1>2, <1>3 DEF Libraries
  <1>8. LinksShaped'
    BY <1>1, <1>3, <1>4, <1>5, <1>6, <1>7 DEF LinksShaped
  <1>9. NewestAsked'
    BY <1>3 DEF NewestAsked
  <1>10. PlaysOwnContent'
    BY <1>4, <1>6 DEF PlaysOwnContent
  <1>11. QED
    BY <1>4, <1>5, <1>6, <1>8, <1>9, <1>10

\* Afterwards the import saves its handle, if it has one.
LEMMA ImportDoneIs ==
  ASSUME LinksShaped, NEW p \in Importers, Waits(p), NEW a \in Assets, ImportDone(p, a)
  PROVE  /\ imports' \in [Importers -> {NoImport} \cup Hashing \cup Reading \cup Saving]
         /\ \A q \in Importers : Waits(q)' => q # p /\ Waits(q) /\ imports'[q] = imports[q]
  <1>1. imports \in [Importers -> {NoImport} \cup Hashing \cup Reading \cup Saving]
    BY DEF LinksShaped
  <1>2. imports[p].file \in Files
    BY ImportIs DEF Reading
  <1>3. PICK step : step = IF imports[p].handle
                           THEN [pc |-> "save", file |-> imports[p].file, asset |-> a] ELSE NoImport
    OBVIOUS
  <1>4. imports' = [imports EXCEPT ![p] = step]
    BY <1>1, <1>3 DEF ImportDone
  <1>5. step \in {NoImport} \cup Saving /\ step.pc # "subtitles"
    BY <1>2, <1>3 DEF Saving, NoImport
  <1>6. QED
    BY <1>1, <1>4, <1>5 DEF Waits

LEMMA RelinkImportedKeepsInv ==
  ASSUME LinksInv, NEW p \in Importers, RelinkImported(p)
  PROVE  LinksInv'
  <1>1. LinksShaped /\ RecordsInv
    BY DEF LinksInv
  <1>2. Waits(p) /\ imports[p].existing # None
    BY DEF RelinkImported, Waits
  <1>3. imports[p] \in Reading
    BY <1>1, <1>2, ImportIs
  <1>4. PICK u : u = imports[p].url
    OBVIOUS
  <1>5. u \in 1 .. Len(urls) /\ u # CurrentUrl
    BY <1>1, <1>2, <1>4, ImportUrlIs
  <1>6. PICK a : a = imports[p].existing
    OBVIOUS
  <1>7. a \in Assets
    BY <1>2, <1>3, <1>6 DEF Reading
  <1>8. PICK was : was = imports[p].was
    OBVIOUS
  <1>9. /\ was \in MediaRecord /\ was.content = imports[p].content
        /\ urls[u] = [content |-> imports[p].content, live |-> TRUE]
    BY <1>1, <1>2, <1>4, <1>8 DEF RecordsInv, ImportsOwn
  <1>10. RecordOf(a, was)
    BY <1>2, <1>6, <1>8 DEF RecordOf
  <1>11. PICK media : media = Relinked(was, imports[p].handle, NameOf[imports[p].file], u)
    OBVIOUS
  <1>12. media \in MediaRecord /\ media.content = was.content /\ media.blob \in {None, u}
    <2>1. imports[p].handle \in BOOLEAN /\ NameOf[imports[p].file] \in Names /\ u \in 0 .. MaxUrls
      BY <1>3, <1>4 DEF Reading, Names
    <2>2. QED
      BY <1>9, <1>11, <2>1, RelinkedIs
  <1>13. /\ Install(a, media, u) /\ ImportDone(p, a)
         /\ UNCHANGED <<disk, handles, saved, made, relink, opens>>
    BY <1>4, <1>6, <1>8, <1>11 DEF RelinkImported
  <1>14. /\ imports' \in [Importers -> {NoImport} \cup Hashing \cup Reading \cup Saving]
         /\ \A q \in Importers : Waits(q)' => q # p /\ Waits(q) /\ imports'[q] = imports[q]
    BY <1>1, <1>2, <1>7, <1>13, ImportDoneIs
  <1>15. made' = made /\ made' \in 0 .. MaxAssets
    BY <1>1, <1>13 DEF LinksShaped
  <1>16. /\ LinksShaped' /\ RestoresFresh' /\ Migrating' /\ NewestAsked' /\ PlaysOwnContent'
         /\ Len(urls') = Len(urls)
         /\ \A k \in 1 .. Len(urls) : k # CurrentUrl => urls'[k] = urls[k]
         /\ player'.current = a /\ player'.media = media /\ player'.url = u
    <2>1. urls[u].live /\ media.content \in {None, urls[u].content}
      BY <1>9, <1>12
    <2>2. QED
      BY <1>5, <1>7, <1>12, <1>13, <1>14, <1>15, <2>1, InstallIs
  <1>17. ASSUME NEW q \in Importers, Waits(q)'
         PROVE  /\ imports'[q] = imports[q]
                /\ imports[q].url # u
                /\ player'.url # imports[q].url
                /\ urls'[imports[q].url] = urls[imports[q].url]
    <2>1. q # p /\ Waits(q) /\ imports'[q] = imports[q]
      BY <1>14, <1>17
    <2>2. imports[q].url # u
      BY <1>1, <1>2, <1>4, <2>1 DEF RecordsInv, ImportsOwn
    <2>3. QED
      BY <1>1, <1>16, <2>1, <2>2, ImportUrlIs
  <1>18. ASSUME NEW b \in Assets, NEW m \in MediaRecord, RecordOf(b, m)'
         PROVE  \E l \in MediaRecord : RecordOf(b, l) /\ l.content = m.content /\ m.blob \in {l.blob, None, u}
    <2>1. library' = [library EXCEPT ![a] = media] /\ saved' = saved
      BY <1>13 DEF Install
    <2>2. \A q \in Importers : Waits(q)' => imports'[q] = imports[q]
      BY <1>14
    <2>3. player'.current = a /\ player'.media = media
      BY <1>16
    <2>4. was \in MediaRecord
      BY <1>9
    <2>5. QED
      BY <1>1, <1>7, <1>10, <1>12, <1>18, <2>1, <2>2, <2>3, <2>4, RecordsInstalled
  <1>19. RecordsInv'
    <2>1. Len(urls) \in Nat /\ Len(urls) <= MaxUrls
      BY <1>1 DEF LinksShaped
    <2>2. Len(urls') \in Nat /\ Len(urls) <= Len(urls') /\ u <= Len(urls') /\ u \in 0 .. MaxUrls
      BY <1>5, <1>16, <2>1, LinksAssumption
    <2>3. QED
      BY <1>1, <1>15, <1>17, <1>18, <2>2, RecordsKept
  <1>20. QED
    BY <1>16, <1>19 DEF LinksInv

\* A new media has a number no record has, so it is alone with its fingerprint.
LEMMA AddImportedKeepsInv ==
  ASSUME LinksInv, NEW p \in Importers, AddImported(p)
  PROVE  LinksInv'
  <1>1. LinksShaped /\ RecordsInv
    BY DEF LinksInv
  <1>2. Waits(p) /\ made < MaxAssets
    BY DEF AddImported, Waits
  <1>3. imports[p] \in Reading
    BY <1>1, <1>2, ImportIs
  <1>4. PICK u : u = imports[p].url
    OBVIOUS
  <1>5. u \in 1 .. Len(urls) /\ u # CurrentUrl
    BY <1>1, <1>2, <1>4, ImportUrlIs
  <1>6. PICK a : a = made + 1
    OBVIOUS
  <1>7. made \in Nat /\ a \in Assets /\ a \in 0 .. MaxAssets
    BY <1>1, <1>2, <1>6, LinksAssumption DEF LinksShaped, Assets
  <1>8. urls[u] = [content |-> imports[p].content, live |-> TRUE]
    BY <1>1, <1>2, <1>4 DEF RecordsInv, ImportsOwn
  <1>9. PICK label : label = IF imports[p].handle THEN None ELSE u
    OBVIOUS
  <1>10. PICK media : media = [content |-> imports[p].content, name |-> NameOf[imports[p].file], blob |-> label]
    OBVIOUS
  <1>11. media \in MediaRecord /\ media.content = imports[p].content /\ media.blob \in {None, u}
    <2>1. /\ imports[p].content \in Contents /\ NameOf[imports[p].file] \in Names
          /\ u \in 0 .. MaxUrls
      BY <1>3, <1>4 DEF Reading, Names
    <2>2. label \in 0 .. MaxUrls \cup {None} /\ label \in {None, u}
      BY <1>9, <2>1
    <2>3. QED
      BY <1>10, <2>1, <2>2 DEF MediaRecord
  <1>12. /\ made' = a
         /\ Install(a, media, u) /\ ImportDone(p, a)
         /\ UNCHANGED <<disk, handles, saved, relink, opens>>
    BY <1>4, <1>6, <1>9, <1>10 DEF AddImported
  <1>13. /\ imports' \in [Importers -> {NoImport} \cup Hashing \cup Reading \cup Saving]
         /\ \A q \in Importers : Waits(q)' => q # p /\ Waits(q) /\ imports'[q] = imports[q]
    BY <1>1, <1>2, <1>7, <1>12, ImportDoneIs
  <1>14. /\ LinksShaped' /\ RestoresFresh' /\ Migrating' /\ NewestAsked' /\ PlaysOwnContent'
         /\ Len(urls') = Len(urls)
         /\ \A k \in 1 .. Len(urls) : k # CurrentUrl => urls'[k] = urls[k]
         /\ player'.current = a /\ player'.media = media /\ player'.url = u
    <2>1. urls[u].live /\ media.content \in {None, urls[u].content}
      BY <1>8, <1>11
    <2>2. made' \in 0 .. MaxAssets
      BY <1>7, <1>12
    <2>3. QED
      BY <1>5, <1>7, <1>11, <1>12, <1>13, <2>1, <2>2, InstallIs
  <1>15. ASSUME NEW b \in Assets, NEW m \in MediaRecord, RecordOf(b, m)'
         PROVE  RecordOf(b, m) \/ (b = a /\ m = media)
    <2>1. library' = [library EXCEPT ![a] = media] /\ saved' = saved /\ library \in Libraries
      BY <1>1, <1>12 DEF Install, LinksShaped
    <2>2. m = library'[b] => m = library[b] \/ (b = a /\ m = media)
      BY <2>1 DEF Libraries
    <2>3. player'.current = b /\ m = player'.media => b = a /\ m = media
      BY <1>14
    <2>4. QED
      BY <1>13, <1>15, <2>1, <2>2, <2>3 DEF RecordOf
  <1>16. \A b \in Assets : \A m \in MediaRecord : RecordOf(b, m) => b <= made /\ b # a
    <2>1. \A b \in Assets : \A m \in MediaRecord : RecordOf(b, m) => b <= made
      BY <1>1 DEF RecordsInv, Fingerprinted
    <2>2. QED
      BY <1>6, <1>7, <2>1 DEF Assets
  <1>17. Fingerprinted'
    <2>1. ASSUME NEW b \in Assets, NEW m \in MediaRecord, RecordOf(b, m)'
          PROVE  /\ b <= made'
                 /\ \A l \in MediaRecord : RecordOf(b, l)' => l.content = m.content
      <3>1. CASE b = a
        <4>1. \A l \in MediaRecord : RecordOf(b, l)' => l = media
          BY <1>15, <1>16, <3>1
        <4>2. b <= made'
          BY <1>7, <1>12, <3>1
        <4>3. QED
          BY <2>1, <4>1, <4>2
      <3>2. CASE b # a
        <4>1. RecordOf(b, m) /\ \A l \in MediaRecord : RecordOf(b, l)' => RecordOf(b, l)
          BY <1>15, <2>1, <3>2
        <4>2. b <= made
          BY <1>16, <4>1
        <4>3. b <= made'
          BY <1>6, <1>7, <1>12, <4>2 DEF Assets
        <4>4. \A l \in MediaRecord : RecordOf(b, l)' => l.content = m.content
          BY <1>1, <4>1 DEF RecordsInv, Fingerprinted
        <4>5. QED
          BY <4>3, <4>4
      <3>3. QED
        BY <3>1, <3>2
    <2>2. QED
      BY <2>1 DEF Fingerprinted
  <1>18. LabelsKnown'
    <2>1. ASSUME NEW b \in Assets, NEW m \in MediaRecord, RecordOf(b, m)'
          PROVE  m.blob = None \/ m.blob <= Len(urls')
      <3>1. CASE RecordOf(b, m)
        BY <1>1, <1>14, <3>1 DEF RecordsInv, LabelsKnown
      <3>2. CASE m = media
        BY <1>5, <1>11, <1>14, <3>2
      <3>3. QED
        BY <1>15, <2>1, <3>1, <3>2
    <2>2. QED
      BY <2>1 DEF LabelsKnown
  <1>19. ASSUME NEW q \in Importers, Waits(q)'
         PROVE  /\ imports'[q] = imports[q] /\ Waits(q)
                /\ imports[q].url \in 1 .. Len(urls)
                /\ urls'[imports[q].url] = urls[imports[q].url]
                /\ Unnamed(imports[q].url)'
    <2>1. q # p /\ Waits(q) /\ imports'[q] = imports[q]
      BY <1>13, <1>19
    <2>2. imports[q].url # u /\ Unnamed(imports[q].url)
      BY <1>1, <1>2, <1>4, <2>1 DEF RecordsInv, ImportsOwn
    <2>3. imports[q].url \in 1 .. Len(urls) /\ imports[q].url # CurrentUrl /\ imports[q] \in Reading
      BY <1>1, <2>1, ImportUrlIs
    <2>4. imports[q].url # None
      BY <2>3, NoneAssumption DEF Reading
    <2>5. ASSUME NEW b \in Assets, NEW m \in MediaRecord, RecordOf(b, m)'
          PROVE  m.blob # imports[q].url
      <3>1. CASE RecordOf(b, m)
        BY <2>2, <3>1 DEF Unnamed
      <3>2. CASE m = media
        BY <1>11, <2>2, <2>4, <3>2
      <3>3. QED
        BY <1>15, <2>5, <3>1, <3>2
    <2>6. Unnamed(imports[q].url)'
      BY <1>14, <2>1, <2>2, <2>5 DEF Unnamed
    <2>7. QED
      BY <1>14, <2>1, <2>3, <2>6
  <1>20. ImportsOwn'
    <2>1. ASSUME NEW q \in Importers, Waits(q)'
          PROVE  /\ imports[q].url <= Len(urls')
                 /\ urls'[imports[q].url] = [content |-> imports[q].content, live |-> TRUE]
                 /\ imports[q].existing # None =>
                      imports[q].was \in MediaRecord /\ imports[q].was.content = imports[q].content
      BY <1>1, <1>14, <1>19, <2>1 DEF RecordsInv, ImportsOwn
    <2>2. ASSUME NEW q \in Importers, Waits(q)', NEW o \in Importers, o # q, Waits(o)'
          PROVE  imports[o].url # imports[q].url
      BY <1>1, <1>19, <2>2 DEF RecordsInv, ImportsOwn
    <2>3. QED
      BY <1>19, <2>1, <2>2 DEF ImportsOwn
  <1>21. QED
    BY <1>14, <1>17, <1>18, <1>20 DEF LinksInv, RecordsInv

\* The saved handle is of a media, and so is no legacy handle.
LEMMA SaveHandleKeepsInv ==
  ASSUME LinksInv, NEW p \in Importers, SaveHandle(p)
  PROVE  LinksInv'
  <1>1. LinksShaped /\ Migrating
    BY DEF LinksInv
  <1>2. /\ imports \in [Importers -> {NoImport} \cup Hashing \cup Reading \cup Saving]
        /\ handles \in [Keys -> HandleRecord \cup {None}]
    BY <1>1 DEF LinksShaped
  <1>3. imports[p] \in Saving
    BY <1>1, ImportIs DEF SaveHandle
  <1>4. PICK a : a = imports[p].asset
    OBVIOUS
  <1>5. a \in Assets /\ imports[p].file \in Files
    BY <1>3, <1>4 DEF Saving
  <1>6. PICK record : record = [file |-> imports[p].file, media |-> a]
    OBVIOUS
  <1>7. record \in HandleRecord /\ record # None
    <2>1. record \in HandleRecord
      BY <1>5, <1>6 DEF HandleRecord
    <2>2. QED
      BY <2>1, NoneAssumption
  <1>8. /\ handles' = [handles EXCEPT ![a] = record] \/ handles' = handles
        /\ imports' = [imports EXCEPT ![p] = NoImport]
        /\ UNCHANGED <<disk, library, saved, made, urls, player, relink, restores, opens, asked>>
    BY <1>4, <1>6 DEF SaveHandle
  <1>9. a # Legacy /\ Legacy \in Keys
    BY <1>5, LinksAssumption DEF Assets, Legacy, Keys
  <1>10. /\ handles' \in [Keys -> HandleRecord \cup {None}]
         /\ handles'[Legacy] = handles[Legacy]
         /\ \A b \in Assets : handles[b] # None => handles'[b] # None
    BY <1>2, <1>5, <1>7, <1>8, <1>9 DEF Keys
  <1>11. NoImport.pc = "idle"
    BY DEF NoImport
  <1>12. \A q \in Importers : Waits(q)' => q # p /\ Waits(q) /\ imports'[q] = imports[q]
    BY <1>2, <1>3, <1>8, <1>11 DEF Waits
  <1>13. LinksShaped'
    <2>1. imports' \in [Importers -> {NoImport} \cup Hashing \cup Reading \cup Saving]
      BY <1>2, <1>8
    <2>2. QED
      BY <1>1, <1>8, <1>10, <2>1 DEF LinksShaped
  <1>14. RecordsInv'
    BY <1>1, <1>8, <1>12, RecordsMoved, ImportUrlIs DEF LinksInv, LinksShaped
  <1>15. RestoresFresh'
    BY <1>8 DEF LinksInv, RestoresFresh
  <1>16. Migrating'
    BY <1>1, <1>8, <1>10 DEF Migrating
  <1>17. NewestAsked' /\ PlaysOwnContent'
    BY <1>8 DEF LinksInv, NewestAsked, PlaysOwnContent
  <1>18. QED
    BY <1>13, <1>14, <1>15, <1>16, <1>17 DEF LinksInv

-----------------------------------------------------------------------------
(***************************************************************************)
(* Steps of the relink of the open media.                                  *)
(***************************************************************************)

LEMMA StartRelinkKeepsInv ==
  ASSUME LinksInv, NEW f \in Files, StartRelink(f)
  PROVE  LinksInv'
  <1>1. LinksShaped
    BY DEF LinksInv
  <1>2. PICK step : step = [pc |-> "hash", asset |-> player.current, expected |-> player.media.content,
                            content |-> disk[f]]
    OBVIOUS
  <1>3. /\ relink' = step
        /\ UNCHANGED <<disk, handles, library, saved, made, urls, player, imports, restores, opens, asked>>
    BY <1>2 DEF StartRelink
  <1>4. step \in Relinking
    <2>1. /\ player.current \in Assets /\ player.media \in MediaRecord
          /\ player.media.content # None /\ disk[f] \in Contents
      BY <1>1 DEF StartRelink, LinksShaped, Surface
    <2>2. player.media.content \in Contents
      BY <2>1 DEF MediaRecord
    <2>3. QED
      BY <1>2, <2>1, <2>2 DEF Relinking
  <1>5. LinksShaped'
    BY <1>1, <1>3, <1>4 DEF LinksShaped
  <1>6. RecordsInv' /\ NewestAsked' /\ PlaysOwnContent'
    BY <1>3, PageRests
  <1>7. RestoresFresh' /\ Migrating'
    BY <1>3, RestoresRest
  <1>8. QED
    BY <1>5, <1>6, <1>7 DEF LinksInv

\* The new URL is of the file whose content is the fingerprint of the record it is for.
LEMMA FinishRelinkKeepsInv ==
  ASSUME LinksInv, FinishRelink
  PROVE  LinksInv'
  <1>1. LinksShaped /\ RecordsInv
    BY DEF LinksInv
  <1>2. /\ urls \in Seq(Url) /\ Len(urls) \in Nat /\ library \in Libraries
        /\ Len(urls) <= MaxUrls
    BY <1>1 DEF LinksShaped
  <1>3. relink' = NoRelink /\ UNCHANGED <<disk, handles, saved, made, imports, opens>>
    BY DEF FinishRelink
  <1>4. relink \in Relinking
    BY <1>1 DEF FinishRelink, LinksShaped, NoRelink
  <1>5. CASE RelinkOK /\ UrlRoom
    <2>1. PICK a : a = relink.asset
      OBVIOUS
    <2>2. PICK new : new = Len(urls) + 1
      OBVIOUS
    <2>3. PICK media : media = Relinked(library[a], FALSE, None, new)
      OBVIOUS
    <2>4. PICK url : url = [content |-> relink.content, live |-> TRUE]
      OBVIOUS
    <2>5. PICK cut : cut = Revoked(urls, CurrentUrl)
      OBVIOUS
    <2>6. /\ library' = [library EXCEPT ![a] = media]
          /\ player' = [current |-> a, media |-> media, url |-> new]
          /\ urls' = Append(cut, url)
          /\ Outdated
          /\ asked' = None
      BY <1>5, <2>1, <2>2, <2>3, <2>4, <2>5 DEF FinishRelink
    <2>7. a \in Assets /\ library[a] \in MediaRecord /\ library[a].content = relink.content
      BY <1>2, <1>4, <1>5, <2>1 DEF RelinkOK, Relinking, Libraries
    <2>8. new \in 1 .. MaxUrls /\ new \in Nat
      BY <1>2, <1>5, <2>2, LinksAssumption DEF UrlRoom
    <2>9. /\ media \in MediaRecord /\ media.content = library[a].content
          /\ media.blob \in {None, new}
      <3>1. new \in 0 .. MaxUrls /\ FALSE \in BOOLEAN /\ (FALSE => None \in Names)
        BY <2>8
      <3>2. /\ Relinked(library[a], FALSE, None, new) \in MediaRecord
            /\ Relinked(library[a], FALSE, None, new).content = library[a].content
            /\ Relinked(library[a], FALSE, None, new).blob \in {None, new}
        BY <2>7, <3>1, RelinkedIs, Zenon
      <3>3. QED
        BY <2>3, <3>2
    <2>10. url \in Url
      BY <1>4, <2>4 DEF Url, Relinking
    <2>11. /\ cut \in Seq(Url) /\ Len(cut) = Len(urls)
           /\ \A k \in 1 .. Len(urls) : k # CurrentUrl => cut[k] = urls[k]
      BY <1>2, <2>5, UrlRevoked
    <2>12. /\ urls' \in Seq(Url) /\ Len(urls') = new
           /\ \A k \in 1 .. Len(urls) : k # CurrentUrl => urls'[k] = urls[k]
           /\ urls'[new] = url
      BY <2>2, <2>6, <2>10, <2>11, UrlMade
    <2>13. /\ restores' \in [Restorers -> {NoRestore} \cup Looking \cup Comparing]
           /\ RestoresFresh' /\ Migrating'
      BY <1>3, <2>6, RestoresOutdated
    <2>14. /\ player' \in Surface /\ player'.current = a /\ player'.media = media
           /\ player'.url = new /\ player'.url <= Len(urls')
      BY <2>6, <2>7, <2>8, <2>9, <2>12 DEF Surface
    <2>15. library' \in Libraries
      BY <1>2, <2>6, <2>9 DEF Libraries
    <2>16. LinksShaped'
      <3>1. Len(urls') <= MaxUrls
        BY <2>8, <2>12
      <3>2. QED
        BY <1>1, <1>3, <2>6, <2>9, <2>12, <2>13, <2>14, <2>15, <3>1 DEF LinksShaped
    <2>17. ASSUME NEW b \in Assets, NEW m \in MediaRecord, RecordOf(b, m)'
           PROVE  \E l \in MediaRecord : RecordOf(b, l) /\ l.content = m.content /\ m.blob \in {l.blob, None, new}
      <3>1. RecordOf(a, library[a])
        BY DEF RecordOf
      <3>2. \A q \in Importers : Waits(q)' => imports'[q] = imports[q]
        BY <1>3
      <3>3. library' = [library EXCEPT ![a] = media] /\ saved' = saved
        BY <1>3, <2>6
      <3>4. player'.current = a /\ player'.media = media
        BY <2>14
      <3>5. QED
        BY <1>1, <2>7, <2>9, <2>17, <3>1, <3>2, <3>3, <3>4, RecordsInstalled
    <2>18. ASSUME NEW q \in Importers, Waits(q)'
           PROVE  /\ imports'[q] = imports[q]
                  /\ imports[q].url # new
                  /\ player'.url # imports[q].url
                  /\ urls'[imports[q].url] = urls[imports[q].url]
      <3>1. Waits(q) /\ imports'[q] = imports[q]
        BY <1>3, <2>18 DEF Waits
      <3>2. imports[q].url \in 1 .. Len(urls) /\ imports[q].url # CurrentUrl
        BY <1>1, <3>1, ImportUrlIs
      <3>3. imports[q].url # new
        BY <1>2, <2>2, <3>2
      <3>4. QED
        BY <2>12, <2>14, <3>1, <3>2, <3>3
    <2>19. RecordsInv'
      <3>1. Len(urls') \in Nat /\ Len(urls) <= Len(urls') /\ new <= Len(urls') /\ new \in 0 .. MaxUrls
        BY <1>2, <2>2, <2>8, <2>12
      <3>2. QED
        BY <1>1, <1>3, <2>17, <2>18, <3>1, RecordsKept
    <2>20. NewestAsked'
      BY <2>6 DEF NewestAsked
    <2>21. PlaysOwnContent'
      BY <2>4, <2>7, <2>9, <2>12, <2>14 DEF PlaysOwnContent
    <2>22. QED
      BY <2>13, <2>16, <2>19, <2>20, <2>21 DEF LinksInv
  <1>6. CASE UNCHANGED <<library, player, urls, restores, asked>>
    <2>1. LinksShaped'
      BY <1>1, <1>3, <1>6 DEF LinksShaped
    <2>2. RecordsInv' /\ NewestAsked' /\ PlaysOwnContent'
      BY <1>3, <1>6, PageRests
    <2>3. RestoresFresh' /\ Migrating'
      BY <1>3, <1>6, RestoresRest
    <2>4. QED
      BY <2>1, <2>2, <2>3 DEF LinksInv
  <1>7. QED
    BY <1>5, <1>6 DEF FinishRelink

-----------------------------------------------------------------------------
(***************************************************************************)
(* Steps of a restore.                                                     *)
(***************************************************************************)

\* A restore goes on by a step that fits the invariant.
LEMMA RestoreGoes ==
  ASSUME LinksInv, NEW r \in Restorers, NEW step \in {NoRestore} \cup Looking \cup Comparing,
         Go(r, step), OnlyRestore,
         handles' \in [Keys -> HandleRecord \cup {None}],
         handles'[Legacy] \in {handles[Legacy], None},
         \A a \in Assets : handles[a] # None => handles'[a] # None,
         step.pc # "idle" /\ step.fresh /\ player.current # None => step.expected = player.media.content,
         step.pc \in {"target", "copy", "drop", "found"} => step.file \in Files,
         step.pc \in {"target", "copy", "drop"} =>
           /\ step.target \in Assets
           /\ handles'[Legacy] # None => handles'[Legacy].media \in {None, step.target}
           /\ step.pc = "drop" => handles'[step.target] # None
  PROVE  LinksInv'
  <1>1. LinksShaped /\ RestoresFresh /\ Migrating
    BY DEF LinksInv
  <1>2. UNCHANGED <<disk, library, saved, made, urls, player, imports, relink, opens, asked>>
    BY DEF OnlyRestore
  <1>3. /\ restores \in [Restorers -> {NoRestore} \cup Looking \cup Comparing]
        /\ restores' = [restores EXCEPT ![r] = step]
    BY <1>1 DEF Go, LinksShaped
  <1>4. LinksShaped'
    BY <1>1, <1>2, <1>3 DEF LinksShaped
  <1>5. RecordsInv' /\ NewestAsked' /\ PlaysOwnContent'
    BY <1>2, PageRests
  <1>6. \A q \in Restorers : restores'[q] = IF q = r THEN step ELSE restores[q]
    BY <1>3
  <1>7. RestoresFresh'
    BY <1>1, <1>2, <1>6 DEF RestoresFresh
  <1>8. Migrating'
    <2>1. \A q \in Restorers :
            restores'[q].pc \in {"target", "copy", "drop", "found"} => restores'[q].file \in Files
      BY <1>1, <1>6 DEF Migrating
    <2>2. ASSUME NEW q \in Restorers, restores'[q].pc \in {"target", "copy", "drop"}
          PROVE  /\ restores'[q].target \in Assets
                 /\ handles'[Legacy] # None => handles'[Legacy].media \in {None, restores'[q].target}
                 /\ restores'[q].pc = "drop" => handles'[restores'[q].target] # None
      <3>1. CASE q = r
        BY <1>6, <2>2, <3>1
      <3>2. CASE q # r
        BY <1>1, <1>6, <2>2, <3>2 DEF Migrating
      <3>3. QED
        BY <3>1, <3>2
    <2>3. QED
      BY <2>1, <2>2 DEF Migrating
  <1>9. QED
    BY <1>4, <1>5, <1>7, <1>8 DEF LinksInv

\* A restore under way, and the screen as it knows it.
LEMMA LookingIs ==
  ASSUME LinksInv, NEW r \in Restorers, restores[r].pc \notin {"idle", "hash"}
  PROVE  /\ restores[r] \in Looking
         /\ restores[r].fresh /\ player.current # None => restores[r].expected = player.media.content
         /\ handles \in [Keys -> HandleRecord \cup {None}]
  BY RestoreIs DEF LinksInv, LinksShaped, RestoresFresh

\* It goes on elsewhere, its knowledge unchanged.
LEMMA RestoreToKeepsInv ==
  ASSUME LinksInv, NEW r \in Restorers, restores[r].pc \notin {"idle", "hash"},
         NEW pc \in {"own", "legacy", "again", "bare"}, RestoreTo(r, pc), OnlyRestore,
         handles' \in [Keys -> HandleRecord \cup {None}],
         handles'[Legacy] \in {handles[Legacy], None},
         \A a \in Assets : handles[a] # None => handles'[a] # None
  PROVE  LinksInv'
  <1>1. PICK step : step = [restores[r] EXCEPT !.pc = pc]
    OBVIOUS
  <1>2. /\ restores[r] \in Looking
        /\ restores[r].fresh /\ player.current # None => restores[r].expected = player.media.content
    BY LookingIs
  <1>3. step \in Looking /\ step.pc = pc /\ step.fresh = restores[r].fresh /\ step.expected = restores[r].expected
    BY <1>1, <1>2 DEF Looking
  <1>4. Go(r, step)
    BY <1>1 DEF RestoreTo
  <1>5. QED
    BY <1>2, <1>3, <1>4, RestoreGoes

\* It found the file of a handle.
LEMMA FoundKeepsInv ==
  ASSUME LinksInv, NEW r \in Restorers, restores[r].pc \notin {"idle", "hash"},
         NEW f \in Files, Found(r, f), OnlyRestore, UNCHANGED handles
  PROVE  LinksInv'
  <1>1. PICK step : step = [restores[r] EXCEPT !.pc = "found", !.file = f]
    OBVIOUS
  <1>2. /\ restores[r] \in Looking
        /\ restores[r].fresh /\ player.current # None => restores[r].expected = player.media.content
        /\ handles \in [Keys -> HandleRecord \cup {None}]
    BY LookingIs
  <1>3. step \in Looking /\ step.pc = "found" /\ step.file = f /\ step.fresh = restores[r].fresh /\ step.expected = restores[r].expected
    BY <1>1, <1>2 DEF Looking
  <1>4. Go(r, step)
    BY <1>1 DEF Found
  <1>5. QED
    BY <1>2, <1>3, <1>4, RestoreGoes

LEMMA StartRestoreKeepsInv ==
  ASSUME LinksInv, NEW r \in Restorers, StartRestore(r)
  PROVE  LinksInv'
  <1>1. player \in Surface /\ handles \in [Keys -> HandleRecord \cup {None}]
        /\ (player.current # None => player.media \in MediaRecord)
    BY DEF LinksInv, LinksShaped
  <1>2. PICK name : name = ExpectedName
    OBVIOUS
  <1>3. PICK expected : expected = IF player.current = None THEN None ELSE player.media.content
    OBVIOUS
  <1>4. PICK step : step = [pc |-> "own", asset |-> player.current, name |-> name, expected |-> expected,
                            file |-> None, target |-> None, fresh |-> TRUE]
    OBVIOUS
  <1>5. Go(r, step) /\ UNCHANGED handles /\ OnlyRestore
    BY <1>2, <1>3, <1>4 DEF StartRestore
  <1>6. name \in Names \cup {None}
    BY <1>1, <1>2 DEF ExpectedName, MediaRecord
  <1>7. expected \in Contents \cup {None}
    BY <1>1, <1>3 DEF MediaRecord
  <1>8. step \in Looking /\ step.pc = "own" /\ step.expected = expected
    BY <1>1, <1>4, <1>6, <1>7 DEF Looking, Surface
  <1>9. QED
    BY <1>1, <1>3, <1>5, <1>8, RestoreGoes

LEMMA ReadOwnKeepsInv ==
  ASSUME LinksInv, NEW r \in Restorers, ReadOwn(r)
  PROVE  LinksInv'
  <1>1. /\ restores[r].pc \in {"own", "again"} /\ restores[r].pc \notin {"idle", "hash"}
        /\ UNCHANGED handles /\ OnlyRestore
    BY DEF ReadOwn, RestoreAt
  <1>2. restores[r] \in Looking /\ handles \in [Keys -> HandleRecord \cup {None}]
    BY <1>1, LookingIs
  <1>3. PICK a : a = restores[r].asset
    OBVIOUS
  <1>4. CASE Found(r, handles[a].file) /\ a # None /\ handles[a] # None
    <2>1. a \in Keys
      BY <1>2, <1>3, <1>4 DEF Looking, Keys
    <2>2. handles[a].file \in Files
      BY <1>2, <1>4, <2>1 DEF HandleRecord
    <2>3. QED
      BY <1>1, <1>4, <2>2, FoundKeepsInv
  <1>5. CASE RestoreTo(r, "legacy")
    BY <1>1, <1>2, <1>5, RestoreToKeepsInv
  <1>6. CASE RestoreTo(r, "bare")
    BY <1>1, <1>2, <1>6, RestoreToKeepsInv
  <1>7. QED
    BY <1>3, <1>4, <1>5, <1>6 DEF ReadOwn

\* The legacy handle is of the media it names, or of the one it is adopted for.
LEMMA ReadLegacyKeepsInv ==
  ASSUME LinksInv, NEW r \in Restorers, ReadLegacy(r)
  PROVE  LinksInv'
  <1>1. restores[r].pc = "legacy" /\ UNCHANGED handles /\ OnlyRestore
    BY DEF ReadLegacy, RestoreAt
  <1>2. /\ restores[r] \in Looking /\ handles \in [Keys -> HandleRecord \cup {None}]
        /\ restores[r].fresh /\ player.current # None => restores[r].expected = player.media.content
    BY <1>1, LookingIs
  <1>3. PICK record : record = handles[Legacy]
    OBVIOUS
  <1>4. PICK t : t = Adopter(r, record)
    OBVIOUS
  <1>5. CASE record = None \/ t = None
    <2>1. RestoreTo(r, "again")
      BY <1>3, <1>4, <1>5 DEF ReadLegacy
    <2>2. QED
      BY <1>1, <1>2, <2>1, RestoreToKeepsInv
  <1>6. CASE record # None /\ t # None
    <2>1. record \in HandleRecord
      BY <1>2, <1>3, <1>6 DEF Keys
    <2>2. /\ record.file \in Files
          /\ t \in Assets
          /\ record.media \in {None, t}
      BY <1>2, <1>4, <1>6, <2>1 DEF HandleRecord, Adopter, Looking
    <2>3. PICK step : step = [restores[r] EXCEPT !.pc = "target", !.file = record.file, !.target = t]
      OBVIOUS
    <2>4. Go(r, step)
      BY <1>3, <1>4, <1>6, <2>3 DEF ReadLegacy
    <2>5. /\ step \in Looking /\ step.pc = "target" /\ step.file = record.file /\ step.target = t
          /\ step.fresh = restores[r].fresh /\ step.expected = restores[r].expected
      BY <1>2, <2>2, <2>3 DEF Looking
    <2>6. QED
      BY <1>1, <1>2, <1>3, <2>2, <2>4, <2>5, RestoreGoes
  <1>7. QED
    BY <1>5, <1>6

LEMMA ReadTargetKeepsInv ==
  ASSUME LinksInv, NEW r \in Restorers, ReadTarget(r)
  PROVE  LinksInv'
  <1>1. restores[r].pc = "target" /\ UNCHANGED handles /\ OnlyRestore
    BY DEF ReadTarget, RestoreAt
  <1>2. /\ restores[r] \in Looking /\ handles \in [Keys -> HandleRecord \cup {None}]
        /\ restores[r].fresh /\ player.current # None => restores[r].expected = player.media.content
    BY <1>1, LookingIs
  <1>3. /\ restores[r].target \in Assets
        /\ restores[r].file \in Files
        /\ handles[Legacy] # None => handles[Legacy].media \in {None, restores[r].target}
    BY <1>1 DEF LinksInv, Migrating
  <1>4. PICK pc : pc = AfterTarget(r)
    OBVIOUS
  <1>5. pc \in {"copy", "drop"} /\ (pc = "drop" => handles[restores[r].target] # None)
    BY <1>4 DEF AfterTarget
  <1>6. PICK step : step = [restores[r] EXCEPT !.pc = pc]
    OBVIOUS
  <1>7. Go(r, step)
    BY <1>4, <1>6 DEF ReadTarget, RestoreTo
  <1>8. /\ step \in Looking /\ step.pc = pc /\ step.file = restores[r].file /\ step.target = restores[r].target
        /\ step.fresh = restores[r].fresh /\ step.expected = restores[r].expected
    BY <1>2, <1>5, <1>6 DEF Looking
  <1>9. QED
    BY <1>1, <1>2, <1>3, <1>5, <1>7, <1>8, RestoreGoes

LEMMA CopyLegacyKeepsInv ==
  ASSUME LinksInv, NEW r \in Restorers, CopyLegacy(r)
  PROVE  LinksInv'
  <1>1. restores[r].pc = "copy" /\ OnlyRestore
    BY DEF CopyLegacy, RestoreAt
  <1>2. /\ restores[r] \in Looking /\ handles \in [Keys -> HandleRecord \cup {None}]
        /\ restores[r].fresh /\ player.current # None => restores[r].expected = player.media.content
    BY <1>1, LookingIs
  <1>3. PICK t : t = restores[r].target
    OBVIOUS
  <1>4. /\ t \in Assets
        /\ restores[r].file \in Files
        /\ handles[Legacy] # None => handles[Legacy].media \in {None, t}
    BY <1>1, <1>3 DEF LinksInv, Migrating
  <1>5. PICK record : record = [file |-> restores[r].file, media |-> t]
    OBVIOUS
  <1>6. record \in HandleRecord
    BY <1>4, <1>5 DEF HandleRecord
  <1>7. record # None
    BY <1>6, NoneAssumption
  <1>8. t # Legacy /\ t \in Keys /\ Legacy \in Keys
    BY <1>4, LinksAssumption DEF Assets, Legacy, Keys
  <1>9. handles' = [handles EXCEPT ![t] = record]
    BY <1>3, <1>5 DEF CopyLegacy
  <1>10. /\ handles' \in [Keys -> HandleRecord \cup {None}]
         /\ handles'[Legacy] = handles[Legacy]
         /\ \A a \in Assets : handles[a] # None => handles'[a] # None
         /\ handles'[t] # None
    BY <1>2, <1>6, <1>7, <1>8, <1>9 DEF Keys
  <1>11. PICK step : step = [restores[r] EXCEPT !.pc = "drop"]
    OBVIOUS
  <1>12. Go(r, step)
    BY <1>11 DEF CopyLegacy, RestoreTo
  <1>13. /\ step \in Looking /\ step.pc = "drop" /\ step.file = restores[r].file /\ step.target = t
         /\ step.fresh = restores[r].fresh /\ step.expected = restores[r].expected
    BY <1>2, <1>3, <1>11 DEF Looking
  <1>14. QED
    BY <1>1, <1>2, <1>4, <1>10, <1>12, <1>13, RestoreGoes

LEMMA DropLegacyKeepsInv ==
  ASSUME LinksInv, NEW r \in Restorers, DropLegacy(r)
  PROVE  LinksInv'
  <1>1. restores[r].pc = "drop" /\ RestoreTo(r, "again") /\ OnlyRestore
    BY DEF DropLegacy, RestoreAt
  <1>2. handles \in [Keys -> HandleRecord \cup {None}]
    BY <1>1, LookingIs
  <1>3. Legacy \in Keys /\ \A a \in Assets : a # Legacy /\ a \in Keys
    BY LinksAssumption DEF Assets, Legacy, Keys
  <1>4. handles' = [handles EXCEPT ![Legacy] = None]
    BY DEF DropLegacy
  <1>5. /\ handles' \in [Keys -> HandleRecord \cup {None}]
        /\ handles'[Legacy] = None
        /\ \A a \in Assets : handles[a] # None => handles'[a] # None
    BY <1>2, <1>3, <1>4
  <1>6. QED
    BY <1>1, <1>5, RestoreToKeepsInv

LEMMA MigrationFailsKeepsInv ==
  ASSUME LinksInv, NEW r \in Restorers, MigrationFails(r)
  PROVE  LinksInv'
  <1>1. /\ restores[r].pc \notin {"idle", "hash"} /\ RestoreTo(r, "again")
        /\ UNCHANGED handles /\ OnlyRestore
    BY DEF MigrationFails
  <1>2. handles \in [Keys -> HandleRecord \cup {None}]
    BY <1>1, LookingIs
  <1>3. QED
    BY <1>1, <1>2, RestoreToKeepsInv

LEMMA StopQuietlyKeepsInv ==
  ASSUME LinksInv, NEW r \in Restorers, StopQuietly(r)
  PROVE  LinksInv'
  <1>1. Go(r, NoRestore) /\ UNCHANGED handles /\ OnlyRestore
    BY DEF StopQuietly
  <1>2. handles \in [Keys -> HandleRecord \cup {None}]
    BY DEF LinksInv, LinksShaped
  <1>3. NoRestore.pc = "idle"
    BY DEF NoRestore
  <1>4. QED
    BY <1>1, <1>2, <1>3, RestoreGoes

\* What does not play is right.
LEMMA LeaveUnlinkedKeepsInv ==
  ASSUME LinksInv, NEW r \in Restorers, LeaveUnlinked(r)
  PROVE  LinksInv'
  <1>1. LinksShaped /\ RecordsInv /\ player \in Surface /\ Len(urls) \in Nat
    BY DEF LinksInv, LinksShaped
  <1>2. /\ player' = [player EXCEPT !.url = 0]
        /\ OutdatedBut(r, NoRestore)
        /\ UNCHANGED <<disk, handles, library, saved, made, urls, imports, relink, opens, asked>>
    BY DEF LeaveUnlinked
  <1>3. /\ player' \in Surface /\ player'.current = player.current /\ player'.media = player.media
        /\ player'.url = 0
    BY <1>1, <1>2 DEF Surface
  <1>4. /\ restores' \in [Restorers -> {NoRestore} \cup Looking \cup Comparing]
        /\ RestoresFresh' /\ Migrating'
    BY <1>2, RestoresOutdated
  <1>5. LinksShaped'
    BY <1>1, <1>2, <1>3, <1>4 DEF LinksShaped
  <1>6. ASSUME NEW q \in Importers, Waits(q)' PROVE player'.url # imports[q].url
    <2>1. Waits(q)
      BY <1>2, <1>6 DEF Waits
    <2>2. QED
      BY <1>1, <1>3, <2>1, ImportUrlIs
  <1>7. RecordsInv'
    BY <1>1, <1>2, <1>3, <1>6, RecordsMoved
  <1>8. NewestAsked'
    BY <1>2, <1>3 DEF LinksInv, NewestAsked
  <1>9. PlaysOwnContent'
    BY <1>3 DEF PlaysOwnContent
  <1>10. QED
    BY <1>4, <1>5, <1>7, <1>8, <1>9 DEF LinksInv

LEMMA ReadBareKeepsInv ==
  ASSUME LinksInv, NEW r \in Restorers, ReadBare(r)
  PROVE  LinksInv'
  <1>1. restores[r].pc = "bare"
    BY DEF ReadBare, RestoreAt
  <1>2. handles \in [Keys -> HandleRecord \cup {None}]
    BY <1>1, LookingIs
  <1>3. PICK record : record = handles[Legacy]
    OBVIOUS
  <1>4. CASE record # None /\ Found(r, record.file) /\ UNCHANGED handles /\ OnlyRestore
    <2>1. record.file \in Files
      BY <1>2, <1>3, <1>4 DEF Keys, HandleRecord
    <2>2. QED
      BY <1>1, <1>4, <2>1, FoundKeepsInv
  <1>5. CASE LeaveUnlinked(r)
    BY <1>5, LeaveUnlinkedKeepsInv
  <1>6. CASE StopQuietly(r)
    BY <1>6, StopQuietlyKeepsInv
  <1>7. QED
    BY <1>3, <1>4, <1>5, <1>6 DEF ReadBare

LEMMA GiveUpKeepsInv ==
  ASSUME LinksInv, NEW r \in Restorers, GiveUp(r)
  PROVE  LinksInv'
  BY LeaveUnlinkedKeepsInv, StopQuietlyKeepsInv DEF GiveUp

\* Its file is read; it still knows what is expected of it.
LEMMA GetFileKeepsInv ==
  ASSUME LinksInv, NEW r \in Restorers, GetFile(r)
  PROVE  LinksInv'
  <1>1. restores[r].pc = "found" /\ UNCHANGED handles /\ OnlyRestore
    BY DEF GetFile, RestoreAt
  <1>2. /\ restores[r] \in Looking /\ handles \in [Keys -> HandleRecord \cup {None}]
        /\ restores[r].fresh /\ player.current # None => restores[r].expected = player.media.content
    BY <1>1, LookingIs
  <1>3. PICK content : content = disk[restores[r].file]
    OBVIOUS
  <1>4. PICK step : step = [pc |-> "hash", expected |-> restores[r].expected, content |-> content,
                            fresh |-> restores[r].fresh]
    OBVIOUS
  <1>5. Go(r, step)
    BY <1>3, <1>4 DEF GetFile
  <1>6. restores[r].file \in Files /\ disk \in [Files -> Contents]
    BY <1>1 DEF LinksInv, LinksShaped, Migrating
  <1>7. restores[r].expected \in Contents \cup {None} /\ restores[r].fresh \in BOOLEAN
    BY <1>2 DEF Looking
  <1>8. /\ step \in Comparing /\ step.pc = "hash"
        /\ step.fresh = restores[r].fresh /\ step.expected = restores[r].expected
    BY <1>3, <1>4, <1>6, <1>7 DEF Comparing
  <1>9. QED
    BY <1>1, <1>2, <1>5, <1>8, RestoreGoes

\* What the restore shows has the content its media is expected to have.
LEMMA FinishRestoreKeepsInv ==
  ASSUME LinksInv, NEW r \in Restorers, FinishRestore(r)
  PROVE  LinksInv'
  <1>1. LinksShaped /\ RecordsInv /\ RestoresFresh
    BY DEF LinksInv
  <1>2. /\ urls \in Seq(Url) /\ Len(urls) \in Nat /\ Len(urls) <= MaxUrls
        /\ player \in Surface
        /\ player.current # None => player.media \in MediaRecord
    BY <1>1 DEF LinksShaped
  <1>3. restores[r].pc = "hash" /\ restores[r].fresh /\ UrlRoom
    BY DEF FinishRestore, RestoreAt, Fresh
  <1>4. restores[r] \in Comparing
    BY <1>1, <1>3, RestoreIs
  <1>5. PICK content : content = restores[r].content
    OBVIOUS
  <1>6. content \in Contents /\ restores[r].expected \in {None, content}
    BY <1>4, <1>5 DEF FinishRestore, Comparing
  <1>7. PICK new : new = Len(urls) + 1
    OBVIOUS
  <1>8. PICK url : url = [content |-> content, live |-> TRUE]
    OBVIOUS
  <1>9. PICK cut : cut = Revoked(urls, player.url)
    OBVIOUS
  <1>10. /\ urls' = Append(cut, url)
         /\ player' = [player EXCEPT !.url = new]
         /\ OutdatedBut(r, NoRestore)
         /\ UNCHANGED <<disk, handles, library, saved, made, imports, relink, opens, asked>>
    BY <1>5, <1>7, <1>8, <1>9 DEF FinishRestore
  <1>11. new \in 1 .. MaxUrls /\ new \in Nat
    BY <1>2, <1>3, <1>7, LinksAssumption DEF UrlRoom
  <1>12. url \in Url
    BY <1>6, <1>8 DEF Url
  <1>13. /\ cut \in Seq(Url) /\ Len(cut) = Len(urls)
         /\ \A k \in 1 .. Len(urls) : k # player.url => cut[k] = urls[k]
    BY <1>2, <1>9, UrlRevoked
  <1>14. /\ urls' \in Seq(Url) /\ Len(urls') = new
         /\ \A k \in 1 .. Len(urls) : k # player.url => urls'[k] = urls[k]
         /\ urls'[new] = url
    BY <1>7, <1>10, <1>12, <1>13, UrlMade
  <1>15. /\ restores' \in [Restorers -> {NoRestore} \cup Looking \cup Comparing]
         /\ RestoresFresh' /\ Migrating'
    BY <1>10, RestoresOutdated
  <1>16. /\ player' \in Surface /\ player'.current = player.current /\ player'.media = player.media
         /\ player'.url = new
    BY <1>2, <1>10, <1>11 DEF Surface
  <1>17. LinksShaped'
    <2>1. Len(urls') <= MaxUrls /\ player'.url <= Len(urls')
      BY <1>11, <1>14, <1>16
    <2>2. QED
      BY <1>1, <1>2, <1>10, <1>14, <1>15, <1>16, <2>1 DEF LinksShaped
  <1>18. ASSUME NEW q \in Importers, Waits(q)'
         PROVE  /\ imports'[q] = imports[q]
                /\ player'.url # imports[q].url
                /\ urls'[imports[q].url] = urls[imports[q].url]
    <2>1. Waits(q) /\ imports'[q] = imports[q]
      BY <1>10, <1>18 DEF Waits
    <2>2. imports[q].url \in 1 .. Len(urls) /\ imports[q].url # player.url
      BY <1>1, <2>1, ImportUrlIs
    <2>3. imports[q].url # new
      BY <1>2, <1>7, <2>2
    <2>4. QED
      BY <1>14, <1>16, <2>1, <2>2, <2>3
  <1>19. RecordsInv'
    <2>1. Len(urls') \in Nat /\ Len(urls) <= Len(urls')
      BY <1>2, <1>7, <1>11, <1>14
    <2>2. QED
      BY <1>1, <1>10, <1>16, <1>18, <2>1, RecordsMoved
  <1>20. NewestAsked'
    BY <1>10, <1>16 DEF LinksInv, NewestAsked
  <1>21. PlaysOwnContent'
    <2>1. player.current # None => player.media.content = restores[r].expected
      BY <1>1, <1>3 DEF RestoresFresh
    <2>2. QED
      BY <1>6, <1>8, <1>14, <1>16, <2>1 DEF PlaysOwnContent
  <1>22. QED
    BY <1>15, <1>17, <1>19, <1>20, <1>21 DEF LinksInv

LEMMA SupersededKeepsInv ==
  ASSUME LinksInv, NEW r \in Restorers, Superseded(r)
  PROVE  LinksInv'
  <1>1. restores[r].pc # "idle" /\ UNCHANGED handles /\ OnlyRestore
    BY DEF Superseded
  <1>2. LinksShaped /\ handles \in [Keys -> HandleRecord \cup {None}]
    BY DEF LinksInv, LinksShaped
  <1>3. PICK step : step = [restores[r] EXCEPT !.fresh = FALSE]
    OBVIOUS
  <1>4. Go(r, step)
    BY <1>3 DEF Superseded
  <1>5. CASE restores[r].pc = "hash"
    <2>1. restores[r] \in Comparing
      BY <1>2, <1>5, RestoreIs
    <2>2. step \in Comparing /\ step.fresh = FALSE /\ step.pc = "hash"
      BY <1>3, <1>5, <2>1 DEF Comparing
    <2>3. QED
      BY <1>1, <1>2, <1>4, <2>2, RestoreGoes
  <1>6. CASE restores[r].pc # "hash"
    <2>1. restores[r] \in Looking
      BY <1>1, <1>2, <1>6, RestoreIs
    <2>2. /\ step \in Looking /\ step.fresh = FALSE /\ step.pc = restores[r].pc
          /\ step.file = restores[r].file /\ step.target = restores[r].target
      BY <1>3, <2>1 DEF Looking
    <2>3. /\ step.pc \in {"target", "copy", "drop", "found"} => step.file \in Files
          /\ step.pc \in {"target", "copy", "drop"} =>
               /\ step.target \in Assets
               /\ handles'[Legacy] # None => handles'[Legacy].media \in {None, step.target}
               /\ step.pc = "drop" => handles'[step.target] # None
      BY <1>1, <2>2 DEF LinksInv, Migrating
    <2>4. QED
      BY <1>1, <1>2, <1>4, <2>2, <2>3, RestoreGoes
  <1>7. QED
    BY <1>5, <1>6

LEMMA RestoreStepKeepsInv ==
  ASSUME LinksInv, NEW r \in Restorers, RestoreStep(r)
  PROVE  LinksInv'
  BY StartRestoreKeepsInv, ReadOwnKeepsInv, ReadLegacyKeepsInv, ReadTargetKeepsInv,
     CopyLegacyKeepsInv, DropLegacyKeepsInv, MigrationFailsKeepsInv, ReadBareKeepsInv,
     GetFileKeepsInv, FinishRestoreKeepsInv, GiveUpKeepsInv, SupersededKeepsInv
  DEF RestoreStep

LEMMA ImportStepKeepsInv ==
  ASSUME LinksInv, NEW p \in Importers, ImportStep(p)
  PROVE  LinksInv'
  BY StartImportKeepsInv, ImportRefusedKeepsInv, HashedKeepsInv, ImportFailsKeepsInv,
     RelinkImportedKeepsInv, AddImportedKeepsInv, SaveHandleKeepsInv
  DEF ImportStep

-----------------------------------------------------------------------------
(***************************************************************************)
(* The surroundings, and the invariant.                                    *)
(***************************************************************************)

LEMMA HydrateKeepsInv ==
  ASSUME LinksInv, Hydrate
  PROVE  LinksInv'
  <1>1. /\ LinksShaped /\ RecordsInv
        /\ saved \in Libraries /\ Len(urls) \in Nat
    BY DEF LinksInv, LinksShaped
  <1>2. PICK a : a = Newest(saved)
    OBVIOUS
  <1>3. a \in Assets \cup {None} /\ (a # None => saved[a] # None)
    <2>1. CASE a = None
      BY <2>1
    <2>2. CASE a # None
      <3>1. a \in Assets /\ saved[a] \in MediaRecord
        BY <1>1, <1>2, <2>2, NewestIs
      <3>2. QED
        BY <3>1, NoneAssumption
    <2>3. QED
      BY <2>1, <2>2
  <1>4. /\ library' = saved
        /\ player' = Projected(a, saved)
        /\ Outdated
        /\ asked' = None
        /\ UNCHANGED <<disk, handles, saved, made, urls, imports, relink, opens>>
    BY <1>2 DEF Hydrate
  <1>5. /\ player' \in Surface /\ player'.current = a /\ player'.url = 0
        /\ a # None => player'.media \in MediaRecord /\ player'.media = saved[a]
    BY <1>1, <1>3, <1>4, ProjectedIs
  <1>6. /\ restores' \in [Restorers -> {NoRestore} \cup Looking \cup Comparing]
        /\ RestoresFresh' /\ Migrating'
    BY <1>4, RestoresOutdated
  <1>7. LinksShaped'
    BY <1>1, <1>4, <1>5, <1>6 DEF LinksShaped
  <1>8. ASSUME NEW q \in Importers, Waits(q)' PROVE player'.url # imports[q].url
    <2>1. Waits(q)
      BY <1>4, <1>8 DEF Waits
    <2>2. QED
      BY <1>1, <1>5, <2>1, ImportUrlIs
  <1>9. RecordsInv'
    BY <1>1, <1>4, <1>5, <1>8, RecordsMoved
  <1>10. NewestAsked' /\ PlaysOwnContent'
    BY <1>4, <1>5 DEF NewestAsked, PlaysOwnContent
  <1>11. QED
    BY <1>6, <1>7, <1>9, <1>10 DEF LinksInv

LEMMA SaveLibraryKeepsInv ==
  ASSUME LinksInv, SaveLibrary
  PROVE  LinksInv'
  <1>1. LinksShaped /\ RecordsInv /\ Len(urls) \in Nat
    BY DEF LinksInv, LinksShaped
  <1>2. /\ saved' = library
        /\ UNCHANGED <<disk, handles, library, made, urls, player, imports, relink, restores, opens, asked>>
    BY DEF SaveLibrary, linkTasks
  <1>3. LinksShaped'
    BY <1>1, <1>2 DEF LinksShaped
  <1>4. RecordsInv'
    BY <1>1, <1>2, RecordsMoved, ImportUrlIs DEF Waits
  <1>5. RestoresFresh' /\ Migrating'
    BY <1>2, RestoresRest
  <1>6. NewestAsked' /\ PlaysOwnContent'
    BY <1>2 DEF LinksInv, NewestAsked, PlaysOwnContent
  <1>7. QED
    BY <1>3, <1>4, <1>5, <1>6 DEF LinksInv

\* A library of stale labels has the records it had, but for the labels.
LEMMA StaleIs ==
  ASSUME NEW lib \in Libraries, NEW a \in Assets
  PROVE  /\ Stale(lib)[a] \in MediaRecord \cup {None}
         /\ (Stale(lib)[a] = None) = (lib[a] = None)
         /\ lib[a] # None =>
              /\ lib[a] \in MediaRecord
              /\ Stale(lib)[a] \in MediaRecord
              /\ Stale(lib)[a].content = lib[a].content
              /\ Stale(lib)[a].blob \in {0, None}
  <1>1. PICK m : m = lib[a]
    OBVIOUS
  <1>2. Stale(lib)[a] = IF m = None \/ m.blob = None THEN m ELSE [m EXCEPT !.blob = 0]
    BY <1>1 DEF Stale
  <1>3. m \in MediaRecord \cup {None}
    BY <1>1 DEF Libraries
  <1>4. None \notin MediaRecord
    BY NoneAssumption
  <1>5. ASSUME m # None, m.blob # None
        PROVE  /\ [m EXCEPT !.blob = 0] \in MediaRecord
               /\ [m EXCEPT !.blob = 0].content = m.content
               /\ [m EXCEPT !.blob = 0].blob = 0
    BY <1>3, <1>5, LinksAssumption DEF MediaRecord
  <1>6. QED
    BY <1>1, <1>2, <1>3, <1>4, <1>5

LEMMA ReloadKeepsInv ==
  ASSUME LinksInv, Reload
  PROVE  LinksInv'
  <1>1. /\ LinksShaped /\ RecordsInv
        /\ library \in Libraries /\ saved \in Libraries
    BY DEF LinksInv, LinksShaped
  <1>2. PICK stale : stale = Stale(library)
    OBVIOUS
  <1>3. PICK a : a = Newest(library)
    OBVIOUS
  <1>4. /\ library' = stale /\ saved' = Stale(saved)
        /\ urls' = <<>>
        /\ player' = Projected(a, stale)
        /\ imports' = [p \in Importers |-> NoImport]
        /\ relink' = NoRelink
        /\ restores' = [r \in Restorers |-> NoRestore]
        /\ opens' = {}
        /\ asked' = None
        /\ UNCHANGED <<disk, handles, made>>
    BY <1>2, <1>3 DEF Reload
  <1>5. stale \in Libraries /\ Stale(saved) \in Libraries
    <2>1. /\ stale = [b \in Assets |-> stale[b]]
          /\ Stale(saved) = [b \in Assets |-> Stale(saved)[b]]
      BY <1>2 DEF Stale
    <2>2. \A b \in Assets : stale[b] \in MediaRecord \cup {None}
      BY <1>1, <1>2, StaleIs
    <2>3. \A b \in Assets : Stale(saved)[b] \in MediaRecord \cup {None}
      BY <1>1, StaleIs
    <2>4. QED
      BY <2>1, <2>2, <2>3 DEF Libraries
  <1>6. a \in Assets \cup {None} /\ (a # None => stale[a] # None)
    <2>1. CASE a = None
      BY <2>1
    <2>2. CASE a # None
      <3>1. a \in Assets /\ library[a] \in MediaRecord
        BY <1>1, <1>3, <2>2, NewestIs
      <3>2. library[a] # None
        BY <3>1, NoneAssumption
      <3>3. stale[a] # None
        BY <1>1, <1>2, <3>1, <3>2, StaleIs
      <3>4. QED
        BY <3>1, <3>3
    <2>3. QED
      BY <2>1, <2>2
  <1>7. /\ player' \in Surface /\ player'.current = a /\ player'.url = 0
        /\ a # None => player'.media \in MediaRecord /\ player'.media = stale[a]
    BY <1>4, <1>5, <1>6, ProjectedIs
  <1>8. /\ \A p \in Importers : ~ Waits(p)'
        /\ \A r \in Restorers : restores'[r].pc = "idle"
    BY <1>4 DEF Waits, NoImport, NoRestore
  <1>9. urls' \in Seq(Url) /\ Len(urls') = 0
    BY <1>4
  <1>10. LinksShaped'
    <2>1. Len(urls') <= MaxUrls /\ player'.url <= Len(urls')
      BY <1>7, <1>9, LinksAssumption
    <2>2. QED
      BY <1>1, <1>4, <1>5, <1>7, <1>9, <2>1 DEF LinksShaped
  <1>11. ASSUME NEW b \in Assets, NEW m \in MediaRecord, RecordOf(b, m)'
         PROVE  /\ \E l \in MediaRecord : RecordOf(b, l) /\ l.content = m.content
                /\ m.blob \in {0, None}
    <2>1. m # None /\ b # None
      BY NoneAssumption
    <2>2. CASE m = stale[b]
      <3>1. library[b] # None
        BY <1>1, <1>2, <2>1, <2>2, StaleIs
      <3>2. /\ library[b] \in MediaRecord /\ library[b].content = m.content
            /\ m.blob \in {0, None}
        BY <1>1, <1>2, <2>2, <3>1, StaleIs
      <3>3. RecordOf(b, library[b])
        BY DEF RecordOf
      <3>4. QED
        BY <3>2, <3>3
    <2>3. CASE m = Stale(saved)[b]
      <3>1. saved[b] # None
        BY <1>1, <2>1, <2>3, StaleIs
      <3>2. /\ saved[b] \in MediaRecord /\ saved[b].content = m.content
            /\ m.blob \in {0, None}
        BY <1>1, <2>3, <3>1, StaleIs
      <3>3. RecordOf(b, saved[b])
        BY DEF RecordOf
      <3>4. QED
        BY <3>2, <3>3
    <2>4. m = stale[b] \/ m = Stale(saved)[b]
      BY <1>4, <1>7, <1>8, <1>11, <2>1 DEF RecordOf
    <2>5. QED
      BY <2>2, <2>3, <2>4
  <1>12. Fingerprinted'
    <2>1. ASSUME NEW b \in Assets, NEW m \in MediaRecord, RecordOf(b, m)'
          PROVE  /\ b <= made'
                 /\ \A k \in MediaRecord : RecordOf(b, k)' => k.content = m.content
      <3>1. PICK l \in MediaRecord : RecordOf(b, l) /\ l.content = m.content
        BY <1>11, <2>1
      <3>2. b <= made /\ \A k \in MediaRecord : RecordOf(b, k) => k.content = l.content
        BY <1>1, <3>1 DEF RecordsInv, Fingerprinted
      <3>3. ASSUME NEW k \in MediaRecord, RecordOf(b, k)' PROVE k.content = m.content
        <4>1. PICK j \in MediaRecord : RecordOf(b, j) /\ j.content = k.content
          BY <1>11, <3>3
        <4>2. QED
          BY <3>1, <3>2, <4>1
      <3>4. QED
        BY <1>4, <3>2, <3>3
    <2>2. QED
      BY <2>1 DEF Fingerprinted
  <1>13. LabelsKnown'
    BY <1>9, <1>11 DEF LabelsKnown
  <1>14. ImportsOwn'
    BY <1>8 DEF ImportsOwn
  <1>15. RestoresFresh' /\ Migrating'
    BY <1>8 DEF RestoresFresh, Migrating
  <1>16. NewestAsked' /\ PlaysOwnContent'
    BY <1>4, <1>7 DEF NewestAsked, PlaysOwnContent
  <1>17. QED
    BY <1>10, <1>12, <1>13, <1>14, <1>15, <1>16 DEF LinksInv, RecordsInv

LEMMA EditFileKeepsInv ==
  ASSUME LinksInv, NEW f \in Files, NEW c \in Contents, EditFile(f, c)
  PROVE  LinksInv'
  <1>1. /\ disk' = [disk EXCEPT ![f] = c]
        /\ UNCHANGED <<handles, library, saved, made, urls, player, imports, relink, restores, opens, asked>>
    BY DEF EditFile, linkTasks
  <1>2. LinksShaped'
    BY <1>1 DEF LinksInv, LinksShaped
  <1>3. RecordsInv' /\ NewestAsked' /\ PlaysOwnContent'
    BY <1>1, PageRests
  <1>4. RestoresFresh' /\ Migrating'
    BY <1>1, RestoresRest
  <1>5. QED
    BY <1>2, <1>3, <1>4 DEF LinksInv

LEMMA LinksRest ==
  ASSUME LinksInv, UNCHANGED linksVars
  PROVE  LinksInv'
  <1>1. UNCHANGED <<disk, handles, library, saved, made, urls, player, imports, relink, restores, opens, asked>>
    BY DEF linksVars, linkTasks
  <1>2. LinksShaped'
    BY <1>1 DEF LinksInv, LinksShaped
  <1>3. RecordsInv' /\ NewestAsked' /\ PlaysOwnContent'
    BY <1>1, PageRests
  <1>4. RestoresFresh' /\ Migrating'
    BY <1>1, RestoresRest
  <1>5. QED
    BY <1>2, <1>3, <1>4 DEF LinksInv

LEMMA LinksInitInv ==
  ASSUME LinksInit
  PROVE  LinksInv
  <1>1. /\ disk \in [Files -> Contents]
        /\ made \in 0 .. MaxAssets
        /\ library \in [Assets -> {m \in MediaRecord : m.blob \in {0, None}} \cup {None}]
        /\ \A a \in Assets : library[a] = None <=> a > made
        /\ handles \in [Keys -> HandleRecord \cup {None}]
        /\ saved = library
        /\ urls = <<>>
        /\ player = Projected(Newest(library), library)
        /\ imports = [p \in Importers |-> NoImport]
        /\ relink = NoRelink
        /\ restores = [r \in Restorers |-> NoRestore]
        /\ opens = {}
        /\ asked = None
    BY DEF LinksInit
  <1>2. library \in Libraries
    BY <1>1 DEF Libraries
  <1>3. PICK a : a = Newest(library)
    OBVIOUS
  <1>4. a \in Assets \cup {None} /\ (a # None => library[a] # None)
    <2>1. CASE a = None
      BY <2>1
    <2>2. CASE a # None
      <3>1. a \in Assets /\ library[a] \in MediaRecord
        BY <1>2, <1>3, <2>2, NewestIs
      <3>2. QED
        BY <3>1, NoneAssumption
    <2>3. QED
      BY <2>1, <2>2
  <1>5. /\ player \in Surface /\ player.current = a /\ player.url = 0
        /\ a # None => player.media \in MediaRecord /\ player.media = library[a]
    BY <1>1, <1>2, <1>3, <1>4, ProjectedIs
  <1>6. /\ \A p \in Importers : ~ Waits(p)
        /\ \A r \in Restorers : restores[r].pc = "idle"
    BY <1>1 DEF Waits, NoImport, NoRestore
  <1>7. urls \in Seq(Url) /\ Len(urls) = 0
    BY <1>1
  <1>8. LinksShaped
    <2>1. Len(urls) <= MaxUrls /\ player.url <= Len(urls)
      BY <1>5, <1>7, LinksAssumption
    <2>2. QED
      BY <1>1, <1>2, <1>5, <1>7, <2>1 DEF LinksShaped
  <1>9. ASSUME NEW b \in Assets, NEW m \in MediaRecord, RecordOf(b, m)
        PROVE  m = library[b] /\ b <= made /\ m.blob \in {0, None}
    <2>1. m # None /\ b # None
      BY NoneAssumption
    <2>2. m = library[b]
      BY <1>1, <1>5, <1>6, <1>9, <2>1 DEF RecordOf
    <2>3. ~ (b > made)
      BY <1>1, <2>1, <2>2
    <2>4. b <= made
      BY <1>1, <2>3, LinksAssumption DEF Assets
    <2>5. m.blob \in {0, None}
      BY <1>1, <2>1, <2>2
    <2>6. QED
      BY <2>2, <2>4, <2>5
  <1>10. Fingerprinted
    BY <1>9 DEF Fingerprinted
  <1>11. LabelsKnown
    BY <1>7, <1>9 DEF LabelsKnown
  <1>12. ImportsOwn
    BY <1>6 DEF ImportsOwn
  <1>13. RestoresFresh /\ Migrating
    BY <1>6 DEF RestoresFresh, Migrating
  <1>14. NewestAsked /\ PlaysOwnContent
    BY <1>1, <1>5 DEF NewestAsked, PlaysOwnContent
  <1>15. QED
    BY <1>8, <1>10, <1>11, <1>12, <1>13, <1>14 DEF LinksInv, RecordsInv

LEMMA LinksStepKeepsInv ==
  ASSUME LinksInv, [LinksNext]_linksVars
  PROVE  LinksInv'
  <1>1. ASSUME NEW a \in Assets, OpenMedia(a) PROVE LinksInv'
    BY <1>1, OpenMediaKeepsInv
  <1>2. ASSUME NEW o \in opens, Loaded(o) PROVE LinksInv'
    BY <1>2, LoadedKeepsInv
  <1>3. ASSUME NEW p \in Importers, ImportStep(p) PROVE LinksInv'
    BY <1>3, ImportStepKeepsInv
  <1>4. ASSUME NEW f \in Files, StartRelink(f) PROVE LinksInv'
    BY <1>4, StartRelinkKeepsInv
  <1>5. CASE FinishRelink
    BY <1>5, FinishRelinkKeepsInv
  <1>6. ASSUME NEW r \in Restorers, RestoreStep(r) PROVE LinksInv'
    BY <1>6, RestoreStepKeepsInv
  <1>7. CASE Hydrate
    BY <1>7, HydrateKeepsInv
  <1>8. CASE SaveLibrary
    BY <1>8, SaveLibraryKeepsInv
  <1>9. CASE Reload
    BY <1>9, ReloadKeepsInv
  <1>10. ASSUME NEW f \in Files, NEW c \in Contents, EditFile(f, c) PROVE LinksInv'
    BY <1>10, EditFileKeepsInv
  <1>11. CASE UNCHANGED linksVars
    BY <1>11, LinksRest
  <1>12. QED
    BY <1>1, <1>2, <1>3, <1>4, <1>5, <1>6, <1>7, <1>8, <1>9, <1>10, <1>11 DEF LinksNext

-----------------------------------------------------------------------------
(***************************************************************************)
(* The theorems.                                                           *)
(***************************************************************************)

\* Records, URLs, imports, restores and opens fit together at all times.
THEOREM LinksInvHolds == LinksSpec => []LinksInv
  <1>1. LinksInit => LinksInv
    BY LinksInitInv
  <1>2. LinksInv /\ [LinksNext]_linksVars => LinksInv'
    BY LinksStepKeepsInv
  <1>3. QED
    BY <1>1, <1>2, PTL DEF LinksSpec

\* The state of the page's media keeps its shape.
THEOREM LinksKeepTheirShape == LinksSpec => []LinksTypeOK
  <1>1. ASSUME LinksInv PROVE LinksTypeOK
    <2>1. LinksShaped
      BY <1>1 DEF LinksInv
    <2>2. \A i \in DOMAIN urls : urls[i].live \in BOOLEAN
      <3>1. \A i \in DOMAIN urls : urls[i] \in Url
        BY <2>1 DEF LinksShaped
      <3>2. QED
        BY <3>1 DEF Url
    <2>3. player.current \in Assets \cup {None} /\ player.url \in 0 .. Len(urls)
      BY <2>1 DEF LinksShaped, Surface
    <2>4. \A b \in Assets : library[b] \in MediaRecord \cup {None} /\ saved[b] \in MediaRecord \cup {None}
      BY <2>1 DEF LinksShaped, Libraries
    <2>5. QED
      BY <2>1, <2>2, <2>3, <2>4 DEF LinksShaped, LinksTypeOK
  <1>2. LinksInv => LinksTypeOK
    BY <1>1
  <1>3. QED
    BY <1>2, LinksInvHolds, PTL

\* What plays was not revoked and is of the fingerprint its media has, and the media
\* opened last is the one that is open: whichever imports, relinks, opens and restores
\* cross (restoreBrowserMediaHandle, relinkExistingBrowserMedia, loadThenOpenMedia).
THEOREM OpenedStaysRight == LinksSpec => []OpenedMediaPlays
  <1>1. ASSUME LinksInv PROVE OpenedMediaPlays
    BY <1>1 DEF LinksInv, NewestAsked, OpenedMediaPlays, OpenedLastIsOpen
  <1>2. LinksInv => OpenedMediaPlays
    BY <1>1
  <1>3. QED
    BY <1>2, LinksInvHolds, PTL

\* The legacy handle is gone only after the media it was of has a record of its own
\* (migrateLegacyMediaHandle), however many migrations run and wherever they stop.
THEOREM LegacyStaysKept == LinksSpec => LegacyKept
  <1> DEFINE Kept ==
        handles[Legacy] # None /\ handles'[Legacy] = None =>
          \E a \in Assets : handles'[a] # None /\ handles[Legacy].media \in {None, a}
  <1>1. ASSUME LinksInv, LinksNext PROVE Kept
    <2>1. LinksShaped /\ Migrating /\ handles \in [Keys -> HandleRecord \cup {None}]
      BY <1>1 DEF LinksInv, LinksShaped
    <2>2. Legacy \in Keys /\ \A a \in Assets : a # Legacy /\ a \in Keys
      BY LinksAssumption DEF Assets, Legacy, Keys
    <2>3. CASE UNCHANGED handles
      BY <2>3
    <2>4. ASSUME NEW r \in Restorers, DropLegacy(r) PROVE Kept
      <3>1. PICK t : t = restores[r].target
        OBVIOUS
      <3>2. restores[r].pc = "drop"
        BY <2>4 DEF DropLegacy, RestoreAt
      <3>3. t \in Assets /\ handles[t] # None /\ (handles[Legacy] # None => handles[Legacy].media \in {None, t})
        BY <2>1, <3>1, <3>2 DEF Migrating
      <3>4. handles' = [handles EXCEPT ![Legacy] = None]
        BY <2>4 DEF DropLegacy
      <3>5. handles'[t] # None
        BY <2>1, <2>2, <3>3, <3>4
      <3>6. QED
        BY <3>3, <3>5
    <2>5. ASSUME NEW r \in Restorers, CopyLegacy(r) PROVE Kept
      <3>1. PICK t : t = restores[r].target
        OBVIOUS
      <3>2. restores[r].pc = "copy"
        BY <2>5 DEF CopyLegacy, RestoreAt
      <3>3. t \in Assets
        BY <2>1, <3>1, <3>2 DEF Migrating
      <3>4. handles'[Legacy] = handles[Legacy]
        BY <2>1, <2>2, <2>5, <3>1, <3>3 DEF CopyLegacy
      <3>5. QED
        BY <3>4
    <2>6. ASSUME NEW p \in Importers, SaveHandle(p) PROVE Kept
      <3>1. PICK a : a = imports[p].asset
        OBVIOUS
      <3>2. a \in Assets
        BY <2>1, <2>6, <3>1, ImportIs DEF SaveHandle, Saving
      <3>3. handles'[Legacy] = handles[Legacy]
        BY <2>1, <2>2, <2>6, <3>1, <3>2 DEF SaveHandle
      <3>4. QED
        BY <3>3
    <2>7. ASSUME NEW p \in Importers, ImportStep(p) PROVE Kept
      <3>1. UNCHANGED handles \/ SaveHandle(p)
        BY <2>7 DEF ImportStep, StartImport, ImportRefused, Hashed, ImportFails, RelinkImported, AddImported
      <3>2. QED
        BY <2>3, <2>6, <3>1
    <2>8. ASSUME NEW r \in Restorers, RestoreStep(r) PROVE Kept
      <3>1. UNCHANGED handles \/ DropLegacy(r) \/ CopyLegacy(r)
        BY <2>8 DEF RestoreStep, StartRestore, ReadOwn, ReadLegacy, ReadTarget, MigrationFails,
           ReadBare, GetFile, FinishRestore, GiveUp, Superseded, LeaveUnlinked, StopQuietly
      <3>2. QED
        BY <2>3, <2>4, <2>5, <3>1
    <2>9. QED
      BY <1>1, <2>3, <2>7, <2>8 DEF LinksNext, OpenMedia, Loaded, StartRelink, FinishRelink, Hydrate,
         SaveLibrary, Reload, EditFile
  <1>2. ASSUME UNCHANGED linksVars PROVE Kept
    BY <1>2 DEF linksVars
  <1>3. LinksInv /\ [LinksNext]_linksVars => [Kept]_linksVars
    BY <1>1
  <1>4. QED
    BY <1>3, LinksInvHolds, PTL DEF LinksSpec, LegacyKept
=============================================================================
