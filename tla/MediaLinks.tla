----------------------------- MODULE MediaLinks -----------------------------
(***************************************************************************)
(* How one page gets from a media record to something it can play          *)
(* (apps/web/src/model.ts): imports of picked files and file handles, the  *)
(* relink of the open media, opening another media while its transcripts   *)
(* load, the restore of a remembered handle with its migration from the    *)
(* single-handle store, hydration and a reload of the page.                *)
(*                                                                         *)
(* Every await is a point where another task may run; an action is what    *)
(* runs between two of them.  An object URL is a number, and a media        *)
(* record has what identifies it: fingerprint, file name and source label. *)
(***************************************************************************)
EXTENDS Naturals, Sequences, FiniteSets, FiniteSetsExt

CONSTANTS
  None,
  Files,       \* files on the learner's disk, and the handles to them
  Contents,    \* what a file may contain, as far as its SHA-256 tells
  NameOf,      \* Files -> names
  Importers,   \* imports that may overlap
  Restorers,   \* restores that may overlap
  MaxAssets,   \* bound: media records ever made
  MaxUrls      \* bound: object URLs of one page

ASSUME LinksAssumption == MaxAssets \in Nat /\ MaxUrls \in Nat

VARIABLES
  disk,      \* file -> its present content
  handles,   \* the handle store: media id or Legacy -> record
  library,   \* the media records of the browser's store
  saved,     \* the media records the service holds
  made,      \* how many media records were ever made
  urls,      \* the object URLs this page created: content, and not yet revoked
  player,      \* currentMedia and browserLocalMedia
  imports,    \* importer -> its import
  relink,    \* the relink of the open media under way
  restores,   \* restorer -> its restore
  opens,     \* openMediaAsset calls that wait for transcripts
  asked      \* history variable: the media opened last, unless something else
             \*   than an open changed the media since

linkTasks == <<imports, relink, restores, opens>>
linksVars == <<disk, handles, library, saved, made, urls, player, linkTasks, asked>>

-----------------------------------------------------------------------------
Assets == 1 .. MaxAssets
Names == {NameOf[f] : f \in Files}

\* LEGACY_HANDLE_STORE_KEY and mediaHandleStoreKey.
Legacy == 0
Keys == Assets \cup {Legacy}

(***************************************************************************)
(* A media record: its fingerprint (None: made before there were any), its *)
(* file name, and blob: the object URL in its source label, 0 if that URL  *)
(* is of an earlier page, None if the label is that of a handle.           *)
(***************************************************************************)
MediaRecord == [content: Contents \cup {None}, name: Names, blob: (0 .. MaxUrls) \cup {None}]

\* In the handle store media is the id the record names; None: a bare handle.
HandleRecord == [file: Files, media: Assets \cup {None}]

\* What stands for nothing is no handle, no media and no URL.
ASSUME NoneAssumption == None \notin HandleRecord \cup MediaRecord \cup Assets \cup 0 .. MaxUrls

NoPage == [current |-> None, media |-> None, url |-> 0]
NoImport == [pc |-> "idle"]
NoRelink == [pc |-> "idle"]
NoRestore == [pc |-> "idle"]

LinksTypeOK ==
  /\ disk \in [Files -> Contents]
  /\ \A k \in Keys : handles[k] \in HandleRecord \cup {None}
  /\ \A a \in Assets : library[a] \in MediaRecord \cup {None} /\ saved[a] \in MediaRecord \cup {None}
  /\ made \in 0 .. MaxAssets
  /\ Len(urls) <= MaxUrls /\ \A i \in DOMAIN urls : urls[i].live \in BOOLEAN
  /\ player.current \in Assets \cup {None} /\ player.url \in 0 .. Len(urls)
  /\ player.current # None => player.media \in MediaRecord
  /\ opens \subseteq [asset: Assets, newest: BOOLEAN]
  /\ asked \in Assets \cup {None}

-----------------------------------------------------------------------------
(***************************************************************************)
(* Object URLs and the open media.                                         *)
(***************************************************************************)
UrlRoom == Len(urls) < MaxUrls

Revoked(us, u) == IF u \in DOMAIN us THEN [us EXCEPT ![u].live = FALSE] ELSE us

\* revokeCurrentMediaObjectUrl: the URL that plays, else the one in the label.
CurrentUrl ==
  IF player.url # 0 THEN player.url
  ELSE IF player.current # None /\ player.media.blob # None THEN player.media.blob
  ELSE 0

\* browserLocalMediaForHydratedMedia: nothing to play yet.
Projected(a, lib) ==
  IF a = None THEN NoPage ELSE [current |-> a, media |-> lib[a], url |-> 0]

\* newestFirst over importedAt: ids are numbered in import order.
Newest(lib) ==
  LET ids == {a \in Assets : lib[a] # None} IN IF ids = {} THEN None ELSE Max(ids)

\* The media or its playback state was set anew: what a restore compares by identity.
Outdated == restores' = [r \in Restorers |->
  IF restores[r].pc = "idle" THEN restores[r] ELSE [restores[r] EXCEPT !.fresh = FALSE]]

\* The same, while restorer r goes on with step.
OutdatedBut(r, step) == restores' = [q \in Restorers |->
  IF q = r THEN step
  ELSE IF restores[q].pc = "idle" THEN restores[q] ELSE [restores[q] EXCEPT !.fresh = FALSE]]

-----------------------------------------------------------------------------
(***************************************************************************)
(* Opening a media of the library.                                         *)
(***************************************************************************)

\* Mutant of ShowOpened: whether the record is still there is not asked.
ShowAnyway(a) ==
  /\ player' = Projected(a, library)
  /\ urls' = IF player.current = a THEN urls ELSE Revoked(urls, CurrentUrl)
  /\ Outdated

\* projectOpenedMedia: the same media keeps what it plays, another one loses it.
ShowOpened(a) ==
  IF library[a] = None THEN UNCHANGED <<player, urls, restores>>
  ELSE /\ player' = IF player.current = a THEN [player EXCEPT !.media = library[a]]
                  ELSE Projected(a, library)
       /\ urls' = IF player.current = a THEN urls ELSE Revoked(urls, CurrentUrl)
       /\ Outdated

\* openMediaAsset: every call is a new generation; the projection waits when the
\* transcripts of this media have to be loaded first.
OpenMedia(a) ==
  /\ library[a] # None
  /\ asked' = a
  /\ \/ /\ opens' = {[o EXCEPT !.newest = FALSE] : o \in opens}
        /\ ShowOpened(a)
     \/ /\ opens' = {[o EXCEPT !.newest = FALSE] : o \in opens} \cup {[asset |-> a, newest |-> TRUE]}
        /\ UNCHANGED <<player, urls, restores>>
  /\ UNCHANGED <<disk, handles, library, saved, made, imports, relink>>

\* Mutant of NotSuperseded: whatever was opened meanwhile.
AnyOpen(o) == TRUE

NotSuperseded(o) == o.newest

\* loadThenOpenMedia after its load, which may have failed.
Loaded(o) ==
  /\ opens' = opens \ {o}
  /\ IF NotSuperseded(o) THEN ShowOpened(o.asset) ELSE UNCHANGED <<player, urls, restores>>
  /\ UNCHANGED <<disk, handles, library, saved, made, imports, relink, asked>>

-----------------------------------------------------------------------------
(***************************************************************************)
(* Importing a file (importBrowserLocalFiles) or a handle                  *)
(* (importBrowserLocalFileHandles).                                        *)
(***************************************************************************)

\* The file is picked and hashed; asNew is the learner's answer to a name conflict.
StartImport(p, f, byHandle, asNew) ==
  /\ imports[p].pc = "idle"
  /\ imports' = [imports EXCEPT ![p] =
       [pc |-> "hash", file |-> f, content |-> disk[f], handle |-> byHandle, new |-> asNew]]
  /\ UNCHANGED <<disk, handles, library, saved, made, urls, player, relink, restores, opens, asked>>

SameContent(c) == {a \in Assets : library[a] # None /\ library[a].content = c}
SameName(n) == {a \in Assets : library[a] # None /\ library[a].name = n}

\* BrowserMediaNameConflictError, or any failure before a URL was made.
ImportRefused(p) ==
  /\ imports[p].pc = "hash"
  /\ imports' = [imports EXCEPT ![p] = NoImport]
  /\ UNCHANGED <<disk, handles, library, saved, made, urls, player, relink, restores, opens, asked>>

\* Fingerprint first, then the name; existing is read before the subtitles are.
Hashed(p) ==
  LET i == imports[p]
      known == SameContent(i.content)
      existing == IF known = {} THEN None ELSE Min(known)
  IN /\ i.pc = "hash" /\ UrlRoom
     /\ existing = None /\ ~i.new => SameName(NameOf[i.file]) = {}
     /\ urls' = Append(urls, [content |-> i.content, live |-> TRUE])
     /\ imports' = [imports EXCEPT ![p] =
          [pc |-> "subtitles", file |-> i.file, content |-> i.content, handle |-> i.handle,
           url |-> Len(urls) + 1, existing |-> existing,
           was |-> IF existing = None THEN None ELSE library[existing]]]
     /\ UNCHANGED <<disk, handles, library, saved, made, player, relink, restores, opens, asked>>

ImportFails(p) ==
  /\ imports[p].pc = "subtitles"
  /\ urls' = Revoked(urls, imports[p].url)
  /\ imports' = [imports EXCEPT ![p] = NoImport]
  /\ UNCHANGED <<disk, handles, library, saved, made, player, relink, restores, opens, asked>>

\* relinkExistingBrowserMedia, once nothing is awaited any more: only a handle
\* replaces a handle's label.
Relinked(was, byHandle, n, u) ==
  [was EXCEPT !.blob = IF byHandle THEN None ELSE IF was.blob = None THEN None ELSE u,
              !.name = IF byHandle THEN n ELSE @]

Install(a, media, u) ==
  /\ library' = [library EXCEPT ![a] = media]
  /\ player' = [current |-> a, media |-> media, url |-> u]
  /\ urls' = Revoked(urls, CurrentUrl)
  /\ Outdated
  /\ asked' = None

ImportDone(p, a) ==
  imports' = [imports EXCEPT ![p] =
    IF @.handle THEN [pc |-> "save", file |-> @.file, asset |-> a] ELSE NoImport]

RelinkImported(p) ==
  LET i == imports[p]
  IN /\ i.pc = "subtitles" /\ i.existing # None
     /\ Install(i.existing, Relinked(i.was, i.handle, NameOf[i.file], i.url), i.url)
     /\ ImportDone(p, i.existing)
     /\ UNCHANGED <<disk, handles, saved, made, relink, opens>>

AddImported(p) ==
  LET i == imports[p]
  IN /\ i.pc = "subtitles" /\ i.existing = None
     /\ made < MaxAssets
     /\ made' = made + 1
     /\ Install(made + 1, [content |-> i.content, name |-> NameOf[i.file],
                           blob |-> IF i.handle THEN None ELSE i.url], i.url)
     /\ ImportDone(p, made + 1)
     /\ UNCHANGED <<disk, handles, saved, relink, opens>>

\* persistBrowserMediaHandle: under the id the import returned; the store may refuse.
SaveHandle(p) ==
  /\ imports[p].pc = "save"
  /\ \/ handles' = [handles EXCEPT ![imports[p].asset] =
           [file |-> imports[p].file, media |-> imports[p].asset]]
     \/ UNCHANGED handles
  /\ imports' = [imports EXCEPT ![p] = NoImport]
  /\ UNCHANGED <<disk, library, saved, made, urls, player, relink, restores, opens, asked>>

-----------------------------------------------------------------------------
(***************************************************************************)
(* Relinking the open media from a plain file (relinkCurrentMediaFromFile).*)
(***************************************************************************)
StartRelink(f) ==
  /\ relink = NoRelink
  /\ player.current # None /\ player.media.content # None
  /\ relink' = [pc |-> "hash", asset |-> player.current, expected |-> player.media.content,
                content |-> disk[f]]
  /\ UNCHANGED <<disk, handles, library, saved, made, urls, player, imports, restores, opens, asked>>

\* Mutant of RelinkOK: the file is compared with the media that is open by now.
RelinkAnyOpen ==
  /\ player.current # None /\ library[relink.asset] # None
  /\ relink.content = player.media.content

\* The same media is open, the file is the expected one, and the record is there.
RelinkOK ==
  /\ player.current = relink.asset
  /\ relink.content = relink.expected
  /\ library[relink.asset] # None /\ library[relink.asset].content = relink.expected

FinishRelink ==
  /\ relink.pc = "hash"
  /\ \/ /\ RelinkOK /\ UrlRoom
        /\ LET added == Len(urls) + 1
               media == Relinked(library[relink.asset], FALSE, None, added)
           IN /\ library' = [library EXCEPT ![relink.asset] = media]
              /\ player' = [current |-> relink.asset, media |-> media, url |-> added]
              /\ urls' = Append(Revoked(urls, CurrentUrl), [content |-> relink.content, live |-> TRUE])
              /\ Outdated
              /\ asked' = None
     \/ /\ ~RelinkOK
        /\ UNCHANGED <<library, player, urls, restores, asked>>
  /\ relink' = NoRelink
  /\ UNCHANGED <<disk, handles, saved, made, imports, opens>>

-----------------------------------------------------------------------------
(***************************************************************************)
(* Restoring the remembered handle (restoreBrowserMediaHandle), at boot,   *)
(* after opening or connecting, or when the learner presses Reconnect.     *)
(***************************************************************************)
RestoreAt(r, pc) == restores[r].pc = pc
Go(r, step) == restores' = [restores EXCEPT ![r] = step]
RestoreTo(r, pc) == Go(r, [restores[r] EXCEPT !.pc = pc])
Found(r, f) == Go(r, [restores[r] EXCEPT !.pc = "found", !.file = f])
OnlyRestore == UNCHANGED <<disk, library, saved, made, urls, player, imports, relink, opens, asked>>

\* handleNameFromMedia: the name in the label of a handle.
ExpectedName == IF player.current = None \/ player.media.blob # None THEN None ELSE player.media.name

StartRestore(r) ==
  /\ restores[r] = NoRestore
  /\ Go(r, [pc |-> "own", asset |-> player.current, name |-> ExpectedName,
            expected |-> IF player.current = None THEN None ELSE player.media.content,
            file |-> None, target |-> None, fresh |-> TRUE])
  /\ UNCHANGED handles /\ OnlyRestore

\* readMediaHandle, and migrateLegacyMediaHandle where the media has no record of
\* its own: one transaction of the handle store each.
ReadOwn(r) ==
  LET a == restores[r].asset
  IN /\ RestoreAt(r, "own") \/ RestoreAt(r, "again")
     /\ CASE a # None /\ handles[a] # None -> Found(r, handles[a].file)
          [] a # None /\ handles[a] = None /\ RestoreAt(r, "own") -> RestoreTo(r, "legacy")
          [] OTHER -> RestoreTo(r, "bare")
     /\ UNCHANGED handles /\ OnlyRestore

\* Whose the legacy handle is: the media it names, else the open one if the name fits.
Adopter(r, record) ==
  IF record.media # None THEN record.media
  ELSE IF NameOf[record.file] = restores[r].name THEN restores[r].asset ELSE None

ReadLegacy(r) ==
  /\ RestoreAt(r, "legacy")
  /\ LET record == handles[Legacy]
     IN IF record = None \/ Adopter(r, record) = None THEN RestoreTo(r, "again")
        ELSE Go(r, [restores[r] EXCEPT !.pc = "target", !.file = record.file,
                                      !.target = Adopter(r, record)])
  /\ UNCHANGED handles /\ OnlyRestore

\* Mutant of AfterTarget: the legacy record is deleted, and then copied.
DropThenCopy(r) == "drop"

\* A record of the media's own wins; the copy goes before the deletion.
AfterTarget(r) == IF handles[restores[r].target] = None THEN "copy" ELSE "drop"

ReadTarget(r) ==
  /\ RestoreAt(r, "target")
  /\ RestoreTo(r, AfterTarget(r))
  /\ UNCHANGED handles /\ OnlyRestore

CopyLegacy(r) ==
  /\ RestoreAt(r, "copy")
  /\ handles' = [handles EXCEPT ![restores[r].target] =
       [file |-> restores[r].file, media |-> restores[r].target]]
  /\ RestoreTo(r, "drop")
  /\ OnlyRestore

DropLegacy(r) ==
  /\ RestoreAt(r, "drop")
  /\ handles' = [handles EXCEPT ![Legacy] = None]
  /\ RestoreTo(r, "again")
  /\ OnlyRestore

\* A failing transaction of the migration is swallowed.
MigrationFails(r) ==
  /\ restores[r].pc \in {"legacy", "target", "copy", "drop"}
  /\ RestoreTo(r, "again")
  /\ UNCHANGED handles /\ OnlyRestore

\* What the restore leaves when it gives up while it is current: nothing to play.
LeaveUnlinked(r) ==
  /\ player' = [player EXCEPT !.url = 0]
  /\ OutdatedBut(r, NoRestore)
  /\ UNCHANGED <<disk, handles, library, saved, made, urls, imports, relink, opens, asked>>

StopQuietly(r) == Go(r, NoRestore) /\ UNCHANGED handles /\ OnlyRestore

\* The bare legacy handle no migration could place; the name check follows.
ReadBare(r) ==
  LET record == handles[Legacy]
      found == record # None /\ record.media = None
  IN /\ RestoreAt(r, "bare")
     /\ \/ found /\ Found(r, record.file) /\ UNCHANGED handles /\ OnlyRestore
        \/ ~found /\ restores[r].fresh /\ restores[r].name # None /\ LeaveUnlinked(r)
        \/ ~found /\ ~(restores[r].fresh /\ restores[r].name # None) /\ StopQuietly(r)

\* Mutant of Fresh: the restore does not look at the page again.
FreshEnough(r) == TRUE

\* current(): the media, its playback state and what the caller asks for are the same.
Fresh(r) == restores[r].fresh

\* Permission is granted, or not asked for, and the file is read.
GetFile(r) ==
  /\ RestoreAt(r, "found") /\ Fresh(r)
  /\ restores[r].name \in {None, NameOf[restores[r].file]}
  /\ Go(r, [pc |-> "hash", expected |-> restores[r].expected,
            content |-> disk[restores[r].file], fresh |-> restores[r].fresh])
  /\ UNCHANGED handles /\ OnlyRestore

FinishRestore(r) ==
  /\ RestoreAt(r, "hash") /\ Fresh(r) /\ UrlRoom
  /\ restores[r].expected \in {None, restores[r].content}
  /\ urls' = Append(Revoked(urls, player.url), [content |-> restores[r].content, live |-> TRUE])
  /\ player' = [player EXCEPT !.url = Len(urls) + 1]
  /\ OutdatedBut(r, NoRestore)
  /\ UNCHANGED <<disk, handles, library, saved, made, imports, relink, opens, asked>>

\* No store, another name, no permission, another content, or an exception.
GiveUp(r) ==
  /\ restores[r].pc \notin {"idle", "bare"}
  /\ IF Fresh(r) THEN LeaveUnlinked(r) ELSE StopQuietly(r)

\* isCurrent(): the boot's patience is over, the connection superseded, the store edited.
Superseded(r) ==
  /\ restores[r].pc # "idle" /\ restores[r].fresh
  /\ Go(r, [restores[r] EXCEPT !.fresh = FALSE])
  /\ UNCHANGED handles /\ OnlyRestore

-----------------------------------------------------------------------------
(***************************************************************************)
(* The surroundings.                                                       *)
(***************************************************************************)

\* projectHydratedSnapshotIntoModel: the service's records, the newest one open.
Hydrate ==
  /\ library' = saved
  /\ player' = Projected(Newest(saved), saved)
  /\ Outdated
  /\ asked' = None
  /\ UNCHANGED <<disk, handles, saved, made, urls, imports, relink, opens>>

SaveLibrary ==
  /\ saved' = library
  /\ UNCHANGED <<disk, handles, library, made, urls, player, linkTasks, asked>>

\* A page that is gone takes its URLs and tasks along; labels naming them are stale.
Stale(lib) ==
  [a \in Assets |-> IF lib[a] = None \/ lib[a].blob = None THEN lib[a]
                    ELSE [lib[a] EXCEPT !.blob = 0]]

Reload ==
  /\ library' = Stale(library) /\ saved' = Stale(saved)
  /\ urls' = <<>>
  /\ player' = Projected(Newest(library), Stale(library))
  /\ imports' = [p \in Importers |-> NoImport]
  /\ relink' = NoRelink
  /\ restores' = [r \in Restorers |-> NoRestore]
  /\ opens' = {}
  /\ asked' = None
  /\ UNCHANGED <<disk, handles, made>>

EditFile(f, c) ==
  /\ disk[f] # c
  /\ disk' = [disk EXCEPT ![f] = c]
  /\ UNCHANGED <<handles, library, saved, made, urls, player, linkTasks, asked>>

-----------------------------------------------------------------------------
\* A page is loaded over any library and any handles an earlier one left, the single
\* legacy handle of an earlier version included.
LinksInit ==
  /\ disk \in [Files -> Contents]
  /\ made \in 0 .. MaxAssets
  /\ library \in [Assets -> {m \in MediaRecord : m.blob \in {0, None}} \cup {None}]
  /\ \A a \in Assets : library[a] = None <=> a > made
  /\ handles \in [Keys -> HandleRecord \cup {None}]
  /\ \A a \in Assets : handles[a] # None => library[a] # None /\ handles[a].media = a
  /\ handles[Legacy] # None /\ handles[Legacy].media # None => library[handles[Legacy].media] # None
  /\ saved = library
  /\ urls = <<>>
  /\ player = Projected(Newest(library), library)
  /\ imports = [p \in Importers |-> NoImport]
  /\ relink = NoRelink
  /\ restores = [r \in Restorers |-> NoRestore]
  /\ opens = {}
  /\ asked = None

ImportStep(p) ==
  \/ \E f \in Files, byHandle, asNew \in BOOLEAN : StartImport(p, f, byHandle, asNew)
  \/ ImportRefused(p) \/ Hashed(p) \/ ImportFails(p)
  \/ RelinkImported(p) \/ AddImported(p) \/ SaveHandle(p)

RestoreStep(r) ==
  \/ StartRestore(r) \/ ReadOwn(r) \/ ReadLegacy(r) \/ ReadTarget(r)
  \/ CopyLegacy(r) \/ DropLegacy(r) \/ MigrationFails(r) \/ ReadBare(r)
  \/ GetFile(r) \/ FinishRestore(r) \/ GiveUp(r) \/ Superseded(r)

LinksNext ==
  \/ \E a \in Assets : OpenMedia(a)
  \/ \E o \in opens : Loaded(o)
  \/ \E p \in Importers : ImportStep(p)
  \/ \E f \in Files : StartRelink(f)
  \/ FinishRelink
  \/ \E r \in Restorers : RestoreStep(r)
  \/ Hydrate \/ SaveLibrary \/ Reload
  \/ \E f \in Files, c \in Contents : EditFile(f, c)

LinksSpec == LinksInit /\ [][LinksNext]_linksVars

-----------------------------------------------------------------------------
(***************************************************************************)
(* Properties.                                                             *)
(***************************************************************************)

\* What plays is a URL that was not revoked, and where the media has a fingerprint,
\* a file with it: whichever imports, relinks, opens, restores and hydrations cross,
\* and whatever happens to the files (restoreBrowserMediaHandle's current()).
PlaysOwnContent ==
  player.url # 0 =>
    /\ urls[player.url].live
    /\ player.current # None =>
         player.media.content \in {None, urls[player.url].content}

\* The migration may stop anywhere, and two may run at once: when the legacy handle
\* is gone, the media it was of has a record of its own (migrateLegacyMediaHandle).
LegacyKept ==
  [][handles[Legacy] # None /\ handles'[Legacy] = None =>
       \E a \in Assets : handles'[a] # None /\ handles[Legacy].media \in {None, a}]_linksVars

\* Once every answer is there, the media that is open is the one opened last
\* (loadThenOpenMedia), unless an import, a relink or a hydration came later.
OpenedLastIsOpen ==
  asked # None /\ opens = {} /\ library[asked] # None => player.current = asked

\* The Player has the media that was asked for, and plays what belongs to it.
OpenedMediaPlays == PlaysOwnContent /\ OpenedLastIsOpen
=============================================================================
