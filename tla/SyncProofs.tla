-------------------------------- MODULE SyncProofs --------------------------------
(***************************************************************************)
(* Theorems of DocumentSync, for every number of services, items,          *)
(* transcripts and rows, and for any bounds on revisions and jobs.         *)
(*                                                                         *)
(* SyncSound is not inductive: that what is shown as saved is stored rests *)
(* on what the answers and the jobs under way know.  SyncInv says it of    *)
(* each place through which that knowledge goes.                           *)
(*                                                                         *)
(* Services.  A document has the bundles of its transcripts, bundles stay, *)
(* and since the last write that was no operation the document is the      *)
(* present one (ServiceSound): a save on a revision since then replaces    *)
(* the very document of that revision.                                     *)
(*                                                                         *)
(* Answers.  What arrives is what the service held at the revision the     *)
(* answer names (TrueOf), now or at any time since.                        *)
(*                                                                         *)
(* Jobs.  A job that still counts works on the page's own service and on   *)
(* the page's own revision (LiveSound); while the page compares or the     *)
(* learner chooses no job counts, but for previews that will refuse        *)
(* (UndecidedRests).  A commit whose record is the page's is the last job  *)
(* (WaitingSound), so a restore of unknown outcome has no job behind it.   *)
(*                                                                         *)
(* The page.  The document it takes for the one of its revision is that    *)
(* one (PageSound); unless it keeps its own against it, its document is    *)
(* that one and what was added since, and shown as saved it is that one    *)
(* (KeptSound); what it remembers as acknowledged was stored (AckedStored).*)
(*                                                                         *)
(* SyncInv was model-checked with the scopes of the run sync before it was *)
(* proved.  A step is proved action by action; the lemmas whose names end  *)
(* in Page say what an operation on the page's record leaves as it was.    *)
(***************************************************************************)
EXTENDS DocumentSync, SequenceTheorems, TLAPS

-----------------------------------------------------------------------------
(***************************************************************************)
(* The invariant.                                                          *)
(***************************************************************************)

\* What is sent and answered, and what a job or a connection knows meanwhile.
Codes == {"ok", "stale", "exists", "owned-rows", "reconciled", "bundle-first"}
Answers ==
  [code: Codes, revision: 1 .. MaxRevisions, state: Contents, bundles: SUBSET Tracks]
Gets == [op: {"get"}, url: Urls]
BundlePuts == [op: {"bundle"}, url: Urls, track: Tracks, basis: 1 .. MaxRevisions]
DocumentPuts ==
  [op: {"put"}, url: Urls, basis: 1 .. MaxRevisions, sent: Contents, saw: SUBSET Items]
RestorePosts == [op: {"restore"}, url: Urls, basis: 1 .. MaxRevisions, mode: Modes]
Requests == Gets \cup BundlePuts \cup DocumentPuts \cup RestorePosts
Waits == {"load", "preview", "verify", "readback", "bundle", "put", "restore"}
Tasks ==
  [pc: Waits \cup {"idle", "flush", "state", "compare"}, q: Requests \cup {None},
   reply: Answers \cup {Lost, None}, mode: BOOLEAN, todo: SUBSET Tracks,
   track: Tracks \cup {None}, revision: 0 .. MaxRevisions,
   before: Comparisons \cup {None}, adopt: BOOLEAN]

\* What each program counter of a job has sent.
SentBy(pc) ==
  CASE pc = "bundle" -> BundlePuts
    [] pc = "put" -> DocumentPuts
    [] pc = "restore" -> RestorePosts
    [] OTHER -> Gets

\* Where a job is a save.
Saving == {"bundle", "put", "verify", "flush"}

\* The job under way, the connection and the request nobody awaits have their shapes.
JobShaped ==
  /\ run \in Tasks /\ run.pc \in Waits \cup {"idle", "flush"}
  /\ run.pc = "idle" => run = Idle
  /\ run.pc \in Waits => run.q \in SentBy(run.pc)
  /\ run.pc = "verify" => run.track \in Tracks
ConnectionShaped ==
  /\ conn \in Tasks /\ conn.pc \in {"idle", "state", "compare", "load"}
  /\ conn.pc = "idle" => conn = Idle
  /\ conn.pc # "idle" => conn.q = Get(page)
  /\ conn.pc = "compare" => conn.reply \in Answers \ {None}
StrayShaped == stray \in Tasks /\ (stray # Idle => stray.q \in Requests \ Gets)

\* What a service holds: a document with the bundles of its transcripts, which stay,
\* and no other document since the last write that was no operation.
ServiceSound(u) ==
  /\ \A r \in 1 .. Rev(u) : past[u][r].doc \cap Tracks \subseteq past[u][r].bundles
  /\ \A r, s \in 1 .. Rev(u) : r <= s => past[u][r].bundles \subseteq past[u][s].bundles
  /\ \A r \in lastDoc[u] .. Rev(u) : past[u][r].doc = Latest(u).doc

\* All services are sound.
ServicesSound == ServicesTyped /\ \A u \in Urls : ServiceSound(u)

\* The answer r is what a service with the history h held at the revision it names.
TrueOf(h, r) ==
  /\ r \in Answers
  /\ r.revision <= Len(h)
  /\ r.state = State(h[r.revision].doc, h[r.revision].voc)
  /\ r.bundles \subseteq h[r.revision].bundles

\* An answer arrived, and it is true of the service that was asked.
Got(x) == x.pc # "idle" /\ x.reply \notin {None, Lost}

ConnectionAnswered == Got(conn) => TrueOf(past[conn.q.url], conn.reply)
JobAnswered ==
  run.pc \in Waits /\ Got(run) =>
    LET h == past[run.q.url] IN
    /\ TrueOf(h, run.reply)
    /\ run.pc = "bundle" /\ run.reply.code = "ok" =>
         /\ run.q.track \in h[run.reply.revision].bundles
         /\ h[run.reply.revision].doc = h[run.q.basis].doc
    /\ run.pc = "put" /\ run.reply.code \in {"ok", "reconciled"} =>
         h[run.reply.revision].doc = run.q.sent.doc

\* A save goes out on a revision there was, and with the document of that revision.
SentSeen ==
  /\ run.pc \in {"bundle", "put"} => run.q.basis <= Rev(run.q.url)
  /\ run.pc = "put" => run.q.saw = past[run.q.url][run.q.basis].doc

\* What the waiting jobs know; a commit whose record is the page's is the last one, and
\* a restore of unknown outcome has no job behind it.
WaitingSound(t, phase) ==
  /\ \A i \in DOMAIN t :
       /\ t[i].kind = "preview" => t[i].before \in Comparisons /\ t[i].mode \in Modes
       /\ t[i].kind = "commit" => t[i].binding \in Bindings
       /\ t[i].mine => t[i].kind = "commit" /\ i = Len(t) /\ phase = "committing"
  /\ phase = "unknown" => t = <<>>

\* Which job runs, and which wait.
QueueSound ==
  /\ run.pc \in Saving => Job.kind = "save"
  /\ run.pc \in {"load", "preview"} => Job.kind = run.pc
  /\ run.pc \in {"restore", "readback"} => Job.kind = "commit"
  /\ WaitingSound(tail, page.restore.phase)

\* Comparing, or waiting for the learner's choice: no job counts.
Undecided == conn.pc \in {"state", "compare"} \/ page.choice # None
UndecidedRests ==
  /\ page.choice # None => conn.pc = "idle"
  /\ Undecided =>
       /\ page.revision = 0
       /\ \A i \in DOMAIN tail : tail[i].live => tail[i].kind = "preview"
       /\ run # Idle => ~Job.live

\* What the page takes for the service's state at its revision is that.
PageSound ==
  /\ page.revision # 0 =>
       page.revision <= Rev(page.base) /\ page.saw = past[page.base][page.revision].doc
  /\ page.choice # None =>
       /\ page.choice.revision <= Rev(page.base)
       /\ page.choice.state = State(past[page.base][page.choice.revision].doc,
                                    past[page.base][page.choice.revision].voc)

\* Unless it keeps its document against the service's, the page has that one and what
\* was added since, and its baseline is that one.
KeptSound ==
  /\ page.revision # 0 /\ ~page.kept =>
       /\ page.saw \subseteq page.doc
       /\ page.intent = None
       /\ page.baseline # None => page.baseline.doc = page.saw
  /\ conn.pc = "load" => page.revision # 0 /\ ~page.kept
  /\ page.status = "connected" /\ page.sync \in {"saved", "idle"} /\ ~page.kept =>
       page.revision # 0 /\ page.doc = page.saw

\* A job that counts works on the page's own service and revision.
LiveSound ==
  run # Idle /\ Job.live =>
    /\ run.pc \in {"bundle", "put", "verify", "preview", "readback"} => run.q.url = page.base
    /\ run.pc \in Saving =>
         /\ page.revision # 0 /\ page.intent = None
         /\ page.kept => page.sync \notin {"saved", "idle"}
    /\ run.pc \in {"bundle", "put"} => page.revision = run.q.basis
    /\ run.pc = "put" =>
         /\ run.q.sent.doc \subseteq page.doc
         /\ ~page.kept => page.saw \subseteq run.q.sent.doc
    /\ run.pc = "preview" =>
         /\ page.revision # 0
         /\ ~page.kept /\ page.baseline # None => Job.before[2].doc = page.saw

\* What was acknowledged to the page once was stored.
AckedStored ==
  /\ page.baseline # None => \A i \in page.baseline.doc : EverStored(i)
  /\ page.seeded => page.ack \in Acks
  /\ page.ack \in Acks => \A i \in page.ack.state.doc : EverStored(i)
  /\ BundlesHeld

\* The inductive invariant.
SyncInv ==
  /\ ServicesSound /\ PageTyped /\ QueueTyped
  /\ JobShaped /\ ConnectionShaped /\ StrayShaped
  /\ ConnectionAnswered /\ JobAnswered /\ SentSeen
  /\ QueueSound /\ UndecidedRests
  /\ PageSound /\ KeptSound /\ LiveSound /\ AckedStored

\* No revision and the numbered ones are within the bound.
LEMMA RevisionBounds ==
  0 \in 0 .. MaxRevisions /\ 1 .. MaxRevisions \subseteq 0 .. MaxRevisions
  BY SyncAssumption DEF SyncAssumption

\* Forgetting the revisions of single rows.
LEMMA RowsAsOfPage ==
  ASSUME NEW p \in Pages, NEW r \in 0 .. MaxRevisions
  PROVE  LET d == RowsAsOf(p, r) IN
         /\ d \in Pages
         /\ d.base = p.base /\ d.revision = p.revision /\ d.saw = p.saw /\ d.kept = p.kept
         /\ d.status = p.status /\ d.sync = p.sync /\ d.choice = p.choice
         /\ d.baseline = p.baseline /\ d.ack = p.ack /\ d.seeded = p.seeded
         /\ d.doc = p.doc /\ d.cues = p.cues /\ d.intent = p.intent /\ d.acked = p.acked
         /\ d.restore = p.restore
<1>1. RowsAsOf(p, r) \in Pages
  BY RevisionBounds DEF RowsAsOf, Pages
<1> QED
  BY <1>1 DEF RowsAsOf, Pages

\* Replacing the store.
LEMMA ProjectPage ==
  ASSUME NEW p \in Pages, NEW c \in Contents
  PROVE  LET d == Project(p, c) IN
         /\ d \in Pages
         /\ d.base = p.base /\ d.revision = p.revision /\ d.saw = p.saw /\ d.kept = p.kept
         /\ d.status = p.status /\ d.sync = p.sync /\ d.choice = p.choice
         /\ d.baseline = p.baseline /\ d.ack = p.ack /\ d.seeded = p.seeded
         /\ d.doc = c.doc /\ d.cues = {} /\ d.intent = p.intent /\ d.acked = p.acked
         /\ d.restore = p.restore
<1>1. Project(p, c) \in Pages
  BY DEF Project, Pages, Contents
<1> QED
  BY <1>1 DEF Project, Pages

\* Recording what the service acknowledged.
LEMMA SetBaselinePage ==
  ASSUME NEW p \in Pages, NEW c \in Contents
  PROVE  LET d == SetBaseline(p, c) IN
         /\ d \in Pages
         /\ d.base = p.base /\ d.revision = p.revision /\ d.saw = p.saw /\ d.kept = FALSE
         /\ d.status = p.status /\ d.sync = p.sync /\ d.choice = p.choice
         /\ d.baseline = c /\ d.ack = [url |-> p.base, state |-> c] /\ d.seeded = FALSE
         /\ d.doc = p.doc /\ d.cues = p.cues /\ d.intent = p.intent /\ d.acked = p.acked
         /\ d.restore = p.restore
<1>1. SetBaseline(p, c) \in Pages
  BY DEF SetBaseline, Pages, Acks
<1> QED
  BY <1>1 DEF SetBaseline, Pages

\* Leaving the service.
LEMMA DisconnectedPage ==
  ASSUME NEW p \in Pages, NEW u \in Urls
  PROVE  LET d == Disconnected(p, u) IN
         /\ d \in Pages
         /\ d.base = u /\ d.revision = 0 /\ d.saw = p.saw /\ d.kept = p.kept
         /\ d.status = "disconnected" /\ d.sync = "unsaved" /\ d.choice = None
         /\ d.baseline = None /\ d.ack = p.ack /\ d.seeded = p.seeded /\ d.doc = p.doc
         /\ d.cues = p.cues /\ d.intent = p.intent /\ d.acked = p.acked
         /\ d.restore = p.restore
<1>1. Disconnected(p, u) \in Pages
  BY RevisionBounds DEF Disconnected, Pages
<1> QED
  BY <1>1 DEF Disconnected, Pages

\* Losing the pairing.
LEMMA RevokedPage ==
  ASSUME NEW p \in Pages
  PROVE  LET d == Revoked(p) IN
         /\ d \in Pages
         /\ d.base = p.base /\ d.revision = 0 /\ d.saw = p.saw /\ d.kept = p.kept
         /\ d.status = "error" /\ d.sync = "error" /\ d.choice = None
         /\ d.baseline = p.baseline /\ d.ack = p.ack /\ d.seeded = p.seeded
         /\ d.doc = p.doc /\ d.cues = p.cues /\ d.intent = p.intent /\ d.acked = p.acked
         /\ d.restore = p.restore
<1>1. Revoked(p) \in Pages
  BY RevisionBounds DEF Revoked, Pages
<1> QED
  BY <1>1 DEF Revoked, Pages

\* Installing what a restore was confirmed to have stored.
LEMMA InstalledPage ==
  ASSUME NEW p \in Pages, NEW c \in Contents, NEW r \in 1 .. MaxRevisions
  PROVE  LET d == Installed(p, c, r) IN
         /\ d \in Pages
         /\ d.base = p.base /\ d.revision = r /\ d.saw = c.doc /\ d.kept = FALSE
         /\ d.status = "connected" /\ d.sync = "saved" /\ d.choice = p.choice
         /\ d.baseline = c /\ d.ack = p.ack /\ d.seeded = p.seeded /\ d.doc = c.doc
         /\ d.cues = p.cues /\ d.intent = None /\ d.acked = p.acked
         /\ d.restore = NoRestore
<1>1. Installed(p, c, r) \in Pages
  BY RevisionBounds DEF Installed, Pages, Contents
<1> QED
  BY <1>1 DEF Installed, Pages, Contents, Content, State

\* The two baselines of a page, where there are any, are states.
LEMMA PageAcks ==
  ASSUME NEW p \in Pages
  PROVE  p.ack \in Acks \cup {None} /\ p.baseline \in Contents \cup {None}
  BY DEF Pages

\* Rows that arrive beside the document leave the documents alone.
LEMMA ApplyRowsPage ==
  ASSUME NEW p \in Pages,
         NEW x \in SUBSET Rows, NEW y \in SUBSET Rows
  PROVE  LET d == ApplyRows(p, x, y) IN
         /\ d \in Pages
         /\ d.base = p.base /\ d.revision = p.revision /\ d.saw = p.saw /\ d.kept = p.kept
         /\ d.status = p.status /\ d.sync = p.sync /\ d.choice = p.choice
         /\ d.seeded = p.seeded /\ d.doc = p.doc /\ d.cues = p.cues /\ d.intent = p.intent
         /\ d.acked = p.acked /\ d.restore = p.restore
         /\ d.baseline # None => p.baseline # None /\ d.baseline.doc = p.baseline.doc
         /\ p.baseline # None => d.baseline # None
         /\ p.ack \in Acks <=> d.ack \in Acks
         /\ p.ack \in Acks => d.ack.url = p.ack.url /\ d.ack.state.doc = p.ack.state.doc
<1> DEFINE On(voc) == (voc \ y) \cup x
           b == IF p.baseline = None THEN None ELSE State(p.baseline.doc, On(p.baseline.voc))
           k == IF p.ack = None THEN None 
                ELSE [url |-> p.ack.url, state |-> State(p.ack.state.doc, On(p.ack.state.voc))]
<1>1. /\ b \in Contents \cup {None}
      /\ b # None => p.baseline # None /\ b.doc = p.baseline.doc
      /\ p.baseline # None => b # None
  BY PageAcks, SyncAssumption DEF State, Contents, SyncAssumption
<1>2. /\ k \in Acks \cup {None}
      /\ p.ack \in Acks <=> k \in Acks
      /\ p.ack \in Acks => k.url = p.ack.url /\ k.state.doc = p.ack.state.doc
  <2>1. CASE p.ack = None
    BY <2>1
  <2>2. CASE p.ack # None
    <3>1. p.ack \in Acks /\ p.ack.state \in Contents
      BY <2>2, PageAcks DEF Acks
    <3>2. State(p.ack.state.doc, On(p.ack.state.voc)) \in Contents
      BY <3>1 DEF State, Contents
    <3> QED
      BY <2>2, <3>1, <3>2 DEF Acks, State
  <2> QED
    BY <2>1, <2>2
<1>3. ApplyRows(p, x, y) = [p EXCEPT !.voc = On(p.voc), !.baseline = b, !.ack = k]
  BY DEF ApplyRows
<1> HIDE DEF b, k
<1>4. ApplyRows(p, x, y) \in Pages
  BY ZenonT(40), <1>1, <1>2, <1>3 DEF Pages
<1> QED
  BY <1>1, <1>2, <1>3, <1>4 DEF Pages

\* An acknowledgement of bundles.
LEMMA AcknowledgePage ==
  ASSUME NEW p \in Pages, NEW u \in Urls, NEW ts \in SUBSET Tracks
  PROVE  LET d == Acknowledge(p, u, ts) IN
         /\ d \in Pages
         /\ d.base = p.base /\ d.revision = p.revision /\ d.saw = p.saw /\ d.kept = p.kept
         /\ d.status = p.status /\ d.sync = p.sync /\ d.choice = p.choice
         /\ d.baseline = p.baseline /\ d.ack = p.ack /\ d.seeded = p.seeded
         /\ d.doc = p.doc /\ d.cues = p.cues /\ d.intent = p.intent
         /\ d.restore = p.restore
         /\ d.acked.url = u
         /\ d.acked.tracks = ts \cup (IF p.acked.url = u THEN p.acked.tracks ELSE {})
<1>1. Acknowledge(p, u, ts) \in Pages
  BY DEF Acknowledge, Pages
<1> QED
  BY SMTT(30), <1>1 DEF Acknowledge, Pages

\* An edit of the browser.
LEMMA EditedPage ==
  ASSUME NEW p \in Pages
  PROVE  LET d == Edited(p) IN
         /\ d \in Pages
         /\ d.base = p.base /\ d.revision = p.revision /\ d.saw = p.saw /\ d.kept = p.kept
         /\ d.status = p.status /\ d.choice = p.choice /\ d.baseline = p.baseline
         /\ d.ack = p.ack /\ d.seeded = p.seeded /\ d.doc = p.doc /\ d.cues = p.cues
         /\ d.intent = p.intent /\ d.acked = p.acked /\ d.restore = p.restore
         /\ d.sync \notin {"idle", "saved"}
         /\ p.sync = "choice" => d.sync = "choice"
<1>1. Edited(p) \in Pages
  BY DEF Edited, Pages
<1> QED
  BY <1>1 DEF Edited, Pages

\* The service's rows replace the page's.
LEMMA InstallRowsPage ==
  ASSUME NEW p \in Pages,
         NEW voc \in SUBSET Rows, NEW r \in 0 .. MaxRevisions
  PROVE  LET d == InstallRows(p, voc, r) IN
         /\ d \in Pages
         /\ d.base = p.base /\ d.revision = p.revision /\ d.saw = p.saw /\ d.kept = p.kept
         /\ d.status = p.status /\ d.sync = p.sync /\ d.choice = p.choice
         /\ d.seeded = p.seeded /\ d.doc = p.doc /\ d.cues = p.cues /\ d.intent = p.intent
         /\ d.acked = p.acked /\ d.restore = p.restore
         /\ d.baseline # None => p.baseline # None /\ d.baseline.doc = p.baseline.doc
         /\ p.baseline # None => d.baseline # None
         /\ p.ack \in Acks <=> d.ack \in Acks
         /\ p.ack \in Acks => d.ack.url = p.ack.url /\ d.ack.state.doc = p.ack.state.doc
<1> DEFINE added == voc \ p.voc
           removed == p.voc \ voc
           q == ApplyRows(p, added, removed)
<1>1. /\ added \in SUBSET Rows /\ removed \in SUBSET Rows
  BY DEF Pages
<1> HIDE DEF added, removed
<1>2. /\ q \in Pages
      /\ q.base = p.base /\ q.revision = p.revision /\ q.saw = p.saw /\ q.kept = p.kept
      /\ q.status = p.status /\ q.sync = p.sync /\ q.choice = p.choice
      /\ q.seeded = p.seeded /\ q.doc = p.doc /\ q.cues = p.cues /\ q.intent = p.intent
      /\ q.acked = p.acked /\ q.restore = p.restore
      /\ q.baseline # None => p.baseline # None /\ q.baseline.doc = p.baseline.doc
      /\ p.baseline # None => q.baseline # None
      /\ p.ack \in Acks <=> q.ack \in Acks
      /\ p.ack \in Acks => q.ack.url = p.ack.url /\ q.ack.state.doc = p.ack.state.doc
  BY <1>1, ApplyRowsPage
<1> HIDE DEF q
<1>3. InstallRows(p, voc, r) = RowsAsOf(q, r)
  BY DEF InstallRows, q, added, removed
<1>4. RowsAsOf(q, r) \in Pages
  BY <1>2, RowsAsOfPage
<1> QED
  BY <1>1, <1>2, <1>3, <1>4, RowsAsOfPage

\* The store is replaced by the service's, but for transcripts not sent yet.
LEMMA HydratePage ==
  ASSUME NEW p \in Pages, NEW c \in Contents
  PROVE  LET d == Hydrate(p, c) IN
         /\ d \in Pages
         /\ d.base = p.base /\ d.revision = p.revision /\ d.saw = p.saw /\ d.kept = p.kept
         /\ d.status = p.status /\ d.sync = p.sync /\ d.choice = p.choice
         /\ d.baseline = p.baseline /\ d.ack = p.ack /\ d.seeded = p.seeded
         /\ d.doc = c.doc /\ d.cues = Pending(p) \cap c.doc /\ d.intent = p.intent
         /\ d.acked = p.acked /\ d.restore = p.restore
<1>1. Project(p, c) \in Pages /\ Pending(p) \cap c.doc \in SUBSET Tracks
  BY ProjectPage DEF Pages, Pending
<1>2. Hydrate(p, c) \in Pages
  BY <1>1 DEF Hydrate, Pages
<1> QED
  BY <1>1, <1>2, ProjectPage DEF Hydrate, Pages

\* The transcripts of the service join the page's.
LEMMA LoadedPage ==
  ASSUME NEW p \in Pages, NEW q, NEW reply,
         reply # Lost => q.url \in Urls /\ reply.bundles \in SUBSET Tracks
  PROVE  LET d == Loaded(p, q, reply) IN
         /\ d \in Pages
         /\ d.base = p.base /\ d.revision = p.revision /\ d.saw = p.saw /\ d.kept = p.kept
         /\ d.status = p.status /\ d.sync = p.sync /\ d.choice = p.choice
         /\ d.baseline = p.baseline /\ d.ack = p.ack /\ d.seeded = p.seeded
         /\ d.doc = p.doc /\ d.intent = p.intent /\ d.restore = p.restore
         /\ p.cues \subseteq d.cues
         /\ \/ d.acked = p.acked
            \/ /\ reply # Lost /\ d.acked.url = q.url
               /\ d.acked.tracks = reply.bundles \cup
                    (IF p.acked.url = q.url THEN p.acked.tracks ELSE {})
<1>1. CASE reply = Lost \/ p.base # q.url
  BY <1>1 DEF Loaded
<1>2. CASE ~(reply = Lost \/ p.base # q.url)
  <2> DEFINE a == Acknowledge(p, q.url, reply.bundles)
  <2>1. /\ a \in Pages /\ a.acked.url = q.url /\ a.cues = p.cues
        /\ a.acked.tracks = reply.bundles \cup
             (IF p.acked.url = q.url THEN p.acked.tracks ELSE {})
    BY <1>2, AcknowledgePage
  <2> HIDE DEF a
  <2>2. Loaded(p, q, reply) = [a EXCEPT !.cues = a.cues \cup reply.bundles]
    BY <1>2 DEF Loaded, a
  <2>3. Loaded(p, q, reply) \in Pages
    BY <1>2, <2>1, <2>2 DEF Pages
  <2>4. LET d == Loaded(p, q, reply) IN
        /\ d.base = a.base /\ d.revision = a.revision /\ d.saw = a.saw /\ d.kept = a.kept
        /\ d.status = a.status /\ d.sync = a.sync /\ d.choice = a.choice
        /\ d.baseline = a.baseline /\ d.ack = a.ack /\ d.seeded = a.seeded
        /\ d.doc = a.doc /\ d.cues = a.cues \cup reply.bundles /\ d.intent = a.intent
        /\ d.acked = a.acked /\ d.restore = a.restore
    BY <2>1, <2>2 DEF Pages
  <2> QED
    BY <1>2, <2>1, <2>3, <2>4, AcknowledgePage DEF a
<1> QED
  BY <1>1, <1>2

\* A page just loaded is the page of a browser that was never connected.
LEMMA FreshPagePage ==
  ASSUME NEW u \in Urls
  PROVE  FreshPage(u) \in Pages
  BY RevisionBounds DEF FreshPage, Pages

-----------------------------------------------------------------------------
(***************************************************************************)
(* The services: their histories grow, and a request is answered with what *)
(* is stored.                                                              *)
(***************************************************************************)

\* What is past stays, and so do the bundles.
Grows ==
  \A u \in Urls :
    /\ Len(past[u]) <= Len(past'[u])
    /\ \A r \in 1 .. Len(past[u]) : past'[u][r] = past[u][r]
    /\ past[u][Len(past[u])].bundles \subseteq past'[u][Len(past'[u])].bundles

\* What there is to know of the history of one service.
LEMMA HistoryEntries ==
  ASSUME ServicesTyped, NEW u \in Urls
  PROVE  /\ past[u] \in Seq(Entries) /\ Rev(u) \in Nat /\ Rev(u) = Len(past[u])
         /\ Rev(u) >= 1 /\ Rev(u) <= MaxRevisions
         /\ lastDoc[u] \in Nat /\ lastDoc[u] >= 1 /\ lastDoc[u] <= Rev(u)
         /\ \A r \in 1 .. Rev(u) : past[u][r] \in Entries
         /\ Latest(u) \in Entries
<1>1. past[u] \in Seq(Entries) /\ Rev(u) = Len(past[u])
  BY DEF ServicesTyped, Rev
<1>2. Rev(u) \in 1 .. MaxRevisions /\ lastDoc[u] \in 1 .. Rev(u) /\ lastDoc[u] \in Nat
  BY DEF ServicesTyped
<1>3. \A r \in 1 .. Rev(u) : past[u][r] \in Entries
  BY <1>1, <1>2
<1> QED
  BY <1>1, <1>2, <1>3 DEF Latest

\* A write of any kind: what it must keep of what was stored.
LEMMA CommitSound ==
  ASSUME ServicesSound, NEW v \in Urls, NEW e \in Entries, Commit(v, e),
         e.doc \cap Tracks \subseteq e.bundles, Latest(v).bundles \subseteq e.bundles,
         e.op # None => e.doc = Latest(v).doc
  PROVE  /\ ServicesSound' /\ Grows
         /\ Len(past'[v]) = Rev(v) + 1 /\ past'[v][Rev(v) + 1] = e
         /\ Rev(v) + 1 \in 1 .. MaxRevisions

<1>0. ServicesTyped /\ \A u \in Urls : ServiceSound(u)
  BY DEF ServicesSound
<1>1. past[v] \in Seq(Entries) /\ Len(past[v]) = Rev(v) /\ Rev(v) \in Nat /\ Rev(v) >= 1
      /\ Rev(v) < MaxRevisions
  BY <1>0, HistoryEntries DEF Commit
<1>2. /\ past'[v] = Append(past[v], e)
      /\ \A u \in Urls \ {v} : past'[u] = past[u] /\ lastDoc'[u] = lastDoc[u]
      /\ past' \in [Urls -> Seq(Entries)]
  BY <1>0, <1>1 DEF Commit, ServicesTyped
<1>3. /\ Len(past'[v]) = Rev(v) + 1 /\ past'[v][Rev(v) + 1] = e
      /\ \A r \in 1 .. Rev(v) : past'[v][r] = past[v][r]
  BY <1>1, <1>2
<1>4. lastDoc' \in [Urls -> Nat] /\ lastDoc'[v] = IF e.op = None THEN Rev(v) + 1 ELSE lastDoc[v]
  BY <1>0, <1>1 DEF Commit, ServicesTyped
<1>5. Rev(v) + 1 \in 1 .. MaxRevisions
  BY <1>1, SyncAssumption DEF SyncAssumption
<1>6. ServicesTyped'
  <2>1. ASSUME NEW u \in Urls PROVE Rev(u)' \in 1 .. MaxRevisions /\ lastDoc'[u] \in 1 .. Rev(u)'
    <3>1. CASE u = v
      <4>1. lastDoc[v] \in 1 .. Rev(v)
        BY <1>0 DEF ServicesTyped
      <4> QED
        BY <1>1, <1>3, <1>4, <1>5, <3>1, <4>1 DEF Rev
    <3>2. CASE u # v
      BY <1>0, <1>2, <3>2 DEF ServicesTyped, Rev
    <3> QED
      BY <3>1, <3>2
  <2> QED
    BY <1>2, <1>4, <2>1 DEF ServicesTyped
<1>7. Grows
  <2>1. ASSUME NEW u \in Urls
        PROVE /\ Len(past[u]) <= Len(past'[u])
              /\ \A r \in 1 .. Len(past[u]) : past'[u][r] = past[u][r]
              /\ past[u][Len(past[u])].bundles \subseteq past'[u][Len(past'[u])].bundles
    <3>1. CASE u = v
      BY <1>1, <1>3, <3>1 DEF Latest
    <3>2. CASE u # v
      BY <1>2, <3>2, HistoryEntries
    <3> QED
      BY <3>1, <3>2
  <2> QED
    BY <2>1 DEF Grows
<1>8. ASSUME NEW u \in Urls PROVE ServiceSound(u)'
  <2>1. CASE u # v
    BY <1>0, <1>2, <2>1 DEF ServiceSound, Rev, Latest
  <2>2. CASE u = v
    <3>1. Rev(v)' = Rev(v) + 1 /\ Latest(v)' = e
      BY <1>3 DEF Rev, Latest
    <3>2. ASSUME NEW r \in 1 .. Rev(v) + 1 PROVE past'[v][r].doc \cap Tracks \subseteq past'[v][r].bundles
      <4>1. CASE r = Rev(v) + 1
        BY <1>3, <4>1
      <4>2. CASE r # Rev(v) + 1
        <5>1. r \in 1 .. Rev(v)
          BY <1>1, <4>2
        <5> QED
          BY <1>0, <1>3, <5>1 DEF ServiceSound
      <4> QED
        BY <4>1, <4>2
    <3>3. ASSUME NEW r \in 1 .. Rev(v) + 1, NEW s \in 1 .. Rev(v) + 1, r <= s
          PROVE  past'[v][r].bundles \subseteq past'[v][s].bundles
      <4>1. CASE s = Rev(v) + 1 /\ r = Rev(v) + 1
        BY <4>1
      <4>2. CASE s = Rev(v) + 1 /\ r # Rev(v) + 1
        <5>1. r \in 1 .. Rev(v) /\ Rev(v) \in 1 .. Rev(v) /\ r <= Rev(v)
          BY <1>1, <4>2
        <5>2. past[v][r].bundles \subseteq Latest(v).bundles
          BY <1>0, <5>1 DEF ServiceSound, Latest
        <5> QED
          BY <1>3, <4>2, <5>1, <5>2
      <4>3. CASE s # Rev(v) + 1
        <5>1. r \in 1 .. Rev(v) /\ s \in 1 .. Rev(v)
          BY <1>1, <3>3, <4>3
        <5> QED
          BY <1>0, <1>3, <3>3, <5>1 DEF ServiceSound
      <4> QED
        BY <4>1, <4>2, <4>3
    <3>4. ASSUME NEW r \in lastDoc'[v] .. Rev(v) + 1 PROVE past'[v][r].doc = e.doc
      <4>1. CASE r = Rev(v) + 1
        BY <1>3, <4>1
      <4>2. CASE r # Rev(v) + 1
        <5>1. e.op # None
          BY <1>1, <1>4, <4>2
        <5>2. r \in lastDoc[v] .. Rev(v) /\ lastDoc[v] \in 1 .. Rev(v)
          BY <1>0, <1>1, <1>4, <4>2, <5>1 DEF ServicesTyped
        <5>3. past[v][r].doc = Latest(v).doc /\ r \in 1 .. Rev(v)
          BY <1>0, <1>1, <5>2 DEF ServiceSound
        <5> QED
          BY <1>3, <5>1, <5>3
      <4> QED
        BY <4>1, <4>2
    <3> QED
      BY <2>2, <3>1, <3>2, <3>3, <3>4 DEF ServiceSound
  <2> QED
    BY <2>1, <2>2
<1> QED
  BY <1>3, <1>5, <1>6, <1>7, <1>8 DEF ServicesSound

\* What a request that writes leaves stored.
LEMMA WrittenSound ==
  ASSUME ServicesSound, NEW q \in Requests, Writes(q)
  PROVE  LET e == Written(q) IN
         /\ q.url \in Urls
         /\ e \in Entries /\ e.op = None
         /\ e.doc \cap Tracks \subseteq e.bundles
         /\ Latest(q.url).bundles \subseteq e.bundles
         /\ q.op = "bundle" =>
              /\ q.track \in e.bundles /\ q.basis \in lastDoc[q.url] .. Rev(q.url)
              /\ e.doc = Latest(q.url).doc
         /\ q.op = "put" => e.doc = q.sent.doc /\ q.basis \in lastDoc[q.url] .. Rev(q.url)
<1>1. ServicesTyped /\ q.url \in Urls /\ q.op # "get"
  BY DEF ServicesSound, Requests, Gets, BundlePuts, DocumentPuts, RestorePosts, Writes
<1> DEFINE now == Latest(q.url)
<1>2. /\ now \in Entries /\ now.doc \cap Tracks \subseteq now.bundles
      /\ Rev(q.url) \in 1 .. Rev(q.url)
  BY <1>1, HistoryEntries DEF ServicesSound, ServiceSound, Latest
<1>3. CASE q \in BundlePuts
  <2>1. q.op = "bundle" /\ q.track \in Tracks
    BY <1>3 DEF BundlePuts
  <2>2. Written(q) = [now EXCEPT !.bundles = @ \cup {q.track}, !.op = None]
    BY <2>1 DEF Written
  <2>3. Verdict(q) = BundleVerdict(q)
    BY <2>1 DEF Verdict
  <2>4. BasisCurrent(q)
    BY <2>3 DEF BundleVerdict, Writes
  <2> DEFINE held == now.bundles \cup {q.track}
  <2>a. held \in SUBSET Tracks
    BY <1>2, <2>1 DEF Entries
  <2> HIDE DEF held
  <2>b. Written(q) = [now EXCEPT !.bundles = held, !.op = None]
    BY <2>2 DEF held
  <2>5. Written(q) \in Entries
    BY <1>2, <2>a, <2>b DEF Entries
  <2>6. /\ Written(q).doc = now.doc /\ Written(q).op = None
        /\ Written(q).bundles = held
    BY <1>2, <2>b DEF Entries
  <2> QED
    BY <1>1, <1>2, <2>1, <2>4, <2>5, <2>6 DEF BasisCurrent, held
<1>4. CASE q \in DocumentPuts
  <2>1. q.op = "put" /\ q.sent \in Contents /\ q.sent.doc \in SUBSET Items /\ q.sent.voc \in SUBSET Rows
    BY <1>4 DEF DocumentPuts, Contents
  <2>2. Written(q) = [now EXCEPT !.doc = q.sent.doc, !.voc = PutVoc(q), !.op = None]
    BY <2>1 DEF Written
  <2>3. Verdict(q) = PutVerdict(q)
    BY <2>1 DEF Verdict
  <2>4. BasisCurrent(q) /\ (q.sent.doc \cap Tracks) \ (now.bundles \cup now.doc) = {}
    BY <2>3 DEF PutVerdict, MissingBundles, Writes
  <2>5. PutVoc(q) \in SUBSET Rows
    BY <1>2, <2>1 DEF PutVoc, Entries
  <2>6. Written(q) \in Entries
    BY <1>2, <2>1, <2>2, <2>5 DEF Entries
  <2>7. /\ Written(q).doc = q.sent.doc /\ Written(q).op = None
        /\ Written(q).bundles = now.bundles
    BY <1>2, <2>2 DEF Entries
  <2>8. q.sent.doc \cap Tracks \subseteq now.bundles
    BY <1>2, <2>4
  <2> QED
    BY <1>1, <2>1, <2>4, <2>6, <2>7, <2>8 DEF BasisCurrent
<1>5. CASE q \in RestorePosts
  <2>1. q.op = "restore"
    BY <1>5 DEF RestorePosts
  <2> DEFINE v == Planned(Held(q.url), q.mode).voc
  <2>2. Written(q) = [now EXCEPT !.voc = v, !.op = None]
    BY <2>1 DEF Written
  <2>3. v \in SUBSET Rows
    BY <1>2 DEF Planned, Held, State, Rows, Entries
  <2> HIDE DEF v
  <2>4. Written(q) \in Entries
    BY <1>2, <2>2, <2>3 DEF Entries
  <2>5. Written(q).doc = now.doc /\ Written(q).bundles = now.bundles /\ Written(q).op = None
    BY <1>2, <2>2 DEF Entries
  <2> QED
    BY <1>1, <1>2, <2>1, <2>4, <2>5
<1> QED
  BY <1>1, <1>3, <1>4, <1>5 DEF Requests, Gets

\* Every request is answered with what is stored at the revision the answer names.
LEMMA ReplyTrue ==
  ASSUME ServicesSound, NEW q \in Requests, Execute(q)
  PROVE  LET r == Reply(q) IN
         /\ ServicesSound' /\ Grows
         /\ TrueOf(past'[q.url], r)
         /\ q.op = "bundle" /\ r.code = "ok" =>
              /\ q.track \in past'[q.url][r.revision].bundles
              /\ q.basis \in 1 .. Rev(q.url)
              /\ past'[q.url][r.revision].doc = past'[q.url][q.basis].doc
         /\ q.op = "put" /\ r.code \in {"ok", "reconciled"} =>
              past'[q.url][r.revision].doc = q.sent.doc
<1>1. /\ q.url \in Urls /\ ServicesTyped
      /\ q.op \in {"get", "bundle", "put", "restore"}
  BY DEF ServicesSound, Requests, Gets, BundlePuts, DocumentPuts, RestorePosts
<1> DEFINE u == q.url
           r == Reply(q)
<1>2. /\ Rev(u) \in Nat /\ Rev(u) >= 1 /\ Rev(u) <= MaxRevisions /\ Rev(u) = Len(past[u])
      /\ lastDoc[u] \in Nat /\ lastDoc[u] >= 1
      /\ Latest(u) \in Entries /\ Latest(u) = past[u][Rev(u)]
  BY <1>1, HistoryEntries DEF Latest
<1>3. Verdict(q) \in Codes
  BY <1>1 DEF Verdict, BundleVerdict, PutVerdict, RestoreVerdict, Codes
<1>4. CASE Writes(q)
  <2> DEFINE e == Written(q)
  <2>1. /\ e \in Entries /\ e.op = None /\ e.doc \cap Tracks \subseteq e.bundles
        /\ Latest(u).bundles \subseteq e.bundles
        /\ q.op = "bundle" =>
              /\ q.track \in e.bundles /\ q.basis \in lastDoc[u] .. Rev(u)
              /\ e.doc = Latest(u).doc
        /\ q.op = "put" => e.doc = q.sent.doc
    BY <1>4, WrittenSound
  <2>2. Commit(u, e)
    BY <1>4 DEF Execute
  <2>3. /\ ServicesSound' /\ Grows
        /\ Len(past'[u]) = Rev(u) + 1 /\ past'[u][Rev(u) + 1] = e
        /\ Rev(u) + 1 \in 1 .. MaxRevisions
    BY <1>1, <2>1, <2>2, CommitSound
  <2>4. /\ r.code = Verdict(q) /\ r.revision = Rev(u) + 1
        /\ r.state = State(e.doc, e.voc) /\ r.bundles = e.bundles \cap e.doc
        /\ r = [code |-> r.code, revision |-> r.revision, state |-> r.state, bundles |-> r.bundles]
    BY <1>4 DEF Reply
  <2>5. r.state \in Contents /\ r.bundles \in SUBSET Tracks
    BY <2>1, <2>4 DEF Entries, State, Contents
  <2>6. r \in Answers
    BY <1>3, <2>3, <2>4, <2>5 DEF Answers
  <2> HIDE DEF e, r
  <2>7. TrueOf(past'[u], r)
    BY <2>3, <2>4, <2>6 DEF TrueOf, Rev
  <2>8. ASSUME q.op = "bundle"
        PROVE  /\ q.track \in past'[u][r.revision].bundles /\ q.basis \in 1 .. Rev(u)
               /\ past'[u][r.revision].doc = past'[u][q.basis].doc
    <3>1. q.basis \in lastDoc[u] .. Rev(u) /\ q.basis \in 1 .. Rev(u)
      BY <1>2, <2>1, <2>8
    <3>2. past[u][q.basis].doc = Latest(u).doc
      BY <1>1, <3>1 DEF ServicesSound, ServiceSound
    <3>3. past'[u][q.basis] = past[u][q.basis]
      BY <1>1, <1>2, <2>3, <3>1 DEF Grows
    <3> QED
      BY <2>1, <2>3, <2>4, <2>8, <3>1, <3>2, <3>3
  <2> QED
    BY <2>1, <2>3, <2>4, <2>7, <2>8 DEF r
<1>5. CASE ~Writes(q)
  <2>1. UNCHANGED services
    BY <1>5 DEF Execute
  <2>2. ServicesSound' /\ Grows
    BY <2>1, HistoryEntries DEF services, ServicesSound, ServicesTyped, ServiceSound, Rev, Latest, Grows
  <2>3. /\ r.code = Verdict(q) /\ r.revision = Rev(u)
        /\ r.state = State(Latest(u).doc, Latest(u).voc)
        /\ r.bundles = Latest(u).bundles \cap Latest(u).doc
        /\ r = [code |-> r.code, revision |-> r.revision, state |-> r.state, bundles |-> r.bundles]
    BY <1>5 DEF Reply
  <2>4. r.state \in Contents /\ r.bundles \in SUBSET Tracks /\ r.revision \in 1 .. MaxRevisions
    BY <1>2, <2>3 DEF Entries, State, Contents
  <2>5. r \in Answers
    BY <1>3, <2>3, <2>4 DEF Answers
  <2>6. q.op # "get" => r.code \notin {"ok", "reconciled"}
    BY <1>5, <2>3 DEF Writes
  <2> HIDE DEF r
  <2>7. TrueOf(past'[u], r)
    BY <1>2, <2>1, <2>3, <2>5 DEF TrueOf, Rev, services
  <2> QED
    BY <2>2, <2>6, <2>7 DEF r
<1> QED
  BY <1>4, <1>5

-----------------------------------------------------------------------------
(***************************************************************************)
(* Steps of the services: the page and its queue stay.                     *)
(***************************************************************************)

\* A job at rest is a job, an answer is never the lost one, and waiting is neither rest
\* nor the flush.
LEMMA TasksApart ==
  /\ Idle \in Tasks /\ Idle.pc = "idle"
  /\ \A r \in Answers : r # Lost
  /\ "idle" \notin Waits /\ "flush" \notin Waits
<1>1. Idle \in Tasks
  BY RevisionBounds DEF Idle, Tasks
<1>2. Idle.pc = "idle" /\ "idle" \notin Waits /\ "flush" \notin Waits
  BY DEF Idle, Waits
<1>3. \A r \in Answers : r # Lost
  BY DEF Answers, Lost, Codes
<1> QED
  BY <1>1, <1>2, <1>3

\* What was so of the past stays so.
LEMMA PastStays ==
  ASSUME ServicesTyped, Grows, NEW u \in Urls
  PROVE  /\ \A r \in 1 .. Rev(u) : past'[u][r] = past[u][r]
         /\ Rev(u) <= Len(past'[u]) /\ Rev(u)' = Len(past'[u])
         /\ \A a : TrueOf(past[u], a) => TrueOf(past'[u], a)
         /\ Latest(u).bundles \subseteq Latest(u)'.bundles
<1>1. /\ \A r \in 1 .. Rev(u) : past'[u][r] = past[u][r]
      /\ Rev(u) <= Len(past'[u]) /\ Rev(u)' = Len(past'[u])
      /\ Latest(u).bundles \subseteq Latest(u)'.bundles
  BY HistoryEntries DEF Grows, Rev, Latest
<1>2. ASSUME NEW a, TrueOf(past[u], a) PROVE TrueOf(past'[u], a)
  <2>1. a \in Answers /\ a.revision \in 1 .. MaxRevisions /\ a.revision <= Rev(u)
    BY <1>2 DEF TrueOf, Answers, Rev
  <2>2. a.revision \in 1 .. Rev(u) /\ a.revision <= Len(past'[u])
    BY <1>1, <2>1, HistoryEntries, SyncAssumption DEF SyncAssumption, ServicesTyped
  <2> QED
    BY <1>1, <1>2, <2>1, <2>2 DEF TrueOf
<1> QED
  BY <1>1, <1>2

\* What was stored once stays known.
LEMMA StoredStays ==
  ASSUME ServicesTyped, Grows, NEW i, EverStored(i)
  PROVE  EverStored(i)'
<1>1. PICK u \in Urls : \E r \in 1 .. Rev(u) : i \in past[u][r].doc
  BY DEF EverStored
<1>2. PICK r \in 1 .. Rev(u) : i \in past[u][r].doc
  BY <1>1
<1>3. past'[u][r] = past[u][r] /\ r \in 1 .. Rev(u)'
  BY <1>2, PastStays, HistoryEntries DEF Grows, Rev
<1> QED
  BY <1>2, <1>3 DEF EverStored

\* The page is as true of the services as it was.
LEMMA PageOutlivesGrowth ==
  ASSUME SyncInv, ServicesSound', Grows, UNCHANGED page
  PROVE  PageTyped' /\ PageSound' /\ AckedStored'
<1>0. ServicesTyped /\ PageTyped /\ PageSound /\ AckedStored
  BY DEF SyncInv, ServicesSound
<1>1. PageTyped'
  BY <1>0 DEF PageTyped
<1>2. page.base \in Urls /\ page.acked.url \in Urls /\ page.revision \in 0 .. MaxRevisions
      /\ (page.choice # None => page.choice \in Decisions)
  BY <1>0 DEF PageTyped, Pages
<1>3. PageSound'
  <2>1. ASSUME page.revision # 0
        PROVE  page.revision <= Rev(page.base)' /\ page.saw = past'[page.base][page.revision].doc
    <3>1. page.revision \in 1 .. Rev(page.base)
      BY <1>0, <1>2, <2>1, HistoryEntries DEF PageSound
    <3> QED
      BY <1>0, <1>2, <2>1, <3>1, PastStays, HistoryEntries DEF PageSound, Rev, Grows
  <2>2. ASSUME page.choice # None
        PROVE  /\ page.choice.revision <= Rev(page.base)'
               /\ page.choice.state = State(past'[page.base][page.choice.revision].doc,
                                            past'[page.base][page.choice.revision].voc)
    <3>1. page.choice.revision \in 1 .. Rev(page.base)
      BY <1>0, <1>2, <2>2, HistoryEntries DEF PageSound, Decisions
    <3> QED
      BY <1>0, <1>2, <2>2, <3>1, PastStays, HistoryEntries DEF PageSound, Rev, Grows
  <2> QED
    BY <2>1, <2>2 DEF PageSound
<1>4. AckedStored'
  <2>1. BundlesHeld'
    BY <1>0, <1>2, PastStays DEF AckedStored, BundlesHeld
  <2>2. ASSUME page.baseline # None, NEW i \in page.baseline.doc PROVE EverStored(i)'
    BY <1>0, <2>2, StoredStays DEF AckedStored
  <2>3. ASSUME page.ack \in Acks, NEW i \in page.ack.state.doc PROVE EverStored(i)'
    BY <1>0, <2>3, StoredStays DEF AckedStored
  <2>4. page.seeded => page.ack \in Acks
    BY <1>0 DEF AckedStored
  <2> QED
    BY <2>1, <2>2, <2>3, <2>4 DEF AckedStored
<1> QED
  BY <1>1, <1>3, <1>4

\* Answers that were true stay so.
LEMMA ConnectionStays ==
  ASSUME SyncInv, Grows, UNCHANGED conn
  PROVE  ConnectionAnswered'
<1>1. conn \in Tasks /\ (conn.pc # "idle" => conn.q = Get(page)) /\ page.base \in Urls
  BY DEF SyncInv, ConnectionShaped, PageTyped, Pages
<1>2. conn.pc # "idle" => conn.q.url \in Urls
  BY <1>1 DEF Get
<1>3. ServicesTyped /\ ConnectionAnswered
  BY DEF SyncInv, ServicesSound
<1> QED
  BY <1>2, <1>3, PastStays DEF ConnectionAnswered, Got

\* The running job has sent what its program counter says, on a revision there was.
LEMMA SentTo ==
  ASSUME SyncInv, run.pc \in Waits
  PROVE  /\ run.q \in Requests /\ run.q.url \in Urls /\ run.q \in SentBy(run.pc)
         /\ run.pc \in {"bundle", "put"} =>
              run.q.basis \in 1 .. Rev(run.q.url) /\ run.q.op = run.pc
         /\ run.q.op \in {"bundle", "put"} => run.pc = run.q.op
<1>1. run.q \in SentBy(run.pc) /\ SentSeen
  BY DEF SyncInv, JobShaped
<1>2. run.q \in Requests /\ run.q.url \in Urls
  BY <1>1 DEF SentBy, Requests, Gets, BundlePuts, DocumentPuts, RestorePosts
<1>3. ServicesTyped
  BY DEF SyncInv, ServicesSound
<1>4. run.pc \in {"bundle", "put"} => run.q.basis \in 1 .. MaxRevisions /\ run.q.op = run.pc
  BY <1>1 DEF SentBy, BundlePuts, DocumentPuts
<1>5. run.q.op \in {"bundle", "put"} => run.pc = run.q.op
  <2>1. CASE run.pc \in {"bundle", "put"}
    BY <1>4, <2>1
  <2>2. CASE run.pc = "restore"
    BY <1>1, <2>2 DEF SentBy, RestorePosts
  <2>3. CASE run.pc \notin {"bundle", "put", "restore"}
    <3>1. run.q \in Gets
      BY <1>1, <2>3 DEF SentBy
    <3> QED
      BY <3>1 DEF Gets
  <2> QED
    BY <2>1, <2>2, <2>3
<1>6. run.pc \in {"bundle", "put"} => run.q.basis \in 1 .. Rev(run.q.url)
  BY <1>1, <1>2, <1>3, <1>4, HistoryEntries, SyncAssumption DEF SentSeen, SyncAssumption
<1> QED
  BY <1>1, <1>2, <1>4, <1>5, <1>6

\* What the running job was told stays true while the services go on.
LEMMA JobStays ==
  ASSUME SyncInv, ServicesSound', Grows, UNCHANGED run
  PROVE  JobAnswered' /\ SentSeen'
<1>1. ServicesTyped /\ JobAnswered /\ SentSeen
  BY DEF SyncInv, ServicesSound
<1>2. SentSeen'
  BY <1>1, SentTo, PastStays, HistoryEntries DEF SentSeen, Waits, Rev, Grows
<1>3. JobAnswered'
  <2> SUFFICES ASSUME run.pc \in Waits, Got(run)
               PROVE  LET h == past'[run.q.url] IN
                      /\ TrueOf(h, run.reply)
                      /\ run.pc = "bundle" /\ run.reply.code = "ok" =>
                           /\ run.q.track \in h[run.reply.revision].bundles
                           /\ h[run.reply.revision].doc = h[run.q.basis].doc
                      /\ run.pc = "put" /\ run.reply.code \in {"ok", "reconciled"} =>
                           h[run.reply.revision].doc = run.q.sent.doc
    BY DEF JobAnswered, Got
  <2>1. run.q.url \in Urls /\ TrueOf(past[run.q.url], run.reply)
    BY <1>1, SentTo DEF JobAnswered
  <2>2. run.reply.revision \in 1 .. Rev(run.q.url)
    BY <1>1, <2>1, HistoryEntries DEF TrueOf, Answers, Rev
  <2>3. past'[run.q.url][run.reply.revision] = past[run.q.url][run.reply.revision]
    BY <1>1, <2>1, <2>2, PastStays
  <2>4. run.pc = "bundle" => past'[run.q.url][run.q.basis] = past[run.q.url][run.q.basis]
    BY <1>1, <2>1, PastStays, SentTo
  <2>5. TrueOf(past'[run.q.url], run.reply)
    BY <1>1, <2>1, PastStays
  <2> QED
    BY <1>1, <2>3, <2>4, <2>5 DEF JobAnswered
<1> QED
  BY <1>2, <1>3

\* An answer, or none, arrives at the job, the connection or nobody; the rest stays.
LEMMA AnswerKeeps ==
  ASSUME SyncInv, ServicesSound', Grows, UNCHANGED <<page, tail>>,
         ConnectionAnswered', JobAnswered',
         \/ run' = run
         \/ /\ run.pc \in Waits /\ run' \in Tasks
            /\ run'.pc = run.pc /\ run'.q = run.q /\ run'.track = run.track,
         \/ conn' = conn
         \/ /\ conn.pc \in {"state", "load"} /\ conn' \in Tasks
            /\ conn'.pc = conn.pc /\ conn'.q = conn.q,
         stray' \in {stray, Idle}
  PROVE  SyncInv'
<1>1. PageTyped' /\ PageSound' /\ AckedStored'
  BY PageOutlivesGrowth
<1>2. run'.pc = run.pc /\ conn'.pc = conn.pc /\ conn'.q = conn.q
      /\ (run' # Idle => run # Idle) /\ (run.pc \in Waits => run'.q = run.q)
  BY TasksApart
<1>3. QueueTyped'
  BY <1>2 DEF SyncInv, QueueTyped
<1>4. JobShaped' /\ ConnectionShaped' /\ StrayShaped'
  <2>1. JobShaped /\ ConnectionShaped /\ StrayShaped
    BY DEF SyncInv
  <2>2. run' \in Tasks /\ conn' \in Tasks /\ stray' \in Tasks
    BY <2>1, TasksApart DEF JobShaped, ConnectionShaped, StrayShaped
  <2>3. JobShaped'
    BY <1>2, <2>1, <2>2, TasksApart DEF JobShaped
  <2>4. ConnectionShaped'
    BY <1>2, <2>1, <2>2 DEF ConnectionShaped, Get
  <2>5. StrayShaped'
    BY <2>1, <2>2 DEF StrayShaped
  <2> QED
    BY <2>3, <2>4, <2>5
<1>5. SentSeen'
  <2>1. SentSeen /\ ServicesTyped
    BY DEF SyncInv, ServicesSound
  <2>2. CASE run.pc \in {"bundle", "put"}
    <3>1. run.pc \in Waits /\ run'.q = run.q /\ run.q.url \in Urls
      BY <1>2, <2>2, SentTo DEF Waits
    <3>2. run.q.basis \in 1 .. Rev(run.q.url)
      BY <2>2, <3>1, SentTo
    <3>3. /\ past'[run.q.url][run.q.basis] = past[run.q.url][run.q.basis]
          /\ Rev(run.q.url) <= Len(past'[run.q.url])
      BY <2>1, <3>1, <3>2, PastStays
    <3>4. run.q.basis <= Len(past'[run.q.url])
      BY <2>1, <3>1, <3>2, <3>3, HistoryEntries DEF ServicesSound, ServicesTyped, Rev
    <3> QED
      BY <1>2, <2>1, <3>1, <3>3, <3>4 DEF SentSeen, Rev
  <2>3. CASE run.pc \notin {"bundle", "put"}
    BY <1>2, <2>3 DEF SentSeen
  <2> QED
    BY <2>2, <2>3
<1>6. QueueSound'
  BY <1>2 DEF SyncInv, QueueSound, Job, Saving
<1>7. UndecidedRests'
  BY <1>2 DEF SyncInv, UndecidedRests, Undecided, Job
<1>8. KeptSound'
  BY <1>2 DEF SyncInv, KeptSound
<1>9. LiveSound'
  BY <1>2 DEF SyncInv, LiveSound, Job, Saving, Waits
<1> QED
  BY <1>1, <1>3, <1>4, <1>5, <1>6, <1>7, <1>8, <1>9 DEF SyncInv

\* A step that leaves the services alone.
LEMMA ServicesStay ==
  ASSUME ServicesSound, UNCHANGED services
  PROVE  ServicesSound' /\ Grows
  BY HistoryEntries DEF services, ServicesSound, ServicesTyped, ServiceSound, Rev, Latest, Grows

\* A job that awaits an answer has sent something.
LEMMA AwaitingJob ==
  ASSUME SyncInv, Awaiting(run)
  PROVE  run.pc \in Waits /\ run \in Tasks
  BY DEF SyncInv, JobShaped, Awaiting, Waits

\* An answer changes nothing else of the job that awaits it.
LEMMA AnsweredTask ==
  ASSUME NEW x \in Tasks, NEW r \in Answers \cup {Lost}
  PROVE  LET y == [x EXCEPT !.reply = r] IN
         y \in Tasks /\ y.pc = x.pc /\ y.q = x.q /\ y.track = x.track /\ y.reply = r
  BY DEF Tasks

\* A service executes a request of the running job.
LEMMA ServeJobKeeps ==
  ASSUME SyncInv, ServeJob
  PROVE  SyncInv'
<1>1. run.pc \in Waits /\ run \in Tasks
  BY AwaitingJob DEF ServeJob
<1>2. run.q \in Requests /\ run.q.url \in Urls
  BY <1>1, SentTo
<1>3. PICK r \in {Reply(run.q), Lost} : run' = [run EXCEPT !.reply = r]
  BY DEF ServeJob
<1>4. /\ ServicesSound' /\ Grows
      /\ TrueOf(past'[run.q.url], Reply(run.q))
      /\ run.q.op = "bundle" /\ Reply(run.q).code = "ok" =>
           /\ run.q.track \in past'[run.q.url][Reply(run.q).revision].bundles
           /\ past'[run.q.url][Reply(run.q).revision].doc = past'[run.q.url][run.q.basis].doc
      /\ run.q.op = "put" /\ Reply(run.q).code \in {"ok", "reconciled"} =>
           past'[run.q.url][Reply(run.q).revision].doc = run.q.sent.doc
  BY <1>2, ReplyTrue DEF SyncInv, ServeJob
<1>5. /\ run' \in Tasks /\ run'.pc = run.pc /\ run'.q = run.q
      /\ run'.track = run.track /\ run'.reply = r
  BY <1>1, <1>3, <1>4, AnsweredTask DEF TrueOf
<1>6. JobAnswered'
  BY <1>1, <1>3, <1>4, <1>5, SentTo DEF JobAnswered, Got
<1>7. UNCHANGED <<page, tail, conn, stray>>
  BY DEF ServeJob
<1> QED
  BY <1>1, <1>4, <1>5, <1>6, <1>7, ConnectionStays, AnswerKeeps

\* A service answers the connection.
LEMMA ServeConnectKeeps ==
  ASSUME SyncInv, ServeConnect
  PROVE  SyncInv'
<1>1. conn.pc \in {"state", "load"} /\ conn \in Tasks /\ conn.q = Get(page) /\ page.base \in Urls
  BY DEF SyncInv, ConnectionShaped, ServeConnect, Awaiting, PageTyped, Pages
<1>2. conn.q \in Requests /\ conn.q.op = "get" /\ conn.q.url \in Urls
  BY <1>1 DEF Get, Requests, Gets
<1>3. UNCHANGED <<past, lastDoc, page, tail, run, stray>>
  BY DEF ServeConnect, services
<1>4. Execute(conn.q) /\ ServicesSound
  BY <1>2, <1>3 DEF Execute, Writes, SyncInv, services
<1>5. ServicesSound' /\ Grows /\ TrueOf(past'[conn.q.url], Reply(conn.q))
  BY <1>2, <1>4, ReplyTrue
<1>6. PICK r \in {Reply(conn.q), Lost} : conn' = [conn EXCEPT !.reply = r]
  BY DEF ServeConnect
<1>7. conn' \in Tasks /\ conn'.pc = conn.pc /\ conn'.q = conn.q /\ conn'.reply = r
  BY <1>1, <1>5, <1>6, AnsweredTask DEF TrueOf
<1>8. ConnectionAnswered'
  BY <1>5, <1>6, <1>7 DEF ConnectionAnswered, Got
<1> QED
  BY <1>1, <1>3, <1>5, <1>7, <1>8, JobStays, AnswerKeeps

\* The request never arrives.
LEMMA LoseRequestKeeps ==
  ASSUME SyncInv, LoseRequest
  PROVE  SyncInv'
<1>1. run.pc \in Waits /\ run \in Tasks
  BY AwaitingJob DEF LoseRequest
<1>2. UNCHANGED <<past, lastDoc, page, tail, conn, stray>> /\ run' = [run EXCEPT !.reply = Lost]
  BY DEF LoseRequest, services
<1>3. ServicesSound' /\ Grows
  BY <1>2, ServicesStay DEF SyncInv, services
<1>4. /\ run' \in Tasks /\ run'.pc = run.pc /\ run'.q = run.q
      /\ run'.track = run.track /\ run'.reply = Lost
  BY <1>1, <1>2, AnsweredTask
<1>5. JobAnswered'
  BY <1>4 DEF JobAnswered, Got
<1> QED
  BY <1>1, <1>2, <1>3, <1>4, <1>5, ConnectionStays, AnswerKeeps

\* A request of a page that is gone is executed.
LEMMA ServeStrayKeeps ==
  ASSUME SyncInv, ServeStray
  PROVE  SyncInv'
<1>1. stray.q \in Requests
  BY DEF SyncInv, StrayShaped, ServeStray
<1>2. UNCHANGED <<page, tail, run, conn>> /\ stray' = Idle /\ Execute(stray.q)
  BY DEF ServeStray
<1>3. ServicesSound' /\ Grows
  BY <1>1, <1>2, ReplyTrue DEF SyncInv
<1> QED
  BY <1>2, <1>3, ConnectionStays, JobStays, AnswerKeeps

\* Another browser saves, or an operation is applied.
LEMMA ElsewhereKeeps ==
  ASSUME SyncInv, Elsewhere
  PROVE  SyncInv'
<1>1. UNCHANGED <<page, tail, run, conn, stray>>
  BY DEF Elsewhere, OtherSave, ApplyOperation
<1>2. ServicesSound' /\ Grows
  <2>1. CASE OtherSave
    <3>1. PICK u \in Urls, o \in Others :
            Commit(u, [Latest(u) EXCEPT !.doc = @ \cup {o}, !.op = None])
      BY <2>1 DEF OtherSave
    <3> DEFINE e == [Latest(u) EXCEPT !.doc = @ \cup {o}, !.op = None]
    <3>2. Latest(u) \in Entries /\ Latest(u).doc \cap Tracks \subseteq Latest(u).bundles
      BY HistoryEntries DEF SyncInv, ServicesSound, ServiceSound, Latest
    <3>3. e \in Entries /\ e.doc = Latest(u).doc \cup {o} /\ e.bundles = Latest(u).bundles /\ e.op = None
      BY <3>2 DEF Entries, Items
    <3>4. o \notin Tracks
      BY SyncAssumption DEF SyncAssumption
    <3> QED
      BY <3>1, <3>2, <3>3, <3>4, CommitSound DEF SyncInv
  <2>2. CASE ApplyOperation
    <3>1. PICK u \in Urls, o \in Ops :
            Commit(u, [Latest(u) EXCEPT !.voc = IF o \in @ THEN @ \ {o} ELSE @ \cup {o}, !.op = o])
      BY <2>2 DEF ApplyOperation
    <3> DEFINE e == [Latest(u) EXCEPT !.voc = IF o \in @ THEN @ \ {o} ELSE @ \cup {o}, !.op = o]
    <3>2. Latest(u) \in Entries /\ Latest(u).doc \cap Tracks \subseteq Latest(u).bundles
      BY HistoryEntries DEF SyncInv, ServicesSound, ServiceSound, Latest
    <3>3. e \in Entries /\ e.doc = Latest(u).doc /\ e.bundles = Latest(u).bundles
      BY <3>2 DEF Entries, Rows
    <3> QED
      BY <3>1, <3>2, <3>3, CommitSound DEF SyncInv
  <2> QED
    BY <2>1, <2>2 DEF Elsewhere
<1> QED
  BY <1>1, <1>2, ConnectionStays, JobStays, AnswerKeeps

-----------------------------------------------------------------------------
(***************************************************************************)
(* Steps of the page: the services stay.  What the parts of the invariant  *)
(* owe to what a step leaves alone.                                        *)
(***************************************************************************)

\* What is left of the job's invariants when neither it nor a service moves.
LEMMA JobRests ==
  ASSUME SyncInv, UNCHANGED <<services, run>>
  PROVE  ServicesSound' /\ JobShaped' /\ JobAnswered' /\ SentSeen'
<1>1. ServicesSound' /\ Grows
  BY ServicesStay DEF SyncInv
<1>2. JobShaped'
  BY DEF SyncInv, JobShaped
<1> QED
  BY <1>1, <1>2, JobStays

\* The job's invariants when it ends.
LEMMA JobEnds ==
  ASSUME SyncInv, UNCHANGED services, run' = Idle
  PROVE  ServicesSound' /\ JobShaped' /\ JobAnswered' /\ SentSeen'
<1>1. ServicesSound'
  BY ServicesStay DEF SyncInv
<1>2. run'.pc = "idle" /\ run' \in Tasks
  BY TasksApart
<1> QED
  BY <1>1, <1>2, TasksApart DEF JobShaped, JobAnswered, SentSeen

\* The page stays at its address.
LEMMA ConnectionRests ==
  ASSUME SyncInv, UNCHANGED <<services, conn>>, page'.base = page.base
  PROVE  ConnectionShaped' /\ ConnectionAnswered'
<1>1. Grows
  BY ServicesStay DEF SyncInv
<1>2. ConnectionShaped'
  BY DEF SyncInv, ConnectionShaped, Get
<1> QED
  BY <1>1, <1>2, ConnectionStays

\* The connection's invariants when it ends.
LEMMA ConnectionEnds ==
  ASSUME conn' = Idle
  PROVE  ConnectionShaped' /\ ConnectionAnswered'
<1>1. conn'.pc = "idle" /\ conn' \in Tasks
  BY TasksApart
<1> QED
  BY <1>1 DEF ConnectionShaped, ConnectionAnswered, Got

\* The invariant of the request nobody awaits when it stays.
LEMMA StrayRests ==
  ASSUME SyncInv, UNCHANGED stray
  PROVE  StrayShaped'
  BY DEF SyncInv, StrayShaped

\* The page's own facts, as the steps below cite them.
LEMMA PageFacts ==
  ASSUME SyncInv
  PROVE  /\ page \in Pages /\ page.base \in Urls /\ page.revision \in 0 .. MaxRevisions
         /\ page.doc \in SUBSET Items /\ page.cues \in SUBSET Tracks
         /\ page.intent \in Contents \cup {None} /\ Content(page) \in Contents
         /\ Comparison(page) \in Comparisons
         /\ (page.choice # None =>
               /\ page.choice \in Decisions /\ page.choice.state \in Contents
               /\ page.choice.revision \in 1 .. MaxRevisions)
         /\ page.restore \in Bindings \cup {NoRestore}
         /\ page.acked.url \in Urls /\ page.acked.tracks \in SUBSET Tracks
<1>1. page \in Pages
  BY DEF SyncInv, PageTyped
<1>2. Content(page) \in Contents
  BY <1>1 DEF Pages, Content, State, Contents
<1> QED
  BY <1>1, <1>2 DEF Pages, Comparison, Comparisons, Decisions

\* What there is to know of the queue and of the job at its head.
LEMMA QueueFacts ==
  ASSUME SyncInv
  PROVE  /\ tail \in Seq(QueuedJobs) /\ Len(tail) \in Nat /\ DOMAIN tail = 1 .. Len(tail)
         /\ \A i \in 1 .. Len(tail) : tail[i] \in QueuedJobs
         /\ tail # <<>> => 1 \in DOMAIN tail /\ Job = tail[1] /\ Job \in QueuedJobs /\ Len(tail) >= 1
         /\ run # Idle => tail # <<>>
         /\ run.pc # "idle" => run # Idle
<1>1. tail \in Seq(QueuedJobs) /\ (run # Idle => tail # <<>>)
  BY DEF SyncInv, QueueTyped
<1> QED
  BY <1>1, TasksApart DEF Job

\* A job is added.
LEMMA Enqueued ==
  ASSUME SyncInv, NEW job \in QueuedJobs, Enqueue(job), job.live => job.linked
  PROVE  /\ Len(tail') = Len(tail) + 1 /\ tail'[Len(tail) + 1] = job
         /\ \A i \in 1 .. Len(tail) : tail'[i] = tail[i]
         /\ DOMAIN tail' = 1 .. Len(tail) + 1
         /\ tail # <<>> => Head(tail') = Job
         /\ (UNCHANGED run => QueueTyped')
<1>1. tail' = Append(tail, job) /\ Len(tail) < MaxQueue /\ tail \in Seq(QueuedJobs)
  BY QueueFacts DEF Enqueue
<1>2. /\ Len(tail') = Len(tail) + 1 /\ tail'[Len(tail) + 1] = job /\ tail' \in Seq(QueuedJobs)
      /\ \A i \in 1 .. Len(tail) : tail'[i] = tail[i]
      /\ DOMAIN tail' = 1 .. Len(tail) + 1
  BY <1>1
<1>3. tail # <<>> => Head(tail') = Job
  BY <1>1, <1>2 DEF Job
<1>4. ASSUME UNCHANGED run PROVE QueueTyped'
  <2>1. Len(tail') <= MaxQueue /\ tail' # <<>>
    BY <1>1, <1>2, SyncAssumption DEF SyncAssumption
  <2>2. \A i \in DOMAIN tail' : tail'[i].live => tail'[i].linked
    BY <1>1, <1>2 DEF SyncInv, QueueTyped
  <2> QED
    BY <1>2, <2>1, <2>2 DEF QueueTyped
<1> QED
  BY <1>2, <1>3, <1>4

\* The job that ran is taken off.
LEMMA Popped ==
  ASSUME SyncInv, tail # <<>>
  PROVE  LET t == Tail(tail) IN
         /\ t \in Seq(QueuedJobs) /\ Len(t) = Len(tail) - 1 /\ Len(t) <= MaxQueue
         /\ DOMAIN t = 1 .. Len(tail) - 1
         /\ \A i \in DOMAIN t : i + 1 \in DOMAIN tail /\ i + 1 \in 1 .. Len(tail) /\ t[i] = tail[i + 1]
<1>1. tail \in Seq(QueuedJobs) /\ Len(tail) <= MaxQueue /\ Len(tail) >= 1
  BY QueueFacts DEF SyncInv, QueueTyped
<1> QED
  BY <1>1, SyncAssumption DEF SyncAssumption

\* The queue without its first job.
LEMMA PoppedQueue ==
  ASSUME SyncInv, tail # <<>>, Finish
  PROVE  QueueTyped'
<1>1. tail' = Tail(tail) /\ run' = Idle
  BY DEF Finish
<1> QED
  BY <1>1, Popped DEF SyncInv, QueueTyped

\* Commits that wait lose the page's record.
LEMMA OrphanedQueue ==
  ASSUME NEW t \in Seq(QueuedJobs)
  PROVE  LET o == Orphaned(t) IN
         /\ o \in Seq(QueuedJobs) /\ Len(o) = Len(t) /\ DOMAIN o = DOMAIN t
         /\ \A i \in DOMAIN t :
              /\ o[i].kind = t[i].kind /\ o[i].live = t[i].live /\ o[i].linked = t[i].linked
              /\ o[i].mode = t[i].mode /\ o[i].before = t[i].before
              /\ o[i].binding = t[i].binding
              /\ o[i].mine => t[i].mine /\ t[i].kind # "commit"
<1>1. \A i \in 1 .. Len(t) : t[i] \in QueuedJobs
  OBVIOUS
<1>2. \A i \in 1 .. Len(t) : [t[i] EXCEPT !.mine = FALSE] \in QueuedJobs
  BY <1>1 DEF QueuedJobs
<1>3. Orphaned(t) = [i \in 1 .. Len(t) |->
                      IF t[i].kind = "commit" THEN [t[i] EXCEPT !.mine = FALSE] ELSE t[i]]
  BY DEF Orphaned
<1>4. Orphaned(t) \in Seq(QueuedJobs) /\ Len(Orphaned(t)) = Len(t)
  BY <1>1, <1>2, <1>3
<1> QED
  BY <1>1, <1>3, <1>4 DEF QueuedJobs

\* Every job under way is superseded.
LEMMA SupersededQueue ==
  ASSUME SyncInv, NEW p, NEW transport \in BOOLEAN, Supersede(p, transport)
  PROVE  /\ tail' \in Seq(QueuedJobs) /\ Len(tail') = Len(tail) /\ DOMAIN tail' = DOMAIN tail
         /\ \A i \in DOMAIN tail :
              /\ tail'[i].kind = tail[i].kind /\ ~tail'[i].live
              /\ tail'[i].mode = tail[i].mode /\ tail'[i].before = tail[i].before
              /\ tail'[i].binding = tail[i].binding /\ tail'[i].mine = tail[i].mine
         /\ tail # <<>> => tail' # <<>> /\ Head(tail') = tail'[1] /\ 1 \in DOMAIN tail
         /\ tail = <<>> => tail' = <<>>
<1> DEFINE ended(i) == [tail[i] EXCEPT !.live = FALSE, !.linked = tail[i].linked /\ transport]
<1>1. tail \in Seq(QueuedJobs) /\ \A i \in 1 .. Len(tail) : tail[i] \in QueuedJobs
  BY QueueFacts
<1>2. tail' = [i \in 1 .. Len(tail) |-> ended(i)]
  BY QueueFacts DEF Supersede
<1>3. \A i \in 1 .. Len(tail) : tail[i].linked \in BOOLEAN
  BY <1>1 DEF QueuedJobs
<1>4. \A i \in 1 .. Len(tail) : ended(i) \in QueuedJobs
  BY <1>1, <1>3 DEF QueuedJobs
<1>a. \A i \in 1 .. Len(tail) :
        /\ ended(i).kind = tail[i].kind /\ ~ended(i).live
        /\ ended(i).mode = tail[i].mode /\ ended(i).before = tail[i].before
        /\ ended(i).binding = tail[i].binding /\ ended(i).mine = tail[i].mine
  BY <1>1 DEF QueuedJobs
<1> HIDE DEF ended
<1>5. tail' \in Seq(QueuedJobs) /\ Len(tail') = Len(tail)
  BY <1>1, <1>2, <1>4
<1>6. \A i \in 1 .. Len(tail) :
        /\ tail'[i].kind = tail[i].kind /\ ~tail'[i].live
        /\ tail'[i].mode = tail[i].mode /\ tail'[i].before = tail[i].before
        /\ tail'[i].binding = tail[i].binding /\ tail'[i].mine = tail[i].mine
  BY <1>1, <1>2, <1>a
<1>7. DOMAIN tail' = DOMAIN tail /\ DOMAIN tail = 1 .. Len(tail)
  BY <1>1, <1>5
<1>8. tail # <<>> => tail' # <<>> /\ Head(tail') = tail'[1] /\ 1 \in DOMAIN tail
  BY <1>1, <1>5
<1>9. tail = <<>> => tail' = <<>>
  BY <1>1, <1>5
<1> QED
  BY <1>1, <1>5, <1>6, <1>7, <1>8, <1>9

-----------------------------------------------------------------------------
(***************************************************************************)
(* The learner's work and the answer to the comparison: the page alone.    *)
(***************************************************************************)

\* What is left to show of a step that changes the page alone and not its address.
LEMMA PageStep ==
  ASSUME SyncInv, UNCHANGED <<services, tail, run, conn, stray>>, page'.base = page.base,
         PageTyped', WaitingSound(tail, page'.restore.phase),
         UndecidedRests', PageSound', KeptSound', LiveSound', AckedStored'
  PROVE  SyncInv'
<1>1. ServicesSound' /\ JobShaped' /\ JobAnswered' /\ SentSeen'
  BY JobRests
<1>2. ConnectionShaped' /\ ConnectionAnswered'
  BY ConnectionRests
<1>3. StrayShaped'
  BY StrayRests
<1>4. QueueTyped' /\ QueueSound'
  BY DEF SyncInv, QueueTyped, QueueSound, Job
<1> QED
  BY <1>1, <1>2, <1>3, <1>4 DEF SyncInv

\* Services that stay hold what they held.
LEMMA EverStays ==
  ASSUME UNCHANGED services, NEW i, EverStored(i)
  PROVE  EverStored(i)'
  BY DEF EverStored, services, Rev

\* Work that is added to the page, and rows that arrive.
LEMMA WorkKeeps ==
  ASSUME SyncInv, UNCHANGED <<services, tail, run, conn, stray>>, page' \in Pages,
         page'.base = page.base, page'.revision = page.revision, page'.saw = page.saw,
         page'.kept = page.kept, page'.choice = page.choice, page'.seeded = page.seeded,
         page'.intent = page.intent, page'.acked = page.acked, page'.restore = page.restore,
         page'.status = page.status, page.doc \subseteq page'.doc,
         page'.baseline # None => page.baseline # None /\ page'.baseline.doc = page.baseline.doc,
         page.ack \in Acks <=> page'.ack \in Acks,
         page.ack \in Acks => page'.ack.state.doc = page.ack.state.doc,
         page.sync = "choice" => page'.sync = "choice",
         page'.sync \in {"saved", "idle"} => page'.sync = page.sync /\ page'.doc = page.doc
  PROVE  SyncInv'
<1>1. PageTyped'
  BY DEF SyncInv, PageTyped
<1>2. WaitingSound(tail, page'.restore.phase)
  BY DEF SyncInv, QueueSound
<1>3. UndecidedRests'
  BY DEF SyncInv, UndecidedRests, Undecided, Job
<1>4. PageSound'
  BY DEF SyncInv, PageSound, services, Rev
<1>5. KeptSound'
  BY DEF SyncInv, KeptSound
<1>6. LiveSound'
  BY DEF SyncInv, LiveSound, Job
<1>7. AckedStored'
  <2>1. BundlesHeld'
    BY DEF SyncInv, AckedStored, BundlesHeld, services, Latest, Rev
  <2> QED
    BY <2>1, EverStays DEF SyncInv, AckedStored
<1> QED
  BY <1>1, <1>2, <1>3, <1>4, <1>5, <1>6, <1>7, PageStep

\* Adding an item, a transcript or a row.
LEMMA EditKeeps ==
  ASSUME SyncInv, Edit \/ ImportTranscript \/ LocalCapture
  PROVE  SyncInv'
<1>1. /\ page \in Pages /\ (page.choice # None => page.sync = "choice")
  BY DEF SyncInv, PageTyped
<1>2. /\ UNCHANGED <<services, tail, run, conn, stray>>
      /\ \E d \in SUBSET Items, v \in SUBSET Rows, c \in SUBSET Tracks :
           /\ page.doc \subseteq d
           /\ page' = Edited([page EXCEPT !.doc = d, !.voc = v, !.cues = c])
  <2>1. CASE Edit
    <3>1. PICK e \in Edits : page' = Edited([page EXCEPT !.doc = page.doc \cup {e}])
      BY <2>1 DEF Edit
    <3>2. [page EXCEPT !.doc = page.doc \cup {e}] =
            [page EXCEPT !.doc = page.doc \cup {e}, !.voc = page.voc, !.cues = page.cues]
      BY <1>1 DEF Pages
    <3>3. /\ page.doc \cup {e} \in SUBSET Items /\ page.voc \in SUBSET Rows
          /\ page.cues \in SUBSET Tracks /\ page.doc \subseteq page.doc \cup {e}
      BY <1>1 DEF Pages, Items
    <3>4. UNCHANGED <<services, tail, run, conn, stray>>
      BY <2>1 DEF Edit
    <3> QED
      BY <3>1, <3>2, <3>3, <3>4
  <2>2. CASE ImportTranscript
    <3>1. PICK t \in Tracks :
            page' = Edited([page EXCEPT !.doc = page.doc \cup {t}, !.cues = page.cues \cup {t}])
      BY <2>2 DEF ImportTranscript
    <3>2. [page EXCEPT !.doc = page.doc \cup {t}, !.cues = page.cues \cup {t}] =
            [page EXCEPT !.doc = page.doc \cup {t}, !.voc = page.voc, !.cues = page.cues \cup {t}]
      BY <1>1 DEF Pages
    <3>3. /\ page.doc \cup {t} \in SUBSET Items /\ page.voc \in SUBSET Rows
          /\ page.cues \cup {t} \in SUBSET Tracks /\ page.doc \subseteq page.doc \cup {t}
      BY <1>1 DEF Pages, Items
    <3>4. UNCHANGED <<services, tail, run, conn, stray>>
      BY <2>2 DEF ImportTranscript
    <3> QED
      BY <3>1, <3>2, <3>3, <3>4
  <2>3. CASE LocalCapture
    <3>1. PICK o \in LocalRows : page' = Edited([page EXCEPT !.voc = page.voc \cup {o}])
      BY <2>3 DEF LocalCapture
    <3>2. [page EXCEPT !.voc = page.voc \cup {o}] =
            [page EXCEPT !.doc = page.doc, !.voc = page.voc \cup {o}, !.cues = page.cues]
      BY <1>1 DEF Pages
    <3>3. /\ page.doc \in SUBSET Items /\ page.voc \cup {o} \in SUBSET Rows
          /\ page.cues \in SUBSET Tracks /\ page.doc \subseteq page.doc
      BY <1>1 DEF Pages, Rows
    <3>4. UNCHANGED <<services, tail, run, conn, stray>>
      BY <2>3 DEF LocalCapture
    <3> QED
      BY <3>1, <3>2, <3>3, <3>4
  <2> QED
    BY <2>1, <2>2, <2>3
<1>3. PICK d \in SUBSET Items, v \in SUBSET Rows, c \in SUBSET Tracks :
        /\ page.doc \subseteq d
        /\ page' = Edited([page EXCEPT !.doc = d, !.voc = v, !.cues = c])
  BY <1>2
<1> DEFINE p == [page EXCEPT !.doc = d, !.voc = v, !.cues = c]
<1>4. /\ p \in Pages
      /\ p.base = page.base /\ p.revision = page.revision /\ p.saw = page.saw
      /\ p.kept = page.kept /\ p.choice = page.choice /\ p.seeded = page.seeded
      /\ p.intent = page.intent /\ p.acked = page.acked /\ p.restore = page.restore
      /\ p.status = page.status /\ p.doc = d /\ p.baseline = page.baseline
      /\ p.ack = page.ack /\ p.sync = page.sync
  BY <1>1 DEF Pages
<1>5. page' = Edited(p)
  BY <1>3
<1> HIDE DEF p
<1> QED
  BY <1>2, <1>3, <1>4, <1>5, EditedPage, WorkKeeps

\* A receipt brings one row up to date; the document stays.
LEMMA InstallReceiptKeeps ==
  ASSUME SyncInv, InstallReceipt
  PROVE  SyncInv'
<1>1. PICK r \in 2 .. Rev(page.base) :
        LET e == past[page.base][r] IN
        /\ e.op # None
        /\ page' = [ApplyRows(page, {e.op} \cap e.voc, {e.op} \ e.voc) EXCEPT !.rows[e.op] = r]
  BY DEF InstallReceipt
<1> DEFINE e == past[page.base][r]
           x == {e.op} \cap e.voc
           y == {e.op} \ e.voc
           p == ApplyRows(page, x, y)
<1>2. page \in Pages /\ page.base \in Urls /\ ServicesTyped
  BY PageFacts DEF SyncInv, ServicesSound
<1>3. Rev(page.base) <= MaxRevisions /\ Rev(page.base) \in Nat /\ r \in 1 .. Rev(page.base)
  BY <1>2, HistoryEntries
<1>4. e \in Entries /\ e.op \in Ops
  BY <1>1, <1>2, <1>3, HistoryEntries DEF Entries
<1>5. x \in SUBSET Rows /\ y \in SUBSET Rows
  BY <1>4 DEF Rows
<1>6. r \in 0 .. MaxRevisions
  BY <1>3, SyncAssumption DEF SyncAssumption
<1>7. page' = [p EXCEPT !.rows[e.op] = r]
  BY <1>1
<1> HIDE DEF e, x, y
<1>8. /\ p \in Pages
      /\ p.base = page.base /\ p.revision = page.revision /\ p.saw = page.saw
      /\ p.kept = page.kept /\ p.choice = page.choice /\ p.seeded = page.seeded
      /\ p.intent = page.intent /\ p.acked = page.acked /\ p.restore = page.restore
      /\ p.status = page.status /\ p.doc = page.doc /\ p.sync = page.sync
      /\ p.baseline # None => page.baseline # None /\ p.baseline.doc = page.baseline.doc
      /\ page.ack \in Acks <=> p.ack \in Acks
      /\ page.ack \in Acks => p.ack.state.doc = page.ack.state.doc
  BY <1>2, <1>5, ApplyRowsPage
<1> HIDE DEF p
<1>9. /\ page' \in Pages
      /\ page'.base = p.base /\ page'.revision = p.revision /\ page'.saw = p.saw
      /\ page'.kept = p.kept /\ page'.choice = p.choice /\ page'.seeded = p.seeded
      /\ page'.intent = p.intent /\ page'.acked = p.acked /\ page'.restore = p.restore
      /\ page'.status = p.status /\ page'.doc = p.doc /\ page'.baseline = p.baseline
      /\ page'.ack = p.ack /\ page'.sync = p.sync
  BY <1>4, <1>6, <1>7, <1>8 DEF Pages
<1>10. UNCHANGED <<services, tail, run, conn, stray>>
  BY DEF InstallReceipt
<1> QED
  BY <1>8, <1>9, <1>10, WorkKeeps

\* The learner keeps the browser's document against the one compared.
LEMMA KeepBrowserKeeps ==
  ASSUME SyncInv, KeepBrowser
  PROVE  SyncInv'
<1>1. /\ page.choice # None /\ UNCHANGED <<services, tail, run, conn, stray>>
      /\ page' = [page EXCEPT !.choice = None, !.revision = page.choice.revision,
                              !.saw = page.choice.state.doc, !.kept = TRUE, !.sync = "unsaved"]
  BY DEF KeepBrowser
<1>2. /\ page \in Pages /\ page.base \in Urls /\ page.choice.revision \in 1 .. MaxRevisions
      /\ page.choice.state \in Contents
  BY <1>1, PageFacts
<1>3. page.choice.revision \in 0 .. MaxRevisions /\ page.choice.state.doc \in SUBSET Items
  BY <1>2, RevisionBounds DEF Contents
<1>4. /\ page' \in Pages /\ page'.choice = None /\ page'.base = page.base
      /\ page'.revision = page.choice.revision /\ page'.saw = page.choice.state.doc
      /\ page'.kept = TRUE /\ page'.sync = "unsaved" /\ page'.baseline = page.baseline
      /\ page'.ack = page.ack /\ page'.seeded = page.seeded /\ page'.acked = page.acked
      /\ page'.restore = page.restore
  BY <1>1, <1>2, <1>3 DEF Pages
<1>5. conn.pc = "idle" /\ (run # Idle => ~Job.live)
  BY <1>1 DEF SyncInv, UndecidedRests, Undecided
<1>6. PageTyped'
  BY <1>4 DEF PageTyped
<1>7. WaitingSound(tail, page'.restore.phase)
  BY <1>4 DEF SyncInv, QueueSound
<1>8. UndecidedRests'
  BY <1>1, <1>4, <1>5 DEF UndecidedRests, Undecided
<1>9. PageSound'
  <2>1. /\ page.choice.revision <= Rev(page.base)
        /\ page.choice.state.doc = past[page.base][page.choice.revision].doc
    BY <1>1 DEF SyncInv, PageSound, State
  <2> QED
    BY <1>1, <1>4, <2>1 DEF PageSound, services, Rev
<1>10. KeptSound'
  BY <1>1, <1>4, <1>5 DEF KeptSound
<1>11. LiveSound'
  BY <1>1, <1>5 DEF LiveSound, Job
<1>12. AckedStored'
  <2>1. BundlesHeld'
    BY <1>1, <1>4 DEF SyncInv, AckedStored, BundlesHeld, services, Latest, Rev
  <2> QED
    BY <1>1, <1>4, <2>1, EverStays DEF SyncInv, AckedStored
<1> QED
  BY <1>1, <1>4, <1>6, <1>7, <1>8, <1>9, <1>10, <1>11, <1>12, PageStep

\* The comparison is asked again.
LEMMA ChooseAgainKeeps ==
  ASSUME SyncInv, ChooseAgain
  PROVE  SyncInv'
<1> DEFINE c == [page.choice EXCEPT !.before = Comparison(page)]
<1>1. /\ page.choice # None /\ UNCHANGED <<services, tail, run, conn, stray>>
      /\ page' = [page EXCEPT !.choice = c]
  BY DEF ChooseAgain
<1>2. /\ page \in Pages /\ Comparison(page) \in Comparisons /\ page.choice \in Decisions
      /\ page.sync = "choice"
  BY <1>1, PageFacts DEF SyncInv, PageTyped
<1>3. /\ c \in Decisions /\ c.revision = page.choice.revision /\ c.state = page.choice.state
  BY <1>2 DEF Decisions
<1> HIDE DEF c
<1>4. /\ page' \in Pages /\ page'.choice = c /\ page'.base = page.base
      /\ page'.revision = page.revision /\ page'.saw = page.saw /\ page'.kept = page.kept
      /\ page'.sync = page.sync /\ page'.status = page.status /\ page'.baseline = page.baseline
      /\ page'.ack = page.ack /\ page'.seeded = page.seeded /\ page'.acked = page.acked
      /\ page'.restore = page.restore /\ page'.doc = page.doc /\ page'.intent = page.intent
  BY <1>1, <1>2, <1>3 DEF Pages
<1>6. PageTyped'
  BY <1>2, <1>4 DEF PageTyped
<1>7. WaitingSound(tail, page'.restore.phase)
  BY <1>4 DEF SyncInv, QueueSound
<1>8. UndecidedRests'
  BY <1>1, <1>4 DEF SyncInv, UndecidedRests, Undecided, Job
<1>9. PageSound'
  BY <1>1, <1>3, <1>4 DEF SyncInv, PageSound, services, Rev
<1>10. KeptSound'
  BY <1>1, <1>4 DEF SyncInv, KeptSound
<1>11. LiveSound'
  BY <1>1, <1>4 DEF SyncInv, LiveSound, Job
<1>12. AckedStored'
  <2>1. BundlesHeld'
    BY <1>1, <1>4 DEF SyncInv, AckedStored, BundlesHeld, services, Latest, Rev
  <2> QED
    BY <1>1, <1>4, <2>1, EverStays DEF SyncInv, AckedStored
<1> QED
  BY <1>1, <1>4, <1>6, <1>7, <1>8, <1>9, <1>10, <1>11, <1>12, PageStep

\* What a restore is planned to leave.
LEMMA PlannedContent ==
  ASSUME NEW c \in Contents, NEW m
  PROVE  Planned(c, m) \in Contents /\ Planned(c, m).doc = c.doc
  BY DEF Planned, Contents, State, Rows

\* A restore of the session, disconnected.
LEMMA RestoreSessionKeeps ==
  ASSUME SyncInv, RestoreSession
  PROVE  SyncInv'
<1>1. PICK m \in Modes :
        page' = Edited([page EXCEPT !.voc = Planned(Content(page), m).voc,
                                    !.intent = Planned(Content(page), m), !.restore = NoRestore])
  BY DEF RestoreSession
<1> DEFINE c == Planned(Content(page), m)
           p == [page EXCEPT !.voc = c.voc, !.intent = c, !.restore = NoRestore]
<1>2. /\ ~Busy(page) /\ page.status = "disconnected" /\ page.revision = 0
      /\ UNCHANGED <<services, tail, run, conn, stray>>
  BY DEF RestoreSession
<1>3. page \in Pages /\ c \in Contents /\ page.base \in Urls
  BY PageFacts, PlannedContent
<1>4. page' = Edited(p)
  BY <1>1
<1> HIDE DEF c
<1>5. /\ p \in Pages /\ p.base = page.base /\ p.revision = page.revision /\ p.saw = page.saw
      /\ p.kept = page.kept /\ p.status = page.status /\ p.choice = page.choice
      /\ p.baseline = page.baseline /\ p.ack = page.ack /\ p.seeded = page.seeded
      /\ p.acked = page.acked /\ p.restore = NoRestore /\ p.sync = page.sync
  BY <1>3 DEF Pages, Contents
<1> HIDE DEF p
<1>6. /\ page' \in Pages /\ page'.base = page.base /\ page'.revision = page.revision
      /\ page'.saw = page.saw /\ page'.kept = page.kept /\ page'.status = page.status
      /\ page'.choice = page.choice /\ page'.baseline = page.baseline
      /\ page'.ack = page.ack /\ page'.seeded = page.seeded
      /\ page'.acked = page.acked /\ page'.restore = NoRestore
      /\ page'.sync \notin {"idle", "saved"}
      /\ page.sync = "choice" => page'.sync = "choice"
  BY <1>4, <1>5, EditedPage
<1>7. PageTyped'
  BY <1>6 DEF SyncInv, PageTyped
<1>8. WaitingSound(tail, page'.restore.phase)
  <2>1. page'.restore.phase = "none"
    BY <1>6 DEF NoRestore
  <2>2. page.restore.phase # "committing"
    BY <1>2 DEF Busy
  <2> QED
    BY <2>1, <2>2 DEF SyncInv, QueueSound, WaitingSound
<1>9. UndecidedRests'
  BY <1>2, <1>6 DEF SyncInv, UndecidedRests, Undecided, Job
<1>10. PageSound'
  BY <1>2, <1>6 DEF SyncInv, PageSound, services, Rev
<1>11. KeptSound'
  BY <1>2, <1>6 DEF SyncInv, KeptSound
<1>12. LiveSound'
  <2>1. run # Idle /\ Job.live => run.pc \notin {"bundle", "put", "verify", "flush", "preview"}
    BY <1>2 DEF SyncInv, LiveSound, Saving
  <2> QED
    BY <1>2, <1>6, <2>1 DEF SyncInv, LiveSound, Job, Saving
<1>13. AckedStored'
  <2>1. BundlesHeld'
    BY <1>2, <1>6 DEF SyncInv, AckedStored, BundlesHeld, services, Latest, Rev
  <2> QED
    BY <1>2, <1>6, <2>1, EverStays DEF SyncInv, AckedStored
<1> QED
  BY <1>2, <1>6, <1>7, <1>8, <1>9, <1>10, <1>11, <1>12, <1>13, PageStep

-----------------------------------------------------------------------------
(***************************************************************************)
(* A job is put in the queue.                                              *)
(***************************************************************************)

\* What is left to show of a step that adds a job.
LEMMA EnqueueStep ==
  ASSUME SyncInv, NEW job \in QueuedJobs, Enqueue(job), job.live => job.linked,
         UNCHANGED <<services, run, conn, stray>>, page'.base = page.base,
         page.restore.phase \notin {"committing", "unknown"},
         page'.restore.phase # "unknown",
         job.kind = "preview" => job.before \in Comparisons /\ job.mode \in Modes,
         job.kind = "commit" => job.binding \in Bindings,
         job.mine => job.kind = "commit" /\ page'.restore.phase = "committing",
         page'.choice \in {page.choice, None},
         Undecided' => Undecided /\ page'.revision = 0 /\ job.kind = "preview",
         PageTyped', PageSound', KeptSound', AckedStored',
         (run # Idle => Job' = Job) => LiveSound'
  PROVE  SyncInv'
<1>1. ServicesSound' /\ JobShaped' /\ JobAnswered' /\ SentSeen'
  BY JobRests
<1>2. ConnectionShaped' /\ ConnectionAnswered'
  BY ConnectionRests
<1>3. StrayShaped'
  BY StrayRests
<1>4. /\ Len(tail) \in Nat /\ Len(tail') = Len(tail) + 1 /\ tail'[Len(tail) + 1] = job
      /\ \A i \in 1 .. Len(tail) : tail'[i] = tail[i]
      /\ DOMAIN tail' = 1 .. Len(tail) + 1 /\ DOMAIN tail = 1 .. Len(tail)
      /\ tail # <<>> => Job' = Job
      /\ QueueTyped'
  BY Enqueued, QueueFacts DEF Job
<1>5. run # Idle => Job' = Job
  BY <1>4, QueueFacts
<1>6. QueueSound'
  <2>1. /\ run.pc \in Saving => Job'.kind = "save"
        /\ run.pc \in {"load", "preview"} => Job'.kind = run.pc
        /\ run.pc \in {"restore", "readback"} => Job'.kind = "commit"
    BY <1>5, QueueFacts DEF SyncInv, QueueSound, Saving
  <2>2. ASSUME NEW i \in 1 .. Len(tail) + 1
        PROVE  /\ tail'[i].kind = "preview" => tail'[i].before \in Comparisons /\ tail'[i].mode \in Modes
               /\ tail'[i].kind = "commit" => tail'[i].binding \in Bindings
               /\ tail'[i].mine => tail'[i].kind = "commit" /\ i = Len(tail') /\ page'.restore.phase = "committing"
    <3>1. CASE i = Len(tail) + 1
      BY <1>4, <3>1
    <3>2. CASE i # Len(tail) + 1
      <4>1. i \in 1 .. Len(tail)
        BY <1>4, <3>2
      <4>2. ~tail[i].mine /\ tail'[i] = tail[i]
        BY <1>4, <4>1 DEF SyncInv, QueueSound, WaitingSound
      <4> QED
        BY <1>4, <4>1, <4>2 DEF SyncInv, QueueSound, WaitingSound
    <3> QED
      BY <3>1, <3>2
  <2>3. WaitingSound(tail', page'.restore.phase)
    BY <1>4, <2>2 DEF WaitingSound
  <2> QED
    BY <2>1, <2>3 DEF QueueSound, Saving
<1>7. UndecidedRests'
  <2>1. page'.choice # None => conn'.pc = "idle"
    BY DEF SyncInv, UndecidedRests
  <2>2. ASSUME Undecided'
        PROVE  /\ \A i \in DOMAIN tail' : tail'[i].live => tail'[i].kind = "preview"
               /\ run # Idle => ~Job'.live
    <3>1. Undecided /\ job.kind = "preview"
      BY <2>2
    <3>2. \A i \in 1 .. Len(tail) : tail[i].live => tail[i].kind = "preview"
      BY <1>4, <3>1 DEF SyncInv, UndecidedRests
    <3>3. ASSUME NEW i \in 1 .. Len(tail) + 1, tail'[i].live PROVE tail'[i].kind = "preview"
      <4>1. CASE i = Len(tail) + 1
        BY <1>4, <3>1, <4>1
      <4>2. CASE i # Len(tail) + 1
        BY <1>4, <3>2, <3>3, <4>2
      <4> QED
        BY <4>1, <4>2
    <3> QED
      BY <1>4, <1>5, <3>1, <3>3 DEF SyncInv, UndecidedRests
  <2> QED
    BY <2>1, <2>2 DEF UndecidedRests
<1> QED
  BY <1>1, <1>2, <1>3, <1>4, <1>5, <1>6, <1>7 DEF SyncInv

\* A new job.
LEMMA NewJobShape ==
  ASSUME NEW kind \in Jobs
  PROVE  LET j == NewJob(kind) IN
         /\ j \in QueuedJobs /\ j.kind = kind /\ j.live /\ j.linked /\ ~j.mine
  BY DEF NewJob, QueuedJobs

\* The job that AskPreview adds.
LEMMA PreviewJobShape ==
  ASSUME NEW m \in Modes, NEW b \in Comparisons
  PROVE  LET j == [NewJob("preview") EXCEPT !.mode = m, !.before = b] IN
         /\ j \in QueuedJobs /\ j.kind = "preview" /\ j.live /\ j.linked /\ ~j.mine
         /\ j.mode = m /\ j.before = b
  BY DEF NewJob, QueuedJobs, Jobs

\* The job that Confirm adds.
LEMMA CommitJobShape ==
  ASSUME NEW b \in Bindings
  PROVE  LET j == [NewJob("commit") EXCEPT !.mine = TRUE, !.binding = b] IN
         /\ j \in QueuedJobs /\ j.kind = "commit" /\ j.live /\ j.linked /\ j.mine
         /\ j.binding = b
  BY DEF NewJob, QueuedJobs, Jobs

\* The page stays.
LEMMA PageRests ==
  ASSUME SyncInv, UNCHANGED <<services, page>>
  PROVE  PageTyped' /\ PageSound' /\ AckedStored'
<1>1. BundlesHeld'
  BY DEF SyncInv, AckedStored, BundlesHeld, services, Latest, Rev
<1>2. AckedStored'
  BY <1>1, EverStays DEF SyncInv, AckedStored
<1> QED
  BY <1>2 DEF SyncInv, PageTyped, PageSound, services, Rev

\* Asking for a save.
LEMMA SaveKeeps ==
  ASSUME SyncInv, Save
  PROVE  SyncInv'
<1>1. /\ UNCHANGED <<services, page, run, conn, stray>> /\ Enqueue(NewJob("save"))
      /\ ~Busy(page) /\ page.revision # 0
  BY DEF Save
<1>2. /\ NewJob("save") \in QueuedJobs /\ NewJob("save").kind = "save"
      /\ NewJob("save").linked /\ ~NewJob("save").mine
  BY NewJobShape DEF Jobs
<1>3. PageTyped' /\ PageSound' /\ AckedStored'
  BY <1>1, PageRests
<1>4. KeptSound'
  BY <1>1 DEF SyncInv, KeptSound
<1>5. (run # Idle => Job' = Job) => LiveSound'
  BY <1>1 DEF SyncInv, LiveSound
<1>6. ~Undecided'
  BY <1>1 DEF SyncInv, UndecidedRests, Undecided
<1> QED
  BY <1>1, <1>2, <1>3, <1>4, <1>5, <1>6, EnqueueStep DEF Busy

\* Asking for a preview.
LEMMA AskPreviewKeeps ==
  ASSUME SyncInv, AskPreview
  PROVE  SyncInv'
<1>1. PICK m \in Modes :
        Enqueue([NewJob("preview") EXCEPT !.mode = m, !.before = Comparison(page)])
  BY DEF AskPreview
<1> DEFINE job == [NewJob("preview") EXCEPT !.mode = m, !.before = Comparison(page)]
<1>2. UNCHANGED <<services, page, run, conn, stray>> /\ ~Busy(page) /\ Enqueue(job)
  BY <1>1 DEF AskPreview
<1>3. /\ job \in QueuedJobs /\ job.kind = "preview" /\ job.linked /\ ~job.mine
      /\ job.mode \in Modes /\ job.before \in Comparisons
  <2>1. Comparison(page) \in Comparisons
    BY PageFacts
  <2> QED
    BY ZenonT(40), <2>1, PreviewJobShape
<1>4. PageTyped' /\ PageSound' /\ AckedStored'
  BY <1>2, PageRests
<1>5. KeptSound'
  BY <1>2 DEF SyncInv, KeptSound
<1>6. (run # Idle => Job' = Job) => LiveSound'
  BY <1>2 DEF SyncInv, LiveSound
<1>7. Undecided' => Undecided /\ page'.revision = 0
  BY <1>2 DEF SyncInv, UndecidedRests, Undecided
<1> HIDE DEF job
<1> QED
  BY <1>2, <1>3, <1>4, <1>5, <1>6, <1>7, EnqueueStep DEF Busy

\* Confirming a restore: its commit is the last job, and its record the page's.
LEMMA ConfirmKeeps ==
  ASSUME SyncInv, Confirm
  PROVE  SyncInv'
<1> DEFINE b == page.restore
           c == [b EXCEPT !.phase = "committing"]
           job == [NewJob("commit") EXCEPT !.mine = TRUE, !.binding = b]
<1>1. /\ UNCHANGED <<services, run, conn, stray>> /\ Enqueue(job)
      /\ b.phase = "previewed" /\ b.revision = page.revision
      /\ page' = [page EXCEPT !.restore = c]
  BY DEF Confirm
<1>2. page \in Pages /\ b \in Bindings
  BY <1>1, PageFacts DEF NoRestore
<1>3. c \in Bindings /\ c.phase = "committing" /\ page.revision # 0
  BY <1>1, <1>2, SyncAssumption DEF Bindings, SyncAssumption
<1>4. /\ job \in QueuedJobs /\ job.kind = "commit" /\ job.linked /\ job.mine
      /\ job.binding \in Bindings
  BY <1>2, CommitJobShape
<1>a. b.phase \notin {"committing", "unknown"}
  BY <1>1
<1> HIDE DEF c, job, b
<1>5. /\ page' \in Pages /\ page'.choice = page.choice /\ page'.base = page.base
      /\ page'.revision = page.revision /\ page'.saw = page.saw /\ page'.kept = page.kept
      /\ page'.sync = page.sync /\ page'.status = page.status /\ page'.baseline = page.baseline
      /\ page'.ack = page.ack /\ page'.seeded = page.seeded /\ page'.acked = page.acked
      /\ page'.doc = page.doc /\ page'.intent = page.intent /\ page'.restore = c
  BY <1>1, <1>2, <1>3 DEF Pages
<1>6. PageTyped'
  BY <1>5 DEF SyncInv, PageTyped
<1>7. PageSound'
  BY <1>1, <1>5 DEF SyncInv, PageSound, services, Rev
<1>8. KeptSound'
  BY <1>1, <1>5 DEF SyncInv, KeptSound
<1>9. (run # Idle => Job' = Job) => LiveSound'
  BY <1>1, <1>5 DEF SyncInv, LiveSound
<1>10. AckedStored'
  <2>1. BundlesHeld'
    BY <1>1, <1>5 DEF SyncInv, AckedStored, BundlesHeld, services, Latest, Rev
  <2> QED
    BY <1>1, <1>5, <2>1, EverStays DEF SyncInv, AckedStored
<1>11. ~Undecided'
  BY <1>1, <1>3, <1>5 DEF SyncInv, UndecidedRests, Undecided
<1> QED
  BY <1>1, <1>3, <1>4, <1>5, <1>6, <1>7, <1>8, <1>9, <1>10, <1>11, <1>a, EnqueueStep DEF b

\* The learner takes the service's state.
LEMMA LoadServiceKeeps ==
  ASSUME SyncInv, LoadService
  PROVE  SyncInv'
<1> DEFINE c == page.choice
           p1 == Project(page, c.state)
           p2 == SetBaseline(p1, c.state)
<1>1. /\ ~Busy(page) /\ c # None /\ UNCHANGED <<services, run, conn, stray>>
      /\ page' = [p2 EXCEPT !.intent = None, !.choice = None, !.revision = c.revision,
                            !.saw = c.state.doc, !.sync = "idle"]
      /\ UNCHANGED tail \/ Enqueue(NewJob("load"))
  BY DEF LoadService
<1>2. /\ page \in Pages /\ page.base \in Urls /\ c.revision \in 1 .. MaxRevisions
      /\ c.revision \in 0 .. MaxRevisions /\ c.state \in Contents /\ c.state.doc \in SUBSET Items
  <2>1. /\ page \in Pages /\ page.base \in Urls /\ c.revision \in 1 .. MaxRevisions
        /\ c.state \in Contents
    BY <1>1, PageFacts
  <2> QED
    BY <2>1, RevisionBounds DEF Contents
<1>3. /\ p1 \in Pages /\ p1.base = page.base /\ p1.status = page.status
      /\ p1.doc = c.state.doc /\ p1.acked = page.acked /\ p1.restore = page.restore
  BY <1>2, ProjectPage
<1> HIDE DEF p1
<1>4. /\ p2 \in Pages /\ p2.base = page.base /\ p2.status = page.status /\ p2.kept = FALSE
      /\ p2.doc = c.state.doc /\ p2.acked = page.acked /\ p2.restore = page.restore
      /\ p2.baseline = c.state /\ p2.ack = [url |-> page.base, state |-> c.state]
      /\ p2.seeded = FALSE
  <2>1. c.state \in Contents /\ p1 \in Pages
    BY <1>2, <1>3
  <2> HIDE DEF c
  <2>2. /\ p2 \in Pages /\ p2.base = p1.base /\ p2.status = p1.status /\ p2.kept = FALSE
        /\ p2.doc = p1.doc /\ p2.acked = p1.acked /\ p2.restore = p1.restore
        /\ p2.baseline = c.state /\ p2.seeded = FALSE
        /\ p2.ack = [url |-> p1.base, state |-> c.state]
    BY <2>1, SetBaselinePage
  <2> QED
    BY <1>3, <2>2
<1> HIDE DEF p2
<1>5. /\ page' \in Pages /\ page'.base = page.base /\ page'.revision = c.revision
      /\ page'.saw = c.state.doc /\ page'.kept = FALSE /\ page'.status = page.status
      /\ page'.sync = "idle" /\ page'.choice = None /\ page'.baseline = c.state
      /\ page'.ack = [url |-> page.base, state |-> c.state] /\ page'.seeded = FALSE
      /\ page'.doc = c.state.doc /\ page'.intent = None /\ page'.acked = page.acked
      /\ page'.restore = page.restore
  BY <1>1, <1>2, <1>4 DEF Pages
<1>6. conn.pc = "idle" /\ (run # Idle => ~Job.live)
  BY <1>1 DEF SyncInv, UndecidedRests, Undecided
<1>7. c.revision <= Rev(page.base) /\ c.state.doc = past[page.base][c.revision].doc
  BY <1>1 DEF SyncInv, PageSound, State
<1> HIDE DEF c
<1>8. PageTyped'
  BY <1>5 DEF PageTyped
<1>9. PageSound'
  BY <1>1, <1>5, <1>7 DEF PageSound, services, Rev
<1>10. KeptSound'
  BY <1>1, <1>2, <1>5, <1>6, SyncAssumption DEF KeptSound, SyncAssumption
<1>11. AckedStored'
  <2>1. BundlesHeld'
    BY <1>1, <1>5 DEF SyncInv, AckedStored, BundlesHeld, services, Latest, Rev
  <2>2. \A i \in c.state.doc : EverStored(i)'
    <3>1. c.revision \in 1 .. Rev(page.base)
      BY <1>2, <1>7, HistoryEntries DEF SyncInv, ServicesSound
    <3>2. \A i \in c.state.doc : EverStored(i)
      BY <1>2, <1>7, <3>1 DEF EverStored
    <3> QED
      BY <1>1, <3>2, EverStays
  <2> QED
    BY <1>5, <2>1, <2>2 DEF AckedStored
<1>12. ~Undecided'
  BY <1>1, <1>5, <1>6 DEF Undecided
<1>13. (run # Idle => Job' = Job) => LiveSound'
  BY <1>1, <1>6 DEF LiveSound
<1>14. CASE UNCHANGED tail
  <2>1. WaitingSound(tail, page'.restore.phase)
    BY <1>5 DEF SyncInv, QueueSound
  <2>2. UndecidedRests'
    BY <1>5, <1>12 DEF UndecidedRests
  <2>3. LiveSound'
    BY <1>13, <1>14 DEF Job
  <2> QED
    BY <1>1, <1>5, <1>8, <1>9, <1>10, <1>11, <1>14, <2>1, <2>2, <2>3, PageStep
<1>15. CASE Enqueue(NewJob("load"))
  <2>1. /\ NewJob("load") \in QueuedJobs /\ NewJob("load").kind = "load"
        /\ NewJob("load").linked /\ ~NewJob("load").mine
    BY NewJobShape DEF Jobs
  <2> QED
    BY <1>1, <1>5, <1>8, <1>9, <1>10, <1>11, <1>12, <1>13, <1>15, <2>1, EnqueueStep DEF Busy
<1> QED
  BY <1>1, <1>14, <1>15

-----------------------------------------------------------------------------
(***************************************************************************)
(* The steps of a connection.                                              *)
(***************************************************************************)

\* What is left to show of a step that changes the page and the connection.
LEMMA ConnectStep ==
  ASSUME SyncInv, UNCHANGED <<services, tail, run, stray>>,
         ConnectionShaped', ConnectionAnswered',
         PageTyped', WaitingSound(tail, page'.restore.phase),
         UndecidedRests', PageSound', KeptSound', LiveSound', AckedStored'
  PROVE  SyncInv'
<1>1. ServicesSound' /\ JobShaped' /\ JobAnswered' /\ SentSeen'
  BY JobRests
<1>2. StrayShaped'
  BY StrayRests
<1>3. QueueTyped' /\ QueueSound'
  BY DEF SyncInv, QueueTyped, QueueSound, Job
<1> QED
  BY <1>1, <1>2, <1>3 DEF SyncInv

\* What an answer says of the service that gave it.
LEMMA AnswerFacts ==
  ASSUME SyncInv, NEW u \in Urls, NEW r, TrueOf(past[u], r)
  PROVE  /\ r \in Answers /\ r # Lost /\ r.revision \in 1 .. Rev(u)
         /\ r.revision \in 1 .. MaxRevisions /\ r.revision \in 0 .. MaxRevisions
         /\ r.revision # 0 /\ r.revision <= Rev(u)
         /\ r.state \in Contents /\ r.state.doc \in SUBSET Items /\ r.state.voc \in SUBSET Rows
         /\ r.state = State(past[u][r.revision].doc, past[u][r.revision].voc)
         /\ r.state.doc = past[u][r.revision].doc
         /\ r.bundles \in SUBSET Tracks /\ r.bundles \subseteq Latest(u).bundles
         /\ \A i \in r.state.doc : EverStored(i)
<1>1. ServicesTyped /\ ServiceSound(u)
  BY DEF SyncInv, ServicesSound
<1>2. /\ r \in Answers /\ r.revision \in 1 .. Rev(u) /\ r.state \in Contents
      /\ r.revision \in 1 .. MaxRevisions /\ r.revision # 0
      /\ r.bundles \in SUBSET Tracks /\ r.bundles \subseteq past[u][r.revision].bundles
      /\ r.state = State(past[u][r.revision].doc, past[u][r.revision].voc)
  BY <1>1, HistoryEntries, SyncAssumption DEF TrueOf, Answers, Rev, SyncAssumption
<1>3. r.revision \in 0 .. MaxRevisions /\ r # Lost
  BY <1>2, RevisionBounds, TasksApart
<1>4. r.state.doc = past[u][r.revision].doc
  BY <1>2 DEF State
<1>5. r.bundles \subseteq Latest(u).bundles
  <2>1. Rev(u) \in 1 .. Rev(u) /\ r.revision <= Rev(u)
    BY <1>1, <1>2, HistoryEntries
  <2> QED
    BY <1>1, <1>2, <2>1 DEF ServiceSound, Latest
<1>6. \A i \in r.state.doc : EverStored(i)
  BY <1>2, <1>4 DEF EverStored
<1>7. r.revision <= Rev(u)
  BY <1>1, <1>2, HistoryEntries
<1> QED
  BY <1>2, <1>3, <1>4, <1>5, <1>6, <1>7 DEF Contents

\* While it compares, a connection has no choice to wait for and no job that counts.
LEMMA ComparingFacts ==
  ASSUME SyncInv, conn.pc \in {"state", "compare"}
  PROVE  /\ page.choice = None /\ page.revision = 0 /\ (run # Idle => ~Job.live)
         /\ \A i \in DOMAIN tail : tail[i].live => tail[i].kind = "preview"
         /\ conn \in Tasks /\ conn.q = Get(page) /\ conn.q.url = page.base
         /\ conn.reply \notin {None, Lost} => TrueOf(past[page.base], conn.reply)
  BY DEF SyncInv, UndecidedRests, Undecided, ConnectionShaped, ConnectionAnswered, Got, Get

\* A connection that fails.
LEMMA ConnectLostKeeps ==
  ASSUME SyncInv, ConnectLost
  PROVE  SyncInv'
<1>1. /\ conn.pc = "state" /\ conn' = Idle /\ UNCHANGED <<services, tail, run, stray>>
      /\ page' = [page EXCEPT !.status = "error", !.sync = "error"]
  BY DEF ConnectLost
<1>2. page.choice = None /\ (run # Idle => ~Job.live) /\ page \in Pages
  BY <1>1, ComparingFacts, PageFacts
<1>3. /\ page' \in Pages /\ page'.choice = None /\ page'.base = page.base
      /\ page'.revision = page.revision /\ page'.saw = page.saw /\ page'.kept = page.kept
      /\ page'.status = "error" /\ page'.baseline = page.baseline
      /\ page'.ack = page.ack /\ page'.seeded = page.seeded /\ page'.acked = page.acked
      /\ page'.doc = page.doc /\ page'.intent = page.intent /\ page'.restore = page.restore
  BY ZenonT(40), <1>1, <1>2 DEF Pages
<1>4. conn'.pc = "idle"
  BY <1>1, TasksApart
<1>5. PageTyped'
  BY <1>3 DEF PageTyped
<1>6. WaitingSound(tail, page'.restore.phase)
  BY <1>3 DEF SyncInv, QueueSound
<1>7. UndecidedRests'
  BY <1>3, <1>4 DEF UndecidedRests, Undecided
<1>8. PageSound'
  BY <1>1, <1>3 DEF SyncInv, PageSound, services, Rev
<1>9. KeptSound'
  BY <1>3, <1>4 DEF SyncInv, KeptSound
<1>10. LiveSound'
  BY <1>1, <1>2 DEF LiveSound, Job
<1>11. AckedStored'
  <2>1. BundlesHeld'
    BY <1>1, <1>3 DEF SyncInv, AckedStored, BundlesHeld, services, Latest, Rev
  <2> QED
    BY <1>1, <1>3, <2>1, EverStays DEF SyncInv, AckedStored
<1> QED
  BY <1>1, <1>5, <1>6, <1>7, <1>8, <1>9, <1>10, <1>11, ConnectionEnds, ConnectStep

\* A restore of unknown outcome is settled, or stays unknown.
LEMMA ReconcileKeeps ==
  ASSUME SyncInv, Reconcile
  PROVE  SyncInv'
<1> DEFINE r == conn.reply
<1>1. /\ conn.pc = "state" /\ r \notin {None, Lost} /\ page.restore.phase = "unknown"
      /\ conn' = Idle /\ UNCHANGED <<services, tail, run, stray>>
      /\ \/ UNCHANGED page
         \/ page' = Installed(page, r.state, r.revision)
         \/ page' = [page EXCEPT !.revision = r.revision, !.sync = "conflict",
                                 !.saw = r.state.doc, !.kept = TRUE]
  BY DEF Reconcile
<1>2. /\ page.choice = None /\ (run # Idle => ~Job.live) /\ TrueOf(past[page.base], r)
      /\ page.revision = 0
  BY <1>1, ComparingFacts
<1>3. page \in Pages /\ page.base \in Urls
  BY PageFacts
<1> HIDE DEF r
<1>a. /\ r.revision \in 1 .. MaxRevisions /\ r.revision \in 0 .. MaxRevisions
      /\ r.state \in Contents /\ r.state.doc \in SUBSET Items
  BY <1>2, <1>3, AnswerFacts
<1>4. /\ r.revision # 0 /\ r.revision <= Rev(page.base)
      /\ r.state.doc = past[page.base][r.revision].doc
      /\ \A i \in r.state.doc : EverStored(i)
  BY <1>2, <1>3, AnswerFacts
<1>5. tail = <<>> /\ conn'.pc = "idle"
  BY <1>1, TasksApart DEF SyncInv, QueueSound, WaitingSound
<1>6. LiveSound'
  BY <1>1, <1>2 DEF LiveSound, Job
<1>7. page'.choice = None => UndecidedRests'
  BY <1>5 DEF UndecidedRests, Undecided
<1>8. WaitingSound(tail, page'.restore.phase)
  BY <1>5 DEF WaitingSound
<1>9. CASE UNCHANGED page
  <2>1. PageTyped' /\ PageSound' /\ AckedStored'
    BY <1>1, <1>9, PageRests
  <2>2. KeptSound'
    BY <1>5, <1>9 DEF SyncInv, KeptSound
  <2> QED
    BY <1>1, <1>2, <1>6, <1>7, <1>8, <1>9, <2>1, <2>2, ConnectionEnds, ConnectStep
<1>10. CASE page' = Installed(page, r.state, r.revision)
  <2>1. /\ page' \in Pages /\ page'.base = page.base /\ page'.revision = r.revision
        /\ page'.saw = r.state.doc /\ page'.kept = FALSE /\ page'.choice = None
        /\ page'.baseline = r.state /\ page'.ack = page.ack /\ page'.seeded = page.seeded
        /\ page'.doc = r.state.doc /\ page'.intent = None /\ page'.acked = page.acked
    <3>1. r.state.voc \in SUBSET Rows
      BY <1>a DEF Contents
    <3>2. page' \in Pages
      BY <1>3, <1>a, <1>10, <3>1 DEF Installed, Pages
    <3>3. /\ page'.base = page.base /\ page'.kept = FALSE /\ page'.choice = page.choice
          /\ page'.ack = page.ack /\ page'.seeded = page.seeded
          /\ page'.intent = None /\ page'.acked = page.acked
      BY <1>3, <1>10 DEF Installed, Pages
    <3>4. page'.revision = r.revision
      BY <1>3, <1>10 DEF Installed, Pages
    <3>5. page'.saw = r.state.doc /\ page'.doc = r.state.doc
      BY <1>3, <1>10 DEF Installed, Pages
    <3>6. page'.baseline = r.state
      BY <1>3, <1>10 DEF Installed, Pages
    <3> QED
      BY <1>2, <3>2, <3>3, <3>4, <3>5, <3>6
  <2>2. PageTyped'
    BY <2>1 DEF PageTyped
  <2>3. PageSound'
    BY <1>1, <1>4, <2>1 DEF PageSound, services, Rev
  <2>4. KeptSound'
    BY <1>4, <1>5, <2>1 DEF KeptSound
  <2>5. AckedStored'
    <3>1. BundlesHeld'
      BY <1>1, <2>1 DEF SyncInv, AckedStored, BundlesHeld, services, Latest, Rev
    <3> QED
      BY <1>1, <1>4, <2>1, <3>1, EverStays DEF SyncInv, AckedStored
  <2> QED
    BY <1>1, <1>6, <1>7, <1>8, <2>1, <2>2, <2>3, <2>4, <2>5, ConnectionEnds, ConnectStep
<1>11. CASE page' = [page EXCEPT !.revision = r.revision, !.sync = "conflict",
                                 !.saw = r.state.doc, !.kept = TRUE]
  <2>1. /\ page' \in Pages /\ page'.base = page.base /\ page'.revision = r.revision
        /\ page'.saw = r.state.doc /\ page'.kept = TRUE /\ page'.choice = None
        /\ page'.baseline = page.baseline /\ page'.ack = page.ack /\ page'.sync = "conflict"
        /\ page'.seeded = page.seeded /\ page'.acked = page.acked
    BY ZenonT(40), <1>2, <1>3, <1>a, <1>11 DEF Pages
  <2>2. PageTyped'
    BY <2>1 DEF PageTyped
  <2>3. PageSound'
    BY <1>1, <1>4, <2>1 DEF PageSound, services, Rev
  <2>4. KeptSound'
    BY <1>4, <1>5, <2>1 DEF KeptSound
  <2>5. AckedStored'
    <3>1. BundlesHeld'
      BY <1>1, <2>1 DEF SyncInv, AckedStored, BundlesHeld, services, Latest, Rev
    <3> QED
      BY <1>1, <2>1, <3>1, EverStays DEF SyncInv, AckedStored
  <2> QED
    BY <1>1, <1>6, <1>7, <1>8, <2>1, <2>2, <2>3, <2>4, <2>5, ConnectionEnds, ConnectStep
<1> QED
  BY <1>1, <1>9, <1>10, <1>11

\* The state has arrived, and the identity of the service is kept.
LEMMA ComparedKeeps ==
  ASSUME SyncInv, Compared
  PROVE  SyncInv'
<1> DEFINE adopts == /\ OperationMode(page) /\ Baseline(page) # None
                     /\ Baseline(page).voc = page.voc
<1>1. /\ conn.pc = "state" /\ conn.reply \notin {None, Lost}
      /\ UNCHANGED <<services, tail, run, stray>>
      /\ conn' = [conn EXCEPT !.pc = "compare", !.adopt = adopts]
      /\ page' = [page EXCEPT !.known = @ \cup {page.base}]
  BY DEF Compared
<1>2. adopts \in BOOLEAN
  OBVIOUS
<1> HIDE DEF adopts
<1>3. /\ page \in Pages /\ page.base \in Urls /\ page.choice = None /\ conn \in Tasks
      /\ conn.q = Get(page) /\ TrueOf(past[page.base], conn.reply) /\ conn.q.url = page.base
  BY <1>1, PageFacts, ComparingFacts
<1>4. /\ page' \in Pages /\ page'.choice = page.choice /\ page'.base = page.base
      /\ page'.revision = page.revision /\ page'.saw = page.saw /\ page'.kept = page.kept
      /\ page'.status = page.status /\ page'.sync = page.sync /\ page'.baseline = page.baseline
      /\ page'.ack = page.ack /\ page'.seeded = page.seeded /\ page'.acked = page.acked
      /\ page'.doc = page.doc /\ page'.intent = page.intent /\ page'.restore = page.restore
  BY <1>1, <1>3 DEF Pages
<1>5. /\ conn' \in Tasks /\ conn'.pc = "compare" /\ conn'.q = conn.q /\ conn'.reply = conn.reply
  BY <1>1, <1>2, <1>3 DEF Tasks, Waits
<1>6. ConnectionShaped' /\ ConnectionAnswered'
  <2>1. conn.reply \in Answers \ {None}
    BY <1>1, <1>3 DEF TrueOf
  <2> QED
    BY <1>1, <1>3, <1>4, <1>5, <2>1 DEF ConnectionShaped, ConnectionAnswered, Got, Get, services
<1>7. PageTyped'
  BY <1>3, <1>4 DEF PageTyped
<1>8. WaitingSound(tail, page'.restore.phase)
  BY <1>4 DEF SyncInv, QueueSound
<1>9. UndecidedRests'
  BY <1>1, <1>3, <1>4, <1>5 DEF SyncInv, UndecidedRests, Undecided, Job
<1>10. PageSound'
  BY <1>1, <1>4 DEF SyncInv, PageSound, services, Rev
<1>11. KeptSound'
  BY <1>4, <1>5 DEF SyncInv, KeptSound
<1>12. LiveSound'
  BY <1>1, <1>4 DEF SyncInv, LiveSound, Job
<1>13. AckedStored'
  <2>1. BundlesHeld'
    BY <1>1, <1>4 DEF SyncInv, AckedStored, BundlesHeld, services, Latest, Rev
  <2> QED
    BY <1>1, <1>4, <2>1, EverStays DEF SyncInv, AckedStored
<1> QED
  BY <1>1, <1>6, <1>7, <1>8, <1>9, <1>10, <1>11, <1>12, <1>13, ConnectStep

\* A message to read the state or the transcripts of the page's service.
LEMMA SentGet ==
  ASSUME NEW pc \in Waits \cup {"state"}, NEW p \in Pages
  PROVE  LET x == Send(pc, Get(p)) IN
         /\ x \in Tasks /\ x.pc = pc /\ x.q = Get(p) /\ x.reply = None
         /\ Get(p) \in Gets /\ Get(p) \in Requests /\ Get(p).url = p.base
<1>1. Get(p) \in Gets /\ Get(p).url = p.base /\ Get(p) \in Requests
  BY DEF Get, Gets, Pages, Requests
<1>2. Idle \in Tasks /\ Idle.reply = None
  BY TasksApart DEF Idle
<1> QED
  BY <1>1, <1>2 DEF Send, Tasks

\* The comparison ends in a choice, in an upload, or in the service's state.
LEMMA CompareKeeps ==
  ASSUME SyncInv, Compare
  PROVE  SyncInv'
<1> DEFINE c == conn.reply
           changed == conn.before # Comparison(page)
           p == IF conn.adopt /\ ~changed THEN InstallRows(page, c.state.voc, c.revision) ELSE page
           choice == [state |-> c.state, revision |-> c.revision, before |-> Comparison(p)]
           at == [p EXCEPT !.revision = c.revision, !.saw = c.state.doc]
           h == Hydrate(at, c.state)
           s == SetBaseline(h, c.state)
<1>1. /\ conn.pc = "compare" /\ UNCHANGED <<services, tail, run, stray>>
      /\ \/ /\ page' = [p EXCEPT !.status = "connected", !.sync = "choice", !.choice = choice]
            /\ conn' = Idle
         \/ /\ page' = [at EXCEPT !.acked = [url |-> page.base, tracks |-> {}], !.kept = TRUE,
                                  !.status = "connected", !.sync = "unsaved"]
            /\ conn' = Idle
         \/ /\ p.intent = None
            /\ page' = RowsAsOf(s, c.revision)
            /\ conn' = Send("load", Get(page))
  BY DEF Compare, MustChoose
<1>2. conn.reply \in Answers \ {None}
  BY <1>1 DEF SyncInv, ConnectionShaped
<1>3. /\ page.choice = None /\ page.revision = 0 /\ (run # Idle => ~Job.live)
      /\ \A i \in DOMAIN tail : tail[i].live => tail[i].kind = "preview"
      /\ page \in Pages /\ page.base \in Urls
  BY <1>1, PageFacts, ComparingFacts
<1>4. TrueOf(past[page.base], c)
  <2>1. c \notin {None, Lost}
    BY <1>2, TasksApart
  <2> QED
    BY <1>1, <2>1, ComparingFacts
<1> HIDE DEF c
<1>5. /\ c.revision \in 0 .. MaxRevisions /\ c.revision \in 1 .. MaxRevisions
      /\ c.state \in Contents /\ c.state.doc \in SUBSET Items /\ c.state.voc \in SUBSET Rows
  BY <1>3, <1>4, AnswerFacts
<1>6. /\ c.revision # 0 /\ c.revision <= Rev(page.base)
      /\ c.state = State(past[page.base][c.revision].doc, past[page.base][c.revision].voc)
      /\ c.state.doc = past[page.base][c.revision].doc
  BY <1>3, <1>4, AnswerFacts
<1>7. \A i \in c.state.doc : EverStored(i)
  BY <1>3, <1>4, AnswerFacts
<1>8. /\ p \in Pages
      /\ p.base = page.base /\ p.revision = page.revision /\ p.saw = page.saw /\ p.kept = page.kept
      /\ p.choice = page.choice /\ p.seeded = page.seeded /\ p.doc = page.doc
      /\ p.intent = page.intent /\ p.acked = page.acked /\ p.restore = page.restore
      /\ p.baseline # None => page.baseline # None /\ p.baseline.doc = page.baseline.doc
      /\ page.ack \in Acks <=> p.ack \in Acks
      /\ page.ack \in Acks => p.ack.state.doc = page.ack.state.doc
  BY <1>3, <1>5, InstallRowsPage
<1>9. /\ \A i \in (IF p.baseline # None THEN p.baseline.doc ELSE {}) : EverStored(i)'
      /\ p.seeded => p.ack \in Acks
      /\ p.ack \in Acks => \A i \in p.ack.state.doc : EverStored(i)'
  BY <1>1, <1>8, EverStays DEF SyncInv, AckedStored
<1>10. Comparison(p) \in Comparisons
  BY <1>8 DEF Pages, Comparison, Comparisons, Content, State, Contents
<1> HIDE DEF p
<1>11. choice \in Decisions /\ choice.state = c.state /\ choice.revision = c.revision
  BY <1>5, <1>10 DEF Decisions
<1>12. LiveSound'
  BY <1>1, <1>3 DEF LiveSound, Job
<1>13. p.restore.phase = page.restore.phase /\ WaitingSound(tail, p.restore.phase)
  BY <1>8 DEF SyncInv, QueueSound
<1>14. /\ at \in Pages /\ at.base = p.base /\ at.saw = c.state.doc
       /\ at.choice = p.choice /\ at.baseline = p.baseline /\ at.ack = p.ack /\ at.seeded = p.seeded
       /\ at.intent = p.intent /\ at.acked = p.acked /\ at.restore = p.restore
  <2>1. at \in Pages
    BY <1>5, <1>8 DEF Pages
  <2> QED
    BY <1>8, <2>1 DEF Pages
<1>15. at.revision = c.revision
  BY <1>8 DEF Pages
<1>16. CASE /\ page' = [p EXCEPT !.status = "connected", !.sync = "choice", !.choice = choice]
            /\ conn' = Idle
  <2> HIDE DEF choice
  <2>1. /\ page' \in Pages /\ page'.base = page.base /\ page'.saw = p.saw /\ page'.sync = "choice"
        /\ page'.kept = p.kept /\ page'.choice = choice /\ page'.baseline = p.baseline
        /\ page'.ack = p.ack /\ page'.seeded = p.seeded /\ page'.acked = page.acked
        /\ page'.restore = p.restore
    BY <1>8, <1>11, <1>16 DEF Pages
  <2>2. page'.revision = 0
    BY <1>3, <1>8, <1>16 DEF Pages
  <2>3. conn'.pc = "idle"
    BY <1>16, TasksApart
  <2>4. PageTyped'
    BY <2>1 DEF PageTyped
  <2>5. UndecidedRests'
    BY <1>1, <1>3, <2>2, <2>3 DEF UndecidedRests, Job
  <2>6. PageSound'
    BY <1>1, <1>6, <1>11, <2>1, <2>2 DEF PageSound, services, Rev
  <2>7. KeptSound'
    BY <2>1, <2>2, <2>3 DEF KeptSound
  <2>8. AckedStored'
    <3>1. BundlesHeld'
      BY <1>1, <2>1 DEF SyncInv, AckedStored, BundlesHeld, services, Latest, Rev
    <3> QED
      BY <1>9, <2>1, <3>1 DEF AckedStored
  <2> QED
    BY <1>1, <1>12, <1>13, <1>16, <2>1, <2>4, <2>5, <2>6, <2>7, <2>8, ConnectionEnds, ConnectStep
<1> HIDE DEF at, choice
<1>17. CASE /\ page' = [at EXCEPT !.acked = [url |-> page.base, tracks |-> {}], !.kept = TRUE,
                                  !.status = "connected", !.sync = "unsaved"]
            /\ conn' = Idle
  <2>1. /\ page' \in Pages /\ page'.base = page.base /\ page'.saw = c.state.doc
        /\ page'.sync = "unsaved" /\ page'.kept = TRUE /\ page'.choice = None
        /\ page'.baseline = p.baseline /\ page'.ack = p.ack /\ page'.seeded = p.seeded
        /\ page'.acked = [url |-> page.base, tracks |-> {}] /\ page'.restore = p.restore
    <3>1. [url |-> page.base, tracks |-> {}] \in [url: Urls, tracks: SUBSET Tracks]
      BY <1>3
    <3>2. page' \in Pages
      BY <1>14, <1>17, <3>1 DEF Pages
    <3>3. /\ page'.base = at.base /\ page'.saw = at.saw
          /\ page'.sync = "unsaved" /\ page'.kept = TRUE /\ page'.choice = at.choice
          /\ page'.baseline = at.baseline /\ page'.ack = at.ack /\ page'.seeded = at.seeded
          /\ page'.acked = [url |-> page.base, tracks |-> {}] /\ page'.restore = at.restore
      BY <1>14, <1>17 DEF Pages
    <3> QED
      BY <1>3, <1>8, <1>14, <3>2, <3>3
  <2>2. page'.revision = c.revision
    BY <1>14, <1>15, <1>17 DEF Pages
  <2>3. conn'.pc = "idle"
    BY <1>17, TasksApart
  <2>4. PageTyped'
    BY <2>1 DEF PageTyped
  <2>5. UndecidedRests'
    BY <2>1, <2>3 DEF UndecidedRests, Undecided
  <2>6. PageSound'
    BY <1>1, <1>6, <2>1, <2>2 DEF PageSound, services, Rev
  <2>7. KeptSound'
    BY <2>1, <2>3 DEF KeptSound
  <2>8. AckedStored'
    <3>1. BundlesHeld'
      BY <2>1 DEF BundlesHeld
    <3> QED
      BY <1>9, <2>1, <3>1 DEF AckedStored
  <2> QED
    BY <1>1, <1>12, <1>13, <1>17, <2>1, <2>4, <2>5, <2>6, <2>7, <2>8, ConnectionEnds, ConnectStep
<1>18. CASE /\ p.intent = None
            /\ page' = RowsAsOf(s, c.revision)
            /\ conn' = Send("load", Get(page))
  <2>1. /\ h \in Pages /\ h.base = page.base /\ h.saw = c.state.doc /\ h.choice = p.choice
        /\ h.doc = c.state.doc /\ h.intent = None /\ h.acked = page.acked /\ h.restore = p.restore
    BY <1>5, <1>8, <1>14, <1>18, HydratePage
  <2>2. h.revision = c.revision
    BY <1>5, <1>14, <1>15, HydratePage
  <2> HIDE DEF h
  <2>3. /\ s \in Pages /\ s.base = h.base /\ s.saw = h.saw /\ s.choice = h.choice
        /\ s.kept = FALSE /\ s.baseline = c.state /\ s.seeded = FALSE
        /\ s.ack = [url |-> h.base, state |-> c.state]
        /\ s.doc = h.doc /\ s.intent = h.intent /\ s.acked = h.acked /\ s.restore = h.restore
    BY <1>5, <2>1, SetBaselinePage
  <2>4. s.revision = h.revision
    BY <1>5, <2>1, SetBaselinePage
  <2> HIDE DEF s
  <2>5. /\ page' \in Pages /\ page'.base = s.base /\ page'.saw = s.saw /\ page'.choice = s.choice
        /\ page'.kept = s.kept /\ page'.baseline = s.baseline /\ page'.seeded = s.seeded
        /\ page'.ack = s.ack /\ page'.doc = s.doc /\ page'.intent = s.intent
        /\ page'.acked = s.acked /\ page'.restore = s.restore
    BY <1>5, <1>18, <2>3, RowsAsOfPage
  <2>6. page'.revision = s.revision
    BY <1>5, <1>18, <2>3, RowsAsOfPage
  <2>7. /\ page'.base = page.base /\ page'.saw = c.state.doc /\ page'.choice = None
        /\ page'.kept = FALSE /\ page'.baseline = c.state /\ page'.seeded = FALSE
        /\ page'.ack = [url |-> page.base, state |-> c.state]
        /\ page'.doc = c.state.doc /\ page'.intent = None
        /\ page'.acked = page.acked /\ page'.restore = p.restore
    BY <1>3, <1>8, <2>1, <2>3, <2>5
  <2>8. page'.revision = c.revision
    BY <2>2, <2>4, <2>6
  <2>9. /\ conn' \in Tasks /\ conn'.pc = "load" /\ conn'.q = Get(page) /\ conn'.reply = None
    BY <1>3, <1>18, SentGet DEF Waits
  <2>10. ConnectionShaped' /\ ConnectionAnswered'
    BY <2>7, <2>9 DEF ConnectionShaped, ConnectionAnswered, Got, Get
  <2>11. PageTyped'
    BY <2>5, <2>7 DEF PageTyped
  <2>12. UndecidedRests'
    BY <2>7, <2>9 DEF UndecidedRests, Undecided
  <2>13. PageSound'
    BY <1>1, <1>6, <2>7, <2>8 DEF PageSound, services, Rev
  <2>14. KeptSound'
    BY <1>6, <2>7, <2>8 DEF KeptSound
  <2>15. AckedStored'
    <3>1. BundlesHeld'
      BY <1>1, <2>7 DEF SyncInv, AckedStored, BundlesHeld, services, Latest, Rev
    <3> QED
      BY <1>1, <1>7, <2>7, <3>1, EverStays DEF AckedStored
  <2> QED
    BY <1>1, <1>12, <1>13, <2>7, <2>10, <2>11, <2>12, <2>13, <2>14, <2>15, ConnectStep
<1> QED
  BY <1>1, <1>16, <1>17, <1>18

\* A connection has loaded its transcripts.
LEMMA ConnectedKeeps ==
  ASSUME SyncInv, Connected
  PROVE  SyncInv'
<1> DEFINE p == Loaded(page, conn.q, conn.reply)
<1>1. /\ conn.pc = "load" /\ conn.reply # None /\ conn' = Idle
      /\ UNCHANGED <<services, tail, run, stray>>
      /\ page' = [p EXCEPT !.status = "connected", !.sync = IF Dirty(p) THEN "unsaved" ELSE "idle"]
  BY DEF Connected
<1>2. /\ page \in Pages /\ page.base \in Urls /\ page.choice = None /\ conn.q.url = page.base
      /\ page.revision # 0 /\ ~page.kept
  BY <1>1, PageFacts DEF SyncInv, UndecidedRests, ConnectionShaped, Get, KeptSound
<1>3. /\ page.saw \subseteq page.doc /\ page.intent = None
      /\ page.baseline # None => page.baseline.doc = page.saw
  BY <1>2 DEF SyncInv, KeptSound
<1>4. conn.reply # Lost => TrueOf(past[page.base], conn.reply)
  BY <1>1, <1>2 DEF SyncInv, ConnectionAnswered, Got
<1>5. conn.reply # Lost => /\ conn.reply.bundles \in SUBSET Tracks
                           /\ conn.reply.bundles \subseteq Latest(page.base).bundles
  BY <1>2, <1>4, AnswerFacts
<1>6. /\ p \in Pages /\ p.base = page.base /\ p.saw = page.saw /\ p.kept = page.kept
      /\ p.choice = page.choice /\ p.baseline = page.baseline /\ p.ack = page.ack
      /\ p.seeded = page.seeded /\ p.doc = page.doc /\ p.intent = page.intent
      /\ p.restore = page.restore
      /\ \/ p.acked = page.acked
         \/ /\ conn.reply # Lost /\ p.acked.url = page.base
            /\ p.acked.tracks = conn.reply.bundles \cup
                 (IF page.acked.url = page.base THEN page.acked.tracks ELSE {})
  BY <1>2, <1>5, LoadedPage
<1>7. p.revision = page.revision
  BY <1>2, <1>5, LoadedPage
<1>8. ~Dirty(p) => p.doc = p.saw
  <2>1. Content(p) # None /\ Content(p).doc = p.doc
    BY <1>6, SyncAssumption DEF Content, State, Pages, Contents, SyncAssumption
  <2> QED
    BY <1>3, <1>6, <2>1 DEF Dirty
<1> HIDE DEF p
<1>9. /\ page' \in Pages /\ page'.base = page.base /\ page'.saw = page.saw
      /\ page'.kept = page.kept /\ page'.choice = None /\ page'.baseline = page.baseline
      /\ page'.ack = page.ack /\ page'.seeded = page.seeded /\ page'.doc = page.doc
      /\ page'.intent = page.intent /\ page'.restore = page.restore /\ page'.acked = p.acked
      /\ page'.sync = (IF Dirty(p) THEN "unsaved" ELSE "idle")
  <2>1. page' \in Pages
    BY ZenonT(40), <1>1, <1>6 DEF Pages
  <2>2. /\ page'.base = p.base /\ page'.saw = p.saw
        /\ page'.kept = p.kept /\ page'.choice = p.choice /\ page'.baseline = p.baseline
        /\ page'.ack = p.ack /\ page'.seeded = p.seeded /\ page'.doc = p.doc
        /\ page'.intent = p.intent /\ page'.restore = p.restore /\ page'.acked = p.acked
    BY <1>1, <1>6 DEF Pages
  <2>3. page'.sync = (IF Dirty(p) THEN "unsaved" ELSE "idle")
    BY <1>1, <1>6 DEF Pages
  <2> QED
    BY <1>2, <1>6, <2>1, <2>2, <2>3
<1>10. page'.revision = page.revision
  BY <1>1, <1>6, <1>7 DEF Pages
<1>11. conn'.pc = "idle"
  BY <1>1, TasksApart
<1>12. PageTyped'
  BY <1>9 DEF PageTyped
<1>13. WaitingSound(tail, page'.restore.phase)
  BY <1>9 DEF SyncInv, QueueSound
<1>14. UndecidedRests'
  BY <1>9, <1>11 DEF UndecidedRests, Undecided
<1>15. PageSound'
  BY <1>1, <1>9, <1>10 DEF SyncInv, PageSound, services, Rev
<1>16. KeptSound'
  BY <1>2, <1>3, <1>6, <1>8, <1>9, <1>10, <1>11 DEF KeptSound
<1>17. LiveSound'
  BY <1>1, <1>2, <1>9, <1>10 DEF SyncInv, LiveSound, Job
<1>18. AckedStored'
  <2>1. BundlesHeld'
    <3>2. page.acked.tracks \subseteq Latest(page.acked.url).bundles
      BY DEF SyncInv, AckedStored, BundlesHeld
    <3>3. p.acked.tracks \subseteq Latest(p.acked.url).bundles
      BY <1>5, <1>6, <3>2
    <3> QED
      BY <1>1, <1>9, <3>3 DEF BundlesHeld, services, Latest, Rev
  <2> QED
    BY <1>1, <1>9, <2>1, EverStays DEF SyncInv, AckedStored
<1> QED
  BY <1>1, <1>12, <1>13, <1>14, <1>15, <1>16, <1>17, <1>18, ConnectionEnds, ConnectStep

-----------------------------------------------------------------------------
(***************************************************************************)
(* Steps that supersede every job: the page has no revision any more.      *)
(***************************************************************************)

\* A page whose jobs are superseded.
LEMMA RebasedPage ==
  ASSUME NEW p \in Pages, NEW b \in Bindings \cup {NoRestore}
  PROVE  LET d == [p EXCEPT !.saw = {}, !.restore = b] IN
         /\ d \in Pages /\ d.base = p.base /\ d.choice = p.choice /\ d.status = p.status
         /\ d.baseline = p.baseline /\ d.ack = p.ack /\ d.seeded = p.seeded
         /\ d.acked = p.acked /\ d.restore = b
  BY DEF Pages

\* A page with what the snapshot cache gives back.
LEMMA ReloadedPage ==
  ASSUME NEW p \in Pages, NEW d \in SUBSET Items, NEW v \in SUBSET Rows,
         NEW c \in SUBSET Tracks, NEW a \in Acks \cup {None}, NEW k \in SUBSET Urls,
         NEW seeded \in BOOLEAN
  PROVE  [p EXCEPT !.doc = d, !.voc = v, !.cues = c, !.ack = a, !.seeded = seeded, !.known = k]
           \in Pages
  BY DEF Pages

\* What is left to show of such a step.
LEMMA SupersedeStep ==
  ASSUME SyncInv, NEW p \in Pages, NEW transport \in BOOLEAN, Supersede(p, transport),
         UNCHANGED <<services, stray>>,
         p.revision = 0, p.choice = None, p.status # "connected", p.restore = page.restore,
         p.acked = page.acked, p.ack = page.ack, p.seeded = page.seeded,
         p.baseline \in {page.baseline, None},
         JobShaped', JobAnswered', SentSeen', run'.pc = run.pc, run' # Idle => run # Idle,
         page'.base = p.base => ConnectionShaped' /\ ConnectionAnswered',
         conn'.pc \in {"idle", "state"}
  PROVE  SyncInv'
<1> DEFINE b == IF p.restore.phase = "previewed" THEN NoRestore ELSE p.restore
<1>1. page' = [p EXCEPT !.saw = {}, !.restore = b]
  BY DEF Supersede
<1>2. /\ b \in Bindings \cup {NoRestore}
      /\ b.phase \in {"committing", "unknown"} => b.phase = page.restore.phase
      /\ page.restore.phase = "committing" => b.phase = "committing"
  BY DEF Pages, NoRestore
<1> HIDE DEF b
<1>3. /\ page' \in Pages /\ page'.base = p.base /\ page'.choice = None
      /\ page'.status # "connected" /\ page'.baseline = p.baseline /\ page'.ack = page.ack
      /\ page'.seeded = page.seeded /\ page'.acked = page.acked /\ page'.restore = b
  BY ZenonT(40), <1>1, <1>2, RebasedPage
<1>4. page'.revision = 0
  BY <1>1 DEF Pages
<1>5. ServicesSound'
  BY ServicesStay DEF SyncInv
<1>6. /\ tail' \in Seq(QueuedJobs) /\ Len(tail') = Len(tail) /\ DOMAIN tail' = DOMAIN tail
      /\ \A i \in DOMAIN tail :
           /\ tail'[i].kind = tail[i].kind /\ ~tail'[i].live
           /\ tail'[i].mode = tail[i].mode /\ tail'[i].before = tail[i].before
           /\ tail'[i].binding = tail[i].binding /\ tail'[i].mine = tail[i].mine
      /\ tail # <<>> => tail' # <<>> /\ Head(tail') = tail'[1] /\ 1 \in DOMAIN tail
      /\ tail = <<>> => tail' = <<>>
  BY SupersededQueue
<1>7. /\ run' # Idle => tail # <<>> /\ ~Job'.live
      /\ run.pc # "idle" => tail # <<>> /\ Job'.kind = Job.kind
  BY <1>6, QueueFacts DEF Job
<1>8. PageTyped'
  BY <1>3 DEF PageTyped
<1>9. QueueTyped'
  BY <1>6, <1>7 DEF SyncInv, QueueTyped
<1>10. WaitingSound(tail', page'.restore.phase)
  BY <1>2, <1>3, <1>6 DEF SyncInv, QueueSound, WaitingSound
<1>11. QueueSound'
  BY <1>7, <1>10 DEF SyncInv, QueueSound, Saving
<1>12. UndecidedRests'
  BY <1>3, <1>4, <1>6, <1>7 DEF UndecidedRests
<1>13. PageSound'
  BY <1>3, <1>4 DEF PageSound
<1>14. KeptSound'
  BY <1>3, <1>4 DEF KeptSound
<1>15. LiveSound'
  BY <1>7 DEF LiveSound
<1>16. AckedStored'
  <2>1. BundlesHeld'
    BY <1>3 DEF SyncInv, AckedStored, BundlesHeld, services, Latest, Rev
  <2> QED
    BY <1>3, <2>1, EverStays DEF SyncInv, AckedStored
<1> QED
  BY <1>3, <1>5, <1>8, <1>9, <1>11, <1>12, <1>13, <1>14, <1>15, <1>16, StrayRests DEF SyncInv

\* Pairing with a service, or leaving it.
LEMMA LeaveKeeps ==
  ASSUME SyncInv, Pair \/ Disconnect
  PROVE  SyncInv'
<1>1. /\ conn' = Idle /\ UNCHANGED <<services, run, stray>>
      /\ \E u \in Urls, paired \in BOOLEAN :
           Supersede([Disconnected(page, u) EXCEPT !.paired = paired], FALSE)
  <2>1. CASE Pair
    BY <2>1 DEF Pair
  <2>2. CASE Disconnect
    <3>1. PICK u \in Urls : Supersede(Disconnected(page, u), FALSE)
      BY <2>2 DEF Disconnect
    <3>2. [Disconnected(page, u) EXCEPT !.paired = FALSE] = Disconnected(page, u)
      BY PageFacts DEF Disconnected, Pages
    <3> QED
      BY <2>2, <3>1, <3>2 DEF Disconnect
  <2> QED
    BY <2>1, <2>2
<1>2. PICK u \in Urls, paired \in BOOLEAN :
        Supersede([Disconnected(page, u) EXCEPT !.paired = paired], FALSE)
  BY <1>1
<1> DEFINE d == Disconnected(page, u)
           p == [d EXCEPT !.paired = paired]
<1>3. page \in Pages
  BY PageFacts
<1>4. /\ d \in Pages /\ d.revision = 0 /\ d.choice = None /\ d.status = "disconnected"
      /\ d.restore = page.restore /\ d.acked = page.acked /\ d.ack = page.ack
      /\ d.seeded = page.seeded /\ d.baseline = None
  BY <1>3, DisconnectedPage
<1> HIDE DEF d
<1>5. /\ p \in Pages /\ p.revision = 0 /\ p.choice = None /\ p.status = "disconnected"
      /\ p.restore = page.restore /\ p.acked = page.acked /\ p.ack = page.ack
      /\ p.seeded = page.seeded /\ p.baseline = None
  BY <1>4 DEF Pages
<1>6. Supersede(p, FALSE)
  BY <1>2 DEF d
<1> HIDE DEF p
<1>7. JobShaped' /\ JobAnswered' /\ SentSeen'
  BY <1>1, JobRests
<1>8. ConnectionShaped' /\ ConnectionAnswered' /\ conn'.pc = "idle"
  BY <1>1, ConnectionEnds, TasksApart
<1> QED
  BY <1>1, <1>5, <1>6, <1>7, <1>8, SupersedeStep

\* A 401: the pairing is revoked, and what awaits an answer gets none.
LEMMA UnauthorizedKeeps ==
  ASSUME SyncInv, Unauthorized
  PROVE  SyncInv'
<1> DEFINE p == Revoked(page)
<1>1. /\ conn' = Idle /\ UNCHANGED <<services, stray>> /\ Supersede(p, FALSE)
      /\ run' = IF Awaiting(run) THEN [run EXCEPT !.reply = Lost] ELSE run
  BY DEF Unauthorized
<1>2. page \in Pages
  BY PageFacts
<1>3. /\ p \in Pages /\ p.revision = 0 /\ p.choice = None /\ p.status = "error"
      /\ p.restore = page.restore /\ p.acked = page.acked /\ p.ack = page.ack
      /\ p.seeded = page.seeded /\ p.baseline = page.baseline
  BY <1>2, RevokedPage
<1> HIDE DEF p
<1>4. ConnectionShaped' /\ ConnectionAnswered' /\ conn'.pc = "idle"
  BY <1>1, ConnectionEnds, TasksApart
<1>5. /\ JobShaped' /\ JobAnswered' /\ SentSeen' /\ run'.pc = run.pc
      /\ run' # Idle => run # Idle
  <2>1. CASE Awaiting(run)
    <3>1. run.pc \in Waits /\ run \in Tasks /\ run # Idle
      BY <2>1, AwaitingJob, TasksApart
    <3>2. /\ run' \in Tasks /\ run'.pc = run.pc /\ run'.q = run.q /\ run'.track = run.track
          /\ run'.reply = Lost
      BY <1>1, <2>1, <3>1, AnsweredTask
    <3>3. JobShaped'
      BY <3>1, <3>2, TasksApart DEF SyncInv, JobShaped
    <3>4. JobAnswered'
      BY <3>2 DEF JobAnswered, Got
    <3>5. SentSeen'
      BY <1>1, <3>2 DEF SyncInv, SentSeen, services, Rev
    <3> QED
      BY <3>1, <3>2, <3>3, <3>4, <3>5
  <2>2. CASE ~Awaiting(run)
    <3>1. UNCHANGED <<services, run>>
      BY <1>1, <2>2
    <3> QED
      BY <3>1, JobRests
  <2> QED
    BY <2>1, <2>2
<1> QED
  BY <1>1, <1>3, <1>4, <1>5, SupersedeStep

\* A connection begins.
LEMMA ConnectKeeps ==
  ASSUME SyncInv, Connect
  PROVE  SyncInv'
<1> DEFINE p == [page EXCEPT !.revision = 0, !.choice = None, !.status = "connecting"]
<1>1. /\ UNCHANGED <<services, run, stray>> /\ Supersede(p, TRUE)
      /\ conn' = [Send("state", Get(page)) EXCEPT !.before = Comparison(page)]
  BY DEF Connect
<1>2. page \in Pages /\ Comparison(page) \in Comparisons
  BY PageFacts
<1>3. /\ p \in Pages /\ p.choice = None /\ p.status = "connecting"
      /\ p.restore = page.restore /\ p.acked = page.acked /\ p.ack = page.ack
      /\ p.seeded = page.seeded /\ p.baseline = page.baseline /\ p.base = page.base
  BY <1>2, RevisionBounds DEF Pages
<1>4. p.revision = 0
  BY <1>2 DEF Pages
<1> HIDE DEF p
<1>5. conn' \in Tasks /\ conn'.pc = "state" /\ conn'.q = Get(page) /\ conn'.reply = None
  <2>1. /\ Send("state", Get(page)) \in Tasks /\ Send("state", Get(page)).pc = "state"
        /\ Send("state", Get(page)).q = Get(page) /\ Send("state", Get(page)).reply = None
    BY <1>2, SentGet
  <2> QED
    BY <1>1, <1>2, <2>1 DEF Tasks
<1>6. page'.base = p.base => ConnectionShaped' /\ ConnectionAnswered'
  BY <1>3, <1>5 DEF ConnectionShaped, ConnectionAnswered, Got, Get
<1>7. JobShaped' /\ JobAnswered' /\ SentSeen'
  BY <1>1, JobRests
<1> QED
  BY <1>1, <1>3, <1>4, <1>5, <1>6, <1>7, SupersedeStep

\* The page is reloaded.
LEMMA ReloadKeeps ==
  ASSUME SyncInv, Reload
  PROVE  SyncInv'
<1> DEFINE f == FreshPage(page.base)
<1>1. /\ page' = [f EXCEPT !.doc = page.doc, !.voc = page.voc, !.cues = Pending(page),
                           !.ack = page.ack, !.seeded = page.ack # None, !.known = page.known]
      /\ tail' = <<>> /\ run' = Idle /\ conn' = Idle /\ UNCHANGED services
      /\ stray' = IF Awaiting(run) /\ run.q.op # "get" THEN run ELSE stray
  BY DEF Reload
<1>2. page \in Pages /\ page.base \in Urls /\ Pending(page) \in SUBSET Tracks
  BY PageFacts DEF Pending
<1>3. f \in Pages /\ f.choice = None /\ f.status = "disconnected" /\ f.baseline = None
      /\ f.acked = [url |-> page.base, tracks |-> {}] /\ f.restore = NoRestore
  BY <1>2, FreshPagePage DEF FreshPage
<1>4. f.revision = 0
  BY DEF FreshPage
<1> HIDE DEF f
<1>5. page' \in Pages
  <2>1. (page.ack # None) \in BOOLEAN /\ page.doc \in SUBSET Items /\ page.voc \in SUBSET Rows
    BY <1>2 DEF Pages
  <2>2. page.ack \in Acks \cup {None} /\ page.known \in SUBSET Urls
    BY <1>2 DEF Pages
  <2> QED
    BY ZenonT(40), <1>1, <1>2, <1>3, <2>1, <2>2, ReloadedPage
<1>6. /\ page'.choice = None /\ page'.status = "disconnected" /\ page'.baseline = None
      /\ page'.ack = page.ack /\ page'.seeded = (page.ack # None)
      /\ page'.acked = [url |-> page.base, tracks |-> {}] /\ page'.restore = NoRestore
  BY <1>1, <1>3 DEF Pages
<1>7. page'.revision = 0
  BY <1>1, <1>3, <1>4 DEF Pages
<1>8. run'.pc = "idle" /\ conn'.pc = "idle"
  BY <1>1, TasksApart
<1>9. ServicesSound' /\ JobShaped' /\ JobAnswered' /\ SentSeen'
  BY <1>1, JobEnds
<1>10. ConnectionShaped' /\ ConnectionAnswered'
  BY <1>1, ConnectionEnds
<1>11. StrayShaped'
  <2>1. CASE Awaiting(run) /\ run.q.op # "get"
    <3>1. run.pc \in Waits /\ run \in Tasks /\ run.q \in Requests
      BY <2>1, AwaitingJob, SentTo
    <3>2. run.q \notin Gets
      BY <2>1 DEF Gets
    <3> QED
      BY <1>1, <2>1, <3>1, <3>2 DEF StrayShaped
  <2>2. CASE ~(Awaiting(run) /\ run.q.op # "get")
    BY <1>1, <2>2, StrayRests
  <2> QED
    BY <2>1, <2>2
<1>12. PageTyped'
  BY <1>5, <1>6 DEF PageTyped
<1>13. QueueTyped'
  BY <1>1, SyncAssumption DEF QueueTyped, SyncAssumption
<1>14. QueueSound'
  <2>1. WaitingSound(tail', page'.restore.phase)
    BY <1>1 DEF WaitingSound
  <2> QED
    BY <1>8, <2>1 DEF QueueSound, Saving
<1>15. UndecidedRests'
  BY <1>6, <1>8 DEF UndecidedRests, Undecided
<1>16. PageSound' /\ KeptSound' /\ LiveSound'
  BY <1>1, <1>6, <1>7, <1>8 DEF PageSound, KeptSound, LiveSound
<1>17. AckedStored'
  <2>1. BundlesHeld'
    BY <1>6 DEF BundlesHeld
  <2>2. page.ack # None => page.ack \in Acks
    BY <1>2, PageAcks
  <2> QED
    BY <1>1, <1>6, <2>1, <2>2, EverStays DEF SyncInv, AckedStored
<1> QED
  BY <1>9, <1>10, <1>11, <1>12, <1>13, <1>14, <1>15, <1>16, <1>17 DEF SyncInv

-----------------------------------------------------------------------------
(***************************************************************************)
(* Steps of the running job.                                               *)
(***************************************************************************)

\* What is left to show of a step that keeps the queue and goes on with its first job.
LEMMA JobStep ==
  ASSUME SyncInv, tail # <<>>, UNCHANGED <<services, tail, conn, stray>>, page'.base = page.base,
         JobShaped', JobAnswered', SentSeen',
         run'.pc \in Saving => Job.kind = "save",
         run'.pc \in {"load", "preview"} => Job.kind = run'.pc,
         run'.pc \in {"restore", "readback"} => Job.kind = "commit",
         PageTyped', WaitingSound(tail, page'.restore.phase),
         UndecidedRests', PageSound', KeptSound', LiveSound', AckedStored'
  PROVE  SyncInv'
<1>1. ServicesSound'
  BY ServicesStay DEF SyncInv
<1>2. ConnectionShaped' /\ ConnectionAnswered'
  BY ConnectionRests
<1>3. StrayShaped'
  BY StrayRests
<1>4. QueueTyped'
  BY DEF SyncInv, QueueTyped
<1>5. QueueSound'
  BY DEF QueueSound, Job, Saving
<1> QED
  BY <1>1, <1>2, <1>3, <1>4, <1>5 DEF SyncInv

\* What is left to show of a step that ends the running job.
LEMMA FinishStep ==
  ASSUME SyncInv, tail # <<>>, tail' \in {Tail(tail), Orphaned(Tail(tail))}, run' = Idle,
         UNCHANGED <<services, conn, stray>>, page'.base = page.base,
         \/ page'.restore.phase = page.restore.phase
         \/ Job.mine
         \/ tail' = Orphaned(Tail(tail)) /\ page'.restore.phase # "unknown",
         page'.choice \in {page.choice, None},
         Undecided' => page'.revision = 0,
         PageTyped', PageSound', KeptSound', AckedStored'
  PROVE  SyncInv'
<1> DEFINE t == Tail(tail)
<1>1. ServicesSound' /\ JobShaped' /\ JobAnswered' /\ SentSeen'
  BY JobEnds
<1>2. ConnectionShaped' /\ ConnectionAnswered'
  BY ConnectionRests
<1>3. StrayShaped'
  BY StrayRests
<1>4. /\ t \in Seq(QueuedJobs) /\ Len(t) = Len(tail) - 1 /\ Len(t) <= MaxQueue
      /\ DOMAIN t = 1 .. Len(tail) - 1 /\ Len(tail) \in Nat /\ Len(tail) >= 1
      /\ DOMAIN tail = 1 .. Len(tail)
      /\ \A i \in DOMAIN t : i + 1 \in DOMAIN tail /\ t[i] = tail[i + 1]
  BY Popped, QueueFacts
<1>5. /\ tail' \in Seq(QueuedJobs) /\ Len(tail') = Len(t) /\ DOMAIN tail' = DOMAIN t
      /\ \A i \in DOMAIN t :
           /\ tail'[i].kind = t[i].kind /\ tail'[i].live = t[i].live /\ tail'[i].linked = t[i].linked
           /\ tail'[i].mode = t[i].mode /\ tail'[i].before = t[i].before
           /\ tail'[i].binding = t[i].binding
           /\ tail'[i].mine => t[i].mine
           /\ tail' = Orphaned(t) => (tail'[i].mine => t[i].kind # "commit")
  <2>1. CASE tail' = t
    <3>1. \A i \in DOMAIN t : Orphaned(t) = t => (t[i].mine => t[i].kind # "commit")
      BY <1>4, OrphanedQueue
    <3> QED
      BY <1>4, <2>1, <3>1
  <2>2. CASE tail' = Orphaned(t)
    BY <1>4, <2>2, OrphanedQueue
  <2> QED
    BY <2>1, <2>2
<1> HIDE DEF t
<1>6. QueueTyped'
  <2>1. \A i \in DOMAIN tail' : tail'[i].live => tail'[i].linked
    BY <1>4, <1>5 DEF SyncInv, QueueTyped
  <2> QED
    BY <1>4, <1>5, <2>1 DEF QueueTyped
<1>7. run'.pc = "idle"
  BY TasksApart
<1>8. WaitingSound(tail', page'.restore.phase)
  <2>1. page'.restore.phase = "unknown" => tail' = <<>>
    <3>1. page.restore.phase # "unknown"
      BY DEF SyncInv, QueueSound, WaitingSound
    <3>2. CASE Job.mine
      <4>1. Len(tail) = 1
        BY <1>4, <3>2, QueueFacts DEF SyncInv, QueueSound, WaitingSound
      <4> QED
        BY <1>4, <1>5, <4>1
    <3> QED
      BY <3>1, <3>2 DEF t
  <2>2. ASSUME NEW i \in DOMAIN t
        PROVE  /\ tail'[i].kind = "preview" => tail'[i].before \in Comparisons /\ tail'[i].mode \in Modes
               /\ tail'[i].kind = "commit" => tail'[i].binding \in Bindings
    BY <1>4, <1>5 DEF SyncInv, QueueSound, WaitingSound
  <2>3. ASSUME NEW i \in DOMAIN t, tail'[i].mine
        PROVE  tail'[i].kind = "commit" /\ i = Len(tail') /\ page'.restore.phase = "committing"
    <3>1. /\ tail[i + 1].mine /\ i + 1 \in DOMAIN tail /\ tail'[i].kind = tail[i + 1].kind
          /\ t[i].kind = tail[i + 1].kind
      BY <1>4, <1>5, <2>3
    <3>2. tail[i + 1].kind = "commit" /\ i + 1 = Len(tail) /\ page.restore.phase = "committing"
      BY <3>1 DEF SyncInv, QueueSound, WaitingSound
    <3>3. tail' # Orphaned(t)
      BY <1>5, <2>3, <3>1, <3>2
    <3>4. ~Job.mine
      <4>1. Job.mine => Len(tail) = 1
        BY <1>4, QueueFacts DEF SyncInv, QueueSound, WaitingSound
      <4> QED
        BY <1>4, <3>2, <4>1
    <3> QED
      BY <1>4, <1>5, <3>1, <3>2, <3>3, <3>4 DEF t
  <2> QED
    BY <1>5, <2>1, <2>2, <2>3 DEF WaitingSound
<1>9. QueueSound'
  BY <1>7, <1>8 DEF QueueSound, Saving
<1>10. UndecidedRests'
  <2>1. page'.choice # None => conn'.pc = "idle"
    BY DEF SyncInv, UndecidedRests
  <2>2. ASSUME Undecided' PROVE \A i \in DOMAIN tail' : tail'[i].live => tail'[i].kind = "preview"
    <3>1. Undecided
      BY <2>2 DEF Undecided
    <3> QED
      BY <1>4, <1>5, <3>1 DEF SyncInv, UndecidedRests
  <2> QED
    BY <2>1, <2>2 DEF UndecidedRests
<1>11. LiveSound'
  BY DEF LiveSound
<1> QED
  BY <1>1, <1>2, <1>3, <1>6, <1>9, <1>10, <1>11 DEF SyncInv

\* A job that ends without a trace on the page.
LEMMA QuietFinish ==
  ASSUME SyncInv, tail # <<>>, Finish, UNCHANGED <<services, page, conn, stray>>
  PROVE  SyncInv'
<1>1. PageTyped' /\ PageSound' /\ AckedStored'
  BY PageRests
<1>2. KeptSound'
  BY DEF SyncInv, KeptSound
<1>3. Undecided' => page'.revision = 0
  BY DEF SyncInv, UndecidedRests, Undecided
<1> QED
  BY <1>1, <1>2, <1>3, FinishStep DEF Finish

\* A job that counts does not run while a connection compares or a choice is open.
LEMMA LiveFacts ==
  ASSUME SyncInv, run # Idle, Job.live
  PROVE  ~Undecided /\ page.choice = None /\ conn.pc \notin {"state", "compare"}
  BY DEF SyncInv, UndecidedRests, Undecided

\* A job that ends and leaves the document, the baseline and the revision alone.
LEMMA NotedFinish ==
  ASSUME SyncInv, tail # <<>>, Finish, UNCHANGED <<services, conn, stray>>, page' \in Pages,
         page'.base = page.base, page'.revision = page.revision, page'.saw = page.saw,
         page'.kept = page.kept, page'.choice = page.choice, page'.baseline = page.baseline,
         page'.ack = page.ack, page'.seeded = page.seeded, page'.doc = page.doc,
         page'.intent = page.intent, page'.restore.phase = page.restore.phase \/ Job.mine,
         page'.choice # None => page'.sync = "choice",
         page'.status = "connected" /\ page'.sync \in {"saved", "idle"} /\ ~page.kept =>
           page.revision # 0 /\ page.doc = page.saw,
         page'.acked.tracks \subseteq Latest(page'.acked.url).bundles
  PROVE  SyncInv'
<1>1. PageTyped'
  BY DEF PageTyped
<1>2. PageSound'
  BY DEF SyncInv, PageSound, services, Rev
<1>3. KeptSound'
  BY DEF SyncInv, KeptSound
<1>4. AckedStored'
  <2>1. BundlesHeld'
    BY DEF BundlesHeld, services, Latest, Rev
  <2> QED
    BY <2>1, EverStays DEF SyncInv, AckedStored
<1>5. Undecided' => page'.revision = 0
  BY DEF SyncInv, UndecidedRests, Undecided
<1> QED
  BY <1>1, <1>2, <1>3, <1>4, <1>5, FinishStep DEF Finish

\* The status line alone.
Statuses == {"disconnected", "connecting", "connected", "error"}
Syncs == {"idle", "unsaved", "saving", "saved", "choice", "conflict", "error"}
\* The page with another status and sync phase.
LEMMA StatusPage ==
  ASSUME NEW p \in Pages, NEW status \in Statuses, NEW sync \in Syncs
  PROVE  LET d == [p EXCEPT !.status = status, !.sync = sync] IN
         /\ d \in Pages
         /\ d.base = p.base /\ d.revision = p.revision /\ d.saw = p.saw /\ d.kept = p.kept
         /\ d.choice = p.choice /\ d.baseline = p.baseline /\ d.ack = p.ack
         /\ d.seeded = p.seeded /\ d.doc = p.doc /\ d.intent = p.intent
         /\ d.restore = p.restore /\ d.acked = p.acked
         /\ d.status = status /\ d.sync = sync
<1>1. [p EXCEPT !.status = status, !.sync = sync] \in Pages
  BY ZenonT(40) DEF Pages, Statuses, Syncs
<1> QED
  BY <1>1 DEF Pages

\* A save that failed.
LEMMA FailedKeeps ==
  ASSUME SyncInv, run # Idle, NEW kind \in {"conflict", "error"}, Failed(kind),
         UNCHANGED <<services, conn, stray>>
  PROVE  SyncInv'
<1>1. tail # <<>> /\ Finish
  BY QueueFacts DEF Failed
<1>2. CASE Job.live
  <2>1. page' = [page EXCEPT !.status = "error", !.sync = kind]
    BY <1>2 DEF Failed
  <2>2. page \in Pages /\ page.choice = None
    BY <1>2, LiveFacts, PageFacts
  <2>3. kind \in Syncs /\ "error" \in Statuses
    BY DEF Syncs, Statuses
  <2>4. /\ page' \in Pages
        /\ page'.base = page.base /\ page'.revision = page.revision /\ page'.saw = page.saw
        /\ page'.kept = page.kept /\ page'.choice = page.choice /\ page'.baseline = page.baseline
        /\ page'.ack = page.ack /\ page'.seeded = page.seeded /\ page'.doc = page.doc
        /\ page'.intent = page.intent /\ page'.restore = page.restore /\ page'.status = "error"
        /\ page'.acked = page.acked
    <3> DEFINE d == [page EXCEPT !.status = "error", !.sync = kind]
    <3>1. /\ d \in Pages
          /\ d.base = page.base /\ d.revision = page.revision /\ d.saw = page.saw /\ d.kept = page.kept
          /\ d.choice = page.choice /\ d.baseline = page.baseline /\ d.ack = page.ack
          /\ d.seeded = page.seeded /\ d.doc = page.doc /\ d.intent = page.intent
          /\ d.restore = page.restore /\ d.acked = page.acked
          /\ d.status = "error" /\ d.sync = kind
      BY <2>2, <2>3, StatusPage
    <3>2. page' = d
      BY <2>1
    <3> HIDE DEF d
    <3> QED
      BY <3>1, <3>2
  <2>5. page'.acked.tracks \subseteq Latest(page'.acked.url).bundles
    BY <2>4 DEF SyncInv, AckedStored, BundlesHeld
  <2> QED
    BY <1>1, <2>2, <2>4, <2>5, NotedFinish
<1>3. CASE ~Job.live
  BY <1>1, <1>3, QuietFinish DEF Failed
<1> QED
  BY <1>2, <1>3

\* A request the running job sends.
LEMMA SentTask ==
  ASSUME NEW pc \in Waits, NEW q \in Requests
  PROVE  LET x == Send(pc, q) IN
         x \in Tasks /\ x.pc = pc /\ x.q = q /\ x.reply = None /\ x # Idle
  BY TasksApart DEF Send, Tasks, Idle

\* The next step of a save: a bundle, the document, or what follows the document.
LEMMA ProceedKeeps ==
  ASSUME SyncInv, tail # <<>>, Job.kind = "save", Job.live, ~Undecided,
         NEW p \in Pages, NEW mode \in BOOLEAN, NEW todo \in SUBSET Tracks,
         Proceed(p, mode, todo), UNCHANGED <<services, tail, conn, stray>>,
         p.base = page.base, p.choice = None, page.revision # 0, p.revision # 0,
         p.intent = None, p.revision <= Rev(p.base), p.saw = past[p.base][p.revision].doc,
         p.saw = page.saw, p.kept = page.kept, p.doc = page.doc, p.baseline = page.baseline,
         p.ack = page.ack, p.seeded = page.seeded, p.status = page.status,
         p.restore = page.restore,
         p.sync \in {"saved", "idle"} => p.sync = page.sync /\ ~p.kept,
         p.acked.tracks \subseteq Latest(p.acked.url).bundles
  PROVE  SyncInv'
<1> DEFINE next == NextStep(p, mode, todo)
<1>1. page' = p /\ p.base \in Urls /\ page \in Pages
  BY PageFacts DEF Proceed
<1>2. p.revision \in 1 .. MaxRevisions
  BY SyncAssumption DEF Pages, SyncAssumption
<1>3. next \in {"bundle", "put", "flush"}
  BY DEF NextStep
<1>4. /\ next = "bundle" =>
           \E t \in todo \cap p.cues :
              run' = [Send("bundle", [op |-> "bundle", url |-> p.base, track |-> t,
                                      basis |-> p.revision])
                       EXCEPT !.mode = mode, !.todo = todo \ {t}]
      /\ next = "put" =>
            run' = Send("put", [op |-> "put", url |-> p.base, basis |-> p.revision,
                                sent |-> Content(p), saw |-> p.saw])
      /\ next = "flush" => run' = [Idle EXCEPT !.pc = "flush"]
  BY DEF Proceed
<1>5. /\ run' \in Tasks /\ run' # Idle /\ run'.reply = None
      /\ \/ /\ run'.pc = "bundle" /\ run'.q \in BundlePuts
            /\ run'.q.url = p.base /\ run'.q.basis = p.revision
         \/ /\ run'.pc = "put" /\ run'.q \in DocumentPuts
            /\ run'.q.url = p.base /\ run'.q.basis = p.revision
            /\ run'.q.sent.doc = p.doc /\ run'.q.saw = p.saw
         \/ run'.pc = "flush"
  <2>1. CASE next = "bundle"
    <3>1. PICK t \in todo \cap p.cues :
              run' = [Send("bundle", [op |-> "bundle", url |-> p.base, track |-> t,
                                      basis |-> p.revision])
                       EXCEPT !.mode = mode, !.todo = todo \ {t}]
      BY <1>4, <2>1
    <3> DEFINE q == [op |-> "bundle", url |-> p.base, track |-> t, basis |-> p.revision]
               x == Send("bundle", q)
    <3>2. q \in BundlePuts /\ q \in Requests /\ q.url = p.base /\ q.basis = p.revision
      BY <1>1, <1>2 DEF BundlePuts, Requests
    <3> HIDE DEF q
    <3>3. x \in Tasks /\ x.pc = "bundle" /\ x.q = q /\ x.reply = None
      BY <3>2, SentTask DEF Waits
    <3>4. run' = [x EXCEPT !.mode = mode, !.todo = todo \ {t}]
      BY <3>1 DEF q
    <3> HIDE DEF x
    <3>5. run' \in Tasks /\ run'.pc = "bundle" /\ run'.q = q /\ run'.reply = None
      BY <3>3, <3>4 DEF Tasks
    <3> QED
      BY <3>2, <3>5, TasksApart
  <2>2. CASE next = "put"
    <3> DEFINE q == [op |-> "put", url |-> p.base, basis |-> p.revision,
                     sent |-> Content(p), saw |-> p.saw]
    <3>1. Content(p) \in Contents /\ Content(p).doc = p.doc
      BY DEF Content, State, Contents, Pages
    <3>2. q \in DocumentPuts /\ q \in Requests
      BY <1>1, <1>2, <3>1 DEF DocumentPuts, Requests, Pages
    <3>3. q.url = p.base /\ q.basis = p.revision /\ q.sent.doc = p.doc /\ q.saw = p.saw
      BY <3>1
    <3> HIDE DEF q
    <3>4. run' = Send("put", q)
      BY <1>4, <2>2 DEF q
    <3>5. run' \in Tasks /\ run'.pc = "put" /\ run'.q = q /\ run'.reply = None
      BY <3>2, <3>4, SentTask DEF Waits
    <3> QED
      BY <3>2, <3>3, <3>5, TasksApart
  <2>3. CASE next = "flush"
    <3>1. run' = [Idle EXCEPT !.pc = "flush"]
      BY <1>4, <2>3
    <3>2. Idle \in Tasks /\ Idle.reply = None
      BY TasksApart DEF Idle
    <3>3. run' \in Tasks /\ run'.pc = "flush" /\ run'.reply = None
      BY <3>1, <3>2 DEF Tasks
    <3> QED
      BY <3>3, TasksApart
  <2> QED
    BY <1>3, <2>1, <2>2, <2>3
<1>6. JobShaped'
  BY <1>5 DEF JobShaped, SentBy, Waits
<1>7. JobAnswered'
  BY <1>5 DEF JobAnswered, Got
<1>8. SentSeen'
  BY <1>1, <1>5 DEF SentSeen, services, Rev
<1>9. PageTyped'
  BY <1>1 DEF PageTyped
<1>10. WaitingSound(tail, page'.restore.phase)
  BY <1>1 DEF SyncInv, QueueSound
<1>11. UndecidedRests'
  BY <1>1 DEF UndecidedRests, Undecided
<1>12. PageSound'
  BY <1>1 DEF PageSound, services, Rev
<1>13. KeptSound'
  BY <1>1 DEF SyncInv, KeptSound
<1>14. LiveSound'
  BY <1>1, <1>5, <1>13 DEF LiveSound, Saving, KeptSound
<1>15. AckedStored'
  <2>1. BundlesHeld'
    BY <1>1 DEF BundlesHeld, services, Latest, Rev
  <2> QED
    BY <1>1, <2>1, EverStays DEF SyncInv, AckedStored
<1> QED
  BY <1>1, <1>5, <1>6, <1>7, <1>8, <1>9, <1>10, <1>11, <1>12, <1>13, <1>14, <1>15, JobStep

\* A save begins.
LEMMA StartSaveKeeps ==
  ASSUME SyncInv, StartSave
  PROVE  SyncInv'
<1>1. tail # <<>> /\ Job.kind = "save" /\ UNCHANGED <<services, conn, stray>>
  BY DEF StartSave, Starting
<1>2. CASE ~MaySave
  BY <1>1, <1>2, QuietFinish DEF StartSave
<1>3. CASE MaySave
  <2> DEFINE p == [page EXCEPT !.sync = "saving"]
  <2>1. /\ Proceed(p, OperationMode(page), Pending(page)) /\ UNCHANGED tail
        /\ Job.live /\ page.revision # 0 /\ page.choice = None /\ page.intent = None
    BY <1>3 DEF StartSave, MaySave
  <2>2. page \in Pages /\ Pending(page) \in SUBSET Tracks /\ OperationMode(page) \in BOOLEAN
    BY PageFacts DEF Pending, OperationMode
  <2>3. /\ p \in Pages
        /\ p.base = page.base /\ p.choice = page.choice /\ p.intent = page.intent
        /\ p.saw = page.saw /\ p.kept = page.kept /\ p.doc = page.doc /\ p.baseline = page.baseline
        /\ p.ack = page.ack /\ p.seeded = page.seeded /\ p.status = page.status
        /\ p.restore = page.restore /\ p.sync = "saving" /\ p.acked = page.acked
    BY <2>2 DEF Pages
  <2>4. p.revision = page.revision
    BY <2>2 DEF Pages
  <2> HIDE DEF p
  <2>5. page.revision <= Rev(page.base) /\ page.saw = past[page.base][page.revision].doc
    BY <2>1 DEF SyncInv, PageSound
  <2>6. ~Undecided
    BY <2>1 DEF SyncInv, UndecidedRests
  <2>7. page.acked.tracks \subseteq Latest(page.acked.url).bundles
    BY DEF SyncInv, AckedStored, BundlesHeld
  <2>8. Proceed(p, OperationMode(page), Pending(page))
    BY <2>1
  <2> QED
    BY <1>1, <2>1, <2>2, <2>3, <2>4, <2>5, <2>6, <2>7, <2>8, ProceedKeeps
<1> QED
  BY <1>2, <1>3

\* What a save under way relies on.
LEMMA SavingFacts ==
  ASSUME SyncInv, run.pc \in Saving
  PROVE  /\ tail # <<>> /\ run # Idle /\ Job.kind = "save" /\ run \in Tasks
         /\ Job.live =>
              /\ page.revision # 0 /\ page.intent = None /\ page.choice = None /\ ~Undecided
              /\ page.kept => page.sync \notin {"saved", "idle"}
              /\ page.revision <= Rev(page.base)
              /\ page.saw = past[page.base][page.revision].doc
              /\ run.pc # "flush" => run.q.url = page.base
<1>1. run # Idle /\ tail # <<>> /\ Job.kind = "save" /\ run \in Tasks
  BY QueueFacts, TasksApart DEF SyncInv, QueueSound, Saving, JobShaped
<1>2. ASSUME Job.live
      PROVE  /\ page.revision # 0 /\ page.intent = None
             /\ page.kept => page.sync \notin {"saved", "idle"}
             /\ run.pc # "flush" => run.q.url = page.base
  BY <1>1, <1>2 DEF SyncInv, LiveSound, Saving
<1>3. page.revision # 0 => /\ page.revision <= Rev(page.base)
                           /\ page.saw = past[page.base][page.revision].doc
  BY DEF SyncInv, PageSound
<1> QED
  BY <1>1, <1>2, <1>3, LiveFacts

\* A bundle was stored, was there before, or was refused.
LEMMA BundleAnsweredKeeps ==
  ASSUME SyncInv, BundleAnswered
  PROVE  SyncInv'
<1> DEFINE p == BundleStored(run.q.track)
           n == run.reply.revision
<1>1. run.pc = "bundle" /\ run.reply # None /\ UNCHANGED <<services, conn, stray>>
  BY DEF BundleAnswered, Answered
<1>2. /\ tail # <<>> /\ run # Idle /\ Job.kind = "save" /\ run \in Tasks
      /\ Job.live =>
              /\ page.revision # 0 /\ page.intent = None /\ page.choice = None /\ ~Undecided
              /\ page.kept => page.sync \notin {"saved", "idle"}
              /\ page.revision <= Rev(page.base)
              /\ page.saw = past[page.base][page.revision].doc
              /\ run.q.url = page.base
  BY <1>1, SavingFacts DEF Saving
<1>3. run.q \in BundlePuts /\ run.q.url \in Urls /\ run.q.track \in Tracks
      /\ run.q.basis \in 1 .. MaxRevisions
  BY <1>1 DEF SyncInv, JobShaped, SentBy, Waits, BundlePuts
<1>4. page \in Pages /\ page.base \in Urls
  BY PageFacts
<1>5. page.acked.tracks \subseteq Latest(page.acked.url).bundles
  BY DEF SyncInv, AckedStored, BundlesHeld
<1>6. ASSUME run.reply.code = "ok"
      PROVE  /\ TrueOf(past[run.q.url], run.reply)
             /\ run.q.track \in past[run.q.url][n].bundles
             /\ past[run.q.url][n].doc = past[run.q.url][run.q.basis].doc
             /\ run.q.track \in Latest(run.q.url).bundles
  <2>1. run.reply # Lost
    BY <1>6 DEF Lost
  <2>2. Got(run) /\ run.pc \in Waits
    BY <1>1, <2>1 DEF Got, Waits
  <2>3. /\ TrueOf(past[run.q.url], run.reply)
        /\ run.q.track \in past[run.q.url][n].bundles
        /\ past[run.q.url][n].doc = past[run.q.url][run.q.basis].doc
    BY <1>1, <1>6, <2>2 DEF SyncInv, JobAnswered
  <2>4. n \in 1 .. Rev(run.q.url)
    BY <1>3, <2>3, AnswerFacts
  <2>5. Rev(run.q.url) \in 1 .. Rev(run.q.url) /\ n <= Rev(run.q.url)
    BY <1>3, <2>4, HistoryEntries DEF SyncInv, ServicesSound
  <2>6. past[run.q.url][n].bundles \subseteq Latest(run.q.url).bundles
    BY <1>3, <2>4, <2>5 DEF SyncInv, ServicesSound, ServiceSound, Latest
  <2> QED
    BY <2>3, <2>6
<1>7. /\ p \in Pages
      /\ p.base = page.base /\ p.revision = page.revision /\ p.saw = page.saw /\ p.kept = page.kept
      /\ p.status = page.status /\ p.sync = page.sync /\ p.choice = page.choice
      /\ p.baseline = page.baseline /\ p.ack = page.ack /\ p.seeded = page.seeded
      /\ p.doc = page.doc /\ p.cues = page.cues /\ p.intent = page.intent
      /\ p.restore = page.restore
      /\ p.acked.url = run.q.url
      /\ p.acked.tracks = {run.q.track} \cup (IF page.acked.url = run.q.url THEN page.acked.tracks ELSE {})
  BY <1>3, <1>4, AcknowledgePage DEF BundleStored
<1> HIDE DEF p
<1>8. run.reply.code = "ok" => p.acked.tracks \subseteq Latest(p.acked.url).bundles
  BY <1>5, <1>6, <1>7
<1>9. CASE ~Job.linked /\ Finish /\ UNCHANGED page
  BY <1>1, <1>2, <1>9, QuietFinish
<1>10. CASE /\ Job.linked /\ run.reply.code = "ok" /\ Job.live
            /\ Proceed([p EXCEPT !.revision = n], run.mode, run.todo)
            /\ UNCHANGED tail
  <2> DEFINE d == [p EXCEPT !.revision = n]
  <2>1. /\ n \in 1 .. MaxRevisions /\ n # 0 /\ n <= Rev(page.base) /\ n \in 0 .. MaxRevisions
    BY <1>2, <1>4, <1>6, <1>10, AnswerFacts
  <2>2. past[page.base][n].doc = page.saw
    <3>1. page.revision = run.q.basis
      BY <1>1, <1>2, <1>10 DEF SyncInv, LiveSound
    <3> QED
      BY <1>2, <1>6, <1>10, <3>1
  <2>3. run.mode \in BOOLEAN /\ run.todo \in SUBSET Tracks
    BY <1>2 DEF Tasks
  <2> HIDE DEF n
  <2>4. d \in Pages
    BY <1>7, <2>1 DEF Pages
  <2>5. /\ d.base = p.base /\ d.choice = p.choice /\ d.intent = p.intent
        /\ d.saw = p.saw /\ d.kept = p.kept /\ d.doc = p.doc /\ d.baseline = p.baseline
        /\ d.ack = p.ack /\ d.seeded = p.seeded /\ d.status = p.status
        /\ d.restore = p.restore /\ d.sync = p.sync /\ d.acked = p.acked
    BY <1>7 DEF Pages
  <2>6. d.revision = n
    BY <1>7 DEF Pages
  <2>7. Proceed(d, run.mode, run.todo)
    BY <1>10
  <2> HIDE DEF d
  <2>8. /\ d.base = page.base /\ d.choice = None /\ page.revision # 0 /\ d.revision # 0
        /\ d.intent = None /\ d.revision <= Rev(d.base) /\ d.saw = past[d.base][d.revision].doc
    BY <1>2, <1>7, <1>10, <2>1, <2>2, <2>5, <2>6
  <2>9. /\ d.saw = page.saw /\ d.kept = page.kept /\ d.doc = page.doc /\ d.baseline = page.baseline
        /\ d.ack = page.ack /\ d.seeded = page.seeded /\ d.status = page.status
        /\ d.restore = page.restore /\ d.sync = page.sync /\ d.acked = p.acked
    BY <1>7, <2>5
  <2>10. /\ d.sync \in {"saved", "idle"} => d.sync = page.sync /\ ~d.kept
         /\ d.acked.tracks \subseteq Latest(d.acked.url).bundles
    BY <1>2, <1>8, <1>10, <2>9
  <2> QED
    BY <1>1, <1>2, <1>10, <2>3, <2>4, <2>7, <2>8, <2>9, <2>10, ProceedKeeps
<1>11. CASE Job.linked /\ run.reply.code = "ok" /\ ~Job.live /\ page' = p /\ Finish
  <2>1. /\ page.choice # None => page.sync = "choice"
        /\ page.status = "connected" /\ page.sync \in {"saved", "idle"} /\ ~page.kept =>
             page.revision # 0 /\ page.doc = page.saw
    BY DEF SyncInv, PageTyped, KeptSound
  <2> QED
    BY <1>1, <1>2, <1>7, <1>8, <1>11, <2>1, NotedFinish
<1>12. CASE /\ Job.linked /\ run.reply.code = "exists" /\ run.q.track \in page.doc
            /\ run' = [Send("verify", Get(page)) EXCEPT !.mode = run.mode, !.todo = run.todo,
                       !.track = run.q.track, !.revision = run.q.basis]
            /\ UNCHANGED <<page, tail>>
  <2> DEFINE x == Send("verify", Get(page))
  <2>1. /\ x \in Tasks /\ x.pc = "verify" /\ x.q = Get(page) /\ x.reply = None
        /\ Get(page) \in Gets /\ Get(page).url = page.base
    BY <1>4, SentGet DEF Waits
  <2>2. run.mode \in BOOLEAN /\ run.todo \in SUBSET Tracks /\ run.q.basis \in 0 .. MaxRevisions
    BY <1>2, <1>3, RevisionBounds DEF Tasks
  <2> HIDE DEF x
  <2>3. /\ run' \in Tasks /\ run'.pc = "verify" /\ run'.q = Get(page) /\ run'.reply = None
        /\ run'.track = run.q.track
    BY <1>3, <1>12, <2>1, <2>2 DEF Tasks, x
  <2>4. JobShaped' /\ JobAnswered' /\ SentSeen'
    BY <1>3, <2>1, <2>3 DEF JobShaped, JobAnswered, SentSeen, Got, SentBy, Waits
  <2>5. PageTyped' /\ PageSound' /\ AckedStored'
    BY <1>1, <1>12, PageRests
  <2>6. WaitingSound(tail, page'.restore.phase)
    BY <1>12 DEF SyncInv, QueueSound
  <2>7. UndecidedRests'
    BY <1>1, <1>2, <1>12 DEF SyncInv, UndecidedRests, Undecided, Job
  <2>8. KeptSound'
    BY <1>1, <1>12 DEF SyncInv, KeptSound
  <2>9. LiveSound'
    BY <1>2, <1>12, <2>1, <2>3 DEF LiveSound, Saving, Job
  <2> QED
    BY <1>1, <1>2, <1>12, <2>3, <2>4, <2>5, <2>6, <2>7, <2>8, <2>9, JobStep
<1>13. CASE Failed("conflict") \/ Failed("error")
  BY <1>1, <1>2, <1>13, FailedKeeps
<1> QED
  BY <1>9, <1>10, <1>11, <1>12, <1>13 DEF BundleAnswered, p

\* The bundle that was there before is looked at.
LEMMA BundleVerifiedKeeps ==
  ASSUME SyncInv, BundleVerified
  PROVE  SyncInv'
<1> DEFINE p == Acknowledge(page, page.base, {run.track})
<1>1. run.pc = "verify" /\ run.reply # None /\ UNCHANGED <<services, conn, stray>>
  BY DEF BundleVerified, Answered
<1>2. /\ tail # <<>> /\ run # Idle /\ Job.kind = "save" /\ run \in Tasks
      /\ Job.live =>
              /\ page.revision # 0 /\ page.intent = None /\ page.choice = None /\ ~Undecided
              /\ page.kept => page.sync \notin {"saved", "idle"}
              /\ page.revision <= Rev(page.base)
              /\ page.saw = past[page.base][page.revision].doc
              /\ run.q.url = page.base
  BY <1>1, SavingFacts DEF Saving
<1>3. run.track \in Tracks /\ run.mode \in BOOLEAN /\ run.todo \in SUBSET Tracks
  BY <1>1, <1>2 DEF SyncInv, JobShaped, Tasks
<1>4. page \in Pages /\ page.base \in Urls
  BY PageFacts
<1>5. /\ p \in Pages
      /\ p.base = page.base /\ p.revision = page.revision /\ p.saw = page.saw /\ p.kept = page.kept
      /\ p.status = page.status /\ p.sync = page.sync /\ p.choice = page.choice
      /\ p.baseline = page.baseline /\ p.ack = page.ack /\ p.seeded = page.seeded
      /\ p.doc = page.doc /\ p.cues = page.cues /\ p.intent = page.intent
      /\ p.restore = page.restore
      /\ p.acked.url = page.base
      /\ p.acked.tracks = {run.track} \cup (IF page.acked.url = page.base THEN page.acked.tracks ELSE {})
  BY <1>3, <1>4, AcknowledgePage
<1> HIDE DEF p
<1>6. CASE ~(Job.live /\ Job.linked) /\ Finish /\ UNCHANGED page
  BY <1>1, <1>2, <1>6, QuietFinish
<1>7. CASE /\ Job.live /\ Job.linked /\ Verified
           /\ Proceed(p, run.mode, run.todo)
           /\ UNCHANGED tail
  <2>1. run.track \in Latest(page.base).bundles
    <3>1. run.reply # Lost /\ run.track \in run.reply.bundles
      BY <1>7 DEF Verified
    <3>2. TrueOf(past[page.base], run.reply)
      BY <1>1, <1>2, <1>7, <3>1 DEF SyncInv, JobAnswered, Got, Waits
    <3> QED
      BY <1>4, <3>1, <3>2, AnswerFacts
  <2>2. page.acked.tracks \subseteq Latest(page.acked.url).bundles
    BY DEF SyncInv, AckedStored, BundlesHeld
  <2>3. p.acked.tracks \subseteq Latest(p.acked.url).bundles
    BY <1>5, <2>1, <2>2
  <2>4. p.sync \in {"saved", "idle"} => p.sync = page.sync /\ ~p.kept
    BY <1>2, <1>5, <1>7
  <2>5. /\ p.revision <= Rev(p.base) /\ p.saw = past[p.base][p.revision].doc
        /\ p.choice = None /\ p.revision # 0 /\ p.intent = None /\ page.revision # 0
    BY <1>2, <1>5, <1>7
  <2> QED
    BY <1>1, <1>2, <1>3, <1>5, <1>7, <2>3, <2>4, <2>5, ProceedKeeps
<1>8. CASE Failed("conflict")
  BY <1>1, <1>2, <1>8, FailedKeeps
<1> QED
  BY <1>6, <1>7, <1>8 DEF BundleVerified, p

\* The document is stored: what was sent is the baseline.
LEMMA DocumentAnsweredKeeps ==
  ASSUME SyncInv, DocumentAnswered
  PROVE  SyncInv'
<1> DEFINE r == run.reply
           sent == run.q.sent
           p == [page EXCEPT !.revision = r.revision, !.saw = sent.doc]
           d == SetBaseline(p, sent)
<1>1. run.pc = "put" /\ r # None /\ UNCHANGED <<services, conn, stray>>
  BY DEF DocumentAnswered, Answered
<1>2. /\ tail # <<>> /\ run # Idle /\ Job.kind = "save" /\ run \in Tasks
      /\ Job.live =>
              /\ page.revision # 0 /\ page.intent = None /\ page.choice = None /\ ~Undecided
              /\ page.kept => page.sync \notin {"saved", "idle"}
              /\ page.revision <= Rev(page.base)
              /\ page.saw = past[page.base][page.revision].doc
              /\ run.q.url = page.base
  BY <1>1, SavingFacts DEF Saving
<1>3. CASE ~Job.live /\ Finish /\ UNCHANGED page
  BY <1>1, <1>2, <1>3, QuietFinish
<1>4. CASE Failed("conflict") \/ Failed("error")
  BY <1>1, <1>2, <1>4, FailedKeeps
<1>5. CASE /\ Job.live /\ r.code \in {"ok", "reconciled"}
           /\ page' = IF r.code = "ok" THEN DocumentStored
                      ELSE InstallRows(DocumentStored, r.state.voc, r.revision)
           /\ run' = [Idle EXCEPT !.pc = "flush"]
           /\ UNCHANGED tail
  <2>1. page \in Pages /\ page.base \in Urls
    BY PageFacts
  <2>2. sent \in Contents /\ sent.doc \in SUBSET Items
    BY <1>1 DEF SyncInv, JobShaped, SentBy, Waits, DocumentPuts, Contents
  <2>3. r # Lost
    BY <1>5 DEF Lost
  <2>4. TrueOf(past[page.base], r) /\ past[page.base][r.revision].doc = sent.doc
    BY <1>1, <1>2, <1>5, <2>3 DEF SyncInv, JobAnswered, Got, Waits
  <2>5. /\ r.revision \in 0 .. MaxRevisions /\ r.state.voc \in SUBSET Rows
    BY <2>1, <2>4, AnswerFacts
  <2>6. r.revision # 0 /\ r.revision <= Rev(page.base) /\ r.revision \in 1 .. Rev(page.base)
    BY <2>1, <2>4, AnswerFacts
  <2>7. /\ sent.doc \subseteq page.doc
        /\ ~page.kept => page.saw \subseteq sent.doc
    BY <1>1, <1>2, <1>5 DEF SyncInv, LiveSound
  <2>8. \A i \in sent.doc : EverStored(i)'
    <3>1. \A i \in sent.doc : EverStored(i)
      BY <2>1, <2>4, <2>6 DEF EverStored
    <3> QED
      BY <1>1, <3>1, EverStays
  <2> HIDE DEF r, sent
  <2>9. /\ p \in Pages /\ p.base = page.base /\ p.saw = sent.doc
        /\ p.status = page.status /\ p.sync = page.sync /\ p.choice = page.choice
        /\ p.doc = page.doc /\ p.intent = page.intent
        /\ p.acked = page.acked /\ p.restore = page.restore
    <3>1. p \in Pages
      BY <2>1, <2>2, <2>5 DEF Pages
    <3> QED
      BY <2>1, <3>1 DEF Pages
  <2>10. p.revision = r.revision
    BY <2>1 DEF Pages
  <2> HIDE DEF p
  <2>11. /\ d \in Pages
         /\ d.base = p.base /\ d.revision = p.revision /\ d.saw = p.saw /\ d.kept = FALSE
         /\ d.status = p.status /\ d.sync = p.sync /\ d.choice = p.choice
         /\ d.baseline = sent /\ d.ack = [url |-> p.base, state |-> sent] /\ d.seeded = FALSE
         /\ d.doc = p.doc /\ d.cues = p.cues /\ d.intent = p.intent /\ d.acked = p.acked
         /\ d.restore = p.restore
    BY <2>2, <2>9, SetBaselinePage
  <2>12. DocumentStored = d
    BY DEF DocumentStored, d, p, sent, r
  <2> HIDE DEF d
  <2>13. d.ack \in Acks /\ d.ack.state.doc = sent.doc /\ d.baseline # None
    BY <2>1, <2>2, <2>9, <2>11, SyncAssumption DEF Acks, SyncAssumption
  <2>14. /\ page' \in Pages
         /\ page'.base = d.base /\ page'.revision = d.revision /\ page'.saw = d.saw
         /\ page'.kept = d.kept /\ page'.status = d.status /\ page'.sync = d.sync
         /\ page'.choice = d.choice /\ page'.seeded = d.seeded /\ page'.doc = d.doc
         /\ page'.intent = d.intent /\ page'.acked = d.acked /\ page'.restore = d.restore
         /\ page'.baseline # None => page'.baseline.doc = d.baseline.doc
         /\ page'.ack.state.doc = d.ack.state.doc
    <3>1. CASE r.code = "ok"
      BY <1>5, <2>11, <2>12, <3>1 DEF r
    <3>2. CASE r.code # "ok"
      <4> DEFINE f == InstallRows(d, r.state.voc, r.revision)
      <4>1. /\ f \in Pages
            /\ f.base = d.base /\ f.revision = d.revision /\ f.saw = d.saw /\ f.kept = d.kept
            /\ f.status = d.status /\ f.sync = d.sync /\ f.choice = d.choice
            /\ f.seeded = d.seeded /\ f.doc = d.doc /\ f.cues = d.cues /\ f.intent = d.intent
            /\ f.acked = d.acked /\ f.restore = d.restore
            /\ f.baseline # None => d.baseline # None /\ f.baseline.doc = d.baseline.doc
            /\ d.baseline # None => f.baseline # None
            /\ d.ack \in Acks <=> f.ack \in Acks
            /\ d.ack \in Acks => f.ack.url = d.ack.url /\ f.ack.state.doc = d.ack.state.doc
        BY <2>5, <2>11, InstallRowsPage
      <4>2. page' = f
        BY <1>5, <2>12, <3>2 DEF r
      <4> HIDE DEF f
      <4> QED
        BY <2>13, <4>1, <4>2
    <3> QED
      BY <3>1, <3>2
  <2>15. /\ page'.base = page.base /\ page'.saw = sent.doc /\ page'.kept = FALSE
         /\ page'.status = page.status /\ page'.sync = page.sync /\ page'.choice = None
         /\ page'.seeded = FALSE /\ page'.doc = page.doc /\ page'.intent = None
         /\ page'.acked = page.acked /\ page'.restore = page.restore
         /\ page'.baseline # None => page'.baseline.doc = sent.doc
         /\ page'.ack.state.doc = sent.doc
    BY <1>2, <1>5, <2>9, <2>11, <2>13, <2>14
  <2>16. page'.revision = r.revision
    BY <2>10, <2>11, <2>14
  <2>17. run' \in Tasks /\ run'.pc = "flush" /\ run'.reply = None /\ run' # Idle
    <3>1. Idle \in Tasks /\ Idle.reply = None /\ Idle.pc = "idle"
      BY TasksApart DEF Idle
    <3>2. run' = [Idle EXCEPT !.pc = "flush"]
      BY <1>5
    <3>3. run' \in Tasks /\ run'.pc = "flush" /\ run'.reply = None
      BY <3>1, <3>2 DEF Tasks
    <3> QED
      BY <3>1, <3>3
  <2>18. JobShaped' /\ JobAnswered' /\ SentSeen'
    BY <2>17 DEF JobShaped, JobAnswered, SentSeen, Got, Waits
  <2>19. PageTyped'
    BY <2>14, <2>15 DEF PageTyped
  <2>20. WaitingSound(tail, page'.restore.phase)
    BY <2>15 DEF SyncInv, QueueSound
  <2>21. UndecidedRests'
    BY <1>1, <1>2, <1>5, <2>15 DEF UndecidedRests, Undecided
  <2>22. PageSound'
    BY <1>1, <2>4, <2>6, <2>15, <2>16 DEF PageSound, services, Rev
  <2>23. KeptSound'
    <3>1. page.status = "connected" /\ page.sync \in {"saved", "idle"} => page.doc = sent.doc
      BY <1>2, <1>5, <2>7 DEF SyncInv, KeptSound
    <3> QED
      BY <2>6, <2>7, <2>15, <2>16, <3>1 DEF KeptSound
  <2>24. LiveSound'
    BY <2>6, <2>15, <2>16, <2>17 DEF LiveSound, Saving
  <2>25. AckedStored'
    <3>1. BundlesHeld'
      BY <1>1, <2>15 DEF SyncInv, AckedStored, BundlesHeld, services, Latest, Rev
    <3> QED
      BY <2>8, <2>15, <3>1 DEF AckedStored
  <2> QED
    BY <1>1, <1>2, <1>5, <2>15, <2>17, <2>18, <2>19, <2>20, <2>21, <2>22, <2>23, <2>24, <2>25, JobStep
<1> QED
  BY <1>3, <1>4, <1>5 DEF DocumentAnswered

\* The end of a save.
LEMMA FlushedKeeps ==
  ASSUME SyncInv, Flushed
  PROVE  SyncInv'
<1>1. run.pc = "flush" /\ UNCHANGED <<services, conn, stray>>
  BY DEF Flushed
<1>2. /\ tail # <<>> /\ run # Idle
      /\ Job.live => page.revision # 0 /\ page.intent = None /\ page.choice = None
  BY <1>1, SavingFacts DEF Saving
<1>3. CASE ~Job.live
  BY <1>1, <1>2, <1>3, QuietFinish DEF Flushed
<1>4. CASE Job.live
  <2>1. PICK o \in {"clean", "unresolved", "error"} : Conclude(o)
    BY <1>4 DEF Flushed
  <2>2. Finish
    BY <2>1 DEF Conclude
  <2>3. page \in Pages
    BY PageFacts
  <2>4. PICK status \in Statuses, sync \in Syncs :
          /\ page' = [page EXCEPT !.status = status, !.sync = sync]
          /\ sync \in {"saved", "idle"} => ~Dirty(page)
    <3>1. CASE o = "error"
      BY <2>1, <3>1 DEF Conclude, Statuses, Syncs
    <3>2. CASE o # "error" /\ (Dirty(page) \/ o = "unresolved")
      BY <2>1, <3>2 DEF Conclude, Statuses, Syncs
    <3>3. CASE o # "error" /\ ~(Dirty(page) \/ o = "unresolved")
      BY <2>1, <3>3 DEF Conclude, Statuses, Syncs
    <3> QED
      BY <3>1, <3>2, <3>3
  <2> DEFINE d == [page EXCEPT !.status = status, !.sync = sync]
  <2>5. /\ d \in Pages
        /\ d.base = page.base /\ d.revision = page.revision /\ d.saw = page.saw /\ d.kept = page.kept
        /\ d.choice = page.choice /\ d.baseline = page.baseline /\ d.ack = page.ack
        /\ d.seeded = page.seeded /\ d.doc = page.doc /\ d.intent = page.intent
        /\ d.restore = page.restore /\ d.acked = page.acked
        /\ d.status = status /\ d.sync = sync
    BY <2>3, StatusPage
  <2>6. page' = d
    BY <2>4
  <2> HIDE DEF d
  <2>7. ~Dirty(page) /\ ~page.kept => page.doc = page.saw
    <3>1. Content(page) # None /\ Content(page).doc = page.doc
      BY <2>3, SyncAssumption DEF Content, State, Pages, Contents, SyncAssumption
    <3>2. ~page.kept /\ page.baseline # None => page.baseline.doc = page.saw
      BY <1>2, <1>4 DEF SyncInv, KeptSound
    <3> QED
      BY <3>1, <3>2 DEF Dirty
  <2>8. page.acked.tracks \subseteq Latest(page.acked.url).bundles
    BY DEF SyncInv, AckedStored, BundlesHeld
  <2>9. /\ page' \in Pages /\ page'.base = page.base /\ page'.revision = page.revision
        /\ page'.saw = page.saw /\ page'.kept = page.kept /\ page'.choice = page.choice
        /\ page'.baseline = page.baseline /\ page'.ack = page.ack /\ page'.seeded = page.seeded
        /\ page'.doc = page.doc /\ page'.intent = page.intent /\ page'.restore = page.restore
        /\ page'.acked = page.acked /\ page'.sync = sync
    BY <2>5, <2>6
  <2>10. /\ page'.choice # None => page'.sync = "choice"
         /\ page'.status = "connected" /\ page'.sync \in {"saved", "idle"} /\ ~page.kept =>
              page.revision # 0 /\ page.doc = page.saw
    BY <1>2, <1>4, <2>4, <2>7, <2>9
  <2> QED
    BY <1>1, <1>2, <2>2, <2>8, <2>9, <2>10, NotedFinish
<1> QED
  BY <1>3, <1>4

\* The first job of the queue begins by reading.
LEMMA StartedRead ==
  ASSUME SyncInv, tail # <<>>, run = Idle, NEW pc \in {"load", "preview"}, Job.kind = pc,
         run' = Send(pc, Get(page)), UNCHANGED <<services, page, tail, conn, stray>>,
         ~Undecided,
         pc = "preview" /\ Job.live =>
           /\ page.revision # 0
           /\ ~page.kept /\ page.baseline # None => Job.before[2].doc = page.saw
  PROVE  SyncInv'
<1>1. page \in Pages
  BY PageFacts
<1>2. /\ run' \in Tasks /\ run'.pc = pc /\ run'.q = Get(page) /\ run'.reply = None
      /\ Get(page) \in Gets /\ Get(page).url = page.base
  BY <1>1, SentGet DEF Waits
<1>3. JobShaped' /\ JobAnswered' /\ SentSeen'
  BY <1>2 DEF JobShaped, JobAnswered, SentSeen, Got, SentBy, Waits
<1>4. PageTyped' /\ PageSound' /\ AckedStored'
  BY PageRests
<1>5. WaitingSound(tail, page'.restore.phase)
  BY DEF SyncInv, QueueSound
<1>6. UndecidedRests'
  BY DEF SyncInv, UndecidedRests, Undecided
<1>7. KeptSound'
  BY DEF SyncInv, KeptSound
<1>8. LiveSound'
  BY <1>2 DEF LiveSound, Saving, Job
<1> QED
  BY <1>2, <1>3, <1>4, <1>5, <1>6, <1>7, <1>8, JobStep DEF Saving

\* The transcripts are asked for.
LEMMA StartLoadKeeps ==
  ASSUME SyncInv, StartLoad
  PROVE  SyncInv'
<1>1. tail # <<>> /\ run = Idle /\ Job.kind = "load" /\ UNCHANGED <<services, page, conn, stray>>
  BY DEF StartLoad, Starting
<1>2. CASE Finish
  BY <1>1, <1>2, QuietFinish
<1>3. CASE Job.live /\ run' = Send("load", Get(page)) /\ UNCHANGED tail
  <2>1. ~Undecided
    BY <1>1, <1>3, QueueFacts DEF SyncInv, UndecidedRests
  <2> QED
    BY <1>1, <1>3, <2>1, StartedRead
<1> QED
  BY <1>2, <1>3 DEF StartLoad

\* The transcripts arrive.
LEMMA LoadAnsweredKeeps ==
  ASSUME SyncInv, LoadAnswered
  PROVE  SyncInv'
<1> DEFINE p == Loaded(page, run.q, run.reply)
<1>1. /\ run.pc = "load" /\ run.reply # None /\ Finish /\ UNCHANGED <<services, conn, stray>>
      /\ page' = p \/ UNCHANGED page
  BY DEF LoadAnswered, Answered
<1>2. run # Idle /\ tail # <<>>
  BY <1>1, QueueFacts
<1>3. page \in Pages /\ run.q.url \in Urls
  BY <1>1, PageFacts, SentTo DEF Waits
<1>4. run.reply # Lost => /\ run.reply.bundles \in SUBSET Tracks
                          /\ run.reply.bundles \subseteq Latest(run.q.url).bundles
  <2>1. run.reply # Lost => TrueOf(past[run.q.url], run.reply)
    BY <1>1 DEF SyncInv, JobAnswered, Got, Waits
  <2> QED
    BY <1>3, <2>1, AnswerFacts
<1>5. /\ p \in Pages
      /\ p.base = page.base /\ p.revision = page.revision /\ p.saw = page.saw /\ p.kept = page.kept
      /\ p.status = page.status /\ p.sync = page.sync /\ p.choice = page.choice
      /\ p.baseline = page.baseline /\ p.ack = page.ack /\ p.seeded = page.seeded
      /\ p.doc = page.doc /\ p.intent = page.intent /\ p.restore = page.restore
      /\ page.cues \subseteq p.cues
      /\ \/ p.acked = page.acked
         \/ /\ run.reply # Lost /\ p.acked.url = run.q.url
            /\ p.acked.tracks = run.reply.bundles \cup
                 (IF page.acked.url = run.q.url THEN page.acked.tracks ELSE {})
  BY <1>3, <1>4, LoadedPage
<1> HIDE DEF p
<1>6. CASE page' = p
  <2>1. page.acked.tracks \subseteq Latest(page.acked.url).bundles
    BY DEF SyncInv, AckedStored, BundlesHeld
  <2>2. p.acked.tracks \subseteq Latest(p.acked.url).bundles
    BY <1>4, <1>5, <2>1
  <2>3. /\ page.choice # None => page.sync = "choice"
        /\ page.status = "connected" /\ page.sync \in {"saved", "idle"} /\ ~page.kept =>
             page.revision # 0 /\ page.doc = page.saw
    BY DEF SyncInv, PageTyped, KeptSound
  <2> QED
    BY <1>1, <1>2, <1>5, <1>6, <2>2, <2>3, NotedFinish
<1>7. CASE UNCHANGED page
  BY <1>1, <1>2, <1>7, QuietFinish
<1> QED
  BY <1>1, <1>6, <1>7

-----------------------------------------------------------------------------
(***************************************************************************)
(* Restore.                                                                *)
(***************************************************************************)

\* A preview begins with a read.
LEMMA StartPreviewKeeps ==
  ASSUME SyncInv, StartPreview
  PROVE  SyncInv'
<1>1. tail # <<>> /\ run = Idle /\ Job.kind = "preview" /\ UNCHANGED <<services, page, conn, stray>>
  BY DEF StartPreview, Starting
<1>2. CASE Finish
  BY <1>1, <1>2, QuietFinish
<1>3. CASE PreviewCurrent /\ MayPreview /\ run' = Send("preview", Get(page)) /\ UNCHANGED tail
  <2>1. page.choice = None /\ page.revision # 0
    BY <1>3 DEF MayPreview
  <2>2. ~Undecided
    BY <2>1 DEF SyncInv, UndecidedRests
  <2>3. ASSUME ~page.kept, page.baseline # None PROVE Job.before[2].doc = page.saw
    <3>1. page.intent = None /\ page.baseline.doc = page.saw
      BY <2>1, <2>3 DEF SyncInv, KeptSound
    <3>2. page.baseline = Content(page)
      BY <1>3, <2>3, <3>1 DEF MayPreview
    <3>3. Job.before[2] = Content(page)
      BY <1>3 DEF PreviewCurrent, Comparison
    <3> QED
      BY <3>1, <3>2, <3>3
  <2> QED
    BY <1>1, <1>3, <2>1, <2>2, <2>3, StartedRead
<1> QED
  BY <1>2, <1>3 DEF StartPreview

\* A preview is shown, or not.
LEMMA PreviewAnsweredKeeps ==
  ASSUME SyncInv, PreviewAnswered
  PROVE  SyncInv'
<1> DEFINE r == run.reply
           saw == IF r.revision = page.revision THEN page.saw ELSE r.state.doc
           p == [page EXCEPT !.revision = r.revision, !.saw = saw]
           b == [phase |-> "previewed", before |-> Job.before, mode |-> Job.mode,
                 url |-> page.base, revision |-> r.revision,
                 intended |-> Planned(r.state, Job.mode), acknowledged |-> 0]
<1>1. run.pc = "preview" /\ r # None /\ UNCHANGED <<services, conn, stray>> /\ run' = Idle
  BY DEF PreviewAnswered, Answered, Finish
<1>2. run # Idle /\ tail # <<>> /\ Job.kind = "preview"
  BY <1>1, QueueFacts DEF SyncInv, QueueSound
<1>3. CASE Finish /\ UNCHANGED page
  BY <1>1, <1>2, <1>3, QuietFinish
<1>4. CASE /\ PreviewCurrent /\ r # Lost
           /\ r.revision = page.revision \/ r.state = Content(page)
           /\ \/ page' = p /\ tail' = Tail(tail)
              \/ page' = [p EXCEPT !.restore = b] /\ tail' = Orphaned(Tail(tail))
  <2>1. Job.live /\ Job.before[2] = Content(page)
    BY <1>4 DEF PreviewCurrent, Comparison
  <2>2. /\ page.revision # 0 /\ run.q.url = page.base
        /\ ~page.kept /\ page.baseline # None => Job.before[2].doc = page.saw
    BY <1>1, <1>2, <2>1 DEF SyncInv, LiveSound
  <2>3. ~Undecided /\ page.choice = None
    BY <1>2, <2>1, LiveFacts
  <2>4. page \in Pages /\ page.base \in Urls
    BY PageFacts
  <2>5. TrueOf(past[page.base], r)
    BY <1>1, <1>4, <2>2 DEF SyncInv, JobAnswered, Got, Waits
  <2>6. /\ r.revision \in 0 .. MaxRevisions /\ r.revision \in 1 .. MaxRevisions
        /\ r.state \in Contents /\ r.state.doc \in SUBSET Items
    BY <2>4, <2>5, AnswerFacts
  <2>7. /\ r.revision # 0 /\ r.revision <= Rev(page.base)
        /\ r.state.doc = past[page.base][r.revision].doc
    BY <2>4, <2>5, AnswerFacts
  <2>8. Job.before \in Comparisons /\ Job.mode \in Modes
    BY <1>2, QueueFacts DEF SyncInv, QueueSound, WaitingSound
  <2>9. page.saw = past[page.base][page.revision].doc
    BY <2>2 DEF SyncInv, PageSound
  <2>10. Content(page).doc = page.doc /\ Content(page) \in Contents
    BY <2>4 DEF Content, State, Pages, Contents
  <2> HIDE DEF r
  <2>11. saw = past[page.base][r.revision].doc /\ saw \in SUBSET Items
    BY <2>4, <2>6, <2>7, <2>9 DEF Pages
  <2>12. ASSUME ~page.kept
         PROVE  /\ saw \subseteq page.doc /\ page.intent = None
                /\ page.baseline # None => page.baseline.doc = saw
                /\ page.status = "connected" /\ page.sync \in {"saved", "idle"} => page.doc = saw
    <3>1. /\ page.saw \subseteq page.doc /\ page.intent = None
          /\ page.baseline # None => page.baseline.doc = page.saw
          /\ page.status = "connected" /\ page.sync \in {"saved", "idle"} => page.doc = page.saw
      BY <2>2, <2>12 DEF SyncInv, KeptSound
    <3>2. CASE saw = page.saw
      BY <3>1, <3>2
    <3>3. CASE saw # page.saw
      <4>1. saw = page.doc
        BY <1>4, <2>10, <3>3 DEF r
      <4>2. page.baseline # None => page.saw = page.doc
        BY <2>1, <2>2, <2>10, <2>12
      <4> QED
        BY <3>1, <3>3, <4>1, <4>2
    <3> QED
      BY <3>2, <3>3
  <2>13. Planned(r.state, Job.mode) \in Contents
    BY <2>6, PlannedContent
  <2>14. b \in Bindings /\ b.phase = "previewed"
    BY <2>4, <2>6, <2>8, <2>13, RevisionBounds DEF Bindings
  <2> HIDE DEF saw, b
  <2>15. p \in Pages
    BY <2>4, <2>6, <2>11 DEF Pages
  <2>16. /\ p.base = page.base /\ p.saw = saw /\ p.kept = page.kept
         /\ p.status = page.status /\ p.sync = page.sync /\ p.choice = page.choice
         /\ p.baseline = page.baseline /\ p.ack = page.ack /\ p.seeded = page.seeded
         /\ p.doc = page.doc /\ p.intent = page.intent /\ p.acked = page.acked
         /\ p.restore = page.restore
    BY <2>4 DEF Pages
  <2>17. p.revision = r.revision
    BY <2>4 DEF Pages
  <2> HIDE DEF p
  <2>18. /\ page' \in Pages /\ page'.base = page.base /\ page'.saw = saw /\ page'.kept = page.kept
         /\ page'.status = page.status /\ page'.sync = page.sync /\ page'.choice = page.choice
         /\ page'.baseline = page.baseline /\ page'.ack = page.ack /\ page'.seeded = page.seeded
         /\ page'.doc = page.doc /\ page'.intent = page.intent /\ page'.acked = page.acked
    <3>1. CASE page' = p
      BY <2>15, <2>16, <3>1
    <3>2. CASE page' = [p EXCEPT !.restore = b]
      <4>1. page' \in Pages
        BY <2>14, <2>15, <3>2 DEF Pages
      <4>2. /\ page'.base = p.base /\ page'.saw = p.saw /\ page'.kept = p.kept
            /\ page'.status = p.status /\ page'.sync = p.sync /\ page'.choice = p.choice
            /\ page'.baseline = p.baseline /\ page'.ack = p.ack /\ page'.seeded = p.seeded
            /\ page'.doc = p.doc /\ page'.intent = p.intent /\ page'.acked = p.acked
        BY <2>15, <3>2 DEF Pages
      <4> QED
        BY <2>16, <4>1, <4>2
    <3> QED
      BY <1>4, <3>1, <3>2
  <2>19. page'.revision = r.revision
    <3>1. CASE page' = p
      BY <2>17, <3>1
    <3>2. CASE page' = [p EXCEPT !.restore = b]
      BY <2>15, <2>17, <3>2 DEF Pages
    <3> QED
      BY <1>4, <3>1, <3>2
  <2>20. /\ tail' \in {Tail(tail), Orphaned(Tail(tail))}
         /\ \/ page'.restore.phase = page.restore.phase
            \/ tail' = Orphaned(Tail(tail)) /\ page'.restore.phase # "unknown"
    <3>1. CASE page' = p /\ tail' = Tail(tail)
      BY <2>16, <3>1
    <3>2. CASE page' = [p EXCEPT !.restore = b] /\ tail' = Orphaned(Tail(tail))
      <4>1. page'.restore = b
        BY <2>15, <3>2 DEF Pages
      <4> QED
        BY <2>14, <3>2, <4>1
    <3> QED
      BY <1>4, <3>1, <3>2
  <2>21. PageTyped'
    BY <2>3, <2>18 DEF PageTyped
  <2>22. PageSound'
    BY <1>1, <2>3, <2>7, <2>11, <2>18, <2>19 DEF PageSound, services, Rev
  <2>23. KeptSound'
    BY <1>1, <2>7, <2>12, <2>18, <2>19 DEF SyncInv, KeptSound
  <2>24. AckedStored'
    <3>1. BundlesHeld'
      BY <1>1, <2>18 DEF SyncInv, AckedStored, BundlesHeld, services, Latest, Rev
    <3> QED
      BY <1>1, <2>18, <3>1, EverStays DEF SyncInv, AckedStored
  <2>25. ~Undecided'
    BY <1>1, <2>3, <2>18 DEF Undecided
  <2> QED
    BY <1>1, <1>2, <2>18, <2>20, <2>21, <2>22, <2>23, <2>24, <2>25, FinishStep
<1> QED
  BY <1>3, <1>4 DEF PreviewAnswered, Finish

\* The record of a restore in the phase a step gives it.
LEMMA PhasePage ==
  ASSUME SyncInv, Job.mine => page.restore.phase = "committing",
         NEW phase \in {"previewed", "committing", "unknown"}, NEW n \in 0 .. MaxRevisions
  PROVE  LET d == Phase(page, phase, n) IN
         /\ d \in Pages
         /\ d.base = page.base /\ d.revision = page.revision /\ d.saw = page.saw
         /\ d.kept = page.kept /\ d.status = page.status /\ d.sync = page.sync
         /\ d.choice = page.choice /\ d.baseline = page.baseline /\ d.ack = page.ack
         /\ d.seeded = page.seeded /\ d.doc = page.doc /\ d.intent = page.intent
         /\ d.acked = page.acked
         /\ (d.restore.phase = page.restore.phase \/ (Job.mine /\ d.restore.phase = phase))
<1>1. page \in Pages /\ page.restore \in Bindings \cup {NoRestore}
  BY PageFacts
<1>2. CASE ~Job.mine
  <2> DEFINE d == Phase(page, phase, n)
  <2>1. d = page
    BY <1>2 DEF Phase
  <2> HIDE DEF d
  <2>2. /\ d \in Pages
        /\ d.base = page.base /\ d.revision = page.revision /\ d.saw = page.saw
        /\ d.kept = page.kept /\ d.status = page.status /\ d.sync = page.sync
        /\ d.choice = page.choice /\ d.baseline = page.baseline /\ d.ack = page.ack
        /\ d.seeded = page.seeded /\ d.doc = page.doc /\ d.intent = page.intent
        /\ d.acked = page.acked
        /\ (d.restore.phase = page.restore.phase \/ (Job.mine /\ d.restore.phase = phase))
    BY <1>1, <2>1
  <2> QED
    BY <2>2 DEF d
<1>3. CASE Job.mine
  <2> DEFINE b == [page.restore EXCEPT !.phase = phase, !.acknowledged = n]
  <2>1. page.restore \in Bindings
    BY <1>1, <1>3 DEF NoRestore
  <2>2. b \in Bindings /\ b.phase = phase
    BY <2>1 DEF Bindings
  <2>3. Phase(page, phase, n) = [page EXCEPT !.restore = b]
    BY <1>1, <1>3, <2>1 DEF Phase, Pages, Bindings
  <2> HIDE DEF b
  <2>4. [page EXCEPT !.restore = b] \in Pages
    BY <1>1, <2>2 DEF Pages
  <2>5. [page EXCEPT !.restore = b].revision = page.revision
    BY <1>1 DEF Pages
  <2>6. LET d == [page EXCEPT !.restore = b] IN
         /\ d.base = page.base /\ d.saw = page.saw
         /\ d.kept = page.kept /\ d.status = page.status /\ d.sync = page.sync
         /\ d.choice = page.choice /\ d.baseline = page.baseline /\ d.ack = page.ack
         /\ d.seeded = page.seeded /\ d.doc = page.doc /\ d.intent = page.intent
         /\ d.acked = page.acked /\ d.restore = b
    BY <1>1 DEF Pages
  <2> QED
    BY <1>3, <2>2, <2>3, <2>4, <2>5, <2>6
<1> QED
  BY <1>2, <1>3

\* What a commit knows of the page's record.
LEMMA CommitFacts ==
  ASSUME SyncInv, tail # <<>>, Job.kind = "commit"
  PROVE  /\ Job.binding \in Bindings /\ Job \in QueuedJobs
         /\ Job.mine => page.restore.phase = "committing" /\ Len(tail) = 1
         /\ Job.live => ~Undecided /\ page.choice = None
<1>1. 1 \in DOMAIN tail /\ Job = tail[1] /\ Job \in QueuedJobs
  BY QueueFacts
<1>2. Job.binding \in Bindings /\ (Job.mine => page.restore.phase = "committing" /\ Len(tail) = 1)
  BY <1>1 DEF SyncInv, QueueSound, WaitingSound
<1>3. ASSUME Job.live PROVE ~Undecided /\ page.choice = None
  BY <1>1, <1>3 DEF SyncInv, UndecidedRests, Undecided
<1> QED
  BY <1>1, <1>2, <1>3

\* A commit that ends without having been confirmed.
LEMMA OutcomeFinish ==
  ASSUME SyncInv, tail # <<>>, Job.kind = "commit", Finish, UNCHANGED <<services, conn, stray>>,
         NEW phase \in {"previewed", "unknown"}, NEW n \in 0 .. MaxRevisions,
         NEW sync \in {"unsaved", "conflict"},
         page' = Sync(Phase(page, phase, n), sync)
  PROVE  SyncInv'
<1> DEFINE p == Phase(page, phase, n)
<1>1. /\ Job.mine => page.restore.phase = "committing"
      /\ Job.live => page.choice = None
  BY CommitFacts
<1>2. phase \in {"previewed", "committing", "unknown"} /\ sync \in Syncs
  BY DEF Syncs
<1>3. /\ p \in Pages
      /\ p.base = page.base /\ p.revision = page.revision /\ p.saw = page.saw
      /\ p.kept = page.kept /\ p.status = page.status /\ p.sync = page.sync
      /\ p.choice = page.choice /\ p.baseline = page.baseline /\ p.ack = page.ack
      /\ p.seeded = page.seeded /\ p.doc = page.doc /\ p.intent = page.intent
      /\ p.acked = page.acked
      /\ (p.restore.phase = page.restore.phase \/ (Job.mine /\ p.restore.phase = phase))
  BY <1>1, <1>2, PhasePage
<1> HIDE DEF p
<1>4. page' = IF Job.live THEN [p EXCEPT !.sync = sync] ELSE p
  BY DEF Sync, p
<1>5. /\ page' \in Pages
      /\ page'.base = p.base /\ page'.saw = p.saw
      /\ page'.kept = p.kept /\ page'.status = p.status
      /\ page'.choice = p.choice /\ page'.baseline = p.baseline /\ page'.ack = p.ack
      /\ page'.seeded = p.seeded /\ page'.doc = p.doc /\ page'.intent = p.intent
      /\ page'.acked = p.acked /\ page'.restore = p.restore
  <2>1. CASE Job.live
    <3>1. page' \in Pages
      BY SMTT(30), <1>2, <1>3, <1>4, <2>1 DEF Pages, Syncs
    <3>2. page' = [p EXCEPT !.sync = sync] /\ p \in Pages
      BY <1>3, <1>4, <2>1
    <3>3. /\ page'.base = p.base /\ page'.saw = p.saw
          /\ page'.kept = p.kept /\ page'.status = p.status
          /\ page'.choice = p.choice /\ page'.baseline = p.baseline /\ page'.ack = p.ack
          /\ page'.seeded = p.seeded /\ page'.doc = p.doc /\ page'.intent = p.intent
          /\ page'.acked = p.acked /\ page'.restore = p.restore
      BY <3>2 DEF Pages
    <3> QED
      BY <3>1, <3>3
  <2>2. CASE ~Job.live
    BY <1>3, <1>4, <2>2
  <2> QED
    BY <2>1, <2>2
<1>6. page'.revision = p.revision
  BY <1>3, <1>4 DEF Pages
<1>7. page'.sync = IF Job.live THEN sync ELSE page.sync
  BY <1>3, <1>4 DEF Pages
<1>8. /\ page.choice # None => page.sync = "choice"
      /\ page.status = "connected" /\ page.sync \in {"saved", "idle"} /\ ~page.kept =>
           page.revision # 0 /\ page.doc = page.saw
      /\ page.acked.tracks \subseteq Latest(page.acked.url).bundles
  BY DEF SyncInv, PageTyped, KeptSound, AckedStored, BundlesHeld
<1>9. /\ page'.base = page.base /\ page'.revision = page.revision /\ page'.saw = page.saw
      /\ page'.kept = page.kept /\ page'.choice = page.choice /\ page'.baseline = page.baseline
      /\ page'.ack = page.ack /\ page'.seeded = page.seeded /\ page'.doc = page.doc
      /\ page'.intent = page.intent /\ page'.acked = page.acked /\ page'.status = page.status
      /\ page'.restore.phase = page.restore.phase \/ Job.mine
  BY <1>3, <1>5, <1>6
<1>10. page'.choice # None => page'.sync = "choice"
  BY <1>1, <1>7, <1>8, <1>9
<1>11. page'.status = "connected" /\ page'.sync \in {"saved", "idle"} /\ ~page.kept =>
           page.revision # 0 /\ page.doc = page.saw
  BY <1>7, <1>8, <1>9
<1> QED
  BY <1>5, <1>8, <1>9, <1>10, <1>11, NotedFinish

\* The commit of a restore begins.
LEMMA StartCommitKeeps ==
  ASSUME SyncInv, StartCommit
  PROVE  SyncInv'
<1>1. tail # <<>> /\ run = Idle /\ Job.kind = "commit" /\ UNCHANGED <<services, conn, stray>>
  BY DEF StartCommit, Starting
<1>2. CASE Finish /\ page' = Sync(Phase(page, "previewed", 0), "unsaved")
  BY <1>1, <1>2, RevisionBounds, OutcomeFinish
<1>3. CASE /\ CommitCurrent /\ page.choice = None
           /\ page' = [page EXCEPT !.sync = "saving"]
           /\ run' = Send("restore", [op |-> "restore", url |-> page.base,
                            basis |-> Job.binding.revision, mode |-> Job.binding.mode])
           /\ UNCHANGED tail
  <2> DEFINE q == [op |-> "restore", url |-> page.base,
                   basis |-> Job.binding.revision, mode |-> Job.binding.mode]
  <2>1. Job.live /\ Job.binding \in Bindings /\ ~Undecided
    BY <1>1, <1>3, CommitFacts DEF CommitCurrent
  <2>2. page \in Pages /\ page.base \in Urls
    BY PageFacts
  <2>3. q \in RestorePosts /\ q \in Requests
    BY <2>1, <2>2 DEF RestorePosts, Requests, Bindings
  <2> HIDE DEF q
  <2>4. run' \in Tasks /\ run'.pc = "restore" /\ run'.q = q /\ run'.reply = None
    BY <1>3, <2>3, SentTask DEF Waits, q
  <2>5. /\ page' \in Pages
        /\ page'.base = page.base /\ page'.saw = page.saw
        /\ page'.kept = page.kept /\ page'.status = page.status /\ page'.sync = "saving"
        /\ page'.choice = page.choice /\ page'.baseline = page.baseline /\ page'.ack = page.ack
        /\ page'.seeded = page.seeded /\ page'.doc = page.doc /\ page'.intent = page.intent
        /\ page'.acked = page.acked /\ page'.restore = page.restore
    <3>1. page' \in Pages
      BY <1>3, <2>2 DEF Pages
    <3> QED
      BY <1>3, <2>2, <3>1 DEF Pages
  <2>6. page'.revision = page.revision
    BY <1>3, <2>2 DEF Pages
  <2>7. JobShaped' /\ JobAnswered' /\ SentSeen'
    BY <2>3, <2>4 DEF JobShaped, JobAnswered, SentSeen, Got, SentBy, Waits
  <2>8. PageTyped'
    BY <1>3, <2>5 DEF PageTyped
  <2>9. WaitingSound(tail, page'.restore.phase)
    BY <2>5 DEF SyncInv, QueueSound
  <2>10. UndecidedRests'
    BY <1>1, <2>1, <2>5 DEF UndecidedRests, Undecided
  <2>11. PageSound'
    BY <1>1, <2>5, <2>6 DEF SyncInv, PageSound, services, Rev
  <2>12. KeptSound'
    BY <1>1, <2>5, <2>6 DEF SyncInv, KeptSound
  <2>13. LiveSound'
    BY <2>4 DEF LiveSound, Saving
  <2>14. AckedStored'
    <3>1. BundlesHeld'
      BY <1>1, <2>5 DEF SyncInv, AckedStored, BundlesHeld, services, Latest, Rev
    <3> QED
      BY <1>1, <2>5, <3>1, EverStays DEF SyncInv, AckedStored
  <2> QED
    BY <1>1, <1>3, <2>4, <2>5, <2>7, <2>8, <2>9, <2>10, <2>11, <2>12, <2>13, <2>14, JobStep
       DEF Saving
<1> QED
  BY <1>2, <1>3 DEF StartCommit

\* The service has committed, has refused, or nothing is known of it.
LEMMA CommitAnsweredKeeps ==
  ASSUME SyncInv, CommitAnswered
  PROVE  SyncInv'
<1> DEFINE n == run.reply.revision
           p == Phase(page, "committing", n)
<1>1. run.pc = "restore" /\ run.reply # None /\ UNCHANGED <<services, conn, stray>>
  BY DEF CommitAnswered, Answered
<1>2. run # Idle /\ tail # <<>> /\ Job.kind = "commit"
  BY <1>1, QueueFacts DEF SyncInv, QueueSound
<1>3. CASE /\ Finish
           /\ page' = Sync(Phase(page, IF OutcomeUnknown(run.reply.code) THEN "unknown" ELSE "previewed", 0),
                           "conflict")
  <2>1. PICK phase \in {"previewed", "unknown"} :
          phase = IF OutcomeUnknown(run.reply.code) THEN "unknown" ELSE "previewed"
    OBVIOUS
  <2>2. page' = Sync(Phase(page, phase, 0), "conflict")
    BY <1>3, <2>1
  <2> QED
    BY <1>1, <1>2, <1>3, <2>2, RevisionBounds, OutcomeFinish
<1>4. CASE /\ run.reply.code = "ok" /\ CommitCurrent
           /\ page' = p
           /\ run' = [Send("readback", Get(page)) EXCEPT !.revision = n]
           /\ UNCHANGED tail
  <2>1. /\ Job.mine => page.restore.phase = "committing"
        /\ Job.live /\ ~Undecided
    BY <1>2, <1>4, CommitFacts DEF CommitCurrent
  <2>2. page \in Pages /\ page.base \in Urls /\ run.q.url \in Urls
    BY <1>1, PageFacts, SentTo DEF Waits
  <2>3. n \in 0 .. MaxRevisions
    <3>1. run.reply # Lost
      BY <1>4 DEF Lost
    <3>2. TrueOf(past[run.q.url], run.reply)
      BY <1>1, <3>1 DEF SyncInv, JobAnswered, Got, Waits
    <3> QED
      BY <2>2, <3>2, AnswerFacts
  <2> HIDE DEF n
  <2>4. /\ p \in Pages
        /\ p.base = page.base /\ p.revision = page.revision /\ p.saw = page.saw
        /\ p.kept = page.kept /\ p.status = page.status /\ p.sync = page.sync
        /\ p.choice = page.choice /\ p.baseline = page.baseline /\ p.ack = page.ack
        /\ p.seeded = page.seeded /\ p.doc = page.doc /\ p.intent = page.intent
        /\ p.acked = page.acked
        /\ (p.restore.phase = page.restore.phase \/ (Job.mine /\ p.restore.phase = "committing"))
    BY <2>1, <2>3, PhasePage
  <2> HIDE DEF p
  <2>5. p.restore.phase = page.restore.phase
    BY <2>1, <2>4
  <2>6. /\ run' \in Tasks /\ run'.pc = "readback" /\ run'.q = Get(page) /\ run'.reply = None
        /\ Get(page) \in Gets /\ Get(page).url = page.base
    <3> DEFINE x == Send("readback", Get(page))
    <3>1. /\ x \in Tasks /\ x.pc = "readback" /\ x.q = Get(page) /\ x.reply = None
          /\ Get(page) \in Gets /\ Get(page).url = page.base
      BY <2>2, SentGet DEF Waits
    <3>2. run' = [x EXCEPT !.revision = n]
      BY <1>4
    <3> HIDE DEF x
    <3> QED
      BY <2>3, <3>1, <3>2 DEF Tasks
  <2>7. JobShaped' /\ JobAnswered' /\ SentSeen'
    BY <2>6 DEF JobShaped, JobAnswered, SentSeen, Got, SentBy, Waits
  <2>8. PageTyped'
    BY <1>4, <2>4 DEF SyncInv, PageTyped
  <2>9. WaitingSound(tail, page'.restore.phase)
    BY <1>4, <2>5 DEF SyncInv, QueueSound
  <2>10. UndecidedRests'
    BY <1>1, <1>4, <2>1, <2>4 DEF UndecidedRests, Undecided
  <2>11. PageSound'
    BY <1>1, <1>4, <2>4 DEF SyncInv, PageSound, services, Rev
  <2>12. KeptSound'
    BY <1>1, <1>4, <2>4 DEF SyncInv, KeptSound
  <2>13. LiveSound'
    BY <1>4, <2>4, <2>6 DEF LiveSound, Saving
  <2>14. AckedStored'
    <3>1. BundlesHeld'
      BY <1>1, <1>4, <2>4 DEF SyncInv, AckedStored, BundlesHeld, services, Latest, Rev
    <3> QED
      BY <1>1, <1>4, <2>4, <3>1, EverStays DEF SyncInv, AckedStored
  <2> QED
    BY <1>1, <1>2, <1>4, <2>4, <2>6, <2>7, <2>8, <2>9, <2>10, <2>11, <2>12, <2>13, <2>14, JobStep
       DEF Saving
<1> QED
  BY <1>3, <1>4 DEF CommitAnswered, p, n

\* What the service holds after the commit is installed when it is what was intended.
LEMMA CommitReadBackKeeps ==
  ASSUME SyncInv, CommitReadBack
  PROVE  SyncInv'
<1> DEFINE r == run.reply
           p == RowsAsOf(page, r.revision)
<1>1. run.pc = "readback" /\ r # None /\ UNCHANGED <<services, conn, stray>> /\ run' = Idle
  BY DEF CommitReadBack, Answered
<1>2. run # Idle /\ tail # <<>> /\ Job.kind = "commit" /\ run \in Tasks
  BY <1>1, QueueFacts DEF SyncInv, QueueSound, JobShaped
<1>3. CASE /\ page' = Sync(Phase(page, "unknown", run.revision), "conflict")
           /\ tail' = Tail(tail)
  <2>1. run.revision \in 0 .. MaxRevisions
    BY <1>2 DEF Tasks
  <2> QED
    BY <1>1, <1>2, <1>3, <2>1, OutcomeFinish DEF Finish
<1>4. CASE /\ r # Lost /\ CommitCurrent
           /\ page' = Installed(p, r.state, r.revision)
           /\ tail' = Orphaned(Tail(tail))
  <2>1. Job.live /\ page.choice = None /\ ~Undecided
    BY <1>2, <1>4, CommitFacts DEF CommitCurrent
  <2>2. page \in Pages /\ page.base \in Urls /\ run.q.url = page.base
    BY <1>1, <1>2, <2>1, PageFacts DEF SyncInv, LiveSound
  <2>3. TrueOf(past[page.base], r)
    BY <1>1, <1>4, <2>2 DEF SyncInv, JobAnswered, Got, Waits
  <2>4. /\ r.revision \in 1 .. MaxRevisions /\ r.revision \in 0 .. MaxRevisions
        /\ r.state \in Contents /\ r.state.doc \in SUBSET Items /\ r.state.voc \in SUBSET Rows
    BY <2>2, <2>3, AnswerFacts
  <2>5. /\ r.revision # 0 /\ r.revision <= Rev(page.base)
        /\ r.state.doc = past[page.base][r.revision].doc
    BY <2>2, <2>3, AnswerFacts
  <2>6. \A i \in r.state.doc : EverStored(i)'
    <3>1. \A i \in r.state.doc : EverStored(i)
      BY <2>2, <2>3, AnswerFacts
    <3> QED
      BY <1>1, <3>1, EverStays
  <2> HIDE DEF r
  <2>7. /\ p \in Pages /\ p.base = page.base /\ p.choice = page.choice /\ p.ack = page.ack
        /\ p.seeded = page.seeded /\ p.acked = page.acked
    BY <2>2, <2>4, RowsAsOfPage
  <2> HIDE DEF p
  <2>8. page' \in Pages
    BY <1>4, <2>4, <2>7 DEF Installed, Pages
  <2>9. /\ page'.base = p.base /\ page'.kept = FALSE /\ page'.choice = p.choice
        /\ page'.ack = p.ack /\ page'.seeded = p.seeded
        /\ page'.intent = None /\ page'.acked = p.acked /\ page'.restore = NoRestore
    BY <1>4, <2>7 DEF Installed, Pages
  <2>10. page'.revision = r.revision
    BY <1>4, <2>7 DEF Installed, Pages
  <2>11. page'.saw = r.state.doc /\ page'.doc = r.state.doc
    BY <1>4, <2>7 DEF Installed, Pages
  <2>12. page'.baseline = r.state
    BY <1>4, <2>7 DEF Installed, Pages
  <2>13. PageTyped'
    BY <2>1, <2>7, <2>8, <2>9 DEF PageTyped
  <2>14. PageSound'
    BY <1>1, <2>1, <2>5, <2>7, <2>9, <2>10, <2>11 DEF PageSound, services, Rev
  <2>15. KeptSound'
    BY <2>5, <2>9, <2>10, <2>11, <2>12 DEF KeptSound
  <2>16. AckedStored'
    <3>1. BundlesHeld'
      BY <1>1, <2>7, <2>9 DEF SyncInv, AckedStored, BundlesHeld, services, Latest, Rev
    <3> QED
      BY <1>1, <2>6, <2>7, <2>9, <2>12, <3>1, EverStays DEF SyncInv, AckedStored
  <2>17. ~Undecided'
    BY <1>1, <2>1, <2>7, <2>9 DEF Undecided
  <2>18. page'.restore.phase # "unknown"
    BY <2>9 DEF NoRestore
  <2> QED
    BY <1>1, <1>2, <1>4, <2>7, <2>9, <2>13, <2>14, <2>15, <2>16, <2>17, <2>18, FinishStep
<1> QED
  BY <1>3, <1>4 DEF CommitReadBack, p, r

-----------------------------------------------------------------------------
(***************************************************************************)
(* The invariant of the specification.                                     *)
(***************************************************************************)

\* The services at first: one revision each, written by no operation.
LEMMA ServicesAtFirst ==
  ASSUME Init
  PROVE  ServicesSound
<1>1. ASSUME NEW u \in Urls
      PROVE  \E d \in SUBSET Others : past[u] = <<[doc |-> d, voc |-> {}, bundles |-> {}, op |-> None]>>
  BY DEF Init
<1>2. ASSUME NEW u \in Urls
      PROVE  /\ past[u] \in Seq(Entries) /\ Len(past[u]) = 1 /\ lastDoc[u] = 1
             /\ past[u][1].doc \subseteq Others /\ past[u][1].bundles = {}
  <2>1. PICK d \in SUBSET Others : past[u] = <<[doc |-> d, voc |-> {}, bundles |-> {}, op |-> None]>>
    BY <1>1
  <2> DEFINE e == [doc |-> d, voc |-> {}, bundles |-> {}, op |-> None]
  <2>2. e \in Entries /\ e.doc = d /\ e.bundles = {}
    BY DEF Entries, Items
  <2>3. lastDoc[u] = 1
    BY DEF Init
  <2> HIDE DEF e
  <2>4. past[u] = <<e>>
    BY <2>1 DEF e
  <2> QED
    BY <2>2, <2>3, <2>4
<1>3. past \in [Urls -> Seq(Entries)]
  <2>1. past = [u \in Urls |-> past[u]]
    BY DEF Init
  <2> QED
    BY <1>2, <2>1
<1>4. lastDoc \in [Urls -> Nat]
  BY DEF Init
<1>5. 1 \in 1 .. MaxRevisions
  BY SyncAssumption DEF SyncAssumption
<1>6. ServicesTyped
  <2>1. \A u \in Urls : Rev(u) = 1 /\ lastDoc[u] = 1
    BY <1>2 DEF Rev
  <2>2. \A u \in Urls : Rev(u) \in 1 .. MaxRevisions /\ lastDoc[u] \in 1 .. Rev(u)
    BY <1>5, <2>1
  <2> QED
    BY <1>3, <1>4, <2>2 DEF ServicesTyped
<1>7. ASSUME NEW u \in Urls PROVE ServiceSound(u)
  <2>1. Rev(u) = 1 /\ Latest(u) = past[u][1]
    BY <1>2 DEF Rev, Latest
  <2>2. \A r \in 1 .. Rev(u) : r = 1
    BY <2>1
  <2>3. past[u][1].doc \cap Tracks \subseteq past[u][1].bundles
    BY <1>2, SyncAssumption DEF SyncAssumption
  <2>4. \A r \in lastDoc[u] .. Rev(u) : r = 1
    BY <1>2, <2>1
  <2> QED
    BY <2>1, <2>2, <2>3, <2>4 DEF ServiceSound
<1> QED
  BY <1>6, <1>7 DEF ServicesSound

\* A page that was just opened knows nothing, and nothing runs.
LEMMA InitSound ==
  ASSUME Init
  PROVE  SyncInv
<1>1. tail = <<>> /\ run = Idle /\ conn = Idle /\ stray = Idle
  BY DEF Init
<1>2. PICK u \in Urls : page = FreshPage(u)
  BY DEF Init
<1>3. page \in Pages
  BY <1>2, FreshPagePage
<1>4. /\ page.base = u /\ page.revision = 0 /\ page.choice = None /\ page.baseline = None
      /\ page.ack = None /\ page.seeded = FALSE /\ page.status = "disconnected"
      /\ page.acked = [url |-> u, tracks |-> {}] /\ page.restore = NoRestore
  BY <1>2 DEF FreshPage
<1>5. Idle.pc = "idle" /\ Idle \in Tasks
  BY TasksApart
<1>6. "idle" \notin Waits /\ "idle" \notin Saving
  BY DEF Waits, Saving
<1>7. PageTyped /\ QueueTyped
  <2>1. tail \in Seq(QueuedJobs) /\ Len(tail) = 0 /\ DOMAIN tail = {}
    BY <1>1
  <2> QED
    BY <1>1, <1>3, <1>4, <2>1, SyncAssumption DEF PageTyped, QueueTyped, SyncAssumption
<1>8. JobShaped /\ ConnectionShaped /\ StrayShaped
  BY <1>1, <1>5, <1>6 DEF JobShaped, ConnectionShaped, StrayShaped
<1>9. ConnectionAnswered /\ JobAnswered /\ SentSeen
  BY <1>1, <1>5, <1>6 DEF ConnectionAnswered, JobAnswered, SentSeen, Got
<1>10. QueueSound
  <2>1. DOMAIN tail = {}
    BY <1>1
  <2>2. WaitingSound(tail, page.restore.phase)
    BY <1>1, <2>1 DEF WaitingSound
  <2> QED
    BY <1>1, <1>5, <1>6, <2>2 DEF QueueSound
<1>11. UndecidedRests
  BY <1>1, <1>4, <1>5 DEF UndecidedRests, Undecided
<1>12. PageSound /\ KeptSound
  BY <1>1, <1>4, <1>5 DEF PageSound, KeptSound
<1>13. LiveSound
  BY <1>1 DEF LiveSound
<1>14. AckedStored
  <2>1. page.ack \notin Acks
    BY <1>4, SyncAssumption DEF SyncAssumption, Acks
  <2> QED
    BY <1>4, <2>1 DEF AckedStored, BundlesHeld
<1> QED
  BY <1>7, <1>8, <1>9, <1>10, <1>11, <1>12, <1>13, <1>14, ServicesAtFirst DEF SyncInv

\* A step that changes nothing.
LEMMA StutterKeeps ==
  ASSUME SyncInv, UNCHANGED vars
  PROVE  SyncInv'
<1>1. UNCHANGED <<services, tail, run, conn, stray>> /\ UNCHANGED page
  BY DEF vars, services
<1>2. PageTyped' /\ PageSound' /\ AckedStored'
  BY <1>1, PageRests DEF services
<1>3. WaitingSound(tail, page'.restore.phase)
  BY <1>1 DEF SyncInv, QueueSound
<1>4. UndecidedRests'
  BY <1>1 DEF SyncInv, UndecidedRests, Undecided, Job
<1>5. KeptSound' /\ LiveSound'
  BY <1>1 DEF SyncInv, KeptSound, LiveSound, Job
<1> QED
  BY <1>1, <1>2, <1>3, <1>4, <1>5, PageStep

\* Every step of the page, of its jobs and of the services keeps the invariant.
LEMMA StepSound ==
  ASSUME SyncInv, [Next]_vars
  PROVE  SyncInv'
<1>1. CASE Service
  BY <1>1, ServeJobKeeps, ServeConnectKeeps, LoseRequestKeeps, ServeStrayKeeps DEF Service
<1>2. CASE Elsewhere \/ Unauthorized \/ InstallReceipt
  BY <1>2, ElsewhereKeeps, UnauthorizedKeeps, InstallReceiptKeeps
<1>3. CASE Learner
  <2>1. CASE Pair \/ Disconnect \/ Connect \/ Reload
    BY <2>1, LeaveKeeps, ConnectKeeps, ReloadKeeps
  <2>2. CASE KeepBrowser \/ LoadService \/ ChooseAgain
    BY <2>2, KeepBrowserKeeps, LoadServiceKeeps, ChooseAgainKeeps
  <2>3. CASE Edit \/ ImportTranscript \/ LocalCapture \/ Save
    BY <2>3, EditKeeps, SaveKeeps
  <2>4. CASE AskPreview \/ Confirm \/ RestoreSession
    BY <2>4, AskPreviewKeeps, ConfirmKeeps, RestoreSessionKeeps
  <2> QED
    BY <1>3, <2>1, <2>2, <2>3, <2>4 DEF Learner
<1>4. CASE Connecting
  BY <1>4, ConnectLostKeeps, ReconcileKeeps, ComparedKeeps, CompareKeeps, ConnectedKeeps
     DEF Connecting
<1>5. CASE Working
  <2>1. CASE StartSave \/ BundleAnswered \/ BundleVerified \/ DocumentAnswered \/ Flushed
    BY <2>1, StartSaveKeeps, BundleAnsweredKeeps, BundleVerifiedKeeps, DocumentAnsweredKeeps,
       FlushedKeeps
  <2>2. CASE StartLoad \/ LoadAnswered \/ StartPreview \/ PreviewAnswered
    BY <2>2, StartLoadKeeps, LoadAnsweredKeeps, StartPreviewKeeps, PreviewAnsweredKeeps
  <2>3. CASE StartCommit \/ CommitAnswered \/ CommitReadBack
    BY <2>3, StartCommitKeeps, CommitAnsweredKeeps, CommitReadBackKeeps
  <2> QED
    BY <1>5, <2>1, <2>2, <2>3 DEF Working
<1>6. CASE UNCHANGED vars
  BY <1>6, StutterKeeps
<1> QED
  BY <1>1, <1>2, <1>3, <1>4, <1>5, <1>6 DEF Next

\* What the page believes of the services, and what runs on that belief, is so in every
\* state the page and the services reach.
THEOREM SyncInvHolds == Spec => []SyncInv
<1>1. Init => SyncInv
  BY InitSound
<1>2. SyncInv /\ [Next]_vars => SyncInv'
  BY StepSound
<1> QED
  BY <1>1, <1>2, PTL DEF Spec

\* What is shown as saved is stored, in every state.
THEOREM SyncStaysSound == Spec => []SyncSound
<1>1. SyncInv => SyncSound
  <2> SUFFICES ASSUME SyncInv PROVE SyncSound
    OBVIOUS
  <2>1. TypeOK
    BY DEF SyncInv, ServicesSound, TypeOK
  <2>2. BundlesHeld
    BY DEF SyncInv, AckedStored
  <2>3. ASSUME page.status = "connected", page.sync \in {"saved", "idle"}, ~page.kept
        PROVE  Stored(page)
    <3>1. page.revision # 0 /\ page.doc = page.saw
      BY <2>3 DEF SyncInv, KeptSound
    <3>2. /\ page.revision <= Rev(page.base)
          /\ page.saw = past[page.base][page.revision].doc
      BY <3>1 DEF SyncInv, PageSound
    <3>3. page.base \in Urls /\ page.revision \in 0 .. MaxRevisions
      BY PageFacts
    <3>4. page.revision \in 1 .. Rev(page.base)
      <4>1. Rev(page.base) \in Nat
        BY <3>3, HistoryEntries DEF SyncInv, ServicesSound
      <4>2. MaxRevisions \in Nat
        BY SyncAssumption DEF SyncAssumption
      <4> QED
        BY <3>1, <3>2, <3>3, <4>1, <4>2
    <3>5. past[page.base][page.revision].doc \cap Tracks \subseteq
            past[page.base][page.revision].bundles
      BY <3>3, <3>4 DEF SyncInv, ServicesSound, ServiceSound
    <3> QED
      BY <3>1, <3>2, <3>4, <3>5 DEF Stored
  <2> QED
    BY <2>1, <2>2, <2>3 DEF SyncSound, SavedIsDurable
<1> QED
  BY <1>1, SyncInvHolds, PTL

-----------------------------------------------------------------------------
(***************************************************************************)
(* What a step may never do.                                               *)
(***************************************************************************)

\* A save writes over the document it was computed from, also when operations were
\* applied since: nothing else was written after the revision it names.
LEMMA PutOverSeen ==
  ASSUME SyncInv, [Next]_vars, Awaiting(run), run.q.op = "put", run' # run, past' # past
  PROVE  Latest(run.q.url).doc = run.q.saw
<1>1. ServeJob
  <2>1. ~Elsewhere
    BY DEF Elsewhere, OtherSave, ApplyOperation
  <2>2. ~ServeConnect /\ ~LoseRequest /\ ~ServeStray
    BY DEF ServeConnect, LoseRequest, ServeStray, services
  <2>3. ~Unauthorized /\ ~InstallReceipt
    BY DEF Unauthorized, InstallReceipt, services
  <2>4. ~Learner
    BY DEF Learner, Pair, Disconnect, Connect, KeepBrowser, LoadService, ChooseAgain, Edit,
           ImportTranscript, LocalCapture, Save, AskPreview, Confirm, RestoreSession, Reload,
           services
  <2>5. ~Connecting
    BY DEF Connecting, ConnectLost, Reconcile, Compared, Compare, Connected, services
  <2>6. ~Working
    BY DEF Working, StartSave, BundleAnswered, BundleVerified, DocumentAnswered, Flushed,
           StartLoad, LoadAnswered, StartPreview, PreviewAnswered, StartCommit, CommitAnswered,
           CommitReadBack, services
  <2>7. ~UNCHANGED vars
    BY DEF vars
  <2> QED
    BY <2>1, <2>2, <2>3, <2>4, <2>5, <2>6, <2>7 DEF Next, Service
<1>2. run.pc \in Waits
  BY AwaitingJob
<1>3. run.q \in Requests /\ run.q.url \in Urls /\ run.pc = "put"
  BY <1>2, SentTo
<1>4. Writes(run.q)
  BY <1>1 DEF ServeJob, Execute, services
<1>5. run.q.basis \in lastDoc[run.q.url] .. Rev(run.q.url)
  BY <1>3, <1>4, WrittenSound DEF SyncInv
<1>6. past[run.q.url][run.q.basis].doc = Latest(run.q.url).doc
  BY <1>3, <1>5 DEF SyncInv, ServicesSound, ServiceSound
<1>7. run.q.saw = past[run.q.url][run.q.basis].doc
  BY <1>3 DEF SyncInv, SentSeen
<1> QED
  BY <1>6, <1>7

\* A save replaces only a document the page has read, compared or sent itself.
THEOREM SavesReplaceSeen == Spec => PutReplacesSeen
<1>1. SyncInv /\ [Next]_vars =>
        [Awaiting(run) /\ run.q.op = "put" /\ run' # run /\ past' # past
           => Latest(run.q.url).doc = run.q.saw]_vars
  BY PutOverSeen
<1> QED
  BY <1>1, SyncInvHolds, PTL DEF Spec, PutReplacesSeen

\* What a comparison leaves of the browser's work: all of it, or the service's state where
\* everything that goes was stored once; transcripts that stay and are not acknowledged
\* keep their cues.
LEMMA CompareOutcome ==
  ASSUME SyncInv, Compare
  PROVE  /\ page'.restore = page.restore
         /\ \/ page'.doc = page.doc /\ page'.cues = page.cues
            \/ /\ page'.doc = page.doc \/ (\A i \in page.doc : EverStored(i))
               /\ page'.cues = Pending(page) \cap page'.doc
<1> DEFINE c == conn.reply
           changed == conn.before # Comparison(page)
           p == IF conn.adopt /\ ~changed THEN InstallRows(page, c.state.voc, c.revision) ELSE page
           choice == [state |-> c.state, revision |-> c.revision, before |-> Comparison(p)]
           at == [p EXCEPT !.revision = c.revision, !.saw = c.state.doc]
           h == Hydrate(at, c.state)
           s == SetBaseline(h, c.state)
<1>1. /\ conn.pc = "compare"
      /\ \/ page' = [p EXCEPT !.status = "connected", !.sync = "choice", !.choice = choice]
         \/ page' = [at EXCEPT !.acked = [url |-> page.base, tracks |-> {}], !.kept = TRUE,
                               !.status = "connected", !.sync = "unsaved"]
         \/ /\ ~MustChoose(p, c.state, changed)
            /\ ~(c.state = Empty /\ (Content(p) # Empty \/ p.cues # {}))
            /\ page' = RowsAsOf(s, c.revision)
  BY DEF Compare
<1>2. page \in Pages /\ page.base \in Urls
  BY PageFacts
<1>3. TrueOf(past[page.base], c)
  <2>1. c \in Answers \ {None}
    BY <1>1 DEF SyncInv, ConnectionShaped
  <2>2. c \notin {None, Lost}
    BY <2>1, TasksApart
  <2> QED
    BY <1>1, <2>2, ComparingFacts
<1> HIDE DEF c
<1>4. /\ c.revision \in 0 .. MaxRevisions /\ c.state \in Contents
      /\ c.state.doc \in SUBSET Items /\ c.state.voc \in SUBSET Rows
  BY <1>2, <1>3, AnswerFacts
<1>5. /\ p \in Pages /\ p.base = page.base /\ p.doc = page.doc /\ p.cues = page.cues
      /\ p.acked = page.acked /\ p.restore = page.restore /\ p.seeded = page.seeded
      /\ p.baseline # None => page.baseline # None /\ p.baseline.doc = page.baseline.doc
      /\ page.ack \in Acks <=> p.ack \in Acks
      /\ page.ack \in Acks => p.ack.state.doc = page.ack.state.doc
  BY <1>2, <1>4, InstallRowsPage
<1>6. ASSUME Baseline(p) # None PROVE \A i \in Baseline(p).doc : EverStored(i)
  BY <1>5, <1>6 DEF SyncInv, AckedStored, Baseline
<1> HIDE DEF p, changed
<1>7. /\ at \in Pages /\ at.base = p.base /\ at.doc = p.doc /\ at.cues = p.cues
      /\ at.acked = p.acked /\ at.restore = p.restore
  <2>1. at \in Pages
    BY <1>4, <1>5 DEF Pages
  <2> QED
    BY <1>5, <2>1 DEF Pages
<1>8. CASE page' = [p EXCEPT !.status = "connected", !.sync = "choice", !.choice = choice]
  <2> HIDE DEF choice
  <2>1. page'.doc = p.doc /\ page'.cues = p.cues /\ page'.restore = p.restore
    BY <1>5, <1>8 DEF Pages
  <2> QED
    BY <1>5, <2>1
<1> HIDE DEF at, choice
<1>9. CASE page' = [at EXCEPT !.acked = [url |-> page.base, tracks |-> {}], !.kept = TRUE,
                              !.status = "connected", !.sync = "unsaved"]
  <2>1. page'.doc = at.doc /\ page'.cues = at.cues /\ page'.restore = at.restore
    BY <1>7, <1>9 DEF Pages
  <2> QED
    BY <1>5, <1>7, <2>1
<1>10. CASE /\ ~MustChoose(p, c.state, changed)
            /\ ~(c.state = Empty /\ (Content(p) # Empty \/ p.cues # {}))
            /\ page' = RowsAsOf(s, c.revision)
  <2>1. h \in Pages /\ h.doc = c.state.doc /\ h.cues = Pending(at) \cap c.state.doc
        /\ h.restore = at.restore
    BY <1>4, <1>7, HydratePage
  <2> HIDE DEF h
  <2>2. s \in Pages /\ s.doc = h.doc /\ s.cues = h.cues /\ s.restore = h.restore
    BY <1>4, <2>1, SetBaselinePage
  <2> HIDE DEF s
  <2>3. page'.doc = s.doc /\ page'.cues = s.cues /\ page'.restore = s.restore
    BY <1>4, <1>10, <2>2, RowsAsOfPage
  <2>4. Pending(at) = Pending(page)
    BY <1>5, <1>7 DEF Pending, Acked
  <2>5. Content(p).doc = page.doc /\ Empty.doc = {}
    BY <1>5 DEF Content, State, Empty
  <2>6. page'.doc = page.doc \/ (\A i \in page.doc : EverStored(i))
    <3>1. CASE c.state = Content(p)
      BY <2>1, <2>2, <2>3, <2>5, <3>1
    <3>2. CASE c.state = Empty
      <4>1. Content(p) = Empty
        BY <1>10, <3>2
      <4> QED
        BY <2>5, <4>1
    <3>3. CASE Baseline(p) # None /\ Baseline(p) = Content(p)
      BY <1>6, <2>5, <3>3
    <3>4. CASE Baseline(p) = None /\ Content(p) = Empty
      BY <2>5, <3>4
    <3> QED
      BY <1>10, <3>1, <3>2, <3>3, <3>4 DEF MustChoose
  <2> QED
    BY <1>5, <1>7, <2>1, <2>2, <2>3, <2>4, <2>6
<1> QED
  BY <1>1, <1>8, <1>9, <1>10

\* Loading transcripts adds cues and takes nothing away.
LEMMA ConnectedOutcome ==
  ASSUME SyncInv, Connected
  PROVE  /\ page'.restore = page.restore /\ page'.doc = page.doc
         /\ page.cues \subseteq page'.cues
<1> DEFINE p == Loaded(page, conn.q, conn.reply)
<1>1. /\ conn.pc = "load" /\ conn.reply # None
      /\ page' = [p EXCEPT !.status = "connected", !.sync = IF Dirty(p) THEN "unsaved" ELSE "idle"]
  BY DEF Connected
<1>2. page \in Pages /\ page.base \in Urls /\ conn.q.url = page.base
  BY <1>1, PageFacts DEF SyncInv, ConnectionShaped, Get
<1>3. conn.reply # Lost => conn.reply.bundles \in SUBSET Tracks
  <2>1. conn.reply # Lost => TrueOf(past[page.base], conn.reply)
    BY <1>1, <1>2 DEF SyncInv, ConnectionAnswered, Got
  <2> QED
    BY <1>2, <2>1, AnswerFacts
<1>4. /\ p \in Pages /\ p.doc = page.doc /\ p.restore = page.restore /\ page.cues \subseteq p.cues
  BY <1>2, <1>3, LoadedPage
<1> HIDE DEF p
<1>5. page'.doc = p.doc /\ page'.restore = p.restore /\ page'.cues = p.cues
  BY <1>1, <1>4 DEF Pages
<1> QED
  BY <1>4, <1>5

\* Pairing with a service or leaving it keeps the store and the restore.
LEMMA LeftPage ==
  ASSUME NEW p \in Pages, NEW u \in Urls
  PROVE  LET d == Disconnected(p, u)
             e == [Disconnected(p, u) EXCEPT !.paired = TRUE] IN
         /\ d \in Pages /\ d.restore = p.restore /\ d.doc = p.doc /\ d.cues = p.cues
         /\ e \in Pages /\ e.restore = p.restore /\ e.doc = p.doc /\ e.cues = p.cues
<1> DEFINE d == Disconnected(p, u)
<1>1. d \in Pages /\ d.restore = p.restore /\ d.doc = p.doc /\ d.cues = p.cues
  BY DisconnectedPage
<1> HIDE DEF d
<1> DEFINE e == [d EXCEPT !.paired = TRUE]
<1>2. e \in Pages /\ e.restore = d.restore /\ e.doc = d.doc /\ e.cues = d.cues
  BY ZenonT(40), <1>1 DEF Pages
<1> QED
  BY <1>1, <1>2 DEF d

\* A restore of unknown outcome has no job: nothing of the queue touches its record.
LEMMA UnknownRests ==
  ASSUME SyncInv, page.restore.phase = "unknown"
  PROVE  tail = <<>> /\ run = Idle /\ run.pc = "idle"
<1>1. tail = <<>>
  BY DEF SyncInv, QueueSound, WaitingSound
<1> QED
  BY <1>1, QueueFacts, TasksApart

\* Superseding keeps such a record.
LEMMA SupersedeKeepsUnknown ==
  ASSUME NEW p \in Pages, NEW transport, Supersede(p, transport), p.restore.phase = "unknown"
  PROVE  page'.restore.phase = "unknown"
<1>1. page' = [p EXCEPT !.saw = {}, !.restore = p.restore]
  BY DEF Supersede
<1> QED
  BY <1>1 DEF Pages

\* What the learner and the services do beside it keeps it, too.
LEMMA UnknownStays ==
  ASSUME SyncInv, page.restore.phase = "unknown", [Next]_vars, ~Reload, ~Reconcile
  PROVE  page'.restore.phase = "unknown"
<1>1. /\ tail = <<>> /\ run.pc = "idle" /\ page \in Pages /\ Busy(page) /\ page.base \in Urls
  BY UnknownRests, PageFacts DEF Busy
<1>2. CASE Service \/ Elsewhere \/ UNCHANGED vars
  BY <1>2 DEF Service, ServeJob, ServeConnect, LoseRequest, ServeStray, Elsewhere, OtherSave,
              ApplyOperation, vars
<1>3. CASE Unauthorized
  <2>1. Revoked(page) \in Pages /\ Revoked(page).restore = page.restore
    BY <1>1, RevokedPage
  <2> QED
    BY <1>3, <2>1, SupersedeKeepsUnknown DEF Unauthorized
<1>4. CASE InstallReceipt
  <2>1. PICK r \in 2 .. Rev(page.base) :
          LET e == past[page.base][r] IN
          /\ e.op # None
          /\ page' = [ApplyRows(page, {e.op} \cap e.voc, {e.op} \ e.voc) EXCEPT !.rows[e.op] = r]
    BY <1>4 DEF InstallReceipt
  <2> DEFINE e == past[page.base][r]
             x == {e.op} \cap e.voc
             y == {e.op} \ e.voc
             p == ApplyRows(page, x, y)
  <2>2. page' = [p EXCEPT !.rows[e.op] = r]
    BY <2>1
  <2>3. p = [page EXCEPT !.voc = p.voc, !.baseline = p.baseline, !.ack = p.ack]
    BY <1>1 DEF ApplyRows, Pages
  <2> HIDE DEF p, e
  <2> QED
    BY <1>1, <2>2, <2>3 DEF Pages
<1>5. CASE Pair \/ Disconnect
  <2>1. CASE Pair
    <3>1. PICK u \in Urls : Supersede([Disconnected(page, u) EXCEPT !.paired = TRUE], FALSE)
      BY <2>1 DEF Pair
    <3> DEFINE e == [Disconnected(page, u) EXCEPT !.paired = TRUE]
    <3>2. e \in Pages /\ e.restore = page.restore /\ Supersede(e, FALSE)
      BY <1>1, <3>1, LeftPage
    <3> HIDE DEF e
    <3> QED
      BY <3>2, SupersedeKeepsUnknown
  <2>2. CASE Disconnect
    <3>1. PICK u \in Urls : Supersede(Disconnected(page, u), FALSE)
      BY <2>2 DEF Disconnect
    <3> QED
      BY <1>1, <3>1, LeftPage, SupersedeKeepsUnknown
  <2> QED
    BY <1>5, <2>1, <2>2
<1>6. CASE Connect
  <2> DEFINE p == [page EXCEPT !.revision = 0, !.choice = None, !.status = "connecting"]
  <2>1. p \in Pages
    BY <1>1, RevisionBounds DEF Pages
  <2>2. p.restore = page.restore
    BY <1>1 DEF Pages
  <2>3. Supersede(p, TRUE)
    BY <1>6 DEF Connect
  <2> HIDE DEF p
  <2> QED
    BY <2>1, <2>2, <2>3, SupersedeKeepsUnknown
<1>7. CASE Learner
  <2>1. CASE Edit \/ ImportTranscript \/ LocalCapture
    <3>1. CASE Edit
      BY <1>1, <3>1 DEF Edit, Edited, Pages
    <3>2. CASE ImportTranscript
      BY <1>1, <3>2 DEF ImportTranscript, Edited, Pages
    <3>3. CASE LocalCapture
      BY <1>1, <3>3 DEF LocalCapture, Edited, Pages
    <3> QED
      BY <2>1, <3>1, <3>2, <3>3
  <2>2. ~KeepBrowser /\ ~LoadService /\ ~ChooseAgain /\ ~Save /\ ~AskPreview /\ ~Confirm
        /\ ~RestoreSession
    BY <1>1 DEF KeepBrowser, LoadService, ChooseAgain, Save, AskPreview, Confirm, RestoreSession,
                Busy
  <2> QED
    BY <1>5, <1>6, <1>7, <2>1, <2>2 DEF Learner
<1>8. CASE Connecting
  <2>1. CASE ConnectLost
    BY <1>1, <2>1 DEF ConnectLost, Pages
  <2>2. ~Compared
    BY DEF Compared
  <2>3. CASE Compare
    BY <2>3, CompareOutcome
  <2>4. CASE Connected
    BY <2>4, ConnectedOutcome
  <2> QED
    BY <1>8, <2>1, <2>2, <2>3, <2>4 DEF Connecting
<1>9. ~Working
  BY <1>1 DEF Working, StartSave, BundleAnswered, BundleVerified, DocumentAnswered, Flushed,
              StartLoad, LoadAnswered, StartPreview, PreviewAnswered, StartCommit, CommitAnswered,
              CommitReadBack, Starting, Answered
<1> QED
  BY <1>2, <1>3, <1>4, <1>7, <1>8, <1>9 DEF Next

\* An unknown outcome is settled only by what was read back: the state the service held
\* at some revision, and the one that was intended.
LEMMA SettlesByReading ==
  ASSUME SyncInv, [Next]_vars, page.restore.phase = "unknown", page'.restore.phase # "unknown",
         ~Reload
  PROVE  \E r \in 1 .. Rev(page.base) :
           /\ Content(page') = State(past[page.base][r].doc, past[page.base][r].voc)
           /\ Content(page') = page.restore.intended
<1>1. Reconcile
  BY UnknownStays
<1> DEFINE c == conn.reply
<1>2. page \in Pages /\ page.base \in Urls
  BY PageFacts
<1>3. TrueOf(past[page.base], c)
  BY <1>1, ComparingFacts DEF Reconcile
<1> HIDE DEF c
<1>4. /\ c.revision \in 1 .. Rev(page.base) /\ c.revision \in 1 .. MaxRevisions
      /\ c.state \in Contents
      /\ c.state = State(past[page.base][c.revision].doc, past[page.base][c.revision].voc)
  BY <1>2, <1>3, AnswerFacts
<1>5. ReadBack(page.restore, c) /\ page' = Installed(page, c.state, c.revision)
  <2>1. CASE UNCHANGED page
    BY <2>1
  <2>2. CASE page' = [page EXCEPT !.revision = c.revision, !.sync = "conflict",
                                  !.saw = c.state.doc, !.kept = TRUE]
    BY <1>2, <2>2 DEF Pages
  <2> QED
    BY <1>1, <2>1, <2>2 DEF Reconcile, c
<1>6. page'.doc = c.state.doc /\ page'.voc = c.state.voc
  BY <1>2, <1>5 DEF Installed, Pages
<1>7. Content(page') = c.state
  BY <1>4, <1>6 DEF Content, State, Contents
<1> QED
  BY <1>4, <1>5, <1>7 DEF ReadBack

\* A restore whose outcome is unknown stays so until that outcome has been read.
THEOREM SettledOnlyByReadBack == Spec => SettledByReadBack
<1>1. SyncInv /\ [Next]_vars =>
        [page.restore.phase = "unknown" /\ page'.restore.phase # "unknown" /\ ~Reload
           => \E r \in 1 .. Rev(page.base) :
                Content(page') = State(past[page.base][r].doc, past[page.base][r].voc)
                  /\ Content(page') = page.restore.intended]_vars
  BY SettlesByReading
<1> QED
  BY <1>1, SyncInvHolds, PTL DEF Spec, SettledByReadBack

\* What no service ever stored, and cues that no service has, are still in the page.
WorkStays == page.doc \subseteq page'.doc /\ page.cues \subseteq page'.cues

\* Superseding the jobs takes nothing from the store.
LEMMA SupersedeKeepsWork ==
  ASSUME NEW p \in Pages, NEW transport, Supersede(p, transport),
         p.doc = page.doc, p.cues = page.cues
  PROVE  WorkStays
<1>1. page'.doc = p.doc /\ page'.cues = p.cues
  BY DEF Supersede, Pages
<1> QED
  BY <1>1 DEF WorkStays

\* What the services do, and pairing with one or leaving it, takes nothing away.
LEMMA WorkStaysApart ==
  ASSUME SyncInv,
         Service \/ Elsewhere \/ Unauthorized \/ InstallReceipt \/ Pair \/ Disconnect \/ Connect
  PROVE  WorkStays
<1>1. page \in Pages /\ page.base \in Urls
  BY PageFacts
<1>2. CASE Service \/ Elsewhere
  BY <1>2 DEF Service, ServeJob, ServeConnect, LoseRequest, ServeStray, Elsewhere, OtherSave,
              ApplyOperation, WorkStays
<1>3. CASE Unauthorized
  <2>1. Supersede(Revoked(page), FALSE)
    BY <1>3 DEF Unauthorized
  <2>2. /\ Revoked(page) \in Pages /\ Revoked(page).doc = page.doc
        /\ Revoked(page).cues = page.cues
    BY <1>1, RevokedPage
  <2> QED
    BY <2>1, <2>2, SupersedeKeepsWork
<1>4. CASE InstallReceipt
  <2>1. PICK r \in 2 .. Rev(page.base) :
          LET e == past[page.base][r] IN
          /\ e.op # None
          /\ page' = [ApplyRows(page, {e.op} \cap e.voc, {e.op} \ e.voc) EXCEPT !.rows[e.op] = r]
    BY <1>4 DEF InstallReceipt
  <2> DEFINE e == past[page.base][r]
             p == ApplyRows(page, {e.op} \cap e.voc, {e.op} \ e.voc)
  <2>2. page' = [p EXCEPT !.rows[e.op] = r]
    BY <2>1
  <2>3. p = [page EXCEPT !.voc = p.voc, !.baseline = p.baseline, !.ack = p.ack]
    BY <1>1 DEF ApplyRows, Pages
  <2> HIDE DEF p, e
  <2>4. page'.doc = page.doc /\ page'.cues = page.cues
    BY <1>1, <2>2, <2>3 DEF Pages
  <2> QED
    BY <2>4 DEF WorkStays
<1>5. CASE Pair
  <2>1. PICK u \in Urls : Supersede([Disconnected(page, u) EXCEPT !.paired = TRUE], FALSE)
    BY <1>5 DEF Pair
  <2> DEFINE e == [Disconnected(page, u) EXCEPT !.paired = TRUE]
  <2>2. e \in Pages /\ e.doc = page.doc /\ e.cues = page.cues /\ Supersede(e, FALSE)
    BY <1>1, <2>1, LeftPage
  <2> HIDE DEF e
  <2> QED
    BY <2>2, SupersedeKeepsWork
<1>6. CASE Disconnect
  <2>1. PICK u \in Urls : Supersede(Disconnected(page, u), FALSE)
    BY <1>6 DEF Disconnect
  <2> DEFINE d == Disconnected(page, u)
  <2>2. d \in Pages /\ d.doc = page.doc /\ d.cues = page.cues /\ Supersede(d, FALSE)
    BY <1>1, <2>1, LeftPage
  <2> HIDE DEF d
  <2> QED
    BY <2>2, SupersedeKeepsWork
<1>7. CASE Connect
  <2> DEFINE p == [page EXCEPT !.revision = 0, !.choice = None, !.status = "connecting"]
  <2>1. p \in Pages
    BY <1>1, RevisionBounds DEF Pages
  <2>2. p.doc = page.doc /\ p.cues = page.cues
    BY <1>1 DEF Pages
  <2>3. Supersede(p, TRUE)
    BY <1>7 DEF Connect
  <2> HIDE DEF p
  <2> QED
    BY <2>1, <2>2, <2>3, SupersedeKeepsWork
<1> QED
  BY <1>2, <1>3, <1>4, <1>5, <1>6, <1>7

\* Nor does the learner's work.
LEMMA WorkStaysWorking ==
  ASSUME SyncInv,
         \/ KeepBrowser \/ ChooseAgain \/ Edit \/ ImportTranscript \/ LocalCapture \/ Save
         \/ AskPreview \/ Confirm \/ RestoreSession
  PROVE  WorkStays
<1>1. page \in Pages
  BY PageFacts
<1>2. CASE KeepBrowser \/ ChooseAgain \/ Confirm
  BY <1>1, <1>2 DEF KeepBrowser, ChooseAgain, Confirm, Pages, WorkStays
<1>3. CASE Save \/ AskPreview
  BY <1>3 DEF Save, AskPreview, WorkStays
<1>4. CASE Edit
  <2>1. PICK e \in Edits : page' = Edited([page EXCEPT !.doc = page.doc \cup {e}])
    BY <1>4 DEF Edit
  <2> DEFINE p == [page EXCEPT !.doc = page.doc \cup {e}]
  <2>2. p \in Pages /\ p.doc = page.doc \cup {e} /\ p.cues = page.cues
    BY <1>1 DEF Pages, Items
  <2>3. page' = Edited(p)
    BY <2>1
  <2> HIDE DEF p
  <2>4. page'.doc = p.doc /\ page'.cues = p.cues
    BY <2>2, <2>3, EditedPage
  <2> QED
    BY <2>2, <2>4 DEF WorkStays
<1>5. CASE ImportTranscript
  <2>1. PICK t \in Tracks :
          page' = Edited([page EXCEPT !.doc = page.doc \cup {t}, !.cues = page.cues \cup {t}])
    BY <1>5 DEF ImportTranscript
  <2> DEFINE p == [page EXCEPT !.doc = page.doc \cup {t}, !.cues = page.cues \cup {t}]
  <2>2. p \in Pages /\ p.doc = page.doc \cup {t} /\ p.cues = page.cues \cup {t}
    BY ZenonT(40), <1>1 DEF Pages, Items
  <2>3. page' = Edited(p)
    BY <2>1
  <2> HIDE DEF p
  <2>4. page'.doc = p.doc /\ page'.cues = p.cues
    BY <2>2, <2>3, EditedPage
  <2> QED
    BY <2>2, <2>4 DEF WorkStays
<1>6. CASE LocalCapture
  BY <1>1, <1>6 DEF LocalCapture, Edited, Pages, WorkStays
<1>7. CASE RestoreSession
  BY <1>1, <1>7 DEF RestoreSession, Edited, Pages, WorkStays
<1> QED
  BY <1>2, <1>3, <1>4, <1>5, <1>6, <1>7

\* Nor does a job, but for the read that confirms a restore.
LEMMA WorkStaysInJobs ==
  ASSUME SyncInv, Working, ~CommitReadBack
  PROVE  WorkStays
<1>1. page \in Pages
  BY PageFacts
<1>2. CASE StartSave
  BY <1>1, <1>2 DEF StartSave, Proceed, Pages, WorkStays
<1>3. CASE BundleAnswered
  BY ZenonT(40), <1>1, <1>3 DEF BundleAnswered, BundleStored, Acknowledge, Proceed, Failed, Pages, WorkStays
<1>4. CASE BundleVerified
  BY <1>1, <1>4 DEF BundleVerified, Acknowledge, Proceed, Failed, Pages, WorkStays
<1>5. CASE DocumentAnswered
  <2> DEFINE x == DocumentStored
  <2>1. x \in [DOMAIN page -> {x[f] : f \in DOMAIN page}] /\ x.doc = page.doc /\ x.cues = page.cues
    BY <1>1 DEF DocumentStored, SetBaseline, Pages
  <2>2. CASE page' \in {page, x}
    BY <2>1, <2>2 DEF WorkStays
  <2>3. CASE page' = InstallRows(x, run.reply.state.voc, run.reply.revision)
    <3> HIDE DEF x
    <3>1. page'.doc = x.doc /\ page'.cues = x.cues
      BY <1>1, <2>1, <2>3 DEF InstallRows, RowsAsOf, ApplyRows, Pages
    <3> QED
      BY <2>1, <3>1 DEF WorkStays
  <2>4. CASE Failed("conflict") \/ Failed("error")
    BY <1>1, <2>4 DEF Failed, Pages, WorkStays
  <2> QED
    BY <1>5, <2>2, <2>3, <2>4 DEF DocumentAnswered
<1>6. CASE Flushed
  BY <1>1, <1>6 DEF Flushed, Conclude, Pages, WorkStays
<1>7. CASE LoadAnswered
  <2> DEFINE p == Loaded(page, run.q, run.reply)
  <2>1. run.pc = "load" /\ run.reply # None /\ (page' = p \/ UNCHANGED page)
    BY <1>7 DEF LoadAnswered, Answered
  <2>2. run.q.url \in Urls
    BY <2>1, SentTo DEF Waits
  <2>3. run.reply # Lost => run.reply.bundles \in SUBSET Tracks
    <3>1. run.reply # Lost => TrueOf(past[run.q.url], run.reply)
      BY <2>1 DEF SyncInv, JobAnswered, Got, Waits
    <3> QED
      BY <2>2, <3>1, AnswerFacts
  <2>4. p.doc = page.doc /\ page.cues \subseteq p.cues
    BY <1>1, <2>2, <2>3, LoadedPage
  <2> QED
    BY <2>1, <2>4 DEF WorkStays
<1>8. CASE StartLoad \/ StartPreview
  BY <1>8 DEF StartLoad, StartPreview, WorkStays
<1>9. CASE PreviewAnswered
  BY <1>1, <1>9 DEF PreviewAnswered, Pages, WorkStays
<1>10. CASE StartCommit \/ CommitAnswered
  BY ZenonT(40), <1>1, <1>10 DEF StartCommit, CommitAnswered, Sync, Phase, Pages, WorkStays
<1> QED
  BY <1>2, <1>3, <1>4, <1>5, <1>6, <1>7, <1>8, <1>9, <1>10 DEF Working

\* A transcript that was stored once has its bundle in some service still.
LEMMA BundleOfStored ==
  ASSUME SyncInv, NEW i \in Tracks, EverStored(i)
  PROVE  \E u \in Urls : i \in Latest(u).bundles
<1>1. PICK u \in Urls : \E r \in 1 .. Rev(u) : i \in past[u][r].doc
  BY DEF EverStored
<1>2. PICK r \in 1 .. Rev(u) : i \in past[u][r].doc
  BY <1>1
<1>3. ServiceSound(u) /\ Rev(u) \in Nat /\ Rev(u) >= 1
  BY HistoryEntries DEF SyncInv, ServicesSound
<1>4. r <= Rev(u) /\ Rev(u) \in 1 .. Rev(u)
  BY <1>3
<1>5. i \in past[u][r].bundles
  BY <1>2, <1>3 DEF ServiceSound
<1>6. past[u][r].bundles \subseteq past[u][Rev(u)].bundles
  BY <1>3, <1>4 DEF ServiceSound
<1> QED
  BY <1>5, <1>6 DEF Latest

\* What is acknowledged has its bundle in the service that acknowledged it.
LEMMA BundleOfAcked ==
  ASSUME SyncInv, NEW i \in Acked(page)
  PROVE  \E u \in Urls : i \in Latest(u).bundles
<1>1. i \in page.acked.tracks /\ page.acked.url \in Urls
  BY PageFacts DEF Acked
<1> QED
  BY <1>1 DEF SyncInv, AckedStored, BundlesHeld

\* What a step takes from the page, when the learner neither chooses nor restores, some
\* service has or had.
LEMMA NothingUnsentLost ==
  ASSUME SyncInv, [Next]_vars, page.sync # "choice", ~Restoring, NEW i \in page.doc
  PROVE  /\ i \in page'.doc \/ EverStored(i)
         /\ i \in page.cues \ page'.cues => \E u \in Urls : i \in Latest(u).bundles
<1>1. page.choice = None /\ page.cues \in SUBSET Tracks /\ page \in Pages
  BY PageFacts DEF SyncInv, PageTyped
<1>2. CASE WorkStays
  BY <1>2 DEF WorkStays
<1>3. CASE Reload
  <2>1. page'.doc = page.doc /\ page'.cues = page.cues \ Acked(page)
    BY <1>1, <1>3 DEF Reload, FreshPage, Pending
  <2> QED
    BY <2>1, BundleOfAcked
<1>4. CASE Compare
  <2>1. CASE page'.doc = page.doc /\ page'.cues = page.cues
    BY <2>1
  <2>2. CASE /\ page'.doc = page.doc \/ (\A j \in page.doc : EverStored(j))
             /\ page'.cues = Pending(page) \cap page'.doc
    <3>1. i \in page'.doc \/ EverStored(i)
      BY <2>2
    <3>2. ASSUME i \in page.cues \ page'.cues PROVE \E u \in Urls : i \in Latest(u).bundles
      <4>1. i \in Tracks
        BY <1>1, <3>2
      <4>2. i \in Acked(page) \/ i \notin page'.doc
        BY <2>2, <3>2 DEF Pending
      <4> QED
        BY <3>1, <4>1, <4>2, BundleOfAcked, BundleOfStored
    <3> QED
      BY <3>1, <3>2
  <2> QED
    BY <1>4, <2>1, <2>2, CompareOutcome
<1>5. CASE ConnectLost \/ Compared \/ Connected
  <2>1. CASE ConnectLost
    BY <1>1, <1>2, <2>1 DEF ConnectLost, Pages, WorkStays
  <2>2. CASE Compared
    BY <1>1, <1>2, <2>2 DEF Compared, Pages, WorkStays
  <2>3. CASE Connected
    BY <1>2, <2>3, ConnectedOutcome DEF WorkStays
  <2> QED
    BY <1>5, <2>1, <2>2, <2>3
<1>6. CASE UNCHANGED vars
  BY <1>2, <1>6 DEF vars, WorkStays
<1>7. ~LoadService
  BY <1>1 DEF LoadService
<1>8. CASE Learner
  BY <1>2, <1>3, <1>7, <1>8, WorkStaysApart, WorkStaysWorking DEF Learner
<1>9. CASE Service \/ Elsewhere \/ Unauthorized \/ InstallReceipt
  BY <1>2, <1>9, WorkStaysApart
<1>10. CASE Connecting
  BY <1>4, <1>5, <1>10 DEF Connecting, Restoring
<1>11. CASE Working
  BY <1>2, <1>11, WorkStaysInJobs DEF Restoring
<1> QED
  BY <1>6, <1>8, <1>9, <1>10, <1>11 DEF Next

\* Work that no service ever stored, and cues no service has, leave the page only by the
\* learner's choice or a restore.
THEOREM WorkIsKept == Spec => UnsentKept
<1>1. SyncInv /\ [Next]_vars =>
        [\A i \in page.doc :
           \/ i \notin page'.doc /\ ~EverStored(i)
           \/ i \in page.cues \ page'.cues /\ \A u \in Urls : i \notin Latest(u).bundles
           => page.sync = "choice" \/ Restoring]_vars
  BY NothingUnsentLost
<1> QED
  BY <1>1, SyncInvHolds, PTL DEF Spec, UnsentKept

=============================================================================
