------------------------------ MODULE PageBoot ------------------------------
(***************************************************************************)
(* What outlives a page in the browser besides the outbox: the snapshot    *)
(* cache, a crash buffer of the learner's work (browserSnapshotCache.ts),  *)
(* and the opt-in remembered pairing (rememberedPairing.ts); how a page    *)
(* boots from both (main.ts), and what Settings does with them.            *)
(*                                                                         *)
(* Every IndexedDB request is asynchronous: it waits in the queue of its   *)
(* store and may fail, and a page that goes away loses what still waits.   *)
(* The work in a cache record is a set of items, its transcript bundles    *)
(* included (DocumentSync models which of those the service holds).        *)
(***************************************************************************)
EXTENDS Naturals, Sequences

CONSTANTS
  Absent,
  Items,         \* pieces of learner work
  Origins,       \* exact service origins
  Home,          \* DEFAULT_LOCAL_SERVICE_BASE_URL
  Typing,        \* text in the URL field that is not an exact origin
  MaxStarts,     \* bound: starts of each service
  MaxTransports, \* bound: pairings of one page
  MaxForgets,    \* bound: times one page forgets
  MaxOps         \* bound: requests waiting in a queue

ASSUME BootAssumption ==
  /\ Home \in Origins
  /\ Typing \notin Origins
  /\ MaxStarts \in Nat /\ MaxTransports \in Nat /\ MaxForgets \in Nat /\ MaxOps \in Nat

VARIABLES
  cached,    \* the record of the snapshot cache
  cacheOps,  \* the requests to the cache, in order
  page,      \* the page: its work and its side of the cache
  stored,    \* the record of the remembered pairing
  pairOps,   \* the requests to that store, in order
  pairing,   \* the page's side of it (rememberedPairing's State)
  transport, \* the pairing of the page: process memory only
  requests,  \* authenticated requests on the wire
  starts,    \* how often each service was started: its capability is of this start
  forgotten  \* history variable: who asked to forget since the last put, if anybody did

cacheVars == <<cached, cacheOps, page>>
pairVars == <<stored, pairOps, pairing, transport, requests, starts, forgotten>>
bootVars == <<cacheVars, pairVars>>

-----------------------------------------------------------------------------
Capabilities == [of: Origins, start: 0 .. MaxStarts]
Pairs == [origin: Origins, capability: Capabilities]
Capability(o) == [of |-> o, start |-> starts[o]]

\* What the learner may have at hand: capabilities some start of a service printed.
Issued == {c \in Capabilities : c.start <= starts[c.of]}

(***************************************************************************)
(* A cache record: kind "current" is one isRecord accepts, "outdated" one  *)
(* of an older schema, "other" neither.                                    *)
(***************************************************************************)
CacheRecord ==
  [kind: {"current", "outdated", "other"}, work: SUBSET Items, url: Origins \cup {Typing}]

ASSUME NothingAssumption == Absent \notin CacheRecord \cup {"learner", "service", "boot"}

Unpaired == [gen |-> 0, optIn |-> FALSE, remembered |-> FALSE, pending |-> Absent, boot |-> Absent]

BootTypeOK ==
  /\ cached \in CacheRecord \cup {Absent}
  /\ \A i \in DOMAIN cacheOps : cacheOps[i].op \in {"put", "clear"}
  /\ page.work \subseteq Items /\ page.seen \subseteq Items
  /\ page.url \in Origins \cup {Typing}
  /\ stored \in Pairs \cup {Absent}
  /\ \A i \in DOMAIN pairOps : pairOps[i].op \in {"get", "put", "delete"}
  /\ pairing.pending \in Pairs \cup {Absent}
  /\ transport # Absent => transport.origin = page.url
  /\ forgotten \in {Absent, "learner", "service", "boot"}

-----------------------------------------------------------------------------
(***************************************************************************)
(* The snapshot cache.                                                     *)
(***************************************************************************)

\* installSnapshotCacheWriter's observer: (re)start the debounce timer.
Signalled(pg) == [pg EXCEPT !.timer = @ \/ pg.writer]

\* buildSnapshotCacheRecord.
Snapshot == [kind |-> "current", work |-> page.work, url |-> page.url]

\* Mutant of Suspended: the clear does not suspend the writes.
NeverSuspended == FALSE

Suspended == page.suspended

\* writeSnapshotCache, by the debounce timer, pagehide or a hidden page.
Flush ==
  /\ page.timer /\ Len(cacheOps) < MaxOps
  /\ page' = [page EXCEPT !.timer = FALSE]
  /\ cacheOps' = IF Suspended THEN cacheOps
                 ELSE Append(cacheOps, [op |-> "put", record |-> Snapshot])
  /\ UNCHANGED <<cached, pairVars>>

\* The learner, an acknowledgement or a load of the service's state changes the work.
Work(items) ==
  /\ page.phase = "ready" /\ items # page.work
  /\ page' = Signalled([page EXCEPT !.work = items, !.seen = @ \cup items])
  /\ UNCHANGED <<cached, cacheOps, pairVars>>

\* clearSnapshotCache after the learner's confirmation: suspend, then delete.
Clear ==
  /\ page.phase = "ready" /\ ~page.clearing /\ ~page.cleared /\ Len(cacheOps) < MaxOps
  /\ page' = [page EXCEPT !.suspended = TRUE, !.clearing = TRUE]
  /\ cacheOps' = Append(cacheOps, [op |-> "clear"])
  /\ UNCHANGED <<cached, pairVars>>

\* IndexedDB serves the oldest request, or fails it (warnOnce).
CacheServed ==
  /\ cacheOps # <<>>
  /\ cacheOps' = Tail(cacheOps)
  /\ LET asked == Head(cacheOps)
     IN \/ /\ cached' = IF asked.op = "put" THEN asked.record ELSE Absent
           /\ page' = IF asked.op = "put" THEN page
                      ELSE [page EXCEPT !.clearing = FALSE, !.cleared = TRUE]
        \/ /\ cached' = cached
           /\ page' = IF asked.op = "put" THEN page ELSE [page EXCEPT !.clearing = FALSE]
  /\ UNCHANGED pairVars

\* Mutant of WriterIsSafe: the writer is installed whatever the boot read said.
AlwaysInstalled(result) == TRUE

\* An unanswered read may have missed the only copy of unsaved work.
WriterIsSafe(result) == result # "unknown"

\* What readSnapshotCacheResult says of the record; the read may also fail or time out.
ReadResult ==
  IF cached = Absent THEN "miss"
  ELSE CASE cached.kind = "current" -> "hit"
         [] cached.kind = "outdated" -> "outdated"
         [] OTHER -> "miss"

\* bootSnapshotCache; an outdated record is deleted, if the deletion succeeds.
BootCache ==
  /\ page.phase = "boot"
  /\ \E result \in {ReadResult, "unknown"} :
       /\ page' = [page EXCEPT !.phase = "pair", !.writer = WriterIsSafe(result),
                     !.work = IF result = "hit" THEN cached.work ELSE {},
                     !.seen = IF result = "hit" THEN cached.work ELSE {},
                     !.url = IF result = "hit" THEN cached.url ELSE Home]
       /\ \/ result = "outdated" /\ cached' = Absent
          \/ cached' = cached
  /\ UNCHANGED <<cacheOps, pairVars>>

-----------------------------------------------------------------------------
(***************************************************************************)
(* The remembered pairing.                                                 *)
(***************************************************************************)

\* Mutant of Enqueue: a request overtakes the one that still waits.
Unserialized(ops, op) == <<op>> \o ops

\* serialize: one promise queue for every request to the store.
Enqueue(ops, op) == Append(ops, op)

\* forgetRememberedPairing, by learner, by a 401 and by a boot that cannot use the record.
Forget(p, ops, who) ==
  /\ pairing' = [p EXCEPT !.gen = @ + 1, !.pending = Absent, !.remembered = FALSE]
  /\ pairOps' = Enqueue(ops, [op |-> "delete"])
  /\ forgotten' = who

RoomToForget == Len(pairOps) < MaxOps /\ pairing.gen < MaxForgets

\* Mutant of Unpair: the pairing survives the change of the URL.
KeepTransport(u) == transport' = transport /\ page' = [page EXCEPT !.url = u]

\* setLocalServiceBaseUrl, as far as it is about pairing: the old transport is dead.
Unpair(u) ==
  /\ transport' = Absent
  /\ page' = [page EXCEPT !.url = u]

\* pairTransport and connectLocalService's first request.
Pair(pair) ==
  LET t == [id |-> page.pairs + 1, origin |-> pair.origin, capability |-> pair.capability]
  IN /\ page.pairs < MaxTransports
     /\ transport' = t
     /\ requests' = requests \cup {[by |-> t, connects |-> TRUE, answer |-> "none"]}
     /\ page' = [page EXCEPT !.url = pair.origin, !.pairs = @ + 1]

\* bootRememberedPairing: installed, and its read is queued; the page is rendered.
BootPairing ==
  /\ page.phase = "pair"
  /\ page' = [page EXCEPT !.phase = "ready"]
  /\ pairing' = [pairing EXCEPT !.boot = pairing.gen]
  /\ pairOps' = Enqueue(pairOps, [op |-> "get"])
  /\ UNCHANGED <<cached, cacheOps, stored, transport, requests, starts, forgotten>>

\* The bounded read gives up; its answer, should it come, is ignored.
BootReadTimesOut ==
  /\ pairing.boot # Absent
  /\ pairing' = [pairing EXCEPT !.boot = Absent]
  /\ UNCHANGED <<cacheVars, stored, pairOps, transport, requests, starts, forgotten>>

\* The boot read is answered: use the record, forget it, or leave it to what the
\* learner did meanwhile.
BootRead ==
  LET p == [pairing EXCEPT !.boot = Absent]
      late == pairing.boot # pairing.gen
  IN /\ pairOps # <<>> /\ Head(pairOps).op = "get"
     /\ \/ \* no use: too late, overtaken by the learner, no record, or a failure
           /\ pairing' = p /\ pairOps' = Tail(pairOps)
           /\ UNCHANGED <<page, transport, requests, forgotten>>
        \/ /\ pairing.boot # Absent /\ ~late /\ stored # Absent
           /\ stored.origin = page.url
           /\ Pair(stored)
           /\ pairing' = [p EXCEPT !.optIn = TRUE, !.remembered = TRUE]
           /\ pairOps' = Tail(pairOps)
           /\ UNCHANGED forgotten
        \/ /\ pairing.boot # Absent /\ ~late /\ stored # Absent
           /\ stored.origin # page.url
           /\ Forget(p, Tail(pairOps), "boot")
           /\ UNCHANGED <<page, transport, requests>>
     /\ UNCHANGED <<cached, cacheOps, stored, starts>>

PairServed ==
  /\ pairOps # <<>> /\ Head(pairOps).op # "get"
  /\ pairOps' = Tail(pairOps)
  /\ LET asked == Head(pairOps)
     IN \/ /\ stored' = IF asked.op = "put" THEN asked.record ELSE Absent
           /\ UNCHANGED <<pairing, forgotten>>
        \/ /\ stored' = stored
           /\ pairing' = IF asked.op = "put" THEN [pairing EXCEPT !.remembered = FALSE] ELSE pairing
           \* a deletion that fails is only warned about
           /\ forgotten' = IF asked.op = "put" THEN forgotten ELSE Absent
  /\ UNCHANGED <<cacheVars, transport, requests, starts>>

-----------------------------------------------------------------------------
(***************************************************************************)
(* Settings.                                                               *)
(***************************************************************************)

\* Typing a URL, or Disconnect: forget, and the old connection is dead.
EditUrl(u) ==
  /\ page.phase = "ready" /\ RoomToForget
  /\ u = page.url => transport # Absent
  /\ Forget(pairing, pairOps, "learner")
  /\ Unpair(u)
  /\ UNCHANGED <<cached, cacheOps, stored, requests, starts>>

\* "Connect local service": pair with what was typed; the candidate stays in memory.
Connect(c) ==
  /\ page.phase = "ready" /\ page.url \in Origins
  /\ Pair([origin |-> page.url, capability |-> c])
  /\ pairing' = [pairing EXCEPT !.pending =
       IF pairing.optIn THEN [origin |-> page.url, capability |-> c] ELSE Absent]
  /\ UNCHANGED <<cached, cacheOps, stored, pairOps, starts, forgotten>>

\* A capability that is not one: the old pairing is gone, and nothing replaces it.
ConnectMalformed ==
  /\ page.phase = "ready" /\ page.url \in Origins /\ transport # Absent
  /\ Unpair(page.url)
  /\ UNCHANGED <<cached, cacheOps, stored, pairOps, pairing, requests, starts, forgotten>>

\* The opt-in is ticked; unticking it, and "Forget pairing", forget.
OptIn ==
  /\ page.phase = "ready" /\ ~pairing.optIn
  /\ pairing' = [pairing EXCEPT !.optIn = TRUE]
  /\ UNCHANGED <<cacheVars, stored, pairOps, transport, requests, starts, forgotten>>

OptOut ==
  /\ page.phase = "ready" /\ pairing.optIn /\ RoomToForget
  /\ Forget([pairing EXCEPT !.optIn = FALSE], pairOps, "learner")
  /\ UNCHANGED <<cacheVars, stored, transport, requests, starts>>

ForgetPressed ==
  /\ page.phase = "ready" /\ pairing.remembered /\ RoomToForget
  /\ Forget(pairing, pairOps, "learner")
  /\ UNCHANGED <<cacheVars, stored, transport, requests, starts>>

-----------------------------------------------------------------------------
(***************************************************************************)
(* The wire and the services.                                              *)
(***************************************************************************)

\* Any later authenticated request: a reconnect, or a save, a job and the like.
SendRequest(connects) ==
  /\ transport # Absent
  /\ requests' = requests \cup {[by |-> transport, connects |-> connects, answer |-> "none"]}
  /\ UNCHANGED <<cacheVars, stored, pairOps, pairing, transport, starts, forgotten>>

Serve(q) ==
  /\ q.answer = "none"
  /\ LET ok == q.by.capability = Capability(q.by.origin)
     IN requests' = (requests \ {q}) \cup {[q EXCEPT !.answer = IF ok THEN "ok" ELSE "401"]}
  /\ UNCHANGED <<cacheVars, stored, pairOps, pairing, transport, starts, forgotten>>

\* Mutant of IsCurrent: an answer counts whoever asked.
AnyTransport(q) == TRUE

\* assertCurrent: the transport of a superseded pairing throws.
IsCurrent(q) == transport = q.by

\* The answer is lost, or to a pairing that is over: an error message.
AnswerIgnored(q) ==
  /\ requests' = requests \ {q}
  /\ UNCHANGED <<cacheVars, stored, pairOps, pairing, transport, starts, forgotten>>

\* statusOk: what was paired explicitly, with the opt-in, is remembered; the connection
\* may go on to change the work, which is a change of the cache.
StatusOk(q) ==
  LET p == pairing.pending
      remember == pairing.optIn /\ p # Absent /\ p.origin = q.by.origin
  IN /\ q.connects /\ q.answer = "ok" /\ IsCurrent(q) /\ Len(pairOps) < MaxOps
     /\ requests' = requests \ {q}
     /\ page' \in {page, Signalled(page)}
     /\ IF remember
        THEN /\ pairing' = [pairing EXCEPT !.pending = Absent, !.remembered = TRUE]
             /\ pairOps' = Enqueue(pairOps, [op |-> "put", record |-> p])
             /\ forgotten' = Absent
        ELSE UNCHANGED <<pairing, pairOps, forgotten>>
     /\ UNCHANGED <<cached, cacheOps, stored, transport, starts>>

\* A 401 ends the pairing, and what was remembered is forgotten.
Unauthorized(q) ==
  /\ q.answer = "401" /\ IsCurrent(q) /\ RoomToForget
  /\ requests' = requests \ {q}
  /\ transport' = Absent
  /\ Forget(pairing, pairOps, "service")
  /\ UNCHANGED <<cacheVars, stored, starts>>

RestartService(o) ==
  /\ starts[o] < MaxStarts
  /\ starts' = [starts EXCEPT ![o] = @ + 1]
  /\ UNCHANGED <<cacheVars, stored, pairOps, pairing, transport, requests, forgotten>>

\* The page is reloaded, closed or crashes.
FreshPage ==
  [phase |-> "boot", work |-> {}, seen |-> {}, url |-> Home, writer |-> FALSE, timer |-> FALSE,
   suspended |-> FALSE, clearing |-> FALSE, cleared |-> FALSE, pairs |-> 0]

LoadPage ==
  /\ page.phase = "ready"
  /\ page' = FreshPage
  /\ cacheOps' = <<>> /\ pairOps' = <<>>
  /\ pairing' = Unpaired
  /\ transport' = Absent /\ requests' = {}
  /\ forgotten' = Absent
  /\ UNCHANGED <<cached, stored, starts>>

-----------------------------------------------------------------------------
\* The browser holds what an earlier page left.
BootInit ==
  /\ cached \in CacheRecord \cup {Absent}
  /\ starts = [o \in Origins |-> 0]
  /\ stored \in {[origin |-> o, capability |-> [of |-> o, start |-> 0]] : o \in Origins} \cup {Absent}
  /\ cacheOps = <<>> /\ pairOps = <<>>
  /\ page = FreshPage
  /\ pairing = Unpaired
  /\ transport = Absent /\ requests = {}
  /\ forgotten = Absent

BootNext ==
  \/ BootCache \/ Flush \/ Clear \/ CacheServed
  \/ \E items \in SUBSET Items : Work(items)
  \/ BootPairing \/ BootReadTimesOut \/ BootRead \/ PairServed
  \/ \E u \in Origins \cup {Typing} : EditUrl(u)
  \/ \E c \in Issued : Connect(c)
  \/ ConnectMalformed \/ OptIn \/ OptOut \/ ForgetPressed
  \/ \E connects \in BOOLEAN : SendRequest(connects)
  \/ \E q \in requests : Serve(q) \/ AnswerIgnored(q) \/ StatusOk(q) \/ Unauthorized(q)
  \/ \E o \in Origins : RestartService(o)
  \/ LoadPage

BootSpec == BootInit /\ [][BootNext]_bootVars

-----------------------------------------------------------------------------
(***************************************************************************)
(* Properties.                                                             *)
(***************************************************************************)

\* A page overwrites only work it has read or made itself: a record a slow or failing
\* boot read left unread stays ("an empty model must never overwrite a good cache").
UnreadWorkKept ==
  [][cached # Absent /\ cached.kind = "current" /\ ~page'.cleared =>
       cached' # Absent /\ cached.work \ cached'.work \subseteq page.seen]_bootVars

\* A clear that was confirmed holds until the page is loaded again: no debounced or
\* pagehide write, and none already under way, brings the record back.
ClearedStaysCleared == page.cleared => cached = Absent

\* Once the store has answered, a pairing forgotten after it was remembered is gone,
\* unless the deletion failed.
ForgottenStaysForgotten == forgotten # Absent /\ pairOps = <<>> => stored = Absent

\* A late 401 of an earlier pairing never ends the present one: what a 401 ends, and
\* forgets, is a pairing whose service no longer accepts it.
LivePairingKept ==
  [][pairing'.gen # pairing.gen /\ forgotten' = "service" =>
       transport = Absent \/ transport.capability # Capability(transport.origin)]_bootVars

\* What the learner takes back is gone for good: neither a late write nor a late answer
\* of the earlier life brings the work or the pairing back.
GoneStaysGone == ClearedStaysCleared /\ ForgottenStaysForgotten

\* What the learner did not take back stays, however late reads and answers are.
RestStays == UnreadWorkKept /\ LivePairingKept
=============================================================================
