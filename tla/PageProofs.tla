----------------------------- MODULE PageProofs -----------------------------
(***************************************************************************)
(* Theorems of PageBoot and WordAnalysis, for every set of origins, items, *)
(* cues and words, and of the Page they make with the media links, whose   *)
(* theorems are in LinksProofs.                                            *)
(*                                                                         *)
(* PageBoot: a clear is the last thing its queue does to the cache         *)
(* (ClearsAreLast), what is written was seen (OverwritesSeen), and what    *)
(* was forgotten is gone or about to be, with no write behind it           *)
(* (Forgetting).  WordAnalysis: an analysis that may still count is for    *)
(* the cue asked for last (AnalysesAsked), and whatever becomes of an      *)
(* opening of the form, it is about one word (SelectionsHonest).           *)
(***************************************************************************)
EXTENDS Page, LinksProofs, TLAPS

(***************************************************************************)
(* The snapshot cache and the remembered pairing.                          *)
(***************************************************************************)
CacheOp == [op : {"clear"}] \cup [op : {"put"}, record : CacheRecord]
PairOp == [op : {"get", "delete"}] \cup [op : {"put"}, record : Pairs]
Pairings == [id : Nat, origin : Origins, capability : Capabilities]
Request == [by : Pairings, connects : BOOLEAN, answer : {"none", "ok", "401"}]
Page ==
  [phase : {"boot", "pair", "ready"}, work : SUBSET Items, seen : SUBSET Items,
   url : Origins \cup {Typing}, writer : BOOLEAN, timer : BOOLEAN, suspended : BOOLEAN,
   clearing : BOOLEAN, cleared : BOOLEAN, pairs : Nat]
Remembering ==
  [gen : Nat, optIn : BOOLEAN, remembered : BOOLEAN, pending : Pairs \cup {Absent},
   boot : Nat \cup {Absent}]

CacheShaped ==
  /\ cached \in CacheRecord \cup {Absent}
  /\ cacheOps \in Seq(CacheOp)
  /\ page \in Page

PairShaped ==
  /\ stored \in Pairs \cup {Absent}
  /\ pairOps \in Seq(PairOp)
  /\ pairing \in Remembering
  /\ transport \in Pairings \cup {Absent}
  /\ requests \in SUBSET Request
  /\ starts \in [Origins -> 0 .. MaxStarts]
  /\ forgotten \in {Absent, "learner", "service", "boot"}

NoPut(ops) == \A i \in 1 .. Len(ops) : ops[i].op # "put"
NoPutAfter(ops, i) == \A j \in i + 1 .. Len(ops) : ops[j].op # "put"

\* A clear under way is followed by no write, and one that is done by nothing at all.
ClearsAreLast ==
  /\ \A i \in 1 .. Len(cacheOps) : cacheOps[i].op = "clear" => page.suspended /\ NoPutAfter(cacheOps, i)
  /\ page.cleared => page.suspended /\ cached = Absent /\ NoPut(cacheOps)

\* What may be written was seen, and with a writer what is in the cache was too.
OverwritesSeen ==
  /\ page.work \subseteq page.seen
  /\ page.timer => page.writer
  /\ page.phase = "boot" => ~page.writer
  /\ page.writer /\ cached # Absent /\ cached.kind = "current" => cached.work \subseteq page.seen
  /\ \A i \in 1 .. Len(cacheOps) : cacheOps[i].op = "put" =>
       /\ page.writer
       /\ cacheOps[i].record.work \subseteq page.seen

\* A page is paired, and has requests to the store of pairings, once it is ready.
PairedWhenReady ==
  /\ page.phase # "ready" => transport = Absent /\ requests = {} /\ pairOps = <<>>
  /\ transport # Absent => transport.origin = page.url

\* What was forgotten is gone, or its deletion is under way with no put behind it.
Forgetting ==
  forgotten # Absent =>
    \/ stored = Absent /\ NoPut(pairOps)
    \/ \E i \in 1 .. Len(pairOps) : pairOps[i].op = "delete" /\ NoPutAfter(pairOps, i)

\* Every capability at hand was printed by some start, and one that was refused is of an
\* earlier start, or of another service.
CapabilitiesIssued ==
  /\ stored # Absent => stored.capability \in Issued
  /\ pairing.pending # Absent => pairing.pending.capability \in Issued
  /\ \A i \in 1 .. Len(pairOps) : pairOps[i].op = "put" => pairOps[i].record.capability \in Issued
  /\ transport # Absent => transport.capability \in Issued
  /\ \A q \in requests :
       /\ q.by.capability \in Issued
       /\ q.answer = "401" => q.by.capability # Capability(q.by.origin)

CacheInv == CacheShaped /\ ClearsAreLast /\ OverwritesSeen
PairInv == PairShaped /\ PairedWhenReady /\ Forgetting /\ CapabilitiesIssued
BootInv == CacheInv /\ PairInv
-----------------------------------------------------------------------------
\* Queues.
LEMMA Served ==
  ASSUME NEW S, NEW q \in Seq(S), q # <<>>
  PROVE  /\ Len(q) \in Nat \ {0} /\ Head(q) = q[1] /\ Head(q) \in S
         /\ Tail(q) \in Seq(S) /\ Len(Tail(q)) = Len(q) - 1
         /\ \A i \in 1 .. Len(q) - 1 : Tail(q)[i] = q[i + 1]
  OBVIOUS

LEMMA Queued ==
  ASSUME NEW S, NEW q \in Seq(S), NEW e \in S
  PROVE  /\ Append(q, e) \in Seq(S) /\ Len(q) \in Nat /\ Len(Append(q, e)) = Len(q) + 1
         /\ \A i \in 1 .. Len(q) : Append(q, e)[i] = q[i]
         /\ Append(q, e)[Len(q) + 1] = e
  OBVIOUS

LEMMA NothingQueued ==
  ASSUME NEW S, NEW q \in Seq(S), Len(q) = 0
  PROVE  q = <<>>
  OBVIOUS

LEMMA PageBegins ==
  /\ FreshPage \in Page /\ Unpaired \in Remembering
  /\ FreshPage.phase = "boot" /\ FreshPage.work = {} /\ FreshPage.seen = {}
  /\ FreshPage.writer = FALSE /\ FreshPage.timer = FALSE /\ FreshPage.cleared = FALSE
  /\ Unpaired.pending = Absent
  BY BootAssumption DEF FreshPage, Page, Unpaired, Remembering

LEMMA BootBegins == BootInit => BootInv
  <1> SUFFICES ASSUME BootInit PROVE BootInv
    OBVIOUS
  <1> USE DEF BootInit
  <1>1. CacheShaped
    BY PageBegins DEF CacheShaped
  <1>2. ClearsAreLast /\ OverwritesSeen
    BY PageBegins DEF ClearsAreLast, OverwritesSeen, NoPut
  <1>3. starts \in [Origins -> 0 .. MaxStarts] /\ \A o \in Origins : starts[o] = 0
    BY BootAssumption
  <1>4. stored # Absent => stored \in Pairs /\ stored.capability \in Issued
    BY <1>3 DEF Pairs, Capabilities, Issued
  <1>5. PairShaped
    BY <1>3, <1>4, PageBegins DEF PairShaped
  <1>6. PairedWhenReady /\ Forgetting
    BY DEF PairedWhenReady, Forgetting
  <1>7. CapabilitiesIssued
    BY <1>4, PageBegins DEF CapabilitiesIssued
  <1>8. QED
    BY <1>1, <1>2, <1>5, <1>6, <1>7 DEF BootInv, CacheInv, PairInv

-----------------------------------------------------------------------------
(***************************************************************************)
(* The snapshot cache.                                                     *)
(***************************************************************************)
\* The page changes in what the cache does not ask for, and may have seen more.
LEMMA CacheRests ==
  ASSUME CacheInv, UNCHANGED <<cached, cacheOps>>, page' \in Page,
         page'.work = page.work, page.seen \subseteq page'.seen, page'.writer = page.writer,
         page'.timer => page'.writer, page'.suspended = page.suspended, page'.cleared = page.cleared,
         page'.phase = "boot" => page.phase = "boot"
  PROVE  CacheInv'
  <1>1. CacheShaped'
    BY DEF CacheInv, CacheShaped
  <1>2. ClearsAreLast'
    BY DEF CacheInv, ClearsAreLast, NoPut, NoPutAfter
  <1>3. OverwritesSeen'
    BY DEF CacheInv, OverwritesSeen
  <1>4. QED
    BY <1>1, <1>2, <1>3 DEF CacheInv

\* The pairing is not asked for by a step of the cache.
LEMMA PairRests ==
  ASSUME PairInv, UNCHANGED pairVars,
         page'.phase = page.phase \/ (page.phase = "boot" /\ page'.phase = "pair"),
         page'.url = page.url \/ page.phase # "ready"
  PROVE  PairInv'
  <1>1. PairShaped'
    BY DEF PairInv, PairShaped, pairVars
  <1>2. PairedWhenReady'
    BY DEF PairInv, PairedWhenReady, pairVars
  <1>3. Forgetting'
    BY DEF PairInv, Forgetting, pairVars, NoPut, NoPutAfter
  <1>4. CapabilitiesIssued'
    <2>1. Issued' = Issued /\ \A o \in Origins : Capability(o)' = Capability(o)
      BY DEF Issued, Capability, pairVars
    <2>2. \A q \in requests : q.by.origin \in Origins
      BY DEF PairInv, PairShaped, Request, Pairings
    <2>3. QED
      BY <2>1, <2>2 DEF PairInv, CapabilitiesIssued, pairVars, Capability
  <1>5. QED
    BY <1>1, <1>2, <1>3, <1>4 DEF PairInv

LEMMA FlushKeeps ==
  ASSUME BootInv, Flush
  PROVE  BootInv'
  <1> USE DEF BootInv
  <1>1. page \in Page /\ cacheOps \in Seq(CacheOp) /\ cached' = cached
    BY DEF CacheInv, CacheShaped, Flush
  <1>2. /\ page' = [page EXCEPT !.timer = FALSE] /\ page' \in Page /\ page'.timer = FALSE
        /\ page'.work = page.work /\ page'.seen = page.seen /\ page'.writer = page.writer
        /\ page'.suspended = page.suspended /\ page'.cleared = page.cleared
        /\ page'.phase = page.phase /\ page'.url = page.url
    BY <1>1 DEF Flush, Page
  <1>3. PairInv'
    BY <1>2, PairRests DEF Flush
  <1>4. CASE Suspended
    BY <1>1, <1>2, <1>3, <1>4, CacheRests DEF Flush
  <1>5. CASE ~Suspended
    <2> DEFINE e == [op |-> "put", record |-> Snapshot]
    <2>1. cacheOps' = Append(cacheOps, e)
      BY <1>5 DEF Flush
    <2>2. Snapshot \in CacheRecord /\ Snapshot.work = page.work
      BY <1>1 DEF Snapshot, CacheRecord, Page
    <2>3. e \in CacheOp /\ e.op = "put" /\ e.record = Snapshot
      BY <2>2 DEF CacheOp
    <2> HIDE DEF e
    <2>4. /\ cacheOps' \in Seq(CacheOp) /\ Len(cacheOps) \in Nat /\ Len(cacheOps') = Len(cacheOps) + 1
          /\ \A i \in 1 .. Len(cacheOps) : cacheOps'[i] = cacheOps[i]
          /\ cacheOps'[Len(cacheOps) + 1] = e
      BY <1>1, <2>1, <2>3, Queued
    <2>5. CacheShaped'
      BY <1>2, <1>1, <2>4 DEF CacheInv, CacheShaped
    <2>6. page.writer /\ ~page.suspended /\ page.work \subseteq page.seen
      BY <1>5 DEF Flush, CacheInv, OverwritesSeen, Suspended
    <2>7. \A i \in 1 .. Len(cacheOps) : cacheOps[i].op # "clear"
      BY <2>6 DEF CacheInv, ClearsAreLast
    <2>8. ClearsAreLast'
      BY <1>2, <2>3, <2>4, <2>6, <2>7 DEF CacheInv, ClearsAreLast
    <2>9. OverwritesSeen'
      BY <1>1, <1>2, <2>2, <2>3, <2>4, <2>6 DEF CacheInv, OverwritesSeen
    <2>10. QED
      BY <1>3, <2>5, <2>8, <2>9 DEF CacheInv
  <1>6. QED
    BY <1>4, <1>5

LEMMA WorkKeeps ==
  ASSUME BootInv, NEW items \in SUBSET Items, Work(items)
  PROVE  BootInv'
  <1> USE DEF BootInv
  <1>1. page \in Page /\ UNCHANGED <<cached, cacheOps, pairVars>>
    BY DEF CacheInv, CacheShaped, Work
  <1>2. /\ page' \in Page /\ page'.work = items /\ page'.seen = page.seen \cup items
        /\ page'.writer = page.writer /\ page'.timer = (page.timer \/ page.writer)
        /\ page'.suspended = page.suspended /\ page'.cleared = page.cleared
        /\ page'.phase = page.phase /\ page'.url = page.url
    BY <1>1 DEF Work, Signalled, Page
  <1>3. PairInv'
    BY <1>1, <1>2, PairRests
  <1>4. CacheShaped'
    BY <1>1, <1>2 DEF CacheInv, CacheShaped
  <1>5. ClearsAreLast'
    BY <1>1, <1>2 DEF CacheInv, ClearsAreLast, NoPut, NoPutAfter
  <1>6. OverwritesSeen'
    BY <1>1, <1>2 DEF CacheInv, OverwritesSeen
  <1>7. QED
    BY <1>3, <1>4, <1>5, <1>6 DEF CacheInv

LEMMA ClearKeeps ==
  ASSUME BootInv, Clear
  PROVE  BootInv'
  <1> USE DEF BootInv
  <1>1. page \in Page /\ cacheOps \in Seq(CacheOp) /\ cached' = cached
    BY DEF CacheInv, CacheShaped, Clear
  <1>2. /\ page' \in Page /\ page'.timer = page.timer /\ page'.cleared = FALSE
        /\ page'.work = page.work /\ page'.seen = page.seen /\ page'.writer = page.writer
        /\ page'.suspended /\ page'.phase = page.phase /\ page'.url = page.url
    BY <1>1 DEF Clear, Page
  <1>3. PairInv'
    BY <1>2, PairRests DEF Clear
  <1> DEFINE e == [op |-> "clear"]
  <1>4. cacheOps' = Append(cacheOps, e) /\ e \in CacheOp /\ e.op = "clear"
    BY DEF Clear, CacheOp
  <1> HIDE DEF e
  <1>5. /\ cacheOps' \in Seq(CacheOp) /\ Len(cacheOps) \in Nat /\ Len(cacheOps') = Len(cacheOps) + 1
        /\ \A i \in 1 .. Len(cacheOps) : cacheOps'[i] = cacheOps[i]
        /\ cacheOps'[Len(cacheOps) + 1] = e
    BY <1>1, <1>4, Queued
  <1>6. CacheShaped'
    BY <1>1, <1>2, <1>5 DEF CacheInv, CacheShaped
  <1>7. ClearsAreLast'
    <2>1. ASSUME NEW i \in 1 .. Len(cacheOps'), cacheOps'[i].op = "clear"
          PROVE  NoPutAfter(cacheOps', i)
      <3> SUFFICES ASSUME NEW j \in i + 1 .. Len(cacheOps') PROVE cacheOps'[j].op # "put"
        BY DEF NoPutAfter
      <3>1. CASE j = Len(cacheOps) + 1
        BY <1>4, <1>5, <3>1
      <3>2. CASE j # Len(cacheOps) + 1
        <4>1. i \in 1 .. Len(cacheOps) /\ j \in i + 1 .. Len(cacheOps)
          BY <1>5, <3>2
        <4>2. QED
          BY <1>5, <2>1, <4>1 DEF CacheInv, ClearsAreLast, NoPutAfter
      <3>3. QED
        BY <3>1, <3>2
    <2>2. QED
      BY <1>2, <2>1 DEF ClearsAreLast
  <1>8. OverwritesSeen'
    BY <1>1, <1>2, <1>4, <1>5 DEF CacheInv, OverwritesSeen
  <1>9. QED
    BY <1>3, <1>6, <1>7, <1>8 DEF CacheInv

LEMMA ServedKeeps ==
  ASSUME BootInv, CacheServed
  PROVE  BootInv'
  <1> USE DEF BootInv
  <1>1. page \in Page /\ cacheOps \in Seq(CacheOp) /\ cacheOps # <<>> /\ cacheOps' = Tail(cacheOps)
    BY DEF CacheInv, CacheShaped, CacheServed
  <1>2. /\ Len(cacheOps) \in Nat \ {0} /\ Head(cacheOps) = cacheOps[1] /\ cacheOps[1] \in CacheOp
        /\ cacheOps' \in Seq(CacheOp) /\ Len(cacheOps') = Len(cacheOps) - 1
        /\ \A i \in 1 .. Len(cacheOps) - 1 : cacheOps'[i] = cacheOps[i + 1]
    BY <1>1, Served
  <1> DEFINE wanted == cacheOps[1]
  <1>3. /\ page' \in Page /\ page'.timer = page.timer
        /\ page'.work = page.work /\ page'.seen = page.seen /\ page'.writer = page.writer
        /\ page'.suspended = page.suspended /\ page'.phase = page.phase /\ page'.url = page.url
        /\ page'.cleared = page.cleared \/ (page'.cleared /\ wanted.op # "put" /\ cached' = Absent)
        /\ \/ cached' = cached
           \/ wanted.op = "put" /\ cached' = wanted.record
           \/ wanted.op # "put" /\ cached' = Absent
    BY ZenonT(40), <1>1, <1>2 DEF CacheServed, Page
  <1>4. PairInv'
    BY <1>3, PairRests DEF CacheServed
  <1>5. wanted.op = "put" => wanted.record \in CacheRecord
    BY <1>2 DEF CacheOp
  <1>6. CacheShaped'
    BY <1>2, <1>3, <1>5 DEF CacheInv, CacheShaped
  <1>7. ClearsAreLast'
    <2>1. ASSUME NEW i \in 1 .. Len(cacheOps'), cacheOps'[i].op = "clear"
          PROVE  page'.suspended /\ NoPutAfter(cacheOps', i)
      <3>1. i + 1 \in 1 .. Len(cacheOps) /\ cacheOps[i + 1].op = "clear"
        BY <1>2, <2>1
      <3>2. page.suspended /\ NoPutAfter(cacheOps, i + 1)
        BY <3>1 DEF CacheInv, ClearsAreLast
      <3>3. \A j \in i + 1 .. Len(cacheOps') :
              j + 1 \in (i + 1) + 1 .. Len(cacheOps) /\ cacheOps'[j] = cacheOps[j + 1]
        BY <1>2
      <3>4. QED
        BY <1>3, <3>2, <3>3 DEF NoPutAfter
    <2>2. ASSUME page'.cleared PROVE page'.suspended /\ cached' = Absent /\ NoPut(cacheOps')
      <3>1. CASE page.cleared
        <4>1. page.suspended /\ cached = Absent /\ NoPut(cacheOps)
          BY <3>1 DEF CacheInv, ClearsAreLast
        <4>2. wanted.op # "put"
          BY <1>2, <4>1 DEF NoPut
        <4>3. QED
          BY <1>2, <1>3, <4>1, <4>2 DEF NoPut
      <3>2. CASE ~page.cleared
        <4>1. wanted.op = "clear" /\ cached' = Absent
          BY <1>2, <1>3, <2>2, <3>2 DEF CacheOp
        <4>2. page.suspended /\ NoPutAfter(cacheOps, 1)
          BY <1>2, <4>1 DEF CacheInv, ClearsAreLast
        <4>3. NoPut(cacheOps')
          BY <1>2, <4>2 DEF NoPut, NoPutAfter
        <4>4. QED
          BY <1>3, <4>1, <4>2, <4>3
      <3>3. QED
        BY <3>1, <3>2
    <2>3. QED
      BY <2>1, <2>2 DEF ClearsAreLast
  <1>8. OverwritesSeen'
    <2>1. wanted.op = "put" => page.writer /\ wanted.record.work \subseteq page.seen
      BY <1>2 DEF CacheInv, OverwritesSeen
    <2>2. /\ page.work \subseteq page.seen /\ (page.timer => page.writer)
          /\ page.phase = "boot" => ~page.writer
          /\ page.writer /\ cached # Absent /\ cached.kind = "current" => cached.work \subseteq page.seen
      BY DEF CacheInv, OverwritesSeen
    <2>3. \A i \in 1 .. Len(cacheOps') : cacheOps'[i].op = "put" =>
            page.writer /\ cacheOps'[i].record.work \subseteq page.seen
      BY <1>2 DEF CacheInv, OverwritesSeen
    <2>4. QED
      BY <1>3, <2>1, <2>2, <2>3 DEF OverwritesSeen
  <1>9. QED
    BY <1>4, <1>6, <1>7, <1>8 DEF CacheInv

LEMMA BootCacheKeeps ==
  ASSUME BootInv, BootCache
  PROVE  BootInv'
  <1> USE DEF BootInv
  <1>1. page \in Page /\ cached \in CacheRecord \cup {Absent} /\ page.phase = "boot"
        /\ UNCHANGED <<cacheOps, pairVars>>
    BY DEF CacheInv, CacheShaped, BootCache
  <1>2. PICK result \in {ReadResult, "unknown"} :
          /\ page' = [page EXCEPT !.phase = "pair", !.writer = WriterIsSafe(result),
                        !.work = IF result = "hit" THEN cached.work ELSE {},
                        !.seen = IF result = "hit" THEN cached.work ELSE {},
                        !.url = IF result = "hit" THEN cached.url ELSE Home]
          /\ \/ result = "outdated" /\ cached' = Absent
             \/ cached' = cached
    BY DEF BootCache
  <1>3. result = "hit" => cached \in CacheRecord
    BY <1>1, <1>2 DEF ReadResult
  <1>4. WriterIsSafe(result) \in BOOLEAN
    BY DEF WriterIsSafe
  <1>5. /\ page' \in Page /\ page'.timer = page.timer /\ page'.phase = "pair"
        /\ page'.work = IF result = "hit" THEN cached.work ELSE {}
        /\ page'.seen = IF result = "hit" THEN cached.work ELSE {}
        /\ page'.writer = WriterIsSafe(result)
        /\ page'.suspended = page.suspended /\ page'.cleared = page.cleared
    BY <1>1, <1>2, <1>3, <1>4, BootAssumption DEF Page, CacheRecord
  <1>6. PairInv'
    BY <1>1, <1>5, PairRests
  <1>7. CacheShaped'
    BY <1>1, <1>2, <1>5 DEF CacheInv, CacheShaped
  <1>8. ClearsAreLast'
    BY <1>1, <1>2, <1>5 DEF CacheInv, ClearsAreLast, NoPut, NoPutAfter
  <1>9. /\ ~page'.timer
        /\ \A i \in 1 .. Len(cacheOps) : cacheOps[i].op # "put"
    BY <1>1, <1>5 DEF CacheInv, OverwritesSeen
  <1>10. ASSUME page'.writer, cached' # Absent, cached'.kind = "current"
         PROVE  cached'.work \subseteq page'.seen
    <2>1. cached' = cached /\ result # "unknown"
      BY <1>2, <1>5, <1>10 DEF WriterIsSafe
    <2>2. result = "hit"
      BY <1>2, <1>10, <2>1 DEF ReadResult
    <2>3. QED
      BY <1>5, <2>1, <2>2
  <1>11. OverwritesSeen'
    BY <1>1, <1>5, <1>9, <1>10 DEF OverwritesSeen
  <1>12. QED
    BY <1>6, <1>7, <1>8, <1>11 DEF CacheInv

-----------------------------------------------------------------------------
(***************************************************************************)
(* The remembered pairing.                                                 *)
(***************************************************************************)
\* What was printed, and what a service accepts, is about the starts alone.
LEMMA StartsRest ==
  ASSUME UNCHANGED starts
  PROVE  Issued' = Issued /\ \A o : Capability(o)' = Capability(o)
  BY DEF Issued, Capability

PutsIssued(ops) == \A i \in 1 .. Len(ops) : ops[i].op = "put" => ops[i].record.capability \in Issued

\* Forgetting deletes behind everything that waits.
LEMMA ForgetGoesOn ==
  ASSUME NEW p \in Remembering, NEW ops \in Seq(PairOp), PutsIssued(ops),
         NEW who \in {"learner", "service", "boot"}, Forget(p, ops, who)
  PROVE  /\ pairing' \in Remembering /\ pairing'.pending = Absent /\ forgotten' = who
         /\ pairOps' \in Seq(PairOp) /\ Forgetting'
         /\ \A i \in 1 .. Len(pairOps') : pairOps'[i].op = "put" => pairOps'[i].record.capability \in Issued
  <1> DEFINE e == [op |-> "delete"]
  <1>1. pairOps' = Append(ops, e) /\ e \in PairOp /\ e.op = "delete"
    BY DEF Forget, Enqueue, PairOp
  <1> HIDE DEF e
  <1>2. /\ pairOps' \in Seq(PairOp) /\ Len(ops) \in Nat /\ Len(pairOps') = Len(ops) + 1
        /\ \A i \in 1 .. Len(ops) : pairOps'[i] = ops[i]
        /\ pairOps'[Len(ops) + 1] = e
    BY <1>1, Queued
  <1>3. p.gen + 1 \in Nat
    BY DEF Remembering
  <1>4. pairing' \in Remembering /\ pairing'.pending = Absent /\ forgotten' = who
    BY <1>3 DEF Forget, Remembering
  <1>5. Len(pairOps') \in 1 .. Len(pairOps') /\ NoPutAfter(pairOps', Len(pairOps'))
    BY <1>2 DEF NoPutAfter
  <1>6. pairOps'[Len(pairOps')].op = "delete"
    BY <1>1, <1>2
  <1>7. Forgetting'
    BY <1>5, <1>6 DEF Forgetting
  <1>8. QED
    BY <1>1, <1>2, <1>4, <1>7 DEF PutsIssued

\* Pairing sends the first request of the new transport.
LEMMA PairGoesOn ==
  ASSUME page \in Page, requests \in SUBSET Request, NEW pair \in Pairs, Pair(pair)
  PROVE  /\ page' \in Page /\ page'.url = pair.origin /\ page'.phase = page.phase
         /\ page'.work = page.work /\ page'.seen = page.seen /\ page'.writer = page.writer
         /\ page'.timer = page.timer /\ page'.suspended = page.suspended
         /\ page'.cleared = page.cleared
         /\ transport' \in Pairings
         /\ transport'.origin = pair.origin /\ transport'.capability = pair.capability
         /\ requests' \in SUBSET Request
         /\ \A q \in requests' : q \in requests \/ (q.by = transport' /\ q.answer = "none")
  <1> DEFINE t == [id |-> page.pairs + 1, origin |-> pair.origin, capability |-> pair.capability]
             q0 == [by |-> t, connects |-> TRUE, answer |-> "none"]
  <1>1. page.pairs + 1 \in Nat
    BY DEF Page
  <1>2. pair.origin \in Origins /\ pair.capability \in Capabilities
    BY DEF Pairs
  <1>3. t \in Pairings /\ t.origin = pair.origin /\ t.capability = pair.capability
    BY <1>1, <1>2 DEF Pairings
  <1>4. /\ transport' = t /\ requests' = requests \cup {q0}
        /\ page' = [page EXCEPT !.url = pair.origin, !.pairs = page.pairs + 1]
    BY DEF Pair
  <1>5. /\ page' \in Page /\ page'.url = pair.origin /\ page'.phase = page.phase
        /\ page'.work = page.work /\ page'.seen = page.seen /\ page'.writer = page.writer
        /\ page'.timer = page.timer /\ page'.suspended = page.suspended
        /\ page'.cleared = page.cleared
    BY <1>1, <1>2, <1>4 DEF Page
  <1>6. q0 \in Request /\ q0.by = t /\ q0.answer = "none"
    BY <1>3 DEF Request
  <1> HIDE DEF t, q0
  <1>7. QED
    BY <1>3, <1>4, <1>5, <1>6

\* A request that is not a put leaves the queue as it forgets.
LEMMA GetServed ==
  ASSUME pairOps \in Seq(PairOp), Forgetting, pairOps # <<>>, Head(pairOps).op = "get",
         pairOps' = Tail(pairOps), UNCHANGED <<stored, forgotten>>
  PROVE  Forgetting'
  <1>1. /\ Len(pairOps) \in Nat \ {0} /\ pairOps[1].op = "get" /\ Len(pairOps') = Len(pairOps) - 1
        /\ \A i \in 1 .. Len(pairOps) - 1 : pairOps'[i] = pairOps[i + 1]
    BY Served
  <1> SUFFICES ASSUME forgotten # Absent
               PROVE  \/ stored = Absent /\ NoPut(pairOps')
                      \/ \E i \in 1 .. Len(pairOps') : pairOps'[i].op = "delete" /\ NoPutAfter(pairOps', i)
    BY DEF Forgetting
  <1>2. CASE stored = Absent /\ NoPut(pairOps)
    BY <1>1, <1>2 DEF NoPut
  <1>3. ASSUME NEW i \in 1 .. Len(pairOps), pairOps[i].op = "delete", NoPutAfter(pairOps, i)
        PROVE  \E j \in 1 .. Len(pairOps') : pairOps'[j].op = "delete" /\ NoPutAfter(pairOps', j)
    <2>1. i - 1 \in 1 .. Len(pairOps') /\ pairOps'[i - 1].op = "delete"
      BY <1>1, <1>3
    <2>2. NoPutAfter(pairOps', i - 1)
      BY <1>1, <1>3 DEF NoPutAfter
    <2>3. QED
      BY <2>1, <2>2
  <1>4. QED
    BY <1>2, <1>3 DEF Forgetting

LEMMA BootPairingKeeps ==
  ASSUME BootInv, BootPairing
  PROVE  BootInv'
  <1> USE DEF BootInv
  <1>1. page \in Page /\ pairing \in Remembering /\ page.phase = "pair" /\ pairOps = <<>>
        /\ transport = Absent /\ requests = {}
    BY DEF CacheInv, CacheShaped, PairInv, PairShaped, PairedWhenReady, BootPairing
  <1>2. /\ page' \in Page /\ page'.timer = page.timer /\ page'.phase = "ready"
        /\ page'.work = page.work /\ page'.seen = page.seen /\ page'.writer = page.writer
        /\ page'.suspended = page.suspended /\ page'.cleared = page.cleared
    BY <1>1 DEF BootPairing, Page
  <1>3. CacheInv'
    <2>1. page.timer => page.writer
      BY DEF CacheInv, OverwritesSeen
    <2>2. QED
      BY <1>2, <2>1, CacheRests DEF BootPairing
  <1>4. pairing' \in Remembering /\ pairing'.pending = pairing.pending
    BY <1>1 DEF BootPairing, Remembering
  <1> DEFINE e == [op |-> "get"]
  <1>5. pairOps' = Append(pairOps, e) /\ e \in PairOp /\ e.op = "get"
    BY DEF BootPairing, Enqueue, PairOp
  <1> HIDE DEF e
  <1>6. pairOps' \in Seq(PairOp) /\ Len(pairOps') = 1 /\ pairOps'[1].op = "get"
    BY <1>1, <1>5
  <1>7. UNCHANGED <<stored, transport, requests, starts, forgotten>>
    BY DEF BootPairing
  <1>8. PairShaped'
    BY <1>4, <1>6, <1>7 DEF PairInv, PairShaped
  <1>9. PairedWhenReady'
    BY <1>1, <1>2, <1>7 DEF PairedWhenReady
  <1>10. Forgetting'
    BY <1>1, <1>6, <1>7 DEF PairInv, Forgetting, NoPut
  <1>11. CapabilitiesIssued'
    BY <1>1, <1>4, <1>6, <1>7, StartsRest DEF PairInv, CapabilitiesIssued
  <1>12. QED
    BY <1>3, <1>8, <1>9, <1>10, <1>11 DEF PairInv

LEMMA BootReadTimesOutKeeps ==
  ASSUME BootInv, BootReadTimesOut
  PROVE  BootInv'
  <1> USE DEF BootInv
  <1>1. UNCHANGED <<cacheVars, stored, pairOps, transport, requests, starts, forgotten>>
    BY DEF BootReadTimesOut
  <1>2. pairing' \in Remembering /\ pairing'.pending = pairing.pending
    BY DEF PairInv, PairShaped, BootReadTimesOut, Remembering
  <1>3. CacheInv'
    BY <1>1 DEF cacheVars, CacheInv, CacheShaped, ClearsAreLast, OverwritesSeen, NoPut, NoPutAfter
  <1>4. PairShaped' /\ PairedWhenReady'
    BY <1>1, <1>2 DEF PairInv, PairShaped, PairedWhenReady, cacheVars
  <1>5. Forgetting'
    BY <1>1 DEF PairInv, Forgetting, NoPut, NoPutAfter
  <1>6. CapabilitiesIssued'
    BY <1>1, <1>2, StartsRest DEF PairInv, CapabilitiesIssued
  <1>7. QED
    BY <1>3, <1>4, <1>5, <1>6 DEF PairInv

LEMMA BootReadKeeps ==
  ASSUME BootInv, BootRead
  PROVE  BootInv'
  <1> USE DEF BootInv
  <1> DEFINE p == [pairing EXCEPT !.boot = Absent]
  <1>1. /\ page \in Page /\ pairing \in Remembering /\ pairOps \in Seq(PairOp) /\ requests \in SUBSET Request
        /\ pairOps # <<>> /\ Head(pairOps).op = "get" /\ UNCHANGED <<cached, cacheOps, stored, starts>>
    BY DEF CacheInv, CacheShaped, PairInv, PairShaped, BootRead
  <1>2. page.phase = "ready"
    BY <1>1 DEF PairInv, PairedWhenReady
  <1>3. p \in Remembering /\ p.pending = pairing.pending
    BY <1>1 DEF Remembering
  <1>4. /\ Len(pairOps) \in Nat \ {0} /\ Tail(pairOps) \in Seq(PairOp)
        /\ Len(Tail(pairOps)) = Len(pairOps) - 1
        /\ \A i \in 1 .. Len(pairOps) - 1 : Tail(pairOps)[i] = pairOps[i + 1]
    BY <1>1, Served
  <1>5. PutsIssued(Tail(pairOps))
    BY <1>4 DEF PutsIssued, PairInv, CapabilitiesIssued
  <1>6. Issued' = Issued /\ \A o : Capability(o)' = Capability(o)
    BY <1>1, StartsRest
  <1>7. CASE pairing' = p /\ pairOps' = Tail(pairOps) /\ UNCHANGED <<page, transport, requests, forgotten>>
    <2>1. CacheInv'
      BY <1>1, <1>7 DEF CacheInv, CacheShaped, ClearsAreLast, OverwritesSeen, NoPut, NoPutAfter
    <2>2. PairShaped' /\ PairedWhenReady'
      BY <1>1, <1>2, <1>3, <1>4, <1>7 DEF PairInv, PairShaped, PairedWhenReady
    <2>3. Forgetting'
      BY <1>1, <1>7, GetServed DEF PairInv
    <2>4. CapabilitiesIssued'
      BY <1>1, <1>3, <1>5, <1>6, <1>7 DEF PairInv, CapabilitiesIssued, PutsIssued
    <2>5. QED
      BY <2>1, <2>2, <2>3, <2>4 DEF PairInv
  <1>8. CASE /\ stored # Absent /\ Pair(stored)
             /\ pairing' = [p EXCEPT !.optIn = TRUE, !.remembered = TRUE]
             /\ pairOps' = Tail(pairOps) /\ UNCHANGED forgotten
    <2>1. stored \in Pairs /\ stored.capability \in Issued
      BY <1>8 DEF PairInv, PairShaped, CapabilitiesIssued
    <2>2. /\ page' \in Page /\ page'.url = stored.origin /\ page'.phase = page.phase
          /\ page'.work = page.work /\ page'.seen = page.seen /\ page'.writer = page.writer
          /\ page'.timer = page.timer /\ page'.suspended = page.suspended
          /\ page'.cleared = page.cleared
          /\ transport' \in Pairings
          /\ transport'.origin = stored.origin /\ transport'.capability = stored.capability
          /\ requests' \in SUBSET Request
          /\ \A q \in requests' : q \in requests \/ (q.by = transport' /\ q.answer = "none")
      BY <1>1, <1>8, <2>1, PairGoesOn
    <2>3. pairing' \in Remembering /\ pairing'.pending = pairing.pending
      BY <1>3, <1>8 DEF Remembering
    <2>4. CacheInv'
      <3>1. page.timer => page.writer
        BY DEF CacheInv, OverwritesSeen
      <3>2. QED
        BY <1>1, <2>2, <3>1, CacheRests
    <2>5. PairShaped' /\ PairedWhenReady'
      BY <1>1, <1>2, <1>4, <1>8, <2>2, <2>3 DEF PairInv, PairShaped, PairedWhenReady
    <2>6. Forgetting'
      BY <1>1, <1>8, GetServed DEF PairInv
    <2>7. CapabilitiesIssued'
      BY <1>1, <1>5, <1>6, <1>8, <2>1, <2>2, <2>3 DEF PairInv, CapabilitiesIssued, PutsIssued
    <2>8. QED
      BY <2>4, <2>5, <2>6, <2>7 DEF PairInv
  <1>9. CASE Forget(p, Tail(pairOps), "boot") /\ UNCHANGED <<page, transport, requests>>
    <2>1. /\ pairing' \in Remembering /\ pairing'.pending = Absent /\ forgotten' = "boot"
          /\ pairOps' \in Seq(PairOp) /\ Forgetting'
          /\ \A i \in 1 .. Len(pairOps') : pairOps'[i].op = "put" => pairOps'[i].record.capability \in Issued
      BY <1>3, <1>4, <1>5, <1>9, ForgetGoesOn
    <2>2. CacheInv'
      BY <1>1, <1>9 DEF CacheInv, CacheShaped, ClearsAreLast, OverwritesSeen, NoPut, NoPutAfter
    <2>3. PairShaped' /\ PairedWhenReady'
      BY <1>1, <1>2, <1>9, <2>1 DEF PairInv, PairShaped, PairedWhenReady
    <2>4. CapabilitiesIssued'
      BY <1>1, <1>6, <1>9, <2>1 DEF PairInv, CapabilitiesIssued
    <2>5. QED
      BY <2>1, <2>2, <2>3, <2>4 DEF PairInv
  <1>10. QED
    BY <1>7, <1>8, <1>9 DEF BootRead

LEMMA PairServedKeeps ==
  ASSUME BootInv, PairServed
  PROVE  BootInv'
  <1> USE DEF BootInv
  <1> DEFINE wanted == pairOps[1]
  <1>1. /\ pairing \in Remembering /\ pairOps \in Seq(PairOp) /\ pairOps # <<>>
        /\ Head(pairOps).op # "get" /\ pairOps' = Tail(pairOps)
        /\ UNCHANGED <<cached, cacheOps, page, transport, requests, starts>>
    BY DEF PairInv, PairShaped, PairServed, cacheVars
  <1>2. /\ Len(pairOps) \in Nat \ {0} /\ Head(pairOps) = wanted /\ wanted \in PairOp
        /\ pairOps' \in Seq(PairOp) /\ Len(pairOps') = Len(pairOps) - 1
        /\ \A i \in 1 .. Len(pairOps) - 1 : pairOps'[i] = pairOps[i + 1]
    BY <1>1, Served
  <1>3. \/ wanted.op = "put" /\ wanted.record \in Pairs /\ wanted.record.capability \in Issued
        \/ wanted.op = "delete"
    <2>1. wanted.op = "put" => wanted.record.capability \in Issued
      BY <1>2 DEF PairInv, CapabilitiesIssued
    <2>2. QED
      BY <1>1, <1>2, <2>1 DEF PairOp
  <1>4. \/ /\ stored' = IF wanted.op = "put" THEN wanted.record ELSE Absent
           /\ UNCHANGED <<pairing, forgotten>>
        \/ /\ stored' = stored
           /\ pairing' = IF wanted.op = "put" THEN [pairing EXCEPT !.remembered = FALSE] ELSE pairing
           /\ forgotten' = IF wanted.op = "put" THEN forgotten ELSE Absent
    BY <1>2 DEF PairServed
  <1>5. pairing' \in Remembering /\ pairing'.pending = pairing.pending
    BY <1>1, <1>4 DEF Remembering
  <1>6. CacheInv'
    BY <1>1 DEF CacheInv, CacheShaped, ClearsAreLast, OverwritesSeen, NoPut, NoPutAfter
  <1>7. PairShaped'
    BY <1>1, <1>2, <1>3, <1>4, <1>5 DEF PairInv, PairShaped
  <1>8. PairedWhenReady'
    BY <1>1 DEF PairInv, PairedWhenReady
  <1>9. Forgetting'
    <2> SUFFICES ASSUME forgotten' # Absent
                 PROVE  \/ stored' = Absent /\ NoPut(pairOps')
                        \/ \E i \in 1 .. Len(pairOps') : pairOps'[i].op = "delete" /\ NoPutAfter(pairOps', i)
      BY DEF Forgetting
    <2>1. forgotten' = forgotten /\ (wanted.op = "delete" => stored' = Absent)
      BY <1>3, <1>4
    <2>2. CASE stored = Absent /\ NoPut(pairOps)
      <3>1. wanted.op = "delete"
        BY <1>2, <1>3, <2>2 DEF NoPut
      <3>2. QED
        BY <1>2, <2>1, <2>2, <3>1 DEF NoPut
    <2>3. ASSUME NEW i \in 1 .. Len(pairOps), pairOps[i].op = "delete", NoPutAfter(pairOps, i)
          PROVE  \/ stored' = Absent /\ NoPut(pairOps')
                 \/ \E j \in 1 .. Len(pairOps') : pairOps'[j].op = "delete" /\ NoPutAfter(pairOps', j)
      <3>1. CASE i = 1
        BY <1>2, <2>1, <2>3, <3>1 DEF NoPut, NoPutAfter
      <3>2. CASE i # 1
        <4>1. i - 1 \in 1 .. Len(pairOps') /\ pairOps'[i - 1].op = "delete"
          BY <1>2, <2>3, <3>2
        <4>2. NoPutAfter(pairOps', i - 1)
          <5> SUFFICES ASSUME NEW j \in (i - 1) + 1 .. Len(pairOps') PROVE pairOps'[j].op # "put"
            BY DEF NoPutAfter
          <5>1. j \in 1 .. Len(pairOps) - 1 /\ j + 1 \in i + 1 .. Len(pairOps)
            BY <1>2, <2>3
          <5>2. pairOps'[j] = pairOps[j + 1] /\ pairOps[j + 1].op # "put"
            BY <1>2, <2>3, <5>1 DEF NoPutAfter
          <5>3. QED
            BY <5>2
        <4>3. QED
          BY <4>1, <4>2
      <3>3. QED
        BY <3>1, <3>2
    <2>4. QED
      BY <2>1, <2>2, <2>3 DEF PairInv, Forgetting
  <1>10. CapabilitiesIssued'
    <2>1. stored' # Absent => stored'.capability \in Issued
      BY <1>3, <1>4 DEF PairInv, CapabilitiesIssued
    <2>2. \A i \in 1 .. Len(pairOps') : pairOps'[i].op = "put" => pairOps'[i].record.capability \in Issued
      BY <1>2 DEF PairInv, CapabilitiesIssued
    <2>3. QED
      BY <1>1, <1>5, <2>1, <2>2, StartsRest DEF PairInv, CapabilitiesIssued
  <1>11. QED
    BY <1>6, <1>7, <1>8, <1>9, <1>10 DEF PairInv

-----------------------------------------------------------------------------
(***************************************************************************)
(* Settings.                                                               *)
(***************************************************************************)
\* Forgetting what the page has, whatever becomes of its transport and its requests.
LEMMA PageForgets ==
  ASSUME BootInv, page.phase = "ready", NEW p \in Remembering,
         NEW who \in {"learner", "service", "boot"}, Forget(p, pairOps, who),
         UNCHANGED <<cached, cacheOps, stored, starts>>,
         \/ UNCHANGED page
         \/ \E u \in Origins \cup {Typing} : page' = [page EXCEPT !.url = u] /\ transport' = Absent,
         transport' \in {transport, Absent}, requests' \subseteq requests
  PROVE  BootInv'
  <1> USE DEF BootInv
  <1>1. /\ page \in Page /\ pairOps \in Seq(PairOp) /\ requests \in SUBSET Request
        /\ PutsIssued(pairOps)
    BY DEF CacheInv, CacheShaped, PairInv, PairShaped, CapabilitiesIssued, PutsIssued
  <1>2. /\ page' \in Page /\ page'.timer = page.timer /\ page'.phase = "ready"
        /\ page'.work = page.work /\ page'.seen = page.seen /\ page'.writer = page.writer
        /\ page'.suspended = page.suspended /\ page'.cleared = page.cleared
        /\ (transport' # Absent => page'.url = page.url)
    BY <1>1 DEF Page
  <1>3. /\ pairing' \in Remembering /\ pairing'.pending = Absent /\ forgotten' = who
        /\ pairOps' \in Seq(PairOp) /\ Forgetting'
        /\ \A i \in 1 .. Len(pairOps') : pairOps'[i].op = "put" => pairOps'[i].record.capability \in Issued
    BY <1>1, ForgetGoesOn
  <1>4. CacheInv'
    <2>1. page.timer => page.writer
      BY DEF CacheInv, OverwritesSeen
    <2>2. QED
      BY <1>2, <2>1, CacheRests
  <1>5. PairShaped' /\ PairedWhenReady'
    BY <1>1, <1>2, <1>3 DEF PairInv, PairShaped, PairedWhenReady
  <1>6. CapabilitiesIssued'
    BY <1>3, StartsRest DEF PairInv, CapabilitiesIssued
  <1>7. QED
    BY <1>3, <1>4, <1>5, <1>6 DEF PairInv

LEMMA EditUrlKeeps ==
  ASSUME BootInv, NEW u \in Origins \cup {Typing}, EditUrl(u)
  PROVE  BootInv'
  <1>1. pairing \in Remembering
    BY DEF BootInv, PairInv, PairShaped
  <1>2. QED
    BY <1>1, PageForgets DEF EditUrl, Unpair

LEMMA OptOutKeeps ==
  ASSUME BootInv, OptOut
  PROVE  BootInv'
  <1>1. [pairing EXCEPT !.optIn = FALSE] \in Remembering
    BY DEF BootInv, PairInv, PairShaped, Remembering
  <1>2. QED
    BY <1>1, PageForgets DEF OptOut, cacheVars

LEMMA ForgetPressedKeeps ==
  ASSUME BootInv, ForgetPressed
  PROVE  BootInv'
  <1>1. pairing \in Remembering
    BY DEF BootInv, PairInv, PairShaped
  <1>2. QED
    BY <1>1, PageForgets DEF ForgetPressed, cacheVars

LEMMA UnauthorizedKeeps ==
  ASSUME BootInv, NEW q \in requests, Unauthorized(q)
  PROVE  BootInv'
  <1>1. pairing \in Remembering /\ page.phase = "ready"
    BY DEF BootInv, PairInv, PairShaped, PairedWhenReady
  <1>2. requests' \subseteq requests /\ transport' = Absent
        /\ UNCHANGED <<cached, cacheOps, page, stored, starts>>
    BY DEF Unauthorized, cacheVars
  <1>3. QED
    BY <1>1, <1>2, PageForgets DEF Unauthorized

LEMMA ConnectKeeps ==
  ASSUME BootInv, NEW c \in Issued, Connect(c)
  PROVE  BootInv'
  <1> USE DEF BootInv
  <1> DEFINE pair == [origin |-> page.url, capability |-> c]
  <1>1. /\ page \in Page /\ pairing \in Remembering /\ requests \in SUBSET Request
        /\ page.phase = "ready" /\ page.url \in Origins
        /\ UNCHANGED <<cached, cacheOps, stored, pairOps, starts, forgotten>>
    BY DEF CacheInv, CacheShaped, PairInv, PairShaped, Connect
  <1>2. pair \in Pairs /\ pair.origin = page.url /\ pair.capability = c
    BY <1>1 DEF Pairs, Issued
  <1>3. Pair(pair) /\ (pairing' = [pairing EXCEPT !.pending = IF pairing.optIn THEN pair ELSE Absent])
    BY DEF Connect
  <1> HIDE DEF pair
  <1>4. /\ page' \in Page /\ page'.url = page.url /\ page'.phase = page.phase
        /\ page'.work = page.work /\ page'.seen = page.seen /\ page'.writer = page.writer
        /\ page'.timer = page.timer /\ page'.suspended = page.suspended
        /\ page'.cleared = page.cleared
        /\ transport' \in Pairings
        /\ transport'.origin = page.url /\ transport'.capability = c
        /\ requests' \in SUBSET Request
        /\ \A q \in requests' : q \in requests \/ (q.by = transport' /\ q.answer = "none")
    BY <1>1, <1>2, <1>3, PairGoesOn
  <1>5. pairing' \in Remembering /\ pairing'.pending \in {pair, Absent}
    BY <1>1, <1>2, <1>3 DEF Remembering
  <1>6. CacheInv'
    <2>1. page.timer => page.writer
      BY DEF CacheInv, OverwritesSeen
    <2>2. QED
      BY <1>1, <1>4, <2>1, CacheRests
  <1>7. PairShaped' /\ PairedWhenReady'
    BY <1>1, <1>4, <1>5 DEF PairInv, PairShaped, PairedWhenReady
  <1>8. Forgetting'
    BY <1>1 DEF PairInv, Forgetting, NoPut, NoPutAfter
  <1>9. CapabilitiesIssued'
    BY <1>1, <1>2, <1>4, <1>5, StartsRest DEF PairInv, CapabilitiesIssued
  <1>10. QED
    BY <1>6, <1>7, <1>8, <1>9 DEF PairInv

LEMMA ConnectMalformedKeeps ==
  ASSUME BootInv, ConnectMalformed
  PROVE  BootInv'
  <1> USE DEF BootInv
  <1>1. /\ page \in Page
        /\ UNCHANGED <<cached, cacheOps, stored, pairOps, pairing, requests, starts, forgotten>>
        /\ transport' = Absent /\ page' = [page EXCEPT !.url = page.url] /\ page.phase = "ready"
    BY DEF CacheInv, CacheShaped, ConnectMalformed, Unpair
  <1>2. page' = page
    BY <1>1 DEF Page
  <1>3. CacheInv'
    BY <1>1, <1>2 DEF CacheInv, CacheShaped, ClearsAreLast, OverwritesSeen, NoPut, NoPutAfter
  <1>4. PairShaped' /\ PairedWhenReady'
    BY <1>1, <1>2 DEF PairInv, PairShaped, PairedWhenReady
  <1>5. Forgetting'
    BY <1>1 DEF PairInv, Forgetting, NoPut, NoPutAfter
  <1>6. CapabilitiesIssued'
    BY <1>1, StartsRest DEF PairInv, CapabilitiesIssued
  <1>7. QED
    BY <1>3, <1>4, <1>5, <1>6 DEF PairInv

LEMMA OptInKeeps ==
  ASSUME BootInv, OptIn
  PROVE  BootInv'
  <1> USE DEF BootInv
  <1>1. UNCHANGED <<cached, cacheOps, page, stored, pairOps, transport, requests, starts, forgotten>>
    BY DEF OptIn, cacheVars
  <1>2. pairing' \in Remembering /\ pairing'.pending = pairing.pending
    BY DEF PairInv, PairShaped, OptIn, Remembering
  <1>3. CacheInv'
    BY <1>1 DEF CacheInv, CacheShaped, ClearsAreLast, OverwritesSeen, NoPut, NoPutAfter
  <1>4. PairShaped' /\ PairedWhenReady'
    BY <1>1, <1>2 DEF PairInv, PairShaped, PairedWhenReady
  <1>5. Forgetting'
    BY <1>1 DEF PairInv, Forgetting, NoPut, NoPutAfter
  <1>6. CapabilitiesIssued'
    BY <1>1, <1>2, StartsRest DEF PairInv, CapabilitiesIssued
  <1>7. QED
    BY <1>3, <1>4, <1>5, <1>6 DEF PairInv

-----------------------------------------------------------------------------
(***************************************************************************)
(* The wire and the services.                                              *)
(***************************************************************************)
\* Only the requests change: each is an earlier one, with or without its answer, or new.
LEMMA RequestsMove ==
  ASSUME BootInv, UNCHANGED <<cacheVars, stored, pairOps, pairing, transport, starts, forgotten>>,
         requests' \in SUBSET Request, page.phase = "ready",
         \A q \in requests' : /\ q.by.capability \in Issued
                              /\ q.answer = "401" => q.by.capability # Capability(q.by.origin)
  PROVE  BootInv'
  <1> USE DEF BootInv
  <1>1. CacheInv'
    BY DEF cacheVars, CacheInv, CacheShaped, ClearsAreLast, OverwritesSeen, NoPut, NoPutAfter
  <1>2. PairShaped' /\ PairedWhenReady'
    BY DEF PairInv, PairShaped, PairedWhenReady, cacheVars
  <1>3. Forgetting'
    BY DEF PairInv, Forgetting, NoPut, NoPutAfter
  <1>4. CapabilitiesIssued'
    BY StartsRest DEF PairInv, CapabilitiesIssued
  <1>5. QED
    BY <1>1, <1>2, <1>3, <1>4 DEF PairInv

LEMMA SendRequestKeeps ==
  ASSUME BootInv, NEW connects \in BOOLEAN, SendRequest(connects)
  PROVE  BootInv'
  <1> DEFINE q0 == [by |-> transport, connects |-> connects, answer |-> "none"]
  <1>1. /\ transport \in Pairings /\ transport.capability \in Issued /\ page.phase = "ready"
        /\ requests' = requests \cup {q0}
    BY DEF BootInv, PairInv, PairShaped, PairedWhenReady, CapabilitiesIssued, SendRequest
  <1>2. q0 \in Request /\ q0.by = transport /\ q0.answer = "none"
    BY <1>1 DEF Request
  <1> HIDE DEF q0
  <1>3. /\ requests' \in SUBSET Request
        /\ \A q \in requests' : /\ q.by.capability \in Issued
                                /\ q.answer = "401" => q.by.capability # Capability(q.by.origin)
    BY <1>1, <1>2 DEF BootInv, PairInv, PairShaped, CapabilitiesIssued
  <1>4. QED
    BY <1>1, <1>3, RequestsMove DEF SendRequest

LEMMA ServeKeeps ==
  ASSUME BootInv, NEW q \in requests, Serve(q)
  PROVE  BootInv'
  <1> DEFINE ok == q.by.capability = Capability(q.by.origin)
             q1 == [q EXCEPT !.answer = IF ok THEN "ok" ELSE "401"]
  <1>1. /\ q \in Request /\ q.by.capability \in Issued /\ page.phase = "ready"
        /\ requests' = (requests \ {q}) \cup {q1}
    BY DEF BootInv, PairInv, PairShaped, PairedWhenReady, CapabilitiesIssued, Serve
  <1>2. q1 \in Request /\ q1.by = q.by /\ (q1.answer = "401" => ~ok)
    BY <1>1 DEF Request
  <1> HIDE DEF q1
  <1>3. /\ requests' \in SUBSET Request
        /\ \A r \in requests' : /\ r.by.capability \in Issued
                                /\ r.answer = "401" => r.by.capability # Capability(r.by.origin)
    BY <1>1, <1>2 DEF BootInv, PairInv, PairShaped, CapabilitiesIssued
  <1>4. QED
    BY <1>1, <1>3, RequestsMove DEF Serve

LEMMA AnswerIgnoredKeeps ==
  ASSUME BootInv, NEW q \in requests, AnswerIgnored(q)
  PROVE  BootInv'
  <1>1. page.phase = "ready"
    BY DEF BootInv, PairInv, PairedWhenReady
  <1>2. /\ requests' \in SUBSET Request
        /\ \A r \in requests' : /\ r.by.capability \in Issued
                                /\ r.answer = "401" => r.by.capability # Capability(r.by.origin)
    BY DEF BootInv, PairInv, PairShaped, CapabilitiesIssued, AnswerIgnored
  <1>3. QED
    BY <1>1, <1>2, RequestsMove DEF AnswerIgnored

LEMMA StatusOkKeeps ==
  ASSUME BootInv, NEW q \in requests, StatusOk(q)
  PROVE  BootInv'
  <1> USE DEF BootInv
  <1> DEFINE p == pairing.pending
             e == [op |-> "put", record |-> p]
             remember == pairing.optIn /\ p # Absent /\ p.origin = q.by.origin
  <1>1. /\ page \in Page /\ pairing \in Remembering /\ pairOps \in Seq(PairOp) /\ requests' \subseteq requests
        /\ page.phase = "ready" /\ page' \in {page, Signalled(page)}
        /\ UNCHANGED <<cached, cacheOps, stored, transport, starts>>
    BY DEF CacheInv, CacheShaped, PairInv, PairShaped, PairedWhenReady, StatusOk
  <1>2. /\ page' \in Page /\ (page'.timer => page.timer \/ page.writer)
        /\ page'.work = page.work /\ page'.seen = page.seen /\ page'.writer = page.writer
        /\ page'.suspended = page.suspended /\ page'.cleared = page.cleared
        /\ page'.phase = page.phase /\ page'.url = page.url
    BY <1>1 DEF Signalled, Page
  <1>3. CacheInv'
    <2>1. page.timer => page.writer
      BY DEF CacheInv, OverwritesSeen
    <2>2. QED
      BY <1>1, <1>2, <2>1, CacheRests
  <1>4. PairedWhenReady'
    BY <1>1, <1>2 DEF PairInv, PairedWhenReady
  <1>5. CASE remember
    <2>1. /\ pairing' = [pairing EXCEPT !.pending = Absent, !.remembered = TRUE]
          /\ pairOps' = Append(pairOps, e) /\ forgotten' = Absent
      BY <1>5 DEF StatusOk, Enqueue
    <2>2. p \in Pairs /\ p.capability \in Issued
      BY <1>1, <1>5 DEF Remembering, PairInv, CapabilitiesIssued
    <2>3. e \in PairOp /\ e.op = "put" /\ e.record = p
      BY <2>2 DEF PairOp
    <2>4. pairing' \in Remembering /\ pairing'.pending = Absent
      BY <1>1, <2>1 DEF Remembering
    <2> HIDE DEF e
    <2>5. /\ pairOps' \in Seq(PairOp) /\ Len(pairOps) \in Nat /\ Len(pairOps') = Len(pairOps) + 1
          /\ \A i \in 1 .. Len(pairOps) : pairOps'[i] = pairOps[i]
          /\ pairOps'[Len(pairOps) + 1] = e
      BY <1>1, <2>1, <2>3, Queued
    <2>6. PairShaped'
      BY <1>1, <2>1, <2>4, <2>5 DEF PairInv, PairShaped
    <2>7. Forgetting'
      BY <2>1 DEF Forgetting
    <2>8. \A i \in 1 .. Len(pairOps') : pairOps'[i].op = "put" => pairOps'[i].record.capability \in Issued
      BY <2>2, <2>3, <2>5 DEF PairInv, CapabilitiesIssued
    <2>9. CapabilitiesIssued'
      BY <1>1, <2>4, <2>8, StartsRest DEF PairInv, CapabilitiesIssued
    <2>10. QED
      BY <1>3, <1>4, <2>6, <2>7, <2>9 DEF PairInv
  <1>6. CASE ~remember
    <2>1. UNCHANGED <<pairing, pairOps, forgotten>>
      BY <1>6 DEF StatusOk
    <2>2. PairShaped'
      BY <1>1, <2>1 DEF PairInv, PairShaped
    <2>3. Forgetting'
      BY <1>1, <2>1 DEF PairInv, Forgetting, NoPut, NoPutAfter
    <2>4. CapabilitiesIssued'
      BY <1>1, <2>1, StartsRest DEF PairInv, CapabilitiesIssued
    <2>5. QED
      BY <1>3, <1>4, <2>2, <2>3, <2>4 DEF PairInv
  <1>7. QED
    BY <1>5, <1>6

LEMMA RestartServiceKeeps ==
  ASSUME BootInv, NEW o \in Origins, RestartService(o)
  PROVE  BootInv'
  <1> USE DEF BootInv
  <1>1. /\ starts \in [Origins -> 0 .. MaxStarts] /\ starts[o] < MaxStarts
        /\ starts' = [starts EXCEPT ![o] = starts[o] + 1]
        /\ UNCHANGED <<cacheVars, stored, pairOps, pairing, transport, requests, forgotten>>
    BY DEF PairInv, PairShaped, RestartService
  <1>2. starts[o] + 1 \in 0 .. MaxStarts
    BY <1>1, BootAssumption
  <1>3. starts' \in [Origins -> 0 .. MaxStarts] /\ \A u \in Origins : starts[u] <= starts'[u]
    BY <1>1, <1>2
  <1>4. Issued \subseteq Issued'
    <2>1. \A c \in Capabilities : c.of \in Origins /\ c.start \in Nat
      BY BootAssumption DEF Capabilities
    <2>2. \A u \in Origins : starts[u] \in Nat /\ starts'[u] \in Nat
      BY <1>1, <1>3, BootAssumption
    <2>3. QED
      BY <1>3, <2>1, <2>2 DEF Issued
  <1>5. CacheInv'
    BY <1>1 DEF cacheVars, CacheInv, CacheShaped, ClearsAreLast, OverwritesSeen, NoPut, NoPutAfter
  <1>6. PairShaped' /\ PairedWhenReady'
    BY <1>1, <1>3 DEF PairInv, PairShaped, PairedWhenReady, cacheVars
  <1>7. Forgetting'
    BY <1>1 DEF PairInv, Forgetting, NoPut, NoPutAfter
  <1>8. ASSUME NEW q \in requests, q.answer = "401"
        PROVE  q.by.capability # Capability(q.by.origin)'
    <2>1. /\ q.by.capability \in Capabilities /\ q.by.origin \in Origins
          /\ q.by.capability.start <= starts[q.by.capability.of]
          /\ q.by.capability # [of |-> q.by.origin, start |-> starts[q.by.origin]]
      BY <1>8 DEF PairInv, PairShaped, CapabilitiesIssued, Request, Pairings, Issued, Capability
    <2>2. CASE q.by.capability.of # q.by.origin
      BY <2>2 DEF Capability
    <2>3. CASE q.by.capability.of = q.by.origin
      <3>1. q.by.capability.start # starts[q.by.origin]
        BY <2>1, <2>3 DEF Capabilities
      <3>2. q.by.capability.start \in Nat /\ starts[q.by.origin] \in Nat /\ starts'[q.by.origin] \in Nat
        BY <1>1, <1>3, <2>1, BootAssumption DEF Capabilities
      <3>3. q.by.capability.start < starts'[q.by.origin]
        BY <1>3, <2>1, <2>3, <3>1, <3>2
      <3>4. QED
        BY <3>2, <3>3 DEF Capability
    <2>4. QED
      BY <2>2, <2>3
  <1>9. CapabilitiesIssued'
    BY <1>1, <1>4, <1>8 DEF PairInv, CapabilitiesIssued
  <1>10. QED
    BY <1>5, <1>6, <1>7, <1>9 DEF PairInv

LEMMA LoadPageKeeps ==
  ASSUME BootInv, LoadPage
  PROVE  BootInv'
  <1> USE DEF BootInv
  <1>1. /\ page' = FreshPage /\ cacheOps' = <<>> /\ pairOps' = <<>> /\ pairing' = Unpaired
        /\ transport' = Absent /\ requests' = {} /\ forgotten' = Absent
        /\ UNCHANGED <<cached, stored, starts>>
    BY DEF LoadPage
  <1>2. CacheShaped' /\ PairShaped'
    BY <1>1, PageBegins DEF CacheInv, CacheShaped, PairInv, PairShaped
  <1>3. ClearsAreLast' /\ OverwritesSeen'
    BY <1>1, PageBegins DEF ClearsAreLast, OverwritesSeen
  <1>4. PairedWhenReady' /\ Forgetting'
    BY <1>1 DEF PairedWhenReady, Forgetting
  <1>5. CapabilitiesIssued'
    BY <1>1, PageBegins, StartsRest DEF PairInv, CapabilitiesIssued
  <1>6. QED
    BY <1>2, <1>3, <1>4, <1>5 DEF CacheInv, PairInv

-----------------------------------------------------------------------------
LEMMA BootStutters ==
  ASSUME BootInv, UNCHANGED bootVars
  PROVE  BootInv'
  <1> USE DEF BootInv, bootVars, cacheVars, pairVars
  <1>1. CacheInv'
    BY DEF CacheInv, CacheShaped, ClearsAreLast, OverwritesSeen, NoPut, NoPutAfter
  <1>2. PairShaped' /\ PairedWhenReady' /\ Forgetting'
    BY DEF PairInv, PairShaped, PairedWhenReady, Forgetting, NoPut, NoPutAfter
  <1>3. CapabilitiesIssued'
    BY StartsRest DEF PairInv, CapabilitiesIssued
  <1>4. QED
    BY <1>1, <1>2, <1>3 DEF PairInv

LEMMA BootStepKeeps ==
  ASSUME BootInv, [BootNext]_bootVars
  PROVE  BootInv'
  <1>1. CASE BootCache \/ Flush \/ Clear \/ CacheServed
    BY <1>1, BootCacheKeeps, FlushKeeps, ClearKeeps, ServedKeeps
  <1>2. CASE \E items \in SUBSET Items : Work(items)
    BY <1>2, WorkKeeps
  <1>3. CASE BootPairing \/ BootReadTimesOut \/ BootRead \/ PairServed
    BY <1>3, BootPairingKeeps, BootReadTimesOutKeeps, BootReadKeeps, PairServedKeeps
  <1>4. CASE \E u \in Origins \cup {Typing} : EditUrl(u)
    BY <1>4, EditUrlKeeps
  <1>5. CASE \E c \in Issued : Connect(c)
    BY <1>5, ConnectKeeps
  <1>6. CASE ConnectMalformed \/ OptIn \/ OptOut \/ ForgetPressed
    BY <1>6, ConnectMalformedKeeps, OptInKeeps, OptOutKeeps, ForgetPressedKeeps
  <1>7. CASE \E connects \in BOOLEAN : SendRequest(connects)
    BY <1>7, SendRequestKeeps
  <1>8. CASE \E q \in requests : Serve(q) \/ AnswerIgnored(q) \/ StatusOk(q) \/ Unauthorized(q)
    BY <1>8, ServeKeeps, AnswerIgnoredKeeps, StatusOkKeeps, UnauthorizedKeeps
  <1>9. CASE \E o \in Origins : RestartService(o)
    BY <1>9, RestartServiceKeeps
  <1>10. CASE LoadPage
    BY <1>10, LoadPageKeeps
  <1>11. CASE UNCHANGED bootVars
    BY <1>11, BootStutters
  <1>12. QED
    BY <1>1, <1>2, <1>3, <1>4, <1>5, <1>6, <1>7, <1>8, <1>9, <1>10, <1>11 DEF BootNext

\* The inductive invariant of a page that boots.
THEOREM BootInvHolds == BootSpec => []BootInv
  <1>1. BootInit => BootInv
    BY BootBegins
  <1>2. BootInv /\ [BootNext]_bootVars => BootInv'
    BY BootStepKeeps
  <1>3. QED
    BY <1>1, <1>2, PTL DEF BootSpec

\* What is in the browser and in the page keeps its shape (isRecord in
\* browserSnapshotCache.ts, State in rememberedPairing.ts), and a page is paired with the
\* service of its URL.
THEOREM BootsKeepTheirShape == BootSpec => []BootTypeOK
  <1>1. ASSUME BootInv PROVE BootTypeOK
    <2>1. \A i \in DOMAIN cacheOps : cacheOps[i].op \in {"put", "clear"}
      BY <1>1 DEF BootInv, CacheInv, CacheShaped, CacheOp
    <2>2. \A i \in DOMAIN pairOps : pairOps[i].op \in {"get", "put", "delete"}
      BY <1>1 DEF BootInv, PairInv, PairShaped, PairOp
    <2>3. QED
      BY <1>1, <2>1, <2>2 DEF BootInv, CacheInv, CacheShaped, PairInv, PairShaped, PairedWhenReady,
                          BootTypeOK, Page, Remembering
  <1>2. QED
    BY <1>1, BootInvHolds, PTL

\* A cleared cache and a forgotten pairing do not come back by a write that was late
\* (clearSnapshotCache suspends the writes; serialize queues the deletion last).
THEOREM WhatIsGoneStaysGone == BootSpec => []GoneStaysGone
  <1>1. ASSUME BootInv PROVE GoneStaysGone
    <2>1. ClearedStaysCleared
      BY <1>1 DEF BootInv, CacheInv, ClearsAreLast, ClearedStaysCleared
    <2>2. ForgottenStaysForgotten
      <3> SUFFICES ASSUME forgotten # Absent, pairOps = <<>> PROVE stored = Absent
        BY DEF ForgottenStaysForgotten
      <3>1. QED
        BY <1>1 DEF BootInv, PairInv, Forgetting
    <2>3. QED
      BY <2>1, <2>2 DEF GoneStaysGone
  <1>2. QED
    BY <1>1, BootInvHolds, PTL

-----------------------------------------------------------------------------
\* The record of the cache is written by its queue and by the boot alone.
LEMMA UnreadStays ==
  ASSUME BootInv, [BootNext]_bootVars, cached # Absent, cached.kind = "current", ~page'.cleared
  PROVE  cached' # Absent /\ cached.work \ cached'.work \subseteq page.seen
  <1>1. cached \in CacheRecord /\ page \in Page /\ cacheOps \in Seq(CacheOp)
    BY DEF BootInv, CacheInv, CacheShaped
  <1>2. CASE cached' = cached
    BY <1>2
  <1>3. CASE CacheServed /\ cached' # cached
    <2>1. /\ cacheOps # <<>> /\ Head(cacheOps) = cacheOps[1] /\ cacheOps[1] \in CacheOp
          /\ 1 \in 1 .. Len(cacheOps)
      BY <1>1, <1>3, Served DEF CacheServed
    <2>2. cached' = IF cacheOps[1].op = "put" THEN cacheOps[1].record ELSE Absent
      BY <1>3, <2>1 DEF CacheServed
    <2>3. CASE cacheOps[1].op = "put"
      <3>1. page.writer /\ cached' = cacheOps[1].record /\ cached' \in CacheRecord
        BY <2>1, <2>2, <2>3 DEF BootInv, CacheInv, OverwritesSeen, CacheOp
      <3>2. cached.work \subseteq page.seen
        BY <3>1 DEF BootInv, CacheInv, OverwritesSeen
      <3>3. QED
        BY <3>1, <3>2, NothingAssumption
    <2>4. CASE cacheOps[1].op # "put"
      <3>1. page' = [page EXCEPT !.clearing = FALSE, !.cleared = TRUE] \/ cached' = cached
        BY <1>3, <2>1, <2>4 DEF CacheServed
      <3>2. QED
        BY <1>1, <1>3, <3>1 DEF Page
    <2>5. QED
      BY <2>3, <2>4
  <1>4. CASE BootCache /\ cached' # cached
    BY <1>4 DEF BootCache, ReadResult
  <1>5. CASE ~CacheServed /\ ~BootCache
    <2>1. CASE Flush \/ Clear \/ \E items \in SUBSET Items : Work(items)
      BY <2>1, <1>2 DEF Flush, Clear, Work
    <2>2. CASE BootPairing \/ BootReadTimesOut \/ BootRead \/ PairServed
      BY <2>2, <1>2 DEF BootPairing, BootReadTimesOut, BootRead, PairServed, cacheVars
    <2>3. CASE \E u \in Origins \cup {Typing} : EditUrl(u)
      BY <2>3, <1>2 DEF EditUrl
    <2>4. CASE \E c \in Issued : Connect(c)
      BY <2>4, <1>2 DEF Connect
    <2>5. CASE ConnectMalformed \/ OptIn \/ OptOut \/ ForgetPressed
      BY <2>5, <1>2 DEF ConnectMalformed, OptIn, OptOut, ForgetPressed, cacheVars
    <2>6. CASE \E connects \in BOOLEAN : SendRequest(connects)
      BY <2>6, <1>2 DEF SendRequest, cacheVars
    <2>7. CASE \E q \in requests : Serve(q) \/ AnswerIgnored(q) \/ StatusOk(q) \/ Unauthorized(q)
      BY <2>7, <1>2 DEF Serve, AnswerIgnored, StatusOk, Unauthorized, cacheVars
    <2>8. CASE (\E o \in Origins : RestartService(o)) \/ LoadPage \/ UNCHANGED bootVars
      BY <2>8, <1>2 DEF RestartService, LoadPage, bootVars, cacheVars
    <2>9. QED
      BY <1>5, <2>1, <2>2, <2>3, <2>4, <2>5, <2>6, <2>7, <2>8 DEF BootNext
  <1>6. QED
    BY <1>2, <1>3, <1>4, <1>5

\* Who forgets says so: only a 401 does it for the service.
LEMMA LiveStays ==
  ASSUME BootInv, [BootNext]_bootVars, pairing'.gen # pairing.gen, forgotten' = "service"
  PROVE  transport = Absent \/ transport.capability # Capability(transport.origin)
  <1>1. pairing \in Remembering
    BY DEF BootInv, PairInv, PairShaped
  <1>2. CASE \E q \in requests : Unauthorized(q)
    <2>1. PICK q \in requests : Unauthorized(q)
      BY <1>2
    <2>2. q.answer = "401" /\ transport = q.by
      BY <2>1 DEF Unauthorized, IsCurrent
    <2>3. QED
      BY <2>2 DEF BootInv, PairInv, CapabilitiesIssued
  <1>3. CASE ~\E q \in requests : Unauthorized(q)
    <2>1. CASE BootCache \/ Flush \/ Clear \/ CacheServed \/ \E items \in SUBSET Items : Work(items)
      BY <2>1 DEF BootCache, Flush, Clear, CacheServed, Work, pairVars
    <2>2. CASE BootPairing \/ BootReadTimesOut
      BY <1>1, <2>2 DEF BootPairing, BootReadTimesOut, Remembering
    <2>3. CASE BootRead
      <3>1. pairing'.gen = pairing.gen \/ forgotten' = "boot"
        BY <1>1, <2>3 DEF BootRead, Forget, Remembering
      <3>2. QED
        BY <3>1
    <2>4. CASE PairServed
      BY <1>1, <2>4 DEF PairServed, Remembering
    <2>5. CASE (\E u \in Origins \cup {Typing} : EditUrl(u)) \/ OptOut \/ ForgetPressed
      BY <2>5 DEF EditUrl, OptOut, ForgetPressed, Forget
    <2>6. CASE (\E c \in Issued : Connect(c)) \/ ConnectMalformed \/ OptIn
      BY <1>1, <2>6 DEF Connect, ConnectMalformed, OptIn, Remembering
    <2>7. CASE (\E connects \in BOOLEAN : SendRequest(connects)) \/ \E o \in Origins : RestartService(o)
      BY <2>7 DEF SendRequest, RestartService
    <2>8. CASE \E q \in requests : Serve(q) \/ AnswerIgnored(q)
      BY <2>8 DEF Serve, AnswerIgnored
    <2>9. CASE \E q \in requests : StatusOk(q)
      <3>1. pairing'.gen = pairing.gen
        BY <1>1, <2>9 DEF StatusOk, Remembering
      <3>2. QED
        BY <3>1
    <2>10. CASE LoadPage
      <3>1. forgotten' = Absent /\ Absent # "service"
        BY <2>10, NothingAssumption DEF LoadPage
      <3>2. QED
        BY <3>1
    <2>11. CASE UNCHANGED bootVars
      BY <2>11 DEF bootVars, pairVars
    <2>12. QED
      BY <1>3, <2>1, <2>2, <2>3, <2>4, <2>5, <2>6, <2>7, <2>8, <2>9, <2>10, <2>11 DEF BootNext
  <1>4. QED
    BY <1>2, <1>3

\* A page overwrites only work it has seen (the writer of browserSnapshotCache.ts is not
\* installed after a read that was not answered), and a 401 of an earlier pairing does
\* not forget the present one (assertCurrent).
THEOREM TheRestStays == BootSpec => RestStays
  <1> DEFINE Unread == cached # Absent /\ cached.kind = "current" /\ ~page'.cleared =>
                         cached' # Absent /\ cached.work \ cached'.work \subseteq page.seen
             LiveOne == pairing'.gen # pairing.gen /\ forgotten' = "service" =>
                       transport = Absent \/ transport.capability # Capability(transport.origin)
  <1>1. BootInv /\ [BootNext]_bootVars => [Unread]_bootVars
    BY UnreadStays
  <1>2. BootInv /\ [BootNext]_bootVars => [LiveOne]_bootVars
    BY LiveStays
  <1> HIDE DEF Unread, LiveOne
  <1>3. BootSpec => [][Unread]_bootVars /\ [][LiveOne]_bootVars
    BY <1>1, <1>2, BootInvHolds, PTL DEF BootSpec
  <1>4. QED
    BY <1>3 DEF RestStays, UnreadWorkKept, LivePairingKept, Unread, LiveOne

-----------------------------------------------------------------------------
(***************************************************************************)
(* The word panel and the capture form.                                    *)
(***************************************************************************)
Context == Contexts \cup {Nil}
Transports == [id : Nat, origin : Services]
Reasons == {"none", "service-unreachable", "not-paired"}
Gloss == [state : GlossStates, by : Nat]
Glossaries == UNION {[keys -> Gloss] : keys \in SUBSET GlossKeys}
View == [cue : Cues, reason : Reasons]
Panel ==
  [gen : Nat, context : Context, cache : SUBSET (Cues \X Services), current : View \cup {Nil},
   word : Words \cup {Nil}, pending : Cues \cup {Nil}, failed : BOOLEAN, glosses : Glossaries]
Analysis ==
  [cue : Cues, gen : Nat, context : Context, transport : Transports \cup {Nil}, left : Nat,
   reason : Reasons]
Lookup ==
  [key : GlossKeys, marker : Gloss, context : Context, transport : Transports \cup {Nil}]

Meaning ==
  [by : {"nobody"}] \cup [by : {"learner"}, id : Nat]
    \cup [by : {"dictionary"}, cue : Cues \cup {Nil}, word : Words \cup {Nil}]
Opened ==
  [id : Nat \ {0}, cue : Cues, word : Words \cup {Nil}, meaning : Meaning]
Wait == [key : GlossKeys, marker : Gloss]
Suggestion ==
  [id : Nat \ {0}, cue : Cues, word : Words, context : Context, transport : Transports \cup {Nil},
   waits : Wait \cup {Nil}]

\* The panel and what is asked for it.
PanelShaped ==
  /\ panel \in Panel
  /\ learner \in [context : Context, view : {"player", "other"}, loads : Nat]
  /\ link \in [transport : Transports \cup {Nil}, pairs : Nat]
  /\ analyses \in SUBSET Analysis /\ lookups \in SUBSET Lookup

\* The capture form, what was saved from it and what is suggested for it.
FormShaped ==
  /\ form \in Opened \cup {Closed} /\ opened \in Nat
  /\ saves \in SUBSET Opened /\ receipt \in Opened \cup {Nil}
  /\ suggestions \in SUBSET Suggestion

\* An analysis of the panel's generation is for the cue asked for last in its context.
AnalysesAsked ==
  \A a \in analyses :
    /\ a.gen <= panel.gen
    /\ a.gen = panel.gen => a.context = panel.context /\ a.cue = askedLast
    /\ a.reason = "none" => a.transport # Nil

\* Every selection the learner may still save: in the form, being saved, or to be undone.
Selections == {form} \cup saves \cup ({receipt} \ {Nil})
Honest(x) == x.meaning \in {Blank, Typed(x.id), Suggested(x.cue, x.word)}
SameWord(x, y) == x.id = y.id => x.cue = y.cue /\ x.word = y.word

\* An opening of the form is for one word, in whatever became of it, and what it waits for
\* is about that word.
SelectionsHonest ==
  /\ \A x \in Selections : Honest(x) /\ x.id <= opened
  /\ \A x, y \in Selections : SameWord(x, y)
  /\ \A s \in suggestions :
       /\ s.id \in 1 .. opened
       /\ \A x \in Selections : SameWord(x, s)
       /\ s.waits # Nil => s.waits.key.cue = s.cue /\ s.waits.key.word = s.word

WordInv ==
  /\ PanelShaped /\ FormShaped
  /\ AnalysesAsked /\ PanelShowsAsked
  /\ SelectionsHonest
-----------------------------------------------------------------------------
LEMMA NoGlosses == <<>> \in Glossaries
  <1>1. <<>> \in [{} -> Gloss]
    OBVIOUS
  <1>2. {} \in SUBSET GlossKeys
    OBVIOUS
  <1>3. QED
    BY <1>1, <1>2 DEF Glossaries

LEMMA FirstIsWord == FirstWord \in Words
  BY WordAssumption DEF FirstWord

\* The same cue is shown and asked for.
Alike(p, q) ==
  /\ q.gen = p.gen /\ q.context = p.context
  /\ q.pending = p.pending /\ q.current = p.current

LEMMA NewPanel ==
  ASSUME NEW c \in Context, NEW n \in Nat
  PROVE  /\ PanelFor(c, n) \in Panel
         /\ PanelFor(c, n).gen = n /\ PanelFor(c, n).context = c
         /\ PanelFor(c, n).pending = Nil /\ PanelFor(c, n).current = Nil
  BY NoGlosses DEF PanelFor, Panel

\* stateFor goes on with the panel of the same context, or starts a new generation.
LEMMA StateIsFresh ==
  ASSUME NEW p \in Panel, NEW c \in Context
  PROVE  /\ StateFor(p, c) \in Panel /\ StateFor(p, c).context = c
         /\ p.context = c => StateFor(p, c) = p
         /\ p.context # c => /\ StateFor(p, c).gen = p.gen + 1
                             /\ StateFor(p, c).pending = Nil /\ StateFor(p, c).current = Nil
  <1>1. p.gen + 1 \in Nat
    BY DEF Panel
  <1>2. QED
    BY <1>1, NewPanel DEF StateFor

LEMMA GlossRecorded ==
  ASSUME NEW p \in Panel, NEW key \in GlossKeys, NEW g \in Gloss
  PROVE  /\ WithGloss(p, key, g) \in Panel /\ Alike(p, WithGloss(p, key, g))
         /\ key \in DOMAIN WithGloss(p, key, g).glosses
  <1> DEFINE keys == DOMAIN p.glosses
             new == [k \in keys \cup {key} |-> IF k = key THEN g ELSE p.glosses[k]]
  <1>1. PICK D \in SUBSET GlossKeys : p.glosses \in [D -> Gloss]
    BY DEF Panel, Glossaries
  <1>2. new \in [keys \cup {key} -> Gloss] /\ keys \cup {key} \in SUBSET GlossKeys
    BY <1>1
  <1>3. new \in Glossaries
    BY <1>2 DEF Glossaries
  <1>4. WithGloss(p, key, g) = [p EXCEPT !.glosses = new]
    BY DEF WithGloss
  <1>5. QED
    BY <1>3, <1>4 DEF Panel, Alike

\* A gloss that was looked up is settled or marked.
LEMMA LookedAlike ==
  ASSUME NEW p \in Panel, NEW key \in GlossKeys
  PROVE  /\ Looked(p, key) \in Panel /\ Alike(p, Looked(p, key))
         /\ GlossOf(Looked(p, key), key) \in Gloss
  <1>1. Marker(p) \in Gloss /\ Settled("no-entry") \in Gloss
    BY DEF Marker, Settled, Gloss, GlossStates, Panel
  <1>2. Looked(p, key) \in Panel /\ Alike(p, Looked(p, key))
    BY <1>1, GlossRecorded DEF Looked, Alike
  <1>3. key \in DOMAIN Looked(p, key).glosses
    BY <1>1, GlossRecorded DEF Looked, Requests, Transient, GlossOf
  <1>4. QED
    BY <1>2, <1>3 DEF GlossOf, Panel, Glossaries

LEMMA LookupsShaped ==
  ASSUME PanelShaped, NEW p \in Panel, NEW key \in GlossKeys
  PROVE  LookupsAfter(p, key) \in SUBSET Lookup
  <1>1. Marker(p) \in Gloss
    BY DEF Marker, Gloss, GlossStates, Panel
  <1>2. [key |-> key, marker |-> Marker(p), context |-> p.context, transport |-> Transport] \in Lookup
    BY <1>1 DEF Lookup, Panel, PanelShaped, Transport
  <1>3. QED
    BY <1>2 DEF LookupsAfter, PanelShaped

LEMMA WordShown ==
  ASSUME PanelShaped, NEW p \in Panel, ShowWord(p)
  PROVE  panel' \in Panel /\ Alike(p, panel') /\ lookups' \in SUBSET Lookup
  <1>1. CASE SelectedKey(p) = Nil
    BY <1>1 DEF ShowWord, Alike, PanelShaped
  <1>2. CASE SelectedKey(p) # Nil
    <2>1. SelectedKey(p) \in GlossKeys
      BY <1>2 DEF SelectedKey, GlossKeys, Panel, View, PanelShaped, Transport, Transports
    <2>2. QED
      BY <1>2, <2>1, LookedAlike, LookupsShaped DEF ShowWord
  <1>3. QED
    BY <1>1, <1>2

-----------------------------------------------------------------------------
\* The panel goes on, or starts again, and no analysis is added.
LEMMA PanelGoesOn ==
  ASSUME PanelShaped, AnalysesAsked, PanelShowsAsked, panel' \in Panel, NEW c \in Context,
         \/ Alike(panel, panel') /\ askedLast' = askedLast
         \/ /\ Alike(StateFor(panel, c), panel')
            /\ askedLast' = IF panel.context = c THEN askedLast ELSE Nil,
         \A a \in analyses' : \E b \in analyses :
           /\ a.gen = b.gen /\ a.context = b.context /\ a.cue = b.cue
           /\ a.transport = b.transport /\ (a.reason = "none" => b.reason = "none")
  PROVE  AnalysesAsked' /\ PanelShowsAsked'
  <1> USE DEF PanelShowsAsked, Alike
  <1>0. ASSUME NEW a \in analyses'
        PROVE  /\ a.gen \in Nat /\ panel.gen \in Nat /\ a.gen <= panel.gen
               /\ a.gen = panel.gen => a.context = panel.context /\ a.cue = askedLast
               /\ a.reason = "none" => a.transport # Nil
    <2>1. PICK b \in analyses :
            /\ a.gen = b.gen /\ a.context = b.context /\ a.cue = b.cue
            /\ a.transport = b.transport /\ (a.reason = "none" => b.reason = "none")
      OBVIOUS
    <2>2. b.gen \in Nat /\ panel.gen \in Nat
      BY DEF PanelShaped, Analysis, Panel
    <2>3. QED
      BY <2>1, <2>2 DEF AnalysesAsked
  <1>1. CASE Alike(panel, panel') /\ askedLast' = askedLast
    <2>1. PanelShowsAsked'
      BY <1>1
    <2>2. panel'.gen = panel.gen /\ panel'.context = panel.context /\ askedLast' = askedLast
      BY <1>1
    <2>3. AnalysesAsked'
      BY <1>0, <2>2 DEF AnalysesAsked
    <2>4. QED
      BY <2>1, <2>3
  <1>2. CASE /\ Alike(StateFor(panel, c), panel')
             /\ askedLast' = IF panel.context = c THEN askedLast ELSE Nil
    <2>1. /\ panel.context = c => StateFor(panel, c) = panel
          /\ panel.context # c =>
               /\ StateFor(panel, c).gen = panel.gen + 1
               /\ StateFor(panel, c).pending = Nil /\ StateFor(panel, c).current = Nil
      BY StateIsFresh DEF PanelShaped
    <2>2. PanelShowsAsked'
      BY <1>2, <2>1
    <2>3. AnalysesAsked'
      <3>1. CASE panel.context = c
        BY <1>0, <1>2, <2>1, <3>1 DEF AnalysesAsked
      <3>2. CASE panel.context # c
        BY <1>0, <1>2, <2>1, <3>2 DEF AnalysesAsked
      <3>3. QED
        BY <3>1, <3>2
    <2>4. QED
      BY <2>2, <2>3
  <1>3. QED
    BY <1>1, <1>2

\* What is open, being saved or to be undone stays, or is opened anew.
LEMMA SelectionsGoOn ==
  ASSUME FormShaped, SelectionsHonest, NEW c, NEW w, opened' \in Nat, opened' >= opened,
         \A x \in Selections' :
           /\ Honest(x)
           /\ \/ \E y \in Selections \cup {Closed} : x.id = y.id /\ x.cue = y.cue /\ x.word = y.word
              \/ opened' = opened + 1 /\ x.id = opened + 1 /\ x.cue = c /\ x.word = w,
         \A s \in suggestions' :
           /\ \/ \E t \in suggestions : s.id = t.id /\ s.cue = t.cue /\ s.word = t.word
              \/ \E x \in Selections' : x.id # 0 /\ s.id = x.id /\ s.cue = x.cue /\ s.word = x.word
           /\ s.waits # Nil => s.waits.key.cue = s.cue /\ s.waits.key.word = s.word
  PROVE  SelectionsHonest'
  <1> DEFINE Old(x) == \E y \in Selections \cup {Closed} : x.id = y.id /\ x.cue = y.cue /\ x.word = y.word
             New(x) == opened' = opened + 1 /\ x.id = opened + 1 /\ x.cue = c /\ x.word = w
  <1>0. \A y \in Selections \cup {Closed} : y.id \in 0 .. opened
    BY DEF SelectionsHonest, FormShaped, Selections, Opened, Closed
  <1>1. \A y, z \in Selections \cup {Closed} : SameWord(y, z)
    BY DEF SelectionsHonest, FormShaped, Selections, Opened, Closed, SameWord
  <1>2. \A x \in Selections' : Honest(x) /\ x.id \in 0 .. opened'
    BY <1>0 DEF FormShaped
  <1>3. ASSUME NEW x \in Selections', NEW y \in Selections' PROVE SameWord(x, y)
    <2>1. Old(x) \/ New(x)
      OBVIOUS
    <2>2. Old(y) \/ New(y)
      OBVIOUS
    <2>3. QED
      BY <1>0, <1>1, <2>1, <2>2 DEF SameWord, FormShaped
  <1>4. ASSUME NEW s \in suggestions'
        PROVE  s.id \in 1 .. opened' /\ \A x \in Selections' : SameWord(x, s)
    <2>1. CASE \E x \in Selections' : x.id # 0 /\ s.id = x.id /\ s.cue = x.cue /\ s.word = x.word
      BY <1>2, <1>3, <2>1 DEF SameWord
    <2>2. CASE \E t \in suggestions : s.id = t.id /\ s.cue = t.cue /\ s.word = t.word
      <3>1. PICK t \in suggestions : s.id = t.id /\ s.cue = t.cue /\ s.word = t.word
        BY <2>2
      <3>2. t.id \in 1 .. opened /\ \A y \in Selections : SameWord(y, t)
        BY DEF SelectionsHonest
      <3>3. s.id \in 1 .. opened'
        BY <3>1, <3>2 DEF FormShaped
      <3>4. ASSUME NEW x \in Selections' PROVE SameWord(x, s)
        <4>1. Old(x) \/ New(x)
          OBVIOUS
        <4>2. CASE Old(x)
          <5>1. PICK y \in Selections \cup {Closed} : x.id = y.id /\ x.cue = y.cue /\ x.word = y.word
            BY <4>2
          <5>2. CASE y \in Selections
            BY <3>1, <3>2, <5>1, <5>2 DEF SameWord
          <5>3. CASE y = Closed
            BY <3>1, <3>2, <5>1, <5>3 DEF SameWord, Closed, FormShaped
          <5>4. QED
            BY <5>1, <5>2, <5>3
        <4>3. CASE New(x)
          BY <3>1, <3>2, <4>3 DEF SameWord, FormShaped
        <4>4. QED
          BY <4>1, <4>2, <4>3
      <3>5. QED
        BY <3>3, <3>4
    <2>3. QED
      BY <2>1, <2>2
  <1>5. QED
    BY <1>2, <1>3, <1>4 DEF SelectionsHonest

-----------------------------------------------------------------------------
LEMMA WordBegins == WordInit => WordInv
  <1> SUFFICES ASSUME WordInit PROVE WordInv
    OBVIOUS
  <1>1. PICK c \in Contexts : /\ learner = [context |-> c, view |-> "player", loads |-> 0]
                              /\ panel = PanelFor(c, 0)
    BY DEF WordInit
  <1>2. /\ panel \in Panel /\ panel.pending = Nil /\ panel.current = Nil
    BY <1>1, NewPanel DEF Context
  <1>3. link \in [transport : Transports \cup {Nil}, pairs : Nat]
    BY DEF WordInit, Transports
  <1>4. PanelShaped
    BY <1>1, <1>2, <1>3 DEF WordInit, PanelShaped, Context
  <1>5. FormShaped
    BY DEF WordInit, FormShaped
  <1>6. Selections = {Closed}
    BY DEF WordInit, Selections
  <1>7. SelectionsHonest
    BY <1>6 DEF WordInit, SelectionsHonest, Honest, SameWord, Closed
  <1>8. AnalysesAsked /\ PanelShowsAsked
    BY <1>2 DEF WordInit, AnalysesAsked, PanelShowsAsked
  <1>9. QED
    BY <1>4, <1>5, <1>7, <1>8 DEF WordInv

LEMMA FormRests ==
  ASSUME FormShaped, SelectionsHonest, UNCHANGED captureVars
  PROVE  FormShaped' /\ SelectionsHonest'
  BY DEF FormShaped, SelectionsHonest, captureVars, Selections, Honest, SameWord

\* The pairing may end.
LEMMA LinkShaped ==
  ASSUME PanelShaped, NEW t, NEW reason
  PROVE  /\ NoPair \in [transport : Transports \cup {Nil}, pairs : Nat]
         /\ LinkAfter(t, reason) \in [transport : Transports \cup {Nil}, pairs : Nat]
  BY DEF PanelShaped, NoPair, LinkAfter

LEMMA AnalyseKeeps ==
  ASSUME WordInv, NEW c \in Cues, Analyse(c)
  PROVE  WordInv'
  <1> USE DEF WordInv
  <1> DEFINE p == [State EXCEPT !.gen = @ + 1]
             word == IF p.word = Nil THEN FirstWord ELSE p.word
             chunks == IF Transport = Nil THEN 0 ELSE Chunks[c]
             wanted == [cue |-> c, gen |-> p.gen, context |-> p.context, transport |-> Transport,
                       left |-> chunks, reason |-> IF Transport = Nil THEN "not-paired" ELSE "none"]
             view == [cue |-> c, reason |-> "none"]
  <1>1. /\ State \in Panel /\ State.context = learner.context /\ State.gen >= panel.gen
        /\ panel.gen \in Nat /\ State.gen \in Nat
    BY StateIsFresh DEF State, PanelShaped, Panel
  <1>2. p \in Panel /\ p.gen > panel.gen /\ p.context = learner.context
    BY <1>1 DEF Panel
  <1>3. FormShaped' /\ SelectionsHonest'
    BY FormRests DEF Analyse
  <1>4. \A a \in analyses : a.gen \in Nat /\ a.gen <= panel.gen /\ (a.reason = "none" => a.transport # Nil)
    BY DEF AnalysesAsked, PanelShaped, Analysis
  <1>5. askedLast' = c /\ learner' = learner /\ link' = link
    BY DEF Analyse
  <1>6. CASE /\ ShowWord(Shown(p, view, word))
             /\ UNCHANGED analyses
    <2>1. word \in Words
      BY <1>2, FirstIsWord DEF Panel
    <2>2. Shown(p, view, word) \in Panel
      BY <1>2, <2>1 DEF Shown, Panel, View, Reasons
    <2>3. /\ Shown(p, view, word).gen = p.gen
          /\ Shown(p, view, word).pending = Nil /\ Shown(p, view, word).current = view
      BY <1>2 DEF Shown, Panel
    <2>4. panel' \in Panel /\ Alike(Shown(p, view, word), panel') /\ lookups' \in SUBSET Lookup
      BY <1>6, <2>2, WordShown
    <2>5. PanelShaped'
      BY <1>5, <1>6, <2>4 DEF PanelShaped
    <2>6. panel'.pending = Nil /\ panel'.current = view /\ panel'.gen = p.gen
      BY <2>3, <2>4 DEF Alike
    <2>7. PanelShowsAsked'
      BY <1>5, <2>6 DEF PanelShowsAsked
    <2>8. AnalysesAsked'
      BY <1>1, <1>2, <1>4, <1>6, <2>6 DEF AnalysesAsked, Panel
    <2>9. QED
      BY <1>3, <2>5, <2>7, <2>8
  <1>7. CASE /\ panel' = [p EXCEPT !.pending = c, !.failed = FALSE]
             /\ analyses' = analyses \cup {wanted}
             /\ UNCHANGED lookups
    <2>1. panel' \in Panel /\ panel'.gen = p.gen /\ panel'.pending = c /\ panel'.context = p.context
      BY <1>2, <1>7 DEF Panel
    <2>2. chunks \in Nat
      BY WordAssumption
    <2>3. wanted \in Analysis
      BY <1>2, <2>2 DEF Analysis, Panel, PanelShaped, Transport, Reasons
    <2>4. PanelShaped'
      BY <1>5, <1>7, <2>1, <2>3 DEF PanelShaped
    <2>5. PanelShowsAsked'
      BY <1>5, <2>1, WordAssumption DEF PanelShowsAsked
    <2>6. AnalysesAsked'
      BY <1>1, <1>2, <1>4, <1>5, <1>7, <2>1 DEF AnalysesAsked, Panel
    <2>7. QED
      BY <1>3, <2>4, <2>5, <2>6
  <1>8. QED
    BY <1>6, <1>7 DEF Analyse

LEMMA ChunkKeeps ==
  ASSUME WordInv, NEW a \in analyses, ChunkAnswered(a)
  PROVE  WordInv'
  <1> USE DEF WordInv
  <1>1. PICK reason \in Answers(a.transport) :
          /\ link' = LinkAfter(a.transport, reason)
          /\ analyses' = (analyses \ {a}) \cup
               (IF AnswerCounts(a) THEN {[a EXCEPT !.left = @ - 1, !.reason = reason]} ELSE {})
    BY DEF ChunkAnswered
  <1> DEFINE b == [a EXCEPT !.left = @ - 1, !.reason = reason]
  <1>2. a \in Analysis /\ a.left > 0 /\ a.reason = "none"
    BY DEF ChunkAnswered, PanelShaped
  <1>3. reason \in Reasons
    BY <1>1 DEF Answers, Reasons
  <1>4. /\ b \in Analysis /\ b.gen = a.gen /\ b.context = a.context
        /\ b.cue = a.cue /\ b.transport = a.transport
    <2>1. a.left - 1 \in Nat
      BY <1>2 DEF Analysis
    <2>2. QED
      BY <1>2, <1>3, <2>1 DEF Analysis
  <1>5. UNCHANGED <<learner, panel, lookups, captureVars, askedLast>>
    BY DEF ChunkAnswered
  <1>6. PanelShaped'
    BY <1>1, <1>4, <1>5, LinkShaped DEF PanelShaped
  <1>7. \A x \in analyses' : \E y \in analyses :
          /\ x.gen = y.gen /\ x.context = y.context /\ x.cue = y.cue
          /\ x.transport = y.transport /\ (x.reason = "none" => y.reason = "none")
    BY <1>1, <1>2, <1>4
  <1>8. AnalysesAsked' /\ PanelShowsAsked'
    <2>1. panel' \in Panel /\ Alike(panel, panel') /\ askedLast' = askedLast
      BY <1>5 DEF PanelShaped, Alike
    <2>2. learner.context \in Context
      BY DEF PanelShaped
    <2>3. QED
      BY <1>7, <2>1, <2>2, PanelGoesOn
  <1>9. QED
    BY <1>5, <1>6, <1>8, FormRests

LEMMA ShownKeeps ==
  ASSUME WordInv, NEW a \in analyses, AnalysisShown(a)
  PROVE  WordInv'
  <1> USE DEF WordInv
  <1> DEFINE view == [cue |-> a.cue, reason |-> a.reason]
             p == Shown(panel, view, FirstWord)
             q == IF a.reason # "none" THEN p
                  ELSE [p EXCEPT !.cache = @ \cup {<<a.cue, a.transport.origin>>}]
  <1>1. a \in Analysis /\ panel \in Panel /\ panel.gen \in Nat
        /\ (a.reason = "none" => a.transport \in Transports)
    BY DEF PanelShaped, AnalysesAsked, Analysis, Panel
  <1>2. FormShaped' /\ SelectionsHonest'
    BY FormRests DEF AnalysisShown
  <1>3. UNCHANGED <<learner, link, askedLast>> /\ analyses' = analyses \ {a}
    BY DEF AnalysisShown
  <1>4. p \in Panel /\ p.gen = panel.gen /\ p.context = panel.context /\ p.pending = Nil /\ p.current = view
    BY <1>1, FirstIsWord DEF Shown, Panel, View, Analysis
  <1>5. q \in Panel /\ Alike(p, q)
    <2>1. CASE a.reason # "none"
      BY <1>4, <2>1 DEF Alike
    <2>2. CASE a.reason = "none"
      <3>1. <<a.cue, a.transport.origin>> \in Cues \X Services
        BY <1>1, <2>2 DEF Analysis, Transports
      <3>2. QED
        BY <1>4, <2>2, <3>1 DEF Alike, Panel
    <2>3. QED
      BY <2>1, <2>2
  <1>6. CASE AnswerCounts(a)
    <2>1. ShowWord(q)
      BY <1>6 DEF AnalysisShown
    <2>2. panel' \in Panel /\ Alike(q, panel') /\ lookups' \in SUBSET Lookup
      BY <1>5, <2>1, WordShown
    <2>3. PanelShaped'
      BY <1>3, <2>2 DEF PanelShaped
    <2>4. /\ panel'.gen = panel.gen /\ panel'.context = panel.context
          /\ panel'.pending = Nil /\ panel'.current = view
      BY <1>4, <1>5, <2>2 DEF Alike
    <2>5. a.cue = askedLast
      BY <1>6 DEF AnswerCounts, AnalysesAsked
    <2>6. PanelShowsAsked'
      BY <1>3, <2>4, <2>5 DEF PanelShowsAsked
    <2>7. AnalysesAsked'
      BY <1>3, <2>4 DEF AnalysesAsked
    <2>8. QED
      BY <1>2, <2>3, <2>6, <2>7
  <1>7. CASE ~AnswerCounts(a)
    <2>1. UNCHANGED <<panel, lookups>>
      BY <1>7 DEF AnalysisShown
    <2>2. QED
      BY <1>2, <1>3, <2>1 DEF PanelShaped, PanelShowsAsked, AnalysesAsked
  <1>8. QED
    BY <1>6, <1>7

LEMMA FailedKeeps ==
  ASSUME WordInv, NEW a \in analyses, AnalysisFails(a)
  PROVE  WordInv'
  <1> USE DEF WordInv
  <1>1. panel \in Panel
    BY DEF PanelShaped
  <1>2. /\ panel' \in Panel /\ panel'.gen = panel.gen /\ panel'.context = panel.context
        /\ \/ panel'.pending = panel.pending /\ panel'.current = panel.current
           \/ panel'.pending = Nil /\ panel'.current = Nil
    BY <1>1 DEF AnalysisFails, Panel
  <1>3. UNCHANGED <<learner, link, lookups, captureVars, askedLast>> /\ analyses' \subseteq analyses
    BY DEF AnalysisFails
  <1>4. PanelShaped'
    BY <1>2, <1>3 DEF PanelShaped
  <1>5. AnalysesAsked' /\ PanelShowsAsked'
    BY <1>2, <1>3 DEF AnalysesAsked, PanelShowsAsked
  <1>6. QED
    BY <1>3, <1>4, <1>5, FormRests

\* The panel goes on as State, with the gloss of a word.
LEMMA StateShown ==
  ASSUME WordInv, Alike(State, panel'), panel' \in Panel, lookups' \in SUBSET Lookup,
         askedLast' = AskedNow, UNCHANGED <<learner, analyses>>,
         link' \in [transport : Transports \cup {Nil}, pairs : Nat]
  PROVE  PanelShaped' /\ AnalysesAsked' /\ PanelShowsAsked'
  <1>1. PanelShaped'
    BY DEF WordInv, PanelShaped
  <1>2. \A x \in analyses' : \E y \in analyses :
          /\ x.gen = y.gen /\ x.context = y.context /\ x.cue = y.cue
          /\ x.transport = y.transport /\ (x.reason = "none" => y.reason = "none")
    OBVIOUS
  <1>3. learner.context \in Context
    BY DEF WordInv, PanelShaped
  <1>4. QED
    BY <1>1, <1>2, <1>3, PanelGoesOn DEF WordInv, State, AskedNow

LEMMA SelectKeeps ==
  ASSUME WordInv, NEW w \in Words, SelectWord(w)
  PROVE  WordInv'
  <1> USE DEF WordInv
  <1> DEFINE p == [State EXCEPT !.word = w]
  <1>1. State \in Panel
    BY StateIsFresh DEF State, PanelShaped
  <1>2. p \in Panel /\ Alike(State, p)
    BY <1>1 DEF Panel, Alike
  <1>3. panel' \in Panel /\ Alike(p, panel') /\ lookups' \in SUBSET Lookup
    BY <1>2, WordShown DEF SelectWord
  <1>4. Alike(State, panel')
    BY <1>2, <1>3 DEF Alike
  <1>5. PanelShaped' /\ AnalysesAsked' /\ PanelShowsAsked'
    BY <1>3, <1>4, StateShown DEF SelectWord, PanelShaped
  <1>6. QED
    BY <1>5, FormRests DEF SelectWord

-----------------------------------------------------------------------------
\* A suggestion gives its form a meaning of its own word, or waits for one.
LEMMA SuggestGoesOn ==
  ASSUME PanelShaped, suggestions \in SUBSET Suggestion, Transport # Nil,
         NEW p \in Panel, NEW s \in Suggestion, NEW current \in Opened \cup {Closed},
         Suggest(s, p, current)
  PROVE  /\ panel' \in Panel /\ Alike(p, panel') /\ lookups' \in SUBSET Lookup
         /\ form' \in Opened \cup {Closed}
         /\ form'.id = current.id /\ form'.cue = current.cue /\ form'.word = current.word
         /\ \/ form' = current
            \/ StillOpen(s, current) /\ form'.meaning = Suggested(s.cue, s.word)
         /\ suggestions' \in SUBSET Suggestion
         /\ \A t \in suggestions' :
              \/ t \in suggestions
              \/ /\ t.id = s.id /\ t.cue = s.cue /\ t.word = s.word
                 /\ t.waits.key.cue = s.cue /\ t.waits.key.word = s.word
  <1> DEFINE key == [cue |-> s.cue, word |-> s.word, origin |-> Transport.origin]
             gloss == GlossOf(Looked(p, key), key)
             waiting == [s EXCEPT !.waits = [key |-> key, marker |-> gloss]]
             given == [current EXCEPT !.meaning = Suggested(s.cue, s.word)]
  <1>1. key \in GlossKeys
    BY DEF GlossKeys, Suggestion, PanelShaped, Transport, Transports
  <1>2. /\ panel' = Looked(p, key) /\ lookups' = LookupsAfter(p, key)
        /\ suggestions' = (suggestions \ {s}) \cup (IF gloss.state = "loading" THEN {waiting} ELSE {})
        /\ form' = IF gloss.state = "available" /\ StillOpen(s, current) THEN given ELSE current
    BY DEF Suggest
  <1>3. gloss \in Gloss /\ panel' \in Panel /\ Alike(p, panel') /\ lookups' \in SUBSET Lookup
    BY <1>1, <1>2, LookedAlike, LookupsShaped
  <1>4. /\ waiting \in Suggestion /\ waiting.id = s.id /\ waiting.cue = s.cue /\ waiting.word = s.word
        /\ waiting.waits = [key |-> key, marker |-> gloss]
    BY <1>1, <1>3 DEF Suggestion, Wait
  <1>5. /\ suggestions' \in SUBSET Suggestion
        /\ \A t \in suggestions' :
             \/ t \in suggestions
             \/ /\ t.id = s.id /\ t.cue = s.cue /\ t.word = s.word
                /\ t.waits.key.cue = s.cue /\ t.waits.key.word = s.word
    <2>1. waiting.waits.key.cue = s.cue /\ waiting.waits.key.word = s.word
      BY <1>4
    <2>2. \A t \in suggestions' : t \in suggestions \/ t = waiting
      BY <1>2
    <2> HIDE DEF waiting
    <2>3. QED
      BY <1>4, <2>1, <2>2
  <1>6. CASE form' = current
    BY <1>3, <1>5, <1>6
  <1>7. CASE StillOpen(s, current) /\ form' = given
    <2>1. current \in Opened
      BY <1>7 DEF StillOpen, Suggestion, Closed
    <2>2. Suggested(s.cue, s.word) \in Meaning
      BY DEF Suggested, Meaning, Suggestion
    <2>3. /\ form' \in Opened /\ form'.meaning = Suggested(s.cue, s.word)
          /\ form'.id = current.id /\ form'.cue = current.cue /\ form'.word = current.word
      BY <1>7, <2>1, <2>2 DEF Opened
    <2>4. QED
      BY <1>3, <1>5, <1>7, <2>3
  <1>8. QED
    BY <1>2, <1>6, <1>7

\* A form is opened on a selection.
LEMMA OpenGoesOn ==
  ASSUME WordInv, NEW sel \in Opened, Honest(sel), Open(sel), UNCHANGED <<learner, link, analyses>>
  PROVE  /\ PanelShaped' /\ AnalysesAsked' /\ PanelShowsAsked'
         /\ form' \in Opened /\ Honest(form')
         /\ form'.id = sel.id /\ form'.cue = sel.cue /\ form'.word = sel.word
         /\ suggestions' \in SUBSET Suggestion
         /\ \A t \in suggestions' :
              /\ t \in suggestions \/ (t.id = sel.id /\ t.cue = sel.cue /\ t.word = sel.word)
              /\ t.waits # Nil => t.waits.key.cue = t.cue /\ t.waits.key.word = t.word
  <1> USE DEF WordInv
  <1> DEFINE wanted == sel.word # Nil /\ sel.meaning = Blank /\ Transport # Nil
             rendered == wanted \/ learner.view = "player"
             p == IF rendered THEN State ELSE panel
             known == KnownFrom(p, sel.cue)
             s == [id |-> sel.id, cue |-> sel.cue, word |-> sel.word, context |-> p.context,
                   transport |-> Transport, waits |-> Nil]
  <1>1. State \in Panel /\ panel \in Panel /\ p \in Panel
    BY StateIsFresh DEF State, PanelShaped
  <1>2. wanted => s \in Suggestion
    <2>1. p.context \in Context /\ Transport \in Transports \cup {Nil}
      BY <1>1 DEF Panel, PanelShaped, Transport
    <2>2. sel.id \in Nat \ {0} /\ sel.cue \in Cues /\ (sel.word # Nil => sel.word \in Words)
      BY DEF Opened
    <2>3. QED
      BY <2>1, <2>2 DEF Suggestion
  <1>3. askedLast' = IF rendered THEN AskedNow ELSE askedLast
    BY DEF Open
  <1>4. \A t \in suggestions :
          /\ t \in Suggestion
          /\ t.waits # Nil => t.waits.key.cue = t.cue /\ t.waits.key.word = t.word
    BY DEF SelectionsHonest, FormShaped
  <1>5. learner' = learner /\ link' = link /\ analyses' = analyses
    OBVIOUS
  <1>6. ASSUME panel' \in Panel, Alike(p, panel'), lookups' \in SUBSET Lookup
        PROVE  PanelShaped' /\ AnalysesAsked' /\ PanelShowsAsked'
    <2>1. CASE rendered
      BY <1>3, <1>5, <1>6, <2>1, StateShown DEF PanelShaped
    <2>2. CASE ~rendered
      BY <1>3, <1>5, <1>6, <2>2 DEF PanelShaped, AnalysesAsked, PanelShowsAsked, Alike
    <2>3. QED
      BY <2>1, <2>2
  <1>7. CASE wanted /\ known = "none" /\ Suggest(s, p, sel)
    <2>1. Transport # Nil /\ s \in Suggestion
      BY <1>2, <1>7
    <2>2. suggestions \in SUBSET Suggestion
      BY DEF FormShaped
    <2>3. /\ panel' \in Panel /\ Alike(p, panel') /\ lookups' \in SUBSET Lookup
          /\ form' \in Opened \cup {Closed}
          /\ form'.id = sel.id /\ form'.cue = sel.cue /\ form'.word = sel.word
          /\ form' = sel \/ form'.meaning = Suggested(s.cue, s.word)
          /\ suggestions' \in SUBSET Suggestion
          /\ \A t \in suggestions' :
               \/ t \in suggestions
               \/ /\ t.id = s.id /\ t.cue = s.cue /\ t.word = s.word
                  /\ t.waits.key.cue = s.cue /\ t.waits.key.word = s.word
      BY <1>1, <1>7, <2>1, <2>2, SuggestGoesOn
    <2>4. form' \in Opened /\ Honest(form')
      BY <2>3 DEF Honest, Opened, Closed
    <2>5. QED
      BY <1>4, <1>6, <2>3, <2>4
  <1>8. CASE /\ form' = sel /\ panel' = p
             /\ suggestions' = suggestions \cup (IF wanted /\ known = Nil THEN {s} ELSE {})
             /\ UNCHANGED lookups
    <2>1. panel' \in Panel /\ Alike(p, panel') /\ lookups' \in SUBSET Lookup
      BY <1>1, <1>8 DEF Alike, PanelShaped
    <2>2. /\ suggestions' \in SUBSET Suggestion
          /\ \A t \in suggestions' :
              /\ t \in suggestions \/ (t.id = sel.id /\ t.cue = sel.cue /\ t.word = sel.word)
              /\ t.waits # Nil => t.waits.key.cue = t.cue /\ t.waits.key.word = t.word
      BY <1>2, <1>4, <1>8
    <2>3. QED
      BY <1>6, <1>8, <2>1, <2>2
  <1>9. QED
    BY <1>7, <1>8 DEF Open

LEMMA OpenKeeps ==
  ASSUME WordInv, NEW c \in Cues, NEW w \in Spans, OpenCapture(c, w)
  PROVE  WordInv'
  <1> USE DEF WordInv
  <1> DEFINE sel == [id |-> opened + 1, cue |-> c, word |-> w, meaning |-> Blank]
  <1>1. opened \in Nat /\ opened' = opened + 1 /\ Open(sel)
        /\ UNCHANGED <<learner, link, analyses, saves, receipt>>
    BY DEF OpenCapture, FormShaped
  <1>2. sel \in Opened /\ Honest(sel)
    BY <1>1 DEF Opened, Honest, Meaning, Blank, Spans, ClickedWords, OverlayWords, DraggedSpans, SentenceSpan
  <1>3. /\ PanelShaped' /\ AnalysesAsked' /\ PanelShowsAsked'
        /\ form' \in Opened /\ Honest(form')
        /\ form'.id = opened + 1 /\ form'.cue = c /\ form'.word = w
        /\ suggestions' \in SUBSET Suggestion
        /\ \A t \in suggestions' :
             /\ t \in suggestions \/ (t.id = opened + 1 /\ t.cue = c /\ t.word = w)
             /\ t.waits # Nil => t.waits.key.cue = t.cue /\ t.waits.key.word = t.word
    BY <1>1, <1>2, OpenGoesOn
  <1>4. FormShaped'
    BY <1>1, <1>3 DEF FormShaped
  <1>5. \A x \in Selections' : x = form' \/ x \in Selections
    BY <1>1 DEF Selections
  <1>6. form' \in Selections'
    BY DEF Selections
  <1>7. \A x \in Selections' :
          /\ Honest(x)
          /\ \/ \E y \in Selections \cup {Closed} : x.id = y.id /\ x.cue = y.cue /\ x.word = y.word
             \/ opened' = opened + 1 /\ x.id = opened + 1 /\ x.cue = c /\ x.word = w
    BY <1>1, <1>3, <1>5 DEF SelectionsHonest
  <1>8. \A s \in suggestions' :
          /\ \/ \E t \in suggestions : s.id = t.id /\ s.cue = t.cue /\ s.word = t.word
             \/ \E x \in Selections' : x.id # 0 /\ s.id = x.id /\ s.cue = x.cue /\ s.word = x.word
          /\ s.waits # Nil => s.waits.key.cue = s.cue /\ s.waits.key.word = s.word
    <2>1. opened + 1 # 0
      BY <1>1
    <2> SUFFICES ASSUME NEW s \in suggestions'
                 PROVE  \/ \E t \in suggestions : s.id = t.id /\ s.cue = t.cue /\ s.word = t.word
                        \/ \E x \in Selections' : x.id # 0 /\ s.id = x.id /\ s.cue = x.cue /\ s.word = x.word
      BY <1>3
    <2>2. CASE s \in suggestions
      BY <2>2
    <2>3. CASE s.id = opened + 1 /\ s.cue = c /\ s.word = w
      BY <1>3, <1>6, <2>1, <2>3
    <2>4. QED
      BY <1>3, <2>2, <2>3
  <1>9. SelectionsHonest'
    <2>1. opened' \in Nat /\ opened' >= opened
      BY <1>1
    <2> HIDE DEF sel, WordInv
    <2>2. FormShaped /\ SelectionsHonest
      BY DEF WordInv
    <2>3. QED
      BY <1>7, <1>8, <2>1, <2>2, SelectionsGoOn
  <1>10. QED
    BY <1>3, <1>4, <1>9

LEMMA UndoKeeps ==
  ASSUME WordInv, Undone
  PROVE  WordInv'
  <1> USE DEF WordInv
  <1>1. /\ receipt \in Opened /\ receipt # Nil /\ receipt' = Nil /\ Open(receipt)
        /\ UNCHANGED <<learner, link, analyses, opened, saves>> /\ opened \in Nat
    BY DEF Undone, FormShaped
  <1>2. receipt \in Selections
    BY <1>1 DEF Selections
  <1>3. Honest(receipt)
    BY <1>2 DEF SelectionsHonest
  <1>4. /\ PanelShaped' /\ AnalysesAsked' /\ PanelShowsAsked'
        /\ form' \in Opened /\ Honest(form')
        /\ form'.id = receipt.id /\ form'.cue = receipt.cue /\ form'.word = receipt.word
        /\ suggestions' \in SUBSET Suggestion
        /\ \A t \in suggestions' :
             /\ t \in suggestions \/ (t.id = receipt.id /\ t.cue = receipt.cue /\ t.word = receipt.word)
             /\ t.waits # Nil => t.waits.key.cue = t.cue /\ t.waits.key.word = t.word
    BY <1>1, <1>3, OpenGoesOn
  <1>5. FormShaped'
    BY <1>1, <1>4 DEF FormShaped
  <1>6. \A x \in Selections' : x = form' \/ x \in Selections
    BY <1>1 DEF Selections
  <1>7. form' \in Selections' /\ form'.id # 0
    BY <1>4 DEF Selections, Opened
  <1>8. \A x \in Selections' :
          /\ Honest(x)
          /\ \E y \in Selections \cup {Closed} : x.id = y.id /\ x.cue = y.cue /\ x.word = y.word
    BY <1>2, <1>4, <1>6 DEF SelectionsHonest
  <1>9. \A s \in suggestions' :
          /\ \/ \E t \in suggestions : s.id = t.id /\ s.cue = t.cue /\ s.word = t.word
             \/ \E x \in Selections' : x.id # 0 /\ s.id = x.id /\ s.cue = x.cue /\ s.word = x.word
          /\ s.waits # Nil => s.waits.key.cue = s.cue /\ s.waits.key.word = s.word
    BY <1>4, <1>7
  <1>10. SelectionsHonest'
    BY <1>1, <1>8, <1>9, SelectionsGoOn
  <1>11. QED
    BY <1>4, <1>5, <1>10

\* The suggestions change, and a form gets at most a meaning of its word.
LEMMA FormGoesOn ==
  ASSUME FormShaped, SelectionsHonest, UNCHANGED <<opened, saves, receipt>>,
         form' \in Opened \cup {Closed}, Honest(form'),
         form'.id = form.id /\ form'.cue = form.cue /\ form'.word = form.word,
         suggestions' \in SUBSET Suggestion,
         \A s \in suggestions' :
           /\ \E t \in suggestions : s.id = t.id /\ s.cue = t.cue /\ s.word = t.word
           /\ s.waits # Nil => s.waits.key.cue = s.cue /\ s.waits.key.word = s.word
  PROVE  FormShaped' /\ SelectionsHonest'
  <1>1. FormShaped'
    BY DEF FormShaped
  <1>2. \A x \in Selections' : x = form' \/ x \in Selections
    BY DEF Selections
  <1>3. form \in Selections
    BY DEF Selections
  <1>4. \A x \in Selections' :
          Honest(x) /\ \E y \in Selections \cup {Closed} : x.id = y.id /\ x.cue = y.cue /\ x.word = y.word
    BY <1>2, <1>3 DEF SelectionsHonest
  <1>5. opened' \in Nat /\ opened' >= opened
    BY DEF FormShaped
  <1>6. SelectionsHonest'
    BY <1>4, <1>5, SelectionsGoOn
  <1>7. QED
    BY <1>1, <1>6

LEMMA WordAnsweredKeeps ==
  ASSUME WordInv, NEW s \in suggestions, WordAnswered(s)
  PROVE  WordInv'
  <1> USE DEF WordInv
  <1>1. PICK reason \in Answers(s.transport) \cup {"unknown"} :
          /\ link' = LinkAfter(s.transport, reason)
          /\ IF reason = "none" /\ Live(s.transport)
             THEN Suggest(s, State, form) /\ askedLast' = AskedNow
             ELSE suggestions' = suggestions \ {s} /\ UNCHANGED <<panel, lookups, form, askedLast>>
    BY DEF WordAnswered
  <1>2. link' \in [transport : Transports \cup {Nil}, pairs : Nat]
    BY <1>1, LinkShaped
  <1>3. UNCHANGED <<learner, analyses, opened, saves, receipt>>
    BY DEF WordAnswered
  <1>4. /\ suggestions \in SUBSET Suggestion /\ form \in Opened \cup {Closed} /\ form \in Selections
        /\ Honest(form) /\ s \in Suggestion
    BY DEF FormShaped, Selections, SelectionsHonest
  <1>5. \A t \in suggestions : t.waits # Nil => t.waits.key.cue = t.cue /\ t.waits.key.word = t.word
    BY DEF SelectionsHonest
  <1>6. CASE Live(s.transport) /\ Suggest(s, State, form) /\ askedLast' = AskedNow
    <2>1. State \in Panel
      BY StateIsFresh DEF State, PanelShaped
    <2>2. /\ panel' \in Panel /\ Alike(State, panel') /\ lookups' \in SUBSET Lookup
          /\ form' \in Opened \cup {Closed}
          /\ form'.id = form.id /\ form'.cue = form.cue /\ form'.word = form.word
          /\ \/ form' = form
             \/ StillOpen(s, form) /\ form'.meaning = Suggested(s.cue, s.word)
          /\ suggestions' \in SUBSET Suggestion
          /\ \A t \in suggestions' :
               \/ t \in suggestions
               \/ /\ t.id = s.id /\ t.cue = s.cue /\ t.word = s.word
                  /\ t.waits.key.cue = s.cue /\ t.waits.key.word = s.word
      BY <1>4, <1>6, <2>1, SuggestGoesOn DEF Live
    <2>3. PanelShaped' /\ AnalysesAsked' /\ PanelShowsAsked'
      BY <1>2, <1>3, <1>6, <2>2, StateShown
    <2>4. Honest(form')
      <3>1. CASE form' = form
        BY <1>4, <3>1 DEF Honest
      <3>2. CASE StillOpen(s, form) /\ form'.meaning = Suggested(s.cue, s.word)
        <4>1. form.cue = s.cue /\ form.word = s.word
          BY <1>4, <3>2 DEF StillOpen, SelectionsHonest, SameWord
        <4>2. QED
          BY <2>2, <3>2, <4>1 DEF Honest
      <3>3. QED
        BY <2>2, <3>1, <3>2
    <2>5. \A t \in suggestions' :
            /\ \E r \in suggestions : t.id = r.id /\ t.cue = r.cue /\ t.word = r.word
            /\ t.waits # Nil => t.waits.key.cue = t.cue /\ t.waits.key.word = t.word
      BY <1>5, <2>2
    <2>6. FormShaped' /\ SelectionsHonest'
      BY <1>3, <2>2, <2>4, <2>5, FormGoesOn
    <2>7. QED
      BY <2>3, <2>6
  <1>7. CASE suggestions' = suggestions \ {s} /\ UNCHANGED <<panel, lookups, form, askedLast>>
    <2>1. PanelShaped' /\ AnalysesAsked' /\ PanelShowsAsked'
      BY <1>2, <1>3, <1>7 DEF PanelShaped, AnalysesAsked, PanelShowsAsked
    <2>2. Honest(form')
      BY <1>4, <1>7 DEF Honest
    <2>3. \A t \in suggestions' :
            /\ \E r \in suggestions : t.id = r.id /\ t.cue = r.cue /\ t.word = r.word
            /\ t.waits # Nil => t.waits.key.cue = t.cue /\ t.waits.key.word = t.word
      BY <1>5, <1>7
    <2>4. FormShaped' /\ SelectionsHonest'
      BY <1>3, <1>4, <1>7, <2>2, <2>3, FormGoesOn
    <2>5. QED
      BY <2>1, <2>4
  <1>8. QED
    BY <1>1, <1>6, <1>7

LEMMA LookupKeeps ==
  ASSUME WordInv, NEW l \in lookups, LookupAnswered(l)
  PROVE  WordInv'
  <1> USE DEF WordInv
  <1> DEFINE mine == {s \in suggestions : s.waits # Nil /\ s.waits = [key |-> l.key, marker |-> l.marker]}
             found == IF Live(l.transport) THEN {"available", "no-entry", "unavailable"} ELSE {"unavailable"}
             given == [form EXCEPT !.meaning = Suggested(l.key.cue, l.key.word)]
  <1>1. PICK state \in found, unauthorized \in BOOLEAN :
          /\ link' = IF unauthorized THEN NoPair ELSE link
          /\ panel' = IF LookupCounts(l) THEN WithGloss(panel, l.key, Settled(state)) ELSE panel
          /\ form' = IF /\ LookupCounts(l) /\ state = "available"
                        /\ \E s \in mine : StillOpen(s, form)
                     THEN given ELSE form
    BY DEF LookupAnswered
  <1>2. /\ lookups' = lookups \ {l} /\ suggestions' = suggestions \ mine
        /\ UNCHANGED <<learner, analyses, opened, saves, receipt, askedLast>>
    BY DEF LookupAnswered
  <1>3. l \in Lookup /\ panel \in Panel
    BY DEF PanelShaped
  <1>4. Settled(state) \in Gloss
    BY <1>1 DEF Settled, Gloss, GlossStates
  <1>5. panel' \in Panel /\ Alike(panel, panel')
    <2>1. l.key \in GlossKeys
      BY <1>3 DEF Lookup
    <2>2. QED
      BY <1>1, <1>3, <1>4, <2>1, GlossRecorded DEF Alike
  <1>6. link' \in [transport : Transports \cup {Nil}, pairs : Nat]
    BY <1>1, LinkShaped DEF PanelShaped
  <1>7. PanelShaped'
    BY <1>2, <1>5, <1>6 DEF PanelShaped
  <1>8. AnalysesAsked' /\ PanelShowsAsked'
    BY <1>2, <1>5 DEF AnalysesAsked, PanelShowsAsked, Alike
  <1>9. /\ form \in Opened \cup {Closed} /\ form \in Selections /\ Honest(form)
        /\ suggestions' \in SUBSET Suggestion
    BY <1>2 DEF FormShaped, Selections, SelectionsHonest
  <1>10. /\ form' \in Opened \cup {Closed} /\ Honest(form')
         /\ form'.id = form.id /\ form'.cue = form.cue /\ form'.word = form.word
    <2>1. CASE form' = form
      BY <1>9, <2>1 DEF Honest
    <2>2. CASE form' = given /\ \E s \in mine : StillOpen(s, form)
      <3>1. PICK s \in suggestions : /\ s.waits # Nil /\ s.waits = [key |-> l.key, marker |-> l.marker]
                                     /\ form.id = s.id
        BY <2>2 DEF StillOpen
      <3>2. l.key.cue = s.cue /\ l.key.word = s.word
        BY <3>1 DEF SelectionsHonest
      <3>3. form.cue = s.cue /\ form.word = s.word
        BY <1>9, <3>1 DEF SelectionsHonest, SameWord
      <3>4. form \in Opened
        BY <1>9, <3>1 DEF Closed, FormShaped, Suggestion
      <3>5. Suggested(l.key.cue, l.key.word) \in Meaning
        BY <3>2, <3>1 DEF Suggested, Meaning, FormShaped, Suggestion
      <3>6. /\ form' \in Opened /\ form'.meaning = Suggested(form.cue, form.word)
            /\ form'.id = form.id /\ form'.cue = form.cue /\ form'.word = form.word
        BY <2>2, <3>2, <3>3, <3>4, <3>5 DEF Opened
      <3>7. QED
        BY <3>6 DEF Honest
    <2>3. QED
      BY <1>1, <2>1, <2>2
  <1>11. \A t \in suggestions' :
           /\ \E r \in suggestions : t.id = r.id /\ t.cue = r.cue /\ t.word = r.word
           /\ t.waits # Nil => t.waits.key.cue = t.cue /\ t.waits.key.word = t.word
    BY <1>2 DEF SelectionsHonest
  <1>12. FormShaped' /\ SelectionsHonest'
    BY <1>2, <1>9, <1>10, <1>11, FormGoesOn
  <1>13. QED
    BY <1>7, <1>8, <1>12

LEMMA PanelRests ==
  ASSUME PanelShaped, AnalysesAsked, PanelShowsAsked,
         UNCHANGED <<learner, link, panel, analyses, lookups, askedLast>>
  PROVE  PanelShaped' /\ AnalysesAsked' /\ PanelShowsAsked'
  BY DEF PanelShaped, AnalysesAsked, PanelShowsAsked

\* The form is typed in, closed, and saved.
LEMMA FormKeeps ==
  ASSUME WordInv, Type \/ EraseMeaning \/ Cancel \/ Save \/ \E sel \in saves : SaveSettles(sel)
  PROVE  WordInv'
  <1> USE DEF WordInv
  <1>1. UNCHANGED aroundForm
    BY DEF Type, EraseMeaning, Cancel, Save, SaveSettles
  <1>2. PanelShaped' /\ AnalysesAsked' /\ PanelShowsAsked'
    BY <1>1, PanelRests DEF aroundForm
  <1>3. /\ form \in Opened \cup {Closed} /\ opened \in Nat
        /\ saves \in SUBSET Opened /\ receipt \in Opened \cup {Nil}
        /\ suggestions \in SUBSET Suggestion /\ opened' = opened /\ suggestions' = suggestions
    BY <1>1 DEF FormShaped, aroundForm
  <1>4. \A y \in Selections : Honest(y)
    BY DEF SelectionsHonest
  <1>5. form \in Selections /\ \A y \in saves : y \in Selections
    BY DEF Selections
  <1> DEFINE Kept(x) ==
        /\ Honest(x)
        /\ \E y \in Selections \cup {Closed} : x.id = y.id /\ x.cue = y.cue /\ x.word = y.word
  <1>6. ASSUME form' \in Opened \cup {Closed}, saves' \in SUBSET Opened, receipt' \in Opened \cup {Nil},
               \A x \in Selections' : Kept(x)
        PROVE  WordInv'
    <2>1. FormShaped'
      BY <1>3, <1>6 DEF FormShaped
    <2>2. \A s \in suggestions' :
            /\ \E t \in suggestions : s.id = t.id /\ s.cue = t.cue /\ s.word = t.word
            /\ s.waits # Nil => s.waits.key.cue = s.cue /\ s.waits.key.word = s.word
      BY <1>3 DEF SelectionsHonest
    <2>3. opened' \in Nat /\ opened' >= opened
      BY <1>3
    <2>4. SelectionsHonest'
      BY <1>6, <2>2, <2>3, SelectionsGoOn
    <2>5. QED
      BY <1>2, <2>1, <2>4
  <1>7. Kept(Closed)
    BY DEF Honest, Closed
  <1>8. CASE Type \/ EraseMeaning
    <2>1. form \in Opened
      BY <1>3, <1>8 DEF Type, EraseMeaning, Closed
    <2>2. PICK m \in {Typed(form.id), Blank} : form' = [form EXCEPT !.meaning = m]
      BY <1>8 DEF Type, EraseMeaning
    <2>3. m \in Meaning
      BY <2>1 DEF Typed, Blank, Meaning, Opened
    <2>4. /\ form' \in Opened /\ form'.meaning = m
          /\ form'.id = form.id /\ form'.cue = form.cue /\ form'.word = form.word
      BY <2>1, <2>2, <2>3 DEF Opened
    <2>5. Kept(form')
      BY <1>5, <2>2, <2>4 DEF Honest
    <2>6. saves' = saves /\ receipt' = receipt
      BY <1>8 DEF Type, EraseMeaning
    <2>7. \A x \in Selections' : x = form' \/ x \in Selections
      BY <2>6 DEF Selections
    <2>8. \A x \in Selections' : Kept(x)
      BY <1>4, <2>5, <2>7
    <2>9. QED
      BY <1>3, <1>6, <2>4, <2>6, <2>8
  <1>9. CASE Cancel \/ Save \/ \E sel \in saves : SaveSettles(sel)
    <2>1. PICK sel \in saves \cup {form, receipt} :
            /\ form' \in {form, Closed} /\ saves' \in SUBSET (saves \cup {form})
            /\ receipt' \in {receipt, sel}
            /\ sel = receipt \/ sel \in Opened
            /\ saves' # saves => saves' \in SUBSET Opened
      <3>1. CASE Cancel
        BY <3>1, <1>3 DEF Cancel
      <3>2. CASE Save
        <4>1. form \in Opened
          BY <1>3, <3>2 DEF Save, Closed
        <4>2. QED
          BY <1>3, <3>2, <4>1 DEF Save
      <3>3. CASE \E x \in saves : SaveSettles(x)
        <4>1. PICK x \in saves : SaveSettles(x)
          BY <3>3
        <4>2. x \in Opened
          BY <1>3
        <4>3. QED
          BY <1>3, <4>1, <4>2 DEF SaveSettles
      <3>4. QED
        BY <1>9, <3>1, <3>2, <3>3
    <2>2. form' \in Opened \cup {Closed} /\ saves' \in SUBSET Opened /\ receipt' \in Opened \cup {Nil}
      BY <1>3, <2>1
    <2>3. \A x \in Selections' : x = Closed \/ x \in Selections
      BY <2>1 DEF Selections
    <2>4. \A x \in Selections' : Kept(x)
      BY <1>4, <1>7, <2>3
    <2>5. QED
      BY <1>6, <2>2, <2>4
  <1>10. QED
    BY <1>8, <1>9

LEMMA GoToGoesOn ==
  ASSUME WordInv, NEW c \in Context, NEW view \in {"player", "other"}, GoTo(c, view),
         UNCHANGED <<link, analyses, lookups>>
  PROVE  PanelShaped' /\ AnalysesAsked' /\ PanelShowsAsked'
  <1> USE DEF WordInv
  <1>1. /\ panel \in Panel /\ StateFor(panel, c) \in Panel
        /\ panel.context = c => StateFor(panel, c) = panel
        /\ panel.context # c => StateFor(panel, c).gen = panel.gen + 1
        /\ panel.gen \in Nat
    BY StateIsFresh DEF PanelShaped, Panel
  <1>2. learner' \in [context : Context, view : {"player", "other"}, loads : Nat]
    <2>1. learner \in [context : Context, view : {"player", "other"}, loads : Nat]
      BY DEF PanelShaped
    <2>2. learner' = [context |-> c, view |-> view, loads |-> learner.loads + 1]
      BY <2>1 DEF GoTo
    <2>3. learner.loads + 1 \in Nat
      BY <2>1
    <2>4. QED
      BY <2>2, <2>3
  <1>3. panel' \in Panel
    BY <1>1 DEF GoTo
  <1>4. PanelShaped'
    BY <1>2, <1>3 DEF PanelShaped
  <1>5. \/ Alike(panel, panel') /\ askedLast' = askedLast
        \/ /\ Alike(StateFor(panel, c), panel')
           /\ askedLast' = IF panel.context = c THEN askedLast ELSE Nil
    BY <1>1 DEF GoTo, Alike
  <1>6. \A a \in analyses' : \E b \in analyses :
          /\ a.gen = b.gen /\ a.context = b.context /\ a.cue = b.cue
          /\ a.transport = b.transport /\ (a.reason = "none" => b.reason = "none")
    OBVIOUS
  <1>7. QED
    BY <1>3, <1>4, <1>5, <1>6, PanelGoesOn

LEMMA AroundKeeps ==
  ASSUME WordInv,
         \/ \E c \in Contexts \cup {Nil}, view \in {"player", "other"} : SwitchMedia(c, view)
         \/ \E c \in Contexts : Replay(c)
         \/ \E c \in Contexts \cup {Nil} : LoadState(c)
         \/ ChangeView
         \/ \E o \in Services : PairWith(o)
         \/ Disconnect
  PROVE  WordInv'
  <1> USE DEF WordInv
  <1>1. CASE \E c \in Contexts \cup {Nil}, view \in {"player", "other"} : SwitchMedia(c, view)
    <2>1. PICK c \in Context, view \in {"player", "other"} : SwitchMedia(c, view)
      BY <1>1 DEF Context
    <2>2. PanelShaped' /\ AnalysesAsked' /\ PanelShowsAsked'
      BY <2>1, GoToGoesOn DEF SwitchMedia
    <2>3. UNCHANGED <<opened, suggestions, saves, receipt>> /\ form' = Closed
      BY <2>1 DEF SwitchMedia
    <2>4. FormShaped'
      BY <2>3 DEF FormShaped
    <2>5. \A x \in Selections' : x = Closed \/ x \in Selections
      BY <2>3 DEF Selections
    <2>6. \A x \in Selections' :
            Honest(x) /\ \E y \in Selections \cup {Closed} : x.id = y.id /\ x.cue = y.cue /\ x.word = y.word
      BY <2>5 DEF SelectionsHonest, Honest, Closed
    <2>7. \A s \in suggestions' :
            /\ \E t \in suggestions : s.id = t.id /\ s.cue = t.cue /\ s.word = t.word
            /\ s.waits # Nil => s.waits.key.cue = s.cue /\ s.waits.key.word = s.word
      BY <2>3 DEF SelectionsHonest
    <2>8. opened' \in Nat /\ opened' >= opened
      BY <2>3 DEF FormShaped
    <2>9. SelectionsHonest'
      BY <2>6, <2>7, <2>8, SelectionsGoOn
    <2>10. QED
      BY <2>2, <2>4, <2>9
  <1>2. CASE (\E c \in Contexts : Replay(c)) \/ \E c \in Contexts \cup {Nil} : LoadState(c)
    <2>1. PICK c \in Context, view \in {"player", "other"} :
            GoTo(c, view) /\ UNCHANGED <<link, analyses, lookups, captureVars>>
      BY <1>2 DEF Replay, LoadState, Context
    <2>2. PanelShaped' /\ AnalysesAsked' /\ PanelShowsAsked'
      BY <2>1, GoToGoesOn
    <2>3. QED
      BY <2>1, <2>2, FormRests
  <1>3. CASE ChangeView
    <2>1. /\ UNCHANGED <<link, analyses, lookups, captureVars>> /\ learner'.context = learner.context
          /\ learner' \in [context : Context, view : {"player", "other"}, loads : Nat]
      BY <1>3 DEF ChangeView, PanelShaped
    <2>2. panel \in Panel /\ State \in Panel /\ learner.context \in Context
      BY StateIsFresh DEF State, PanelShaped
    <2>3. /\ panel' \in Panel
          /\ \/ Alike(panel, panel') /\ askedLast' = askedLast
             \/ Alike(State, panel') /\ askedLast' = AskedNow
      BY <1>3, <2>2 DEF ChangeView, Alike
    <2>4. PanelShaped'
      BY <2>1, <2>3 DEF PanelShaped
    <2>5. \A a \in analyses' : \E b \in analyses :
            /\ a.gen = b.gen /\ a.context = b.context /\ a.cue = b.cue
            /\ a.transport = b.transport /\ (a.reason = "none" => b.reason = "none")
      BY <2>1
    <2>6. AnalysesAsked' /\ PanelShowsAsked'
      BY <2>2, <2>3, <2>5, PanelGoesOn DEF State, AskedNow
    <2>7. QED
      BY <2>1, <2>4, <2>6, FormRests
  <1>4. CASE (\E o \in Services : PairWith(o)) \/ Disconnect
    <2>1. /\ UNCHANGED <<learner, panel, analyses, lookups, captureVars, askedLast>>
          /\ link' \in [transport : Transports \cup {Nil}, pairs : Nat]
      <3>1. CASE Disconnect
        BY <3>1, LinkShaped DEF Disconnect
      <3>2. CASE \E o \in Services : PairWith(o)
        BY <3>2 DEF PairWith, Transports, PanelShaped
      <3>3. QED
        BY <1>4, <3>1, <3>2
    <2>2. PanelShaped' /\ AnalysesAsked' /\ PanelShowsAsked'
      BY <2>1 DEF PanelShaped, AnalysesAsked, PanelShowsAsked
    <2>3. QED
      BY <2>1, <2>2, FormRests
  <1>5. QED
    BY <1>1, <1>2, <1>3, <1>4

LEMMA WordStepKeeps ==
  ASSUME WordInv, [WordNext]_wordVars
  PROVE  WordInv'
  <1>1. CASE \E c \in Cues : Analyse(c)
    BY <1>1, AnalyseKeeps
  <1>2. CASE \E a \in analyses : ChunkAnswered(a) \/ AnalysisShown(a) \/ AnalysisFails(a)
    BY <1>2, ChunkKeeps, ShownKeeps, FailedKeeps
  <1>3. CASE \E w \in Words : SelectWord(w)
    BY <1>3, SelectKeeps
  <1>4. CASE \E c \in Cues, w \in Spans : OpenCapture(c, w)
    BY <1>4, OpenKeeps
  <1>5. CASE \E s \in suggestions : WordAnswered(s)
    BY <1>5, WordAnsweredKeeps
  <1>6. CASE \E l \in lookups : LookupAnswered(l)
    BY <1>6, LookupKeeps
  <1>7. CASE Type \/ EraseMeaning \/ Cancel \/ Save \/ \E sel \in saves : SaveSettles(sel)
    BY <1>7, FormKeeps
  <1>8. CASE Undone
    BY <1>8, UndoKeeps
  <1>9. CASE \/ \E c \in Contexts \cup {Nil}, view \in {"player", "other"} : SwitchMedia(c, view)
             \/ \E c \in Contexts : Replay(c)
             \/ \E c \in Contexts \cup {Nil} : LoadState(c)
             \/ ChangeView
             \/ \E o \in Services : PairWith(o)
             \/ Disconnect
    BY <1>9, AroundKeeps
  <1>10. CASE UNCHANGED wordVars
    <2>1. /\ UNCHANGED <<learner, link, panel, analyses, lookups, askedLast>>
          /\ UNCHANGED captureVars
      BY <1>10 DEF wordVars, captureVars
    <2>2. QED
      BY <2>1, PanelRests, FormRests DEF WordInv
  <1>11. QED
    BY <1>1, <1>2, <1>3, <1>4, <1>5, <1>6, <1>7, <1>8, <1>9, <1>10 DEF WordNext

LEMMA WordInvHolds == WordSpec => []WordInv
  <1>1. WordInv /\ [WordNext]_wordVars => WordInv'
    BY WordStepKeeps
  <1>2. QED
    BY WordBegins, <1>1, PTL DEF WordSpec

\* The state of the panel, the form and what is under way keeps its shape (PanelState in
\* morphologyPanel.ts, the selection of ui/capture.ts).
THEOREM WordsKeepTheirShape == WordSpec => []WordTypeOK
  <1>1. WordInv => WordTypeOK
    <2> SUFFICES ASSUME WordInv PROVE WordTypeOK
      OBVIOUS
    <2> USE DEF WordInv
    <2>1. /\ learner.context \in Contexts \cup {Nil}
          /\ panel.word \in Words \cup {Nil} /\ panel.pending \in Cues \cup {Nil}
      BY DEF PanelShaped, Panel, Context
    <2>2. \A k \in DOMAIN panel.glosses : k \in GlossKeys /\ panel.glosses[k].state \in GlossStates
      BY DEF PanelShaped, Panel, Glossaries, Gloss
    <2>3. \A a \in analyses : a.gen <= panel.gen /\ a.left \in Nat
      BY DEF PanelShaped, Analysis, AnalysesAsked
    <2>4. form.id <= opened
      BY DEF SelectionsHonest, Selections
    <2>5. QED
      BY <2>1, <2>2, <2>3, <2>4 DEF WordTypeOK
  <1>2. QED
    BY WordInvHolds, <1>1, PTL

\* However late analyses, lookups, suggestions and saves are answered, the panel shows
\* the cue asked for last, and the meaning in the form is of the word that is saved
\* (isCurrent in morphologyPanel.ts, stillOpen in ui/capture.ts).
THEOREM WordsStayAsked == WordSpec => []WordsAreAsked
  <1>1. WordInv => WordsAreAsked
    BY DEF WordInv, WordsAreAsked, SelectionsHonest, Selections, Honest, MeaningIsOfWord
  <1>2. QED
    BY WordInvHolds, <1>1, PTL

-----------------------------------------------------------------------------
\* The parts of a page keep their shapes together, as they run in one page.
THEOREM PageKeepsItsShape == PageSpec => []PageTypeOK
  BY LinksKeepTheirShape, BootsKeepTheirShape, WordsKeepTheirShape, PTL DEF PageSpec, PageTypeOK
=============================================================================
