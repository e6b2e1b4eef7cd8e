----------------------------- MODULE MCPageBoot -----------------------------
(***************************************************************************)
(* Instances of PageBoot for TLC.  A scope is chosen first: the snapshot   *)
(* cache by itself, or the remembered pairing with the URL the cache gives.*)
(***************************************************************************)
EXTENDS PageBoot, FiniteSets

CONSTANTS BootScopes, MaxRequests

VARIABLE bootScope

\* Unpaired pages, one after another, over any cache.
CacheOnly ==
  /\ stored = Absent /\ transport = Absent /\ ~pairing.optIn /\ pairing.gen = 0
  /\ page.url = Home /\ (cached # Absent => cached.url = Home)
  /\ starts = [o \in Origins |-> 0]

\* Pages without work, over a cache record that has a URL only; the service they pair
\* with restarts, and they are given its capabilities.
PairingOnly ==
  /\ cacheOps = <<>> /\ ~page.timer /\ page.work = {}
  /\ cached # Absent => cached.kind = "current" /\ cached.work = {}
  /\ \A o \in Origins \ {Home} : starts[o] = 0
  /\ Cardinality(requests) <= MaxRequests
  /\ Cardinality({q \in requests : ~q.connects}) <= 1
  /\ cached # Absent => cached.url # Typing
  /\ transport # Absent => transport.origin = Home /\ transport.capability.of = Home

InBootScope == IF bootScope = "cache" THEN CacheOnly ELSE PairingOnly

BootMCInit ==
  /\ bootScope \in BootScopes
  /\ BootInit
  /\ InBootScope

BootMCNext == UNCHANGED bootScope /\ BootNext /\ InBootScope'
BootMCSpec == BootMCInit /\ [][BootMCNext]_<<bootVars, bootScope>>
=============================================================================
