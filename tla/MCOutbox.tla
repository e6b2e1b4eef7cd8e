------------------------------ MODULE MCOutbox ------------------------------
(***************************************************************************)
(* Instances of Outbox for TLC.  The instance without scopes is Spec of    *)
(* Outbox under the constants of a configuration; with scopes one run      *)
(* explores several instances, the scope being chosen first.               *)
(***************************************************************************)
EXTENDS Outbox, TLC

CONSTANTS t1, t2

OneTab == {t1}
TwoTabs == {t1, t2}

AllKinds == {"capture", "meaning", "undo"}
CapturesAndUndos == {"capture", "undo"}
CapturesOnly == {"capture"}
MeaningsOnly == {"meaning"}
NoDraft == {{}}
SomeDraft == {{}, {"meaning", "notes"}}

\* The tabs are interchangeable: nothing refers to one of them by name.
AnyTab == Permutations(TwoTabs)

-----------------------------------------------------------------------------
VARIABLE scope

Scope(tabs, kinds, ops, room, drafts, lost, faults) ==
  [tabs |-> tabs, kinds |-> kinds, ops |-> ops, room |-> room, drafts |-> drafts,
   lost |-> lost, faults |-> faults]

\* Every kind of operation through restores, restarts and pruning.
Restarts == Scope(1, AllKinds, 1 .. 2, 1, NoDraft, 1, 1)

\* Captures with unapplied drafts; captures up to the cap of the outbox.
DraftScope == Scope(1, CapturesOnly, 1 .. 2, 2, SomeDraft, 0, 0)
CapScope == Scope(1, CapturesOnly, 1 .. 3, 2, NoDraft, 0, 0)

\* Captures and undos of two tabs.
TabScope == Scope(2, CapturesAndUndos, 1 .. 2, 2, NoDraft, 0, 0)

\* Tabs that have anything to do with a flush, a Reapply or a record.
Busy == {t \in Tabs : flight[t] # Idle \/ todo[t] # {} \/ view[t] # NoView
                      \/ reapply[t] # NoReapply \/ \E o \in With(Stored) : outbox[o].owner = t}

InScope ==
  /\ Cardinality(Busy) <= scope.tabs
  /\ \A o \in Ops : outbox[o] # NoRecord =>
       /\ o \in scope.ops
       /\ outbox[o].kind \in scope.kinds \/ outbox[o].instead # None
  /\ Cardinality(With(Unresolved)) <= scope.room \/ scope.room = Cap
  /\ \A o \in Ops : service[o] # NotDone => service[o].draft \in scope.drafts
  /\ Cardinality(stray) <= scope.lost
  /\ lineage + process + Cardinality(forgotten) <= scope.faults

MCInit == scope \in {Restarts, DraftScope, CapScope, TabScope} /\ Init
MCNext == UNCHANGED scope /\ Next /\ InScope'
MCSpec == MCInit /\ [][MCNext]_<<vars, scope>>

\* One scope, and it is no bound: what the constants allow.
WholeSpec == scope = Restarts /\ Init /\ [][UNCHANGED scope /\ Next]_<<vars, scope>>
WholeFairSpec == WholeSpec /\ Fairness
=============================================================================
