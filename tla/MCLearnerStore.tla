--------------------------- MODULE MCLearnerStore ---------------------------
(***************************************************************************)
(* Small instances of LearnerStore for TLC.  With scopes one run explores  *)
(* several instances, the scope being chosen first.                        *)
(***************************************************************************)
EXTENDS LearnerStore, TLC

CONSTANTS card, state, a, b

\* Every schedule row and every event of the small instances is about `card`.
MCCardOf == [k \in StateKeys |-> card]
MCEventCard == [e \in Events |-> card]

\* An export file without vocabulary, and one that knows the card, its schedule
\* and everything studied on it.
EmptyFile == [owned |-> [k \in RowKeys \cup StateKeys |-> Absent], events |-> {}]
FullFile == [owned |-> [k \in RowKeys \cup StateKeys |-> a], events |-> Events]
NoFiles == {}
OneFile == {EmptyFile}
TwoFiles == {EmptyFile, FullFile}

\* Operation ids are interchangeable.
IdSymmetry == Permutations(OpIds)

-----------------------------------------------------------------------------
VARIABLE scope

Scope(images, events, tracks, files, count, rows, starts) ==
  [images |-> images, events |-> events, tracks |-> tracks, files |-> files, count |-> count,
   rows |-> rows, starts |-> starts]

\* Documents and bundles against several operations on rows with two images.
Schedule == Scope({a, b}, {}, Tracks, {}, 2, {card, state}, 0)

\* Study and restores against one operation.
Restores == Scope({a}, Events, {}, Files, 1, {card, state}, 0)

\* Requests across a restart and restores; retries and pruned receipts across a restart.
Ledger == Scope({a}, {}, {}, {EmptyFile}, 2, {card}, 1)
Retries == Scope({a}, {}, {}, {}, 3, {card}, 1)

InScope ==
  /\ \A k \in DOMAIN owned :
       owned[k] \in (IF k \in scope.rows THEN scope.images ELSE {}) \cup {Absent}
  /\ active \cup audit \subseteq scope.events /\ bundles \subseteq scope.tracks
  /\ preview # NoPreview => preview.content \in scope.files
  /\ Cardinality(requests) <= scope.count
  /\ incarnation <= scope.starts
  /\ scope \in {Ledger, Retries} => rev < MaxRev /\ preview.mode # "merge"

MCInit == scope \in {Schedule, Restores, Ledger, Retries} /\ Init
MCNext == UNCHANGED scope /\ Next /\ InScope'
MCSpec == MCInit /\ [][MCNext]_<<vars, scope>>
=============================================================================
