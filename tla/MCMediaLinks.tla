---------------------------- MODULE MCMediaLinks ----------------------------
(***************************************************************************)
(* Instances of MediaLinks for TLC.  A scope, chosen first, says what the  *)
(* page finds when it is loaded and which tasks and events occur.          *)
(***************************************************************************)
EXTENDS MediaLinks, TLC

CONSTANTS f1, f2, x, y, n, m, r1, r2

\* Two files of different names.
TwoNames == f1 :> n @@ f2 :> m

VARIABLE scope

Scope(assets, legacy, kinds, restorers, urlCount) ==
  [assets |-> assets, legacy |-> legacy, kinds |-> kinds, restorers |-> restorers, urls |-> urlCount]

\* Two media with handles of their own: opened and restored, files change.
Switching == Scope({2}, FALSE, {"open", "edit"}, {r1}, 1)

\* An imports and a relink cross a restores.
Crossing == Scope({0, 1}, FALSE, {"import", "relink"}, {r1}, 1)

\* Two restores migrate the legacy handle, on a page that may be reloaded.
Migrating == Scope({1, 2}, TRUE, {"reload"}, {r1, r2}, 1)

\* Opens that wait for transcripts, against each other.
Opening == Scope({1, 2}, FALSE, {"open", "hydrate", "import"}, {}, 1)

LinkScopes == {Switching, Crossing, Migrating, Opening}

CONSTANT Scopes

\* What a page finds: records with fingerprints in the label of the file they were
\* made from, and handles to that file; the legacy handle may be to another.
Found0 ==
  /\ disk = (f1 :> x @@ f2 :> y)
  /\ made \in scope.assets
  /\ \A a \in 1 .. made : \E f \in Files :
       /\ library[a].name = NameOf[f]
       /\ library[a].content \in {disk[f], None}
       /\ a = 2 => library[2].content # None /\ library[2] # library[1]
       /\ handles[a] \in {None, [file |-> f, media |-> a]}
       /\ handles[a] # None => ~scope.legacy
  /\ ~scope.legacy => handles[Legacy] = None

InScope ==
  /\ \A p \in Importers : imports[p].pc # "idle" => "import" \in scope.kinds
  /\ relink # NoRelink => "relink" \in scope.kinds
  /\ opens # {} => "open" \in scope.kinds
  /\ Cardinality(opens) <= (IF scope.restorers = {} THEN 2 ELSE 1)
  /\ \A r \in Restorers : restores[r] # NoRestore => r \in scope.restorers
  /\ Len(urls) <= scope.urls

Happens ==
  /\ "open" \notin scope.kinds => asked' = asked
  /\ "hydrate" \notin scope.kinds => ~Hydrate /\ ~SaveLibrary
  /\ "reload" \notin scope.kinds => ~Reload
  /\ "edit" \notin scope.kinds => disk' = disk

MCInit == scope \in Scopes /\ LinksInit /\ Found0
MCNext == UNCHANGED scope /\ LinksNext /\ InScope' /\ Happens
MCSpec == MCInit /\ [][MCNext]_<<linksVars, scope>>
=============================================================================
