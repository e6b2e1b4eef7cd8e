--------------------------- MODULE MCDocumentSync ---------------------------
(***************************************************************************)
(* Instances of DocumentSync for TLC.  One run explores several scopes:    *)
(* which items, rows, addresses and restore modes occur, how long a        *)
(* service's history and the queue may grow.  A scope is chosen first and  *)
(* stays.                                                                  *)
(***************************************************************************)
EXTENDS DocumentSync

CONSTANTS u1, u2, e1, t1, o1, a, l

VARIABLE scope

Scope(urls, items, rows, modes, events, revisions, queue) ==
  [urls |-> urls, items |-> items, rows |-> rows, modes |-> modes, events |-> events,
   revisions |-> revisions, queue |-> queue]

Bundles == Scope({u1}, {t1}, {}, {}, {"reload"}, 4, 1)
Writers == Scope({u1}, {e1, o1}, {}, {}, {"leave", "others"}, 3, 1)
Queue == Scope({u1}, {e1, t1}, {}, {}, {}, 2, 2)
Receipts == Scope({u1}, {}, {a, l}, {}, {}, 3, 1)
Restores == Scope({u1}, {}, {a}, {"merge"}, {"leave"}, 3, 1)
Replaces == Scope({u1}, {e1}, {l}, {"replace-active"}, {"401"}, 3, 1)
Addresses == Scope({u1, u2}, {t1, o1}, {}, {}, {}, 2, 1)
Small == Scope({u1}, {t1}, {}, {}, {"leave", "401"}, 3, 2)
Keeps == Scope({u1}, {o1}, {a}, {}, {"others"}, 3, 1)
Dropped == Scope({u1}, {t1}, {l}, {"merge"}, {}, 2, 1)

AllScopes ==
  {Bundles, Writers, Queue, Receipts, Restores, Replaces, Addresses, Small, Keeps, Dropped}

InScope ==
  /\ page.base \in scope.urls
  /\ page.doc \subseteq scope.items /\ page.voc \subseteq scope.rows
  /\ Len(tail) <= scope.queue
  /\ \A i \in DOMAIN tail : tail[i].kind = "preview" => tail[i].mode \in scope.modes
  /\ page.intent # None => scope.modes # {}
  /\ \A u \in Urls :
       /\ Rev(u) <= scope.revisions
       /\ Latest(u).doc \subseteq scope.items /\ Latest(u).voc \subseteq scope.rows
       /\ u \notin scope.urls => past[u] = <<[doc |-> {}, voc |-> {}, bundles |-> {}, op |-> None]>>
  /\ scope = Addresses => o1 \notin Latest(u1).doc   \* only the second has something else

CONSTANT Scopes
MCInit == scope \in Scopes /\ Init /\ InScope
Happens ==
  /\ "reload" \notin scope.events => ~Reload
  /\ "leave" \notin scope.events => ~Disconnect
  /\ "others" \notin scope.events => ~OtherSave
  /\ "401" \notin scope.events => ~Unauthorized
MCNext == UNCHANGED scope /\ Next /\ InScope' /\ Happens
RestoreScope == {Replaces}
KeepScope == {Keeps}
MCSpec == MCInit /\ [][MCNext]_<<vars, scope>>

\* The same with what the page and the network owe a job under way.
MCFairSpec == MCSpec /\ Fairness
=============================================================================
