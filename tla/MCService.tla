------------------------------ MODULE MCService ------------------------------
(***************************************************************************)
(* The local service beside its learner store, in one run: its snippet     *)
(* jobs (MCSnippetJobs), its word services (MCGlosses), and the life of    *)
(* its processes (ServiceLife).  They share no state here, so each part is *)
(* explored while the others rest.                                         *)
(***************************************************************************)
EXTENDS MCSnippetJobs, MCGlosses, ServiceLife

CONSTANTS s1, s2, q1

VARIABLE part

glossPart == <<glossVars, glossScope>>
mcServiceVars == <<part, vars, glossPart, lifeVars>>

\* A service without a dictionary, and one that is not started.
GlossRest == GlossMCInit /\ glossScope = "engine"
LifeRest == LifeInit /\ mode = [delivery |-> "tty", port |-> "fixed"]

\* Jobs of other kinds share nothing with the snippets but the service they stop with:
\* they are explored apart from them.
OnlyClips == \A p \in Plain : job'[p] = "none"
OnlyPlain == \A c \in Clips : job'[c] = "none"

ServiceMCInit ==
  \/ part \in {"clips", "plain"} /\ Init /\ GlossRest /\ LifeRest
  \/ part = "words" /\ Init /\ GlossMCInit /\ LifeRest
  \/ part = "life" /\ Init /\ GlossRest /\ LifeInit

ServiceMCNext ==
  \/ part = "clips" /\ Next /\ OnlyClips /\ UNCHANGED <<part, glossPart, lifeVars>>
  \/ part = "plain" /\ Next /\ OnlyPlain /\ UNCHANGED <<part, glossPart, lifeVars>>
  \/ part = "words" /\ GlossMCNext /\ UNCHANGED <<part, vars, lifeVars>>
  \/ part = "life" /\ LifeNext /\ UNCHANGED <<part, vars, glossPart>>

\* A resting runner has nothing to do: its fairness asks for nothing in other parts.
ServiceMCSpec == ServiceMCInit /\ [][ServiceMCNext]_mcServiceVars /\ Fairness
=============================================================================
