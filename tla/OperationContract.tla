-------------------------- MODULE OperationContract --------------------------
(***************************************************************************)
(* What the learner store promises the browsers, without saying how: every *)
(* operation request is executed at most once, all answers that carry a    *)
(* receipt carry the one it was executed with, and after the first applied *)
(* operation the vocabulary changes by operations and restores only.       *)
(***************************************************************************)
EXTENDS Integers

CONSTANTS
  Tables,     \* the contents the vocabulary may have
  Requests,   \* what browsers may ask
  Receipts,   \* [request, generation, status, ...]
  Refusals    \* the answers that say nothing was done

VARIABLES
  asked,      \* requests browsers created
  executed,   \* receipts of the executed ones
  answered,   \* <<request, answer>> pairs
  table,      \* the vocabulary
  fenced,     \* an operation was applied: documents may not change the table
  lineage     \* restores so far

contractVars == <<asked, executed, answered, table, fenced, lineage>>

ContractInit ==
  /\ asked = {} /\ executed = {} /\ answered = {}
  /\ table \in Tables /\ fenced = FALSE /\ lineage = 0

Ask ==
  /\ asked \subseteq asked' /\ asked' \subseteq Requests
  /\ UNCHANGED <<executed, answered, table, fenced, lineage>>

\* First and only execution.
Execute(r, receipt) ==
  /\ receipt \in Receipts
  /\ \A x \in executed : x.request # r
  /\ receipt.request = r /\ receipt.generation = lineage
  /\ executed' = executed \cup {receipt}
  /\ answered' = answered \cup {<<r, receipt>>}
  /\ \/ /\ receipt.status = "conflict"
        /\ UNCHANGED <<table, fenced>>
     \/ /\ receipt.status = "applied"
        /\ table' \in Tables
        /\ fenced' = TRUE
  /\ UNCHANGED <<asked, lineage>>

\* The recorded outcome once more, or a refusal: nothing else changes.
AnswerAgain(r, answer) ==
  /\ answer \in Refusals \/ (answer \in executed /\ answer.request = r)
  /\ answered' = answered \cup {<<r, answer>>}
  /\ UNCHANGED <<asked, executed, table, fenced, lineage>>

WriteDocument ==
  /\ ~fenced
  /\ table' \in Tables
  /\ UNCHANGED <<asked, executed, answered, fenced, lineage>>

Replace ==
  /\ table' \in Tables
  /\ lineage' = lineage + 1
  /\ UNCHANGED <<asked, executed, answered, fenced>>

ContractNext ==
  \/ Ask
  \/ \E r \in asked : \E receipt \in executed' \ executed : Execute(r, receipt)
  \/ \E r \in asked : \E answer \in Refusals \cup executed : AnswerAgain(r, answer)
  \/ WriteDocument
  \/ Replace

ContractSpec == ContractInit /\ [][ContractNext]_contractVars
=============================================================================
