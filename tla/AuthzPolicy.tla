----------------------------- MODULE AuthzPolicy -----------------------------
(***************************************************************************)
(* What AuthzLimiterDecorator promises about a transaction, whatever the   *)
(* order in which it looks at the messages: a transaction that passes is   *)
(* clean at every depth, a clean one that has too few MsgExecs to reach    *)
(* the nesting cap does pass, and every transaction gets an answer.        *)
(***************************************************************************)
CONSTANTS
  Txs,          \* the transactions considered
  Clean(_),     \* nothing in the transaction is forbidden
  Crowded(_)    \* it has enough MsgExecs to reach the nesting cap

VARIABLES
  tx,        \* the transaction under check
  outcome    \* "pending", then "accepted" or "rejected"

policyVars == <<tx, outcome>>

PolicyInit == tx \in Txs /\ outcome = "pending"

Accept ==
  /\ outcome = "pending"
  /\ Clean(tx)
  /\ outcome' = "accepted"
  /\ UNCHANGED tx

Reject ==
  /\ outcome = "pending"
  /\ ~Clean(tx) \/ Crowded(tx)
  /\ outcome' = "rejected"
  /\ UNCHANGED tx

Decide == Accept \/ Reject

PolicySafety == PolicyInit /\ [][Decide]_policyVars
PolicySpec == PolicySafety /\ WF_policyVars(Decide)
=============================================================================
