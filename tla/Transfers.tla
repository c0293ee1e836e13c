-------------------------------- MODULE Transfers --------------------------------
(***************************************************************************)
(* What an interchain transfer promises whoever makes one: the token       *)
(* leaves the sender's purse, and then either reaches a purse of the       *)
(* receiving end or comes back, once, and in the end one of the two.       *)
(***************************************************************************)
EXTENDS Integers

CONSTANTS Ends, Denoms, Names
VARIABLES purse, deals          \* deals: the transfers made so far, by name

Open(i, from, to, d) ==
  /\ i \notin DOMAIN deals
  /\ from # to /\ purse[from][d] > 0
  /\ purse' = [purse EXCEPT ![from][d] = @ - 1]
  /\ deals' = [j \in DOMAIN deals \union {i} |->
       IF j = i THEN [from |-> from, to |-> to, d |-> d, end |-> "open"] ELSE deals[j]]

\* Deal i ends with the token at an end, delivered or refunded.
Close(i, at, how) ==
  /\ deals[i].end = "open"
  /\ purse' = [purse EXCEPT ![at][deals[i].d] = @ + 1]
  /\ deals' = [deals EXCEPT ![i].end = how]

Next == \/ \E i \in Names, from, to \in Ends, d \in Denoms : Open(i, from, to, d)
        \/ \E i \in DOMAIN deals : \/ Close(i, deals[i].to, "delivered")
                                   \/ Close(i, deals[i].from, "refunded")

Init == purse \in [Ends -> [Denoms -> Nat]] /\ DOMAIN deals = {}

Spec == Init /\ [][Next]_<<purse, deals>>
=============================================================================
