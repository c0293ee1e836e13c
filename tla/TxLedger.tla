------------------------------ MODULE TxLedger ------------------------------
(***************************************************************************)
(* What the ante handler of app/ante promises, whatever routes and         *)
(* decorators it is made of: a transaction that gets past it is authorised *)
(* by the account it acts for, is that account's next one, carries its EVM *)
(* messages as the EVM expects them, has paid its fee and left the key it  *)
(* shows on record, all in one step; one that is refused leaves nothing.   *)
(***************************************************************************)
EXTENDS Integers, Sequences

CONSTANTS
  Account,
  Tx,              \* the transactions there are
  Sound(_),        \* a transaction of an acceptable form
  ShowsKey(_),     \* one that puts the key of its account on record
  Funds            \* what each account starts with

VARIABLES
  seq,    \* the sequence (EVM: nonce) of each account
  bal,    \* its balance
  known,  \* whether its key is on record
  pot,    \* the fee collector
  ran     \* per account, the transactions let through, in order

ledger == <<seq, bal, known, pot, ran>>

LedgerInit ==
  /\ seq = [a \in Account |-> 0] /\ bal = [a \in Account |-> Funds]
  /\ known = [a \in Account |-> FALSE]
  /\ pot = 0 /\ ran = [a \in Account |-> <<>>]

LetThrough(t) ==
  /\ Sound(t)
  /\ t.nonce = seq[t.signer] /\ t.fee <= bal[t.signer]
  /\ seq' = [seq EXCEPT ![t.signer] = @ + 1]
  /\ bal' = [bal EXCEPT ![t.signer] = @ - t.fee]
  /\ known' = IF ShowsKey(t) THEN [known EXCEPT ![t.signer] = TRUE] ELSE known
  /\ pot' = pot + t.fee
  /\ ran' = [ran EXCEPT ![t.signer] = Append(@, t)]

LedgerSpec == LedgerInit /\ [][\E t \in Tx : LetThrough(t)]_ledger
=============================================================================
