----------------------------- MODULE TxPipeline -----------------------------
(***************************************************************************)
(* The ante handler (app/ante/ante.go, app/ante/handler_options.go) with   *)
(* the options NewEchofiApp gives it (app/app.go:309-330): a transaction   *)
(* of a block is routed to the Ethereum chain of decorators or to the      *)
(* Cosmos one, and passes it decorator by decorator on a branch of the     *)
(* store, which is written back when the last one has passed and dropped   *)
(* as soon as one refuses.                                                 *)
(*                                                                         *)
(* The decorators, but for the authz limiter, are outside the repository;  *)
(* what each admits and changes is modelled as far as the order and choice *)
(* of the decorators matters.  The authz limiter is AuthzLimiter.tla: here *)
(* a transaction carries its verdict.  CheckTx runs the same handler on a  *)
(* store of its own that no block reads, and is left out; so are gas,      *)
(* memos, relayed packets and multisigned transactions.                    *)
(***************************************************************************)
EXTENDS Integers, Sequences

CONSTANTS
  Account,
  Tx,          \* the transactions a proposer may put in a block
  KeyType,     \* of each account: "ethsecp256k1", "secp256k1" or "ed25519"
  Funds,       \* what each account starts with
  MaxHeight    \* bound: blocks

\* A transaction: its extension options in order; the kinds of its messages;
\* whether a disabled message sits inside an authz message; the account it acts
\* for, its sequence, fee and timeout height (0: none); the account whose key
\* signed it; whether it carries the public key of that account.
TxShape ==
  [opts : Seq({"ethereum", "dynamicFee", "unknown"}), msgs : SUBSET {"evm", "sdk"},
   nested : BOOLEAN, signer : Account, nonce : Nat, fee : Nat, timeout : Nat,
   by : Account, carriesKey : BOOLEAN]

ASSUME PipelineAssumption ==
  /\ Tx \subseteq TxShape
  /\ \A t \in Tx : t.nested => "sdk" \in t.msgs   \* an authz message is an SDK one
  /\ KeyType \in [Account -> {"ethsecp256k1", "secp256k1", "ed25519"}]
  /\ Funds \in Nat /\ MaxHeight \in Nat \ {0}

VARIABLES
  height,
  store,     \* per account: sequence, balance, and whether its key is on
             \* record; and the fee collector
  ran,       \* history: per account, its transactions let through so far
  tx,        \* the transaction at work
  chain,     \* decorators it has still to pass
  branch     \* the store as the decorators passed so far have changed it

vars == <<height, store, ran, tx, chain, branch>>

NoTx == [opts |-> <<>>]
Idle == <<"idle">>
Store == [seq : [Account -> Nat], bal : [Account -> Nat],
          known : [Account -> BOOLEAN], pot : Nat]

-----------------------------------------------------------------------------
(* The decorators, on the transaction and the branch at work.              *)

\* SigVerificationGasConsumer, on the key the account has on record; an
\* ED25519 key is charged for and refused.
SigVerificationGasConsumer(key) == key \in {"ethsecp256k1", "secp256k1"}

IsNext == tx.nonce = branch.seq[tx.signer]
CanPay == tx.fee <= branch.bal[tx.signer]

Admits ==
  [RejectMessages |-> "evm" \notin tx.msgs,
   AuthzLimiter |-> ~tx.nested,
   SetUpContext |-> TRUE,
   ExtensionOptions |-> \A i \in DOMAIN tx.opts : tx.opts[i] = "dynamicFee",
   ValidateBasic |-> tx.msgs # {},
   TxTimeoutHeight |-> tx.timeout = 0 \/ height <= tx.timeout,
   DeductFee |-> CanPay,
   SetPubKey |-> tx.carriesKey => tx.by = tx.signer,
   SigGasConsume |-> branch.known[tx.signer] /\ SigVerificationGasConsumer(KeyType[tx.signer]),
   SigVerification |-> branch.known[tx.signer] /\ IsNext /\ tx.by = tx.signer,
   IncrementSequence |-> TRUE,
   EVMMono |-> /\ tx.opts = <<"ethereum">> /\ tx.msgs = {"evm"} /\ tx.timeout = 0
               /\ tx.by = tx.signer /\ KeyType[tx.by] = "ethsecp256k1"
               /\ IsNext /\ CanPay]

Paid == [branch EXCEPT !.bal[tx.signer] = @ - tx.fee, !.pot = @ + tx.fee]

Changed ==
  [d \in DOMAIN Admits |->
     CASE d = "DeductFee" -> Paid
       [] d = "SetPubKey" /\ tx.carriesKey -> [branch EXCEPT !.known[tx.signer] = TRUE]
       [] d = "IncrementSequence" -> [branch EXCEPT !.seq[tx.signer] = @ + 1]
       [] d = "EVMMono" -> [Paid EXCEPT !.seq[tx.signer] = @ + 1]
       [] OTHER -> branch]

-----------------------------------------------------------------------------
(* The handler.                                                            *)

newEthAnteHandler == <<"EVMMono">>

\* Mutants: a line of the list is lost, or stands too late.
Mut_NoRejectMessages ==
  <<"AuthzLimiter", "SetUpContext", "ExtensionOptions", "ValidateBasic", "TxTimeoutHeight",
    "DeductFee", "SetPubKey", "SigGasConsume", "SigVerification", "IncrementSequence">>
Mut_NoIncrementSequence ==
  <<"RejectMessages", "AuthzLimiter", "SetUpContext", "ExtensionOptions", "ValidateBasic",
    "TxTimeoutHeight", "DeductFee", "SetPubKey", "SigGasConsume", "SigVerification">>
Mut_SetPubKeyLate ==
  <<"RejectMessages", "AuthzLimiter", "SetUpContext", "ExtensionOptions", "ValidateBasic",
    "TxTimeoutHeight", "DeductFee", "SigGasConsume", "SigVerification", "SetPubKey",
    "IncrementSequence">>

newCosmosAnteHandler ==
  <<"RejectMessages", "AuthzLimiter", "SetUpContext", "ExtensionOptions",
    "ValidateBasic", "TxTimeoutHeight", "DeductFee", "SetPubKey",
    "SigGasConsume", "SigVerification", "IncrementSequence">>

\* NewAnteHandler looks at the first extension option only; one it does not
\* know is refused, and a transaction without any is an SDK transaction.
Refused == <<"refused">>
\* Mutant: no default case, so that anteHandler stays nil.
Mut_NoDefault(opts) ==
  IF opts = <<>> \/ Head(opts) = "dynamicFee" THEN newCosmosAnteHandler
  ELSE IF Head(opts) = "ethereum" THEN newEthAnteHandler ELSE <<"nil">>

NewAnteHandler(opts) ==
  IF opts = <<>> \/ Head(opts) = "dynamicFee" THEN newCosmosAnteHandler
  ELSE IF Head(opts) = "ethereum" THEN newEthAnteHandler ELSE Refused

Init ==
  /\ height = 1
  /\ store = [seq |-> [a \in Account |-> 0], bal |-> [a \in Account |-> Funds],
              known |-> [a \in Account |-> FALSE], pot |-> 0]
  /\ ran = [a \in Account |-> <<>>]
  /\ tx = NoTx /\ chain = Idle /\ branch = store

NextBlock ==
  /\ chain = Idle /\ height < MaxHeight /\ height' = height + 1
  /\ UNCHANGED <<store, ran, tx, chain, branch>>

\* BaseApp runs the handler on a branch of the store of the block.
Route(t) ==
  /\ chain = Idle
  /\ tx' = t /\ chain' = NewAnteHandler(t.opts) /\ branch' = store
  /\ UNCHANGED <<height, store, ran>>

Pass ==
  /\ chain # <<>> /\ chain \notin {Idle, Refused} /\ Admits[Head(chain)]
  /\ branch' = Changed[Head(chain)] /\ chain' = Tail(chain)
  /\ UNCHANGED <<height, store, ran, tx>>

\* An error of the router or of a decorator.
Stops ==
  \/ chain = Refused
  \/ chain # <<>> /\ chain # Idle /\ chain # Refused /\ ~Admits[Head(chain)]

Leave == tx' = NoTx /\ chain' = Idle

Refuse ==
  /\ Stops /\ Leave /\ branch' = store
  /\ UNCHANGED <<height, store, ran>>

\* The last decorator has passed: what they changed is kept, whether or not the
\* messages of the transaction then succeed.
LetThrough ==
  /\ chain = <<>> /\ Leave
  /\ store' = branch
  /\ ran' = [ran EXCEPT ![tx.signer] = Append(@, tx)]
  /\ UNCHANGED <<height, branch>>

Next == NextBlock \/ (\E t \in Tx : Route(t)) \/ Pass \/ Refuse \/ LetThrough

Spec == Init /\ [][Next]_vars

-----------------------------------------------------------------------------
(* Properties.                                                             *)

Names == DOMAIN Admits

TypeOK ==
  /\ height \in 1..MaxHeight
  /\ store \in Store /\ branch \in Store
  /\ ran \in [Account -> Seq(Tx)]
  /\ \/ tx = NoTx /\ chain = Idle
     \/ tx \in Tx /\ (chain = Refused \/ chain \in Seq(Names))

\* A transaction of a form this chain runs: signed by the account it acts for
\* with a key that is supported, nothing disabled inside an authz message, only
\* supported extension options, and its EVM message alone and on the EVM's own
\* route.
Sound(t) ==
  /\ t.by = t.signer /\ ~t.nested
  /\ \/ /\ t.opts = <<"ethereum">> /\ t.msgs = {"evm"} /\ t.timeout = 0
        /\ KeyType[t.signer] = "ethsecp256k1"
     \/ /\ \A i \in DOMAIN t.opts : t.opts[i] = "dynamicFee"
        /\ t.msgs = {"sdk"}
        /\ KeyType[t.signer] # "ed25519"

\* The EVM's own route recovers the key from the signature and records none.
ShowsKey(t) == t.carriesKey /\ t.opts # <<"ethereum">>

\* Whatever the route, a transaction that gets through is sound, is the next
\* one of its account, pays and leaves the key it shows, in one step, and one
\* that is refused leaves no payment and no key (app/ante/ante.go:15-53 with the
\* lists of app/ante/handler_options.go:67-99): the pipeline implements the
\* ledger.
Ledger == INSTANCE TxLedger WITH
  seq <- store.seq, bal <- store.bal, known <- store.known, pot <- store.pot
ImplementsLedger == Ledger!LedgerSpec

\* The routes share one sequence per account: no two transactions of an account
\* with the same sequence ever get through, be they the same one proposed
\* again or one of each route.
AtMostOnce ==
  \A a \in Account : \A i, j \in DOMAIN ran[a] :
    ran[a][i].nonce = ran[a][j].nonce => i = j

\* A transaction is turned away for a reason the account can see in the
\* committed store and never for the order of the decorators: a first
\* transaction that carries its key gets through (the comment of
\* app/ante/handler_options.go:90).
Due(t) ==
  /\ Sound(t) /\ t.nonce = store.seq[t.signer] /\ t.fee <= store.bal[t.signer]
  /\ t.timeout = 0 \/ height <= t.timeout
  /\ t.opts = <<"ethereum">> \/ t.carriesKey \/ store.known[t.signer]
RefusedForCause == Stops => ~Due(tx)
=============================================================================
