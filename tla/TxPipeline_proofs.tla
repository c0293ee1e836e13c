-------------------------- MODULE TxPipeline_proofs --------------------------
(***************************************************************************)
(* Theorems of TxPipeline for every set of accounts and transactions, all  *)
(* kinds of keys and any number of blocks.                                 *)
(***************************************************************************)
EXTENDS TxPipeline, SequenceTheorems, TLAPS

\* What is left of the Cosmos list from its n-th decorator on.
CosmosFrom(n) == SubSeq(newCosmosAnteHandler, n, 11)

\* The decorators it lists.
CosmosNames ==
  {"RejectMessages", "AuthzLimiter", "SetUpContext", "ExtensionOptions", "ValidateBasic",
   "TxTimeoutHeight", "DeductFee", "SetPubKey", "SigGasConsume", "SigVerification",
   "IncrementSequence"}

\* What is known of the transaction, and of the branch, before the n-th one.
Known(n) ==
  /\ tx.opts # <<"ethereum">>
  /\ n > 1  => "evm" \notin tx.msgs
  /\ n > 2  => ~tx.nested
  /\ n > 4  => \A i \in DOMAIN tx.opts : tx.opts[i] = "dynamicFee"
  /\ n > 5  => tx.msgs # {}
  /\ n > 7  => tx.fee <= store.bal[tx.signer]
  /\ n > 9  => KeyType[tx.signer] # "ed25519"
  /\ n > 10 => tx.nonce = store.seq[tx.signer] /\ tx.by = tx.signer
  /\ branch.seq = store.seq
  /\ n < 8 => branch.bal = store.bal /\ branch.pot = store.pot
  /\ n > 7 => /\ branch.bal = [store.bal EXCEPT ![tx.signer] = @ - tx.fee]
              /\ branch.pot = store.pot + tx.fee
  /\ n < 9 => branch.known = store.known
  /\ n > 8 => branch.known = IF tx.carriesKey THEN [store.known EXCEPT ![tx.signer] = TRUE]
                             ELSE store.known
  /\ store.known[tx.signer] => branch.known[tx.signer]
  /\ n > 8 /\ tx.carriesKey => branch.known[tx.signer]

\* What is known when all have passed, on either route.
Admitted ==
  /\ Sound(tx) /\ tx.nonce = store.seq[tx.signer] /\ tx.fee <= store.bal[tx.signer]
  /\ branch.seq = [store.seq EXCEPT ![tx.signer] = @ + 1]
  /\ branch.bal = [store.bal EXCEPT ![tx.signer] = @ - tx.fee]
  /\ branch.pot = store.pot + tx.fee
  /\ branch.known = IF ShowsKey(tx) THEN [store.known EXCEPT ![tx.signer] = TRUE] ELSE store.known

\* The first extension option is known to the router.
OnCosmosRoute == \E n \in 1..11 : chain = CosmosFrom(n) /\ Known(n)
OnEthRoute == /\ chain = newEthAnteHandler /\ branch = store
              /\ tx.opts # <<>> /\ Head(tx.opts) = "ethereum"
OnNoRoute == /\ chain = Refused /\ tx.opts # <<>>
             /\ Head(tx.opts) \notin {"ethereum", "dynamicFee"}

AtWork ==
  \/ tx = NoTx /\ chain = Idle
  \/ tx \in Tx /\ OnNoRoute
  \/ tx \in Tx /\ OnEthRoute
  \/ tx \in Tx /\ chain = <<>> /\ Admitted
  \/ tx \in Tx /\ OnCosmosRoute

\* The sequence of an account numbers the transactions that got through.
Numbered ==
  \A a \in Account : /\ store.seq[a] = Len(ran[a])
                     /\ \A i \in 1..Len(ran[a]) : ran[a][i].nonce = i - 1

Typed ==
  /\ height \in 1..MaxHeight
  /\ store \in Store /\ branch \in Store /\ ran \in [Account -> Seq(Tx)]

PipeInv == Typed /\ AtWork /\ Numbered

-----------------------------------------------------------------------------
\* The Cosmos list is a list of its eleven decorators.
LEMMA CosmosIsList ==
  newCosmosAnteHandler \in Seq(CosmosNames) /\ Len(newCosmosAnteHandler) = 11
  BY SMTT(30) DEF newCosmosAnteHandler, CosmosNames

\* It is passed decorator by decorator.
LEMMA CosmosList ==
  /\ CosmosFrom(1) = newCosmosAnteHandler
  /\ \A n \in 1..11 : /\ CosmosFrom(n) \in Seq(CosmosNames) /\ CosmosFrom(n) # <<>>
                      /\ Head(CosmosFrom(n)) = newCosmosAnteHandler[n]
                      /\ Tail(CosmosFrom(n)) = IF n = 11 THEN <<>> ELSE CosmosFrom(n + 1)
  <1> DEFINE L == newCosmosAnteHandler
  <1>1. L \in Seq(CosmosNames) /\ Len(L) = 11
    BY CosmosIsList
  <1> HIDE DEF L
  <1>2. CosmosFrom(1) = L
    BY <1>1, LenProperties, SubSeqProperties DEF CosmosFrom, L
  <1>3. ASSUME NEW n \in 1..11
        PROVE  /\ CosmosFrom(n) \in Seq(CosmosNames) /\ CosmosFrom(n) # <<>>
               /\ Head(CosmosFrom(n)) = L[n]
               /\ Tail(CosmosFrom(n)) = IF n = 11 THEN <<>> ELSE CosmosFrom(n + 1)
    <2>0. \A i \in n..11 : L[i] \in CosmosNames
      <3>1. L \in [1..11 -> CosmosNames]
        BY <1>1, LenProperties
      <3>2. \A i \in n..11 : i \in 1..11
        OBVIOUS
      <3> QED BY <3>1, <3>2
    <2>1. SubSeq(L, n, 11) \in Seq(CosmosNames) /\ Len(SubSeq(L, n, 11)) = 12 - n
      <3>1. n \in Int /\ 11 \in Int /\ n <= 11
        OBVIOUS
      <3> QED BY <2>0, <3>1, SubSeqProperties
    <2>2. Head(SubSeq(L, n, 11)) = L[n] /\ Tail(SubSeq(L, n, 11)) = SubSeq(L, n + 1, 11)
      BY <1>1, HeadTailOfSubSeq
    <2>3. n = 11 => SubSeq(L, n + 1, 11) = <<>>
      BY <1>1, SubSeqEmpty
    <2>4. SubSeq(L, n, 11) # <<>>
      <3>1. Len(<<>>) = 0
        BY EmptySeq
      <3>2. 12 - n # 0
        OBVIOUS
      <3>3. Len(SubSeq(L, n, 11)) # 0
        BY <2>1, <3>2, Zenon
      <3> QED BY <3>1, <3>3, Zenon
    <2> QED BY <2>1, <2>2, <2>3, <2>4 DEF CosmosFrom, L
  <1> QED BY <1>2, <1>3 DEF L

\* What each decorator admits and changes.
LEMMA DecoratorsAdmit ==
  /\ Admits["RejectMessages"] <=> "evm" \notin tx.msgs
  /\ Admits["AuthzLimiter"] <=> ~tx.nested
  /\ Admits["SetUpContext"]
  /\ Admits["ExtensionOptions"] <=> \A i \in DOMAIN tx.opts : tx.opts[i] = "dynamicFee"
  /\ Admits["ValidateBasic"] <=> tx.msgs # {}
  /\ Admits["TxTimeoutHeight"] <=> tx.timeout = 0 \/ height <= tx.timeout
  /\ Admits["DeductFee"] <=> CanPay
  /\ Admits["SetPubKey"] <=> (tx.carriesKey => tx.by = tx.signer)
  /\ Admits["SigGasConsume"] <=>
       branch.known[tx.signer] /\ SigVerificationGasConsumer(KeyType[tx.signer])
  /\ Admits["SigVerification"] <=> branch.known[tx.signer] /\ IsNext /\ tx.by = tx.signer
  /\ Admits["IncrementSequence"]
  /\ Admits["EVMMono"] <=>
       /\ tx.opts = <<"ethereum">> /\ tx.msgs = {"evm"} /\ tx.timeout = 0
       /\ tx.by = tx.signer /\ KeyType[tx.by] = "ethsecp256k1"
       /\ IsNext /\ CanPay
  BY DEF Admits

\* What each decorator changes.
LEMMA DecoratorsChange ==
  /\ CosmosNames \cup {"EVMMono"} = DOMAIN Admits
  /\ Changed["DeductFee"] = Paid
  /\ Changed["SetPubKey"] = IF tx.carriesKey THEN [branch EXCEPT !.known[tx.signer] = TRUE]
                            ELSE branch
  /\ Changed["IncrementSequence"] = [branch EXCEPT !.seq[tx.signer] = @ + 1]
  /\ Changed["EVMMono"] = [Paid EXCEPT !.seq[tx.signer] = @ + 1]
  /\ \A d \in CosmosNames \ {"DeductFee", "SetPubKey", "IncrementSequence"} : Changed[d] = branch
  <1>1. CosmosNames \cup {"EVMMono"} = DOMAIN Admits
    BY DEF Admits, CosmosNames
  <1>2. \A d \in CosmosNames \cup {"EVMMono"} :
          Changed[d] = CASE d = "DeductFee" -> Paid
                         [] d = "SetPubKey" /\ tx.carriesKey ->
                              [branch EXCEPT !.known[tx.signer] = TRUE]
                         [] d = "IncrementSequence" -> [branch EXCEPT !.seq[tx.signer] = @ + 1]
                         [] d = "EVMMono" -> [Paid EXCEPT !.seq[tx.signer] = @ + 1]
                         [] OTHER -> branch
    BY <1>1 DEF Changed
  <1> HIDE DEF Changed
  <1> QED BY <1>1, <1>2 DEF CosmosNames

\* The decorators of the list in use.
LEMMA TheList ==
  /\ newCosmosAnteHandler[1] = "RejectMessages" /\ newCosmosAnteHandler[2] = "AuthzLimiter"
  /\ newCosmosAnteHandler[3] = "SetUpContext" /\ newCosmosAnteHandler[4] = "ExtensionOptions"
  /\ newCosmosAnteHandler[5] = "ValidateBasic" /\ newCosmosAnteHandler[6] = "TxTimeoutHeight"
  /\ newCosmosAnteHandler[7] = "DeductFee" /\ newCosmosAnteHandler[8] = "SetPubKey"
  /\ newCosmosAnteHandler[9] = "SigGasConsume" /\ newCosmosAnteHandler[10] = "SigVerification"
  /\ newCosmosAnteHandler[11] = "IncrementSequence"
  BY DEF newCosmosAnteHandler

\* The markers are none of the lists.
LEMMA Distinct ==
  /\ Idle # <<>> /\ Refused # <<>> /\ newEthAnteHandler # <<>>
  /\ Idle # Refused /\ Idle # newEthAnteHandler /\ Refused # newEthAnteHandler
  /\ \A n \in 1..11 : /\ CosmosFrom(n) \notin {<<>>, Idle, Refused}
                      /\ CosmosFrom(n) # newEthAnteHandler
  <1>1. \A n \in 1..11 : Head(CosmosFrom(n)) \in CosmosNames
    BY CosmosList, HeadTailProperties
  <1>2. \A n \in 1..11 : CosmosFrom(n) # <<>>
    BY CosmosList
  <1>3. \A n \in 1..11 : Head(CosmosFrom(n)) \notin {"idle", "refused", "EVMMono"}
    BY <1>1 DEF CosmosNames
  <1>4. Head(Idle) = "idle" /\ Head(Refused) = "refused" /\ Head(newEthAnteHandler) = "EVMMono"
    BY DEF Idle, Refused, newEthAnteHandler
  <1>5. Idle # <<>> /\ Refused # <<>> /\ newEthAnteHandler # <<>>
    BY DEF Idle, Refused, newEthAnteHandler
  <1> QED BY <1>2, <1>3, <1>4, <1>5

\* The shape of a transaction.
LEMMA TxIs ==
  ASSUME NEW t \in Tx
  PROVE  /\ t.opts \in Seq({"ethereum", "dynamicFee", "unknown"})
         /\ t.msgs \subseteq {"evm", "sdk"}
         /\ t.signer \in Account /\ t.by \in Account
         /\ t.nonce \in Nat /\ t.fee \in Nat /\ t.timeout \in Nat
         /\ t.nested => "sdk" \in t.msgs
         /\ t.nested \in BOOLEAN /\ t.carriesKey \in BOOLEAN
         /\ KeyType[t.signer] \in {"ethsecp256k1", "secp256k1", "ed25519"}
  BY PipelineAssumption DEF TxShape

-----------------------------------------------------------------------------
\* Paying moves the fee from the account to the collector.
LEMMA PaidIs ==
  ASSUME tx \in Tx, branch \in Store, CanPay
  PROVE  /\ Paid \in Store /\ Paid.seq = branch.seq /\ Paid.known = branch.known
         /\ Paid.bal = [branch.bal EXCEPT ![tx.signer] = @ - tx.fee]
         /\ Paid.pot = branch.pot + tx.fee
  <1>1. tx.signer \in Account /\ tx.fee \in Nat
    BY TxIs
  <1>2. branch.bal \in [Account -> Nat] /\ branch.pot \in Nat /\ tx.fee <= branch.bal[tx.signer]
    BY DEF Store, CanPay
  <1>3. branch.bal[tx.signer] - tx.fee \in Nat /\ branch.pot + tx.fee \in Nat
    BY <1>1, <1>2
  <1> QED BY <1>1, <1>2, <1>3 DEF Paid, Store

\* A key on record changes nothing else.
LEMMA KeyRecorded ==
  ASSUME branch \in Store, NEW a \in Account, NEW b, b = [branch EXCEPT !.known[a] = TRUE]
  PROVE  /\ b \in Store /\ b.seq = branch.seq /\ b.bal = branch.bal /\ b.pot = branch.pot
         /\ b.known = [branch.known EXCEPT ![a] = TRUE]
  <1> DEFINE k == [branch.known EXCEPT ![a] = TRUE]
  <1>1. branch.known \in [Account -> BOOLEAN]
    BY DEF Store
  <1>2. k \in [Account -> BOOLEAN]
    BY <1>1, Zenon
  <1>3. b = [branch EXCEPT !.known = k]
    OBVIOUS
  <1> HIDE DEF k
  <1>4. /\ b \in Store /\ b.seq = branch.seq /\ b.bal = branch.bal /\ b.pot = branch.pot
        /\ b.known = k
    BY <1>2, <1>3 DEF Store
  <1> QED BY <1>4 DEF k

\* The branch keeps its type.
LEMMA ChangedTyped ==
  ASSUME tx \in Tx, branch \in Store, NEW d \in CosmosNames \cup {"EVMMono"}, Admits[d]
  PROVE  Changed[d] \in Store
  <1>1. tx.signer \in Account /\ tx.carriesKey \in BOOLEAN
    BY TxIs
  <1>2. branch.seq \in [Account -> Nat] /\ branch.known \in [Account -> BOOLEAN]
    BY DEF Store
  <1>3. CASE d = "DeductFee"
    BY <1>3, DecoratorsAdmit, DecoratorsChange, PaidIs
  <1>4. CASE d = "SetPubKey"
    <2>1. CASE tx.carriesKey
      <3>1. Changed[d] = [branch EXCEPT !.known[tx.signer] = TRUE]
        BY <1>4, <2>1, DecoratorsChange
      <3> QED BY <1>1, <3>1, KeyRecorded
    <2>2. CASE ~tx.carriesKey
      BY <1>4, <2>2, DecoratorsChange
    <2> QED BY <2>1, <2>2
  <1>5. CASE d = "IncrementSequence"
    <2>1. Changed[d] = [branch EXCEPT !.seq[tx.signer] = @ + 1]
      BY <1>5, DecoratorsChange
    <2>2. branch.seq[tx.signer] + 1 \in Nat
      BY <1>1, <1>2
    <2> QED BY <2>1, <2>2, <1>1 DEF Store
  <1>6. CASE d = "EVMMono"
    <2>1. Changed[d] = [Paid EXCEPT !.seq[tx.signer] = @ + 1] /\ CanPay
      BY <1>6, DecoratorsAdmit, DecoratorsChange
    <2>2. Paid \in Store /\ Paid.seq = branch.seq
      BY <2>1, PaidIs
    <2>3. Paid.seq[tx.signer] + 1 \in Nat
      BY <1>1, <1>2, <2>2
    <2> QED BY <2>1, <2>2, <2>3, <1>1 DEF Store
  <1>7. CASE d \notin {"DeductFee", "SetPubKey", "IncrementSequence", "EVMMono"}
    BY <1>7, DecoratorsChange
  <1> QED BY <1>3, <1>4, <1>5, <1>6, <1>7

\* On the Ethereum route the one decorator checks and does it all.
LEMMA PassEth ==
  ASSUME Typed, tx \in Tx, OnEthRoute, Pass
  PROVE  chain' = <<>> /\ Admitted'
  <1>1. Head(chain) = "EVMMono" /\ Tail(chain) = <<>>
    BY DEF OnEthRoute, newEthAnteHandler
  <1>2. Admits["EVMMono"] /\ branch' = Changed["EVMMono"] /\ chain' = <<>>
    BY <1>1 DEF Pass
  <1>3. branch' = [Paid EXCEPT !.seq[tx.signer] = @ + 1]
    BY <1>2, DecoratorsChange
  <1>4. CanPay /\ IsNext /\ Sound(tx)
    <2>1. ~tx.nested
      BY <1>2, DecoratorsAdmit, TxIs
    <2> QED BY <1>2, <2>1, DecoratorsAdmit DEF Sound
  <1>5. Paid.seq = store.seq /\ Paid \in Store
        /\ Paid.bal = [store.bal EXCEPT ![tx.signer] = @ - tx.fee]
        /\ Paid.pot = store.pot + tx.fee /\ Paid.known = store.known
    BY <1>4, PaidIs DEF OnEthRoute, Typed
  <1>6. /\ branch'.seq = [store.seq EXCEPT ![tx.signer] = @ + 1]
        /\ branch'.bal = Paid.bal /\ branch'.pot = Paid.pot /\ branch'.known = Paid.known
    BY <1>3, <1>5 DEF Store
  <1>7. tx' = tx /\ store' = store
    BY DEF Pass
  <1>8. tx.nonce = store.seq[tx.signer] /\ tx.fee <= store.bal[tx.signer]
    BY <1>4 DEF IsNext, CanPay, OnEthRoute
  <1>9. Sound(tx)' 
    BY <1>4, <1>7 DEF Sound
  <1>10. ~ShowsKey(tx)'
    BY <1>2, <1>7, DecoratorsAdmit DEF ShowsKey
  <1> QED BY <1>2, <1>5, <1>6, <1>7, <1>8, <1>9, <1>10 DEF Admitted

\* On the Cosmos route each decorator adds what it is there for.
LEMMA PassCosmos ==
  ASSUME Typed, tx \in Tx, NEW n \in 1..11, chain = CosmosFrom(n), Known(n), Pass
  PROVE  IF n = 11 THEN chain' = <<>> /\ Admitted' ELSE chain' = CosmosFrom(n + 1) /\ Known(n + 1)'
  <1> DEFINE d == newCosmosAnteHandler[n]
  <1>1. d \in CosmosNames /\ d = Head(chain)
    BY CosmosList, CosmosIsList, LenProperties
  <1>2. Admits[d] /\ branch' = Changed[d] /\ tx' = tx /\ store' = store
    BY <1>1 DEF Pass
  <1>3. chain' = IF n = 11 THEN <<>> ELSE CosmosFrom(n + 1)
    BY CosmosList DEF Pass
  <1> HIDE DEF d
  <1>4. tx.signer \in Account /\ tx.fee \in Nat /\ tx.carriesKey \in BOOLEAN /\ tx.msgs \subseteq {"evm", "sdk"}
    BY TxIs
  <1>5. CASE n \in {1, 2, 3, 4, 5, 6}
    <2>1. branch' = branch
      BY <1>2, <1>5, DecoratorsChange, TheList DEF d, CosmosNames
    <2>2. /\ n = 1 => "evm" \notin tx.msgs
          /\ n = 2 => ~tx.nested
          /\ n = 4 => \A i \in DOMAIN tx.opts : tx.opts[i] = "dynamicFee"
          /\ n = 5 => tx.msgs # {}
      BY <1>2, DecoratorsAdmit, TheList DEF d
    <2> QED BY <1>2, <1>3, <1>5, <2>1, <2>2 DEF Known
  <1>6. CASE n = 7
    <2>1. branch' = Paid /\ CanPay
      BY <1>2, <1>6, DecoratorsAdmit, DecoratorsChange, TheList DEF d
    <2>2. /\ Paid.seq = branch.seq /\ Paid.known = branch.known
          /\ Paid.bal = [branch.bal EXCEPT ![tx.signer] = @ - tx.fee]
          /\ Paid.pot = branch.pot + tx.fee
      BY <2>1, PaidIs DEF Typed
    <2> QED BY <1>2, <1>3, <1>6, <2>1, <2>2 DEF Known, CanPay
  <1>7. CASE n = 8
    <2>1. /\ tx.carriesKey => branch' = [branch EXCEPT !.known[tx.signer] = TRUE]
          /\ ~tx.carriesKey => branch' = branch
      BY <1>2, <1>7, DecoratorsChange, TheList DEF d
    <2>2. CASE tx.carriesKey
      <3>1. /\ branch'.seq = branch.seq /\ branch'.bal = branch.bal /\ branch'.pot = branch.pot
            /\ branch'.known = [branch.known EXCEPT ![tx.signer] = TRUE]
        BY <1>4, <2>1, <2>2, KeyRecorded DEF Typed
      <3>2. branch'.known[tx.signer]
        BY <1>4, <3>1 DEF Typed, Store
      <3>3. branch.known = store.known
        BY <1>7 DEF Known
      <3>4. branch'.known = [store'.known EXCEPT ![tx'.signer] = TRUE] /\ tx'.carriesKey
        BY <1>2, <2>2, <3>1, <3>3
      <3>5. branch'.known[tx'.signer]
        BY <1>2, <3>2
      <3>6. /\ branch'.seq = store'.seq
            /\ branch'.bal = [store'.bal EXCEPT ![tx'.signer] = @ - tx'.fee]
            /\ branch'.pot = store'.pot + tx'.fee
        BY <1>2, <1>7, <3>1 DEF Known
      <3>7. /\ tx'.opts # <<"ethereum">> /\ "evm" \notin tx'.msgs /\ ~tx'.nested
            /\ \A i \in DOMAIN tx'.opts : tx'.opts[i] = "dynamicFee"
            /\ tx'.msgs # {} /\ tx'.fee <= store'.bal[tx'.signer]
        BY <1>2, <1>7 DEF Known
      <3>8. Known(9)'
        BY <3>4, <3>5, <3>6, <3>7 DEF Known
      <3> QED BY <1>3, <1>7, <3>8
    <2>3. CASE ~tx.carriesKey
      BY <1>2, <1>3, <1>7, <2>1, <2>3 DEF Known
    <2> QED BY <2>2, <2>3
  <1>8. CASE n \in {9, 10}
    <2>1. branch' = branch
      BY <1>2, <1>8, DecoratorsChange, TheList DEF d, CosmosNames
    <2>2. /\ n = 9 => KeyType[tx.signer] # "ed25519"
          /\ n = 10 => tx.nonce = branch.seq[tx.signer] /\ tx.by = tx.signer
      BY <1>2, DecoratorsAdmit, TheList DEF d, SigVerificationGasConsumer, IsNext
    <2> QED BY <1>2, <1>3, <1>8, <2>1, <2>2 DEF Known
  <1>9. CASE n = 11
    <2>1. branch' = [branch EXCEPT !.seq[tx.signer] = @ + 1]
      BY <1>2, <1>9, DecoratorsChange, TheList DEF d
    <2>2. /\ branch'.seq = [branch.seq EXCEPT ![tx.signer] = @ + 1]
          /\ branch'.bal = branch.bal /\ branch'.pot = branch.pot
          /\ branch'.known = branch.known
      BY <2>1 DEF Typed, Store
    <2>3. tx.msgs = {"sdk"}
      BY <1>4, <1>9 DEF Known
    <2>4. Sound(tx)
      BY <1>9, <2>3 DEF Known, Sound
    <2>5. Sound(tx)'
      BY <1>2, <2>4 DEF Sound
    <2>6. ShowsKey(tx)' <=> tx.carriesKey
      BY <1>2, <1>9 DEF ShowsKey, Known
    <2> QED BY <1>2, <1>3, <1>9, <2>2, <2>5, <2>6 DEF Known, Admitted
  <1> QED BY <1>5, <1>6, <1>7, <1>8, <1>9

-----------------------------------------------------------------------------
\* The invariant holds at the start.
LEMMA PipeInit == Init => PipeInv
  <1> SUFFICES ASSUME Init PROVE PipeInv
    OBVIOUS
  <1>1. Typed
    BY PipelineAssumption, EmptySeq DEF Init, Typed, Store
  <1>2. AtWork
    BY DEF Init, AtWork
  <1>3. Numbered
    <2>1. \A a \in Account : ran[a] = <<>> /\ store.seq[a] = 0
      BY DEF Init
    <2>2. Len(<<>>) = 0 /\ 1..0 = {}
      BY EmptySeq
    <2> QED BY <2>1, <2>2 DEF Numbered
  <1> QED BY <1>1, <1>2, <1>3 DEF PipeInv

\* A step that leaves the transaction at work alone, or ends it.
LEMMA QuietStep ==
  ASSUME PipeInv, UNCHANGED <<store, ran>>, height' \in 1..MaxHeight, branch' \in Store,
         \/ UNCHANGED <<tx, chain, branch>>
         \/ tx' = NoTx /\ chain' = Idle
  PROVE  PipeInv'
  <1>1. Typed' /\ Numbered'
    BY DEF PipeInv, Typed, Numbered
  <1>2. CASE tx' = NoTx /\ chain' = Idle
    BY <1>1, <1>2 DEF PipeInv, AtWork
  <1>3. CASE UNCHANGED <<tx, chain, branch>>
    <2>1. UNCHANGED <<tx, chain, branch, store>>
      BY <1>3
    <2>2. AtWork
      BY DEF PipeInv
    <2>3. AtWork'
      BY <2>1, <2>2 DEF AtWork, OnNoRoute, OnEthRoute, OnCosmosRoute, Admitted, Known, Sound, ShowsKey
    <2> QED BY <1>1, <2>3 DEF PipeInv
  <1> QED BY <1>2, <1>3

\* The router.
LEMMA RouteStep ==
  ASSUME PipeInv, NEW t \in Tx, Route(t)
  PROVE  PipeInv'
  <1>1. Typed' /\ Numbered'
    BY DEF PipeInv, Typed, Numbered, Route
  <1>2. tx' = t /\ branch' = store /\ store' = store /\ chain' = NewAnteHandler(t.opts)
    BY DEF Route
  <1>3. t.opts \in Seq({"ethereum", "dynamicFee", "unknown"})
    BY TxIs
  <1>4. CASE t.opts = <<>> \/ Head(t.opts) = "dynamicFee"
    <2>1. t.opts # <<"ethereum">>
      <3>1. <<"ethereum">> # <<>> /\ Head(<<"ethereum">>) = "ethereum"
        OBVIOUS
      <3> QED BY <1>4, <3>1
    <2>2. chain' = CosmosFrom(1)
      BY <1>2, <1>4, CosmosList DEF NewAnteHandler
    <2>3. Known(1)'
      BY <1>2, <2>1 DEF Known
    <2> QED BY <1>1, <1>2, <2>2, <2>3 DEF PipeInv, AtWork, OnCosmosRoute
  <1>5. CASE t.opts # <<>> /\ Head(t.opts) = "ethereum"
    BY <1>1, <1>2, <1>5 DEF PipeInv, AtWork, OnEthRoute, NewAnteHandler, newEthAnteHandler
  <1>6. CASE t.opts # <<>> /\ Head(t.opts) \notin {"ethereum", "dynamicFee"}
    BY <1>1, <1>2, <1>6 DEF PipeInv, AtWork, OnNoRoute, NewAnteHandler
  <1> QED BY <1>4, <1>5, <1>6

\* A decorator.
LEMMA PassStep ==
  ASSUME PipeInv, Pass
  PROVE  PipeInv'
  <1>1. tx \in Tx /\ (OnEthRoute \/ OnCosmosRoute)
    BY DEF PipeInv, AtWork, OnNoRoute, Pass
  <1>2. tx' = tx /\ UNCHANGED <<height, store, ran>>
    BY DEF Pass
  <1>3. Head(chain) \in CosmosNames \cup {"EVMMono"}
    <2>1. CASE OnEthRoute
      BY <2>1 DEF OnEthRoute, newEthAnteHandler
    <2>2. CASE OnCosmosRoute
      BY <2>2, CosmosList, HeadTailProperties DEF OnCosmosRoute
    <2> QED BY <1>1, <2>1, <2>2
  <1>4. branch' \in Store
    BY <1>1, <1>3, ChangedTyped DEF PipeInv, Typed, Pass
  <1>5. Typed' /\ Numbered'
    BY <1>2, <1>4 DEF PipeInv, Typed, Numbered
  <1>6. CASE OnEthRoute
    BY <1>1, <1>2, <1>5, <1>6, PassEth DEF PipeInv, AtWork
  <1>7. CASE OnCosmosRoute
    <2>1. PICK n \in 1..11 : chain = CosmosFrom(n) /\ Known(n)
      BY <1>7 DEF OnCosmosRoute
    <2>2. IF n = 11 THEN chain' = <<>> /\ Admitted' ELSE chain' = CosmosFrom(n + 1) /\ Known(n + 1)'
      BY <1>1, <2>1, PassCosmos DEF PipeInv
    <2>3. CASE n = 11
      BY <1>1, <1>2, <1>5, <2>2, <2>3 DEF PipeInv, AtWork
    <2>4. CASE n # 11
      <3>1. n + 1 \in 1..11
        BY <2>4
      <3>2. OnCosmosRoute'
        BY <2>2, <2>4, <3>1 DEF OnCosmosRoute
      <3> QED BY <1>1, <1>2, <1>5, <3>2 DEF PipeInv, AtWork
    <2> QED BY <2>3, <2>4
  <1> QED BY <1>1, <1>6, <1>7

\* The write-back.
LEMMA LetThroughStep ==
  ASSUME PipeInv, LetThrough
  PROVE  PipeInv' /\ tx \in Tx /\ Admitted
  <1>1. tx \in Tx /\ Admitted
    BY Distinct DEF PipeInv, AtWork, OnNoRoute, OnEthRoute, OnCosmosRoute, LetThrough
  <1> DEFINE s == tx.signer
  <1>2. s \in Account /\ tx.nonce = store.seq[s] /\ branch.seq = [store.seq EXCEPT ![s] = @ + 1]
    BY <1>1, TxIs DEF Admitted
  <1>3. store' = branch /\ branch' = branch /\ ran' = [ran EXCEPT ![s] = Append(@, tx)]
        /\ height' = height
    BY DEF LetThrough
  <1>4. Typed'
    BY <1>1, <1>2, <1>3, AppendProperties DEF PipeInv, Typed
  <1>5. ASSUME NEW a \in Account
        PROVE  /\ store'.seq[a] = Len(ran'[a])
               /\ \A i \in 1..Len(ran'[a]) : ran'[a][i].nonce = i - 1
    <2>1. /\ ran[a] \in Seq(Tx) /\ store.seq[a] = Len(ran[a])
          /\ \A i \in 1..Len(ran[a]) : ran[a][i].nonce = i - 1
          /\ store.seq \in [Account -> Nat]
      BY DEF PipeInv, Typed, Numbered, Store
    <2>2. CASE a # s
      BY <1>2, <1>3, <2>1, <2>2 DEF PipeInv, Typed
    <2>3. CASE a = s
      <3>1. ran'[a] = Append(ran[a], tx) /\ store'.seq[a] = store.seq[a] + 1
        BY <1>2, <1>3, <2>1, <2>3 DEF PipeInv, Typed
      <3>2. /\ Len(ran'[a]) = Len(ran[a]) + 1 /\ Len(ran[a]) \in Nat
            /\ \A i \in 1..Len(ran[a]) : ran'[a][i] = ran[a][i]
            /\ ran'[a][Len(ran[a]) + 1] = tx
        BY <1>1, <2>1, <3>1, AppendProperties
      <3>3. tx.nonce = Len(ran[a])
        BY <1>2, <2>1, <2>3
      <3>4. ASSUME NEW i \in 1..Len(ran'[a]) PROVE ran'[a][i].nonce = i - 1
        <4>1. CASE i = Len(ran[a]) + 1
          BY <3>2, <3>3, <4>1
        <4>2. CASE i \in 1..Len(ran[a])
          BY <2>1, <3>2, <4>2
        <4> QED BY <3>2, <4>1, <4>2
      <3> QED BY <2>1, <3>1, <3>2, <3>4
    <2> QED BY <2>2, <2>3
  <1>6. Numbered'
    BY <1>5 DEF Numbered
  <1>7. AtWork'
    BY DEF LetThrough, Leave, AtWork
  <1> QED BY <1>1, <1>4, <1>6, <1>7 DEF PipeInv

\* Every step keeps the invariant.
LEMMA PipeNext == PipeInv /\ [Next]_vars => PipeInv'
  <1> SUFFICES ASSUME PipeInv, [Next]_vars PROVE PipeInv'
    OBVIOUS
  <1>0. height \in 1..MaxHeight /\ branch \in Store /\ store \in Store
    BY DEF PipeInv, Typed
  <1>1. CASE NextBlock
    BY <1>0, <1>1, QuietStep, PipelineAssumption DEF NextBlock
  <1>2. ASSUME NEW t \in Tx, Route(t) PROVE PipeInv'
    BY <1>2, RouteStep
  <1>3. CASE Pass
    BY <1>3, PassStep
  <1>4. CASE Refuse
    BY <1>0, <1>4, QuietStep DEF Refuse, Leave
  <1>5. CASE LetThrough
    BY <1>5, LetThroughStep
  <1>6. CASE UNCHANGED vars
    BY <1>0, <1>6, QuietStep DEF vars
  <1> QED BY <1>1, <1>2, <1>3, <1>4, <1>5, <1>6 DEF Next

\* The invariant the theorems rest on, whatever the accounts, the transactions
\* and the number of blocks (app/ante/ante.go:15-53 and the lists of
\* app/ante/handler_options.go:67-99).
THEOREM PipeInvHolds == Spec => []PipeInv
  BY PipeInit, PipeNext, PTL DEF Spec

-----------------------------------------------------------------------------
\* Types, the chain of decorators included (app/ante/handler_options.go:67-99).
THEOREM TypeCorrect == Spec => []TypeOK
  <1>1. PipeInv => TypeOK
    <2> SUFFICES ASSUME PipeInv PROVE TypeOK
      OBVIOUS
    <2>1. \A n \in 1..11 : CosmosFrom(n) \in Seq(Names)
      <3>1. CosmosNames \subseteq Names
        BY DecoratorsChange DEF Names
      <3>2. \A s \in Seq(CosmosNames) : s \in Seq(Names)
        BY <3>1
      <3> QED BY <3>2, CosmosList
    <2>2. newEthAnteHandler \in Seq(Names) /\ <<>> \in Seq(Names)
      <3>1. "EVMMono" \in Names
        BY DecoratorsChange DEF Names
      <3> QED BY <3>1 DEF newEthAnteHandler
    <2>3. \/ tx = NoTx /\ chain = Idle
          \/ tx \in Tx /\ (chain = Refused \/ chain \in Seq(Names))
      BY <2>1, <2>2 DEF PipeInv, AtWork, OnNoRoute, OnEthRoute, OnCosmosRoute
    <2> QED BY <2>3 DEF PipeInv, Typed, TypeOK
  <1> QED BY <1>1, PipeInvHolds, PTL

\* No two transactions of an account get through with the same sequence,
\* whichever routes they took (the one sequence both lists of
\* app/ante/handler_options.go:67-99 read and raise): the sequence numbers them.
THEOREM NoReplay == Spec => []AtMostOnce
  <1>1. PipeInv => AtMostOnce
    <2> SUFFICES ASSUME PipeInv, NEW a \in Account, NEW i \in DOMAIN ran[a],
                        NEW j \in DOMAIN ran[a], ran[a][i].nonce = ran[a][j].nonce
                 PROVE  i = j
      BY DEF AtMostOnce
    <2>1. ran[a] \in Seq(Tx)
      BY DEF PipeInv, Typed
    <2>2. i \in 1..Len(ran[a]) /\ j \in 1..Len(ran[a])
      BY <2>1
    <2>3. ran[a][i].nonce = i - 1 /\ ran[a][j].nonce = j - 1
      BY <2>2 DEF PipeInv, Numbered
    <2>4. i - 1 = j - 1
      BY <2>3, Zenon
    <2>5. i \in Int /\ j \in Int
      BY <2>2
    <2> QED BY <2>4, <2>5
  <1> QED BY <1>1, PipeInvHolds, PTL

\* Nobody is turned away for the order of the decorators
\* (app/ante/handler_options.go:90): what the decorators before it have
\* recorded is what each of them needs to let a transaction that is due pass.
THEOREM RefusalsHaveCause == Spec => []RefusedForCause
  <1>1. PipeInv => RefusedForCause
    <2> SUFFICES ASSUME PipeInv, Stops, Due(tx) PROVE FALSE
      BY DEF RefusedForCause
    <2>1. tx \in Tx /\ (OnNoRoute \/ OnEthRoute \/ OnCosmosRoute)
      BY Distinct DEF PipeInv, AtWork, Stops
    <2>2. Head(<<"ethereum">>) = "ethereum"
      OBVIOUS
    <2>3. tx.opts # <<>> => 1 \in DOMAIN tx.opts /\ tx.opts[1] = Head(tx.opts)
      BY <2>1, TxIs
    <2>4. CASE OnNoRoute
      BY <2>2, <2>3, <2>4 DEF OnNoRoute, Due, Sound
    <2>5. CASE OnEthRoute
      <3>1. Head(chain) = "EVMMono" /\ ~Admits["EVMMono"]
        BY <2>5, Distinct DEF OnEthRoute, newEthAnteHandler, Stops, Refused
      <3>2. ~\A i \in DOMAIN tx.opts : tx.opts[i] = "dynamicFee"
        BY <2>3, <2>5 DEF OnEthRoute
      <3>3. Admits["EVMMono"]
        BY <2>5, <3>2, DecoratorsAdmit DEF OnEthRoute, Due, Sound, IsNext, CanPay
      <3> QED BY <3>1, <3>3
    <2>6. CASE OnCosmosRoute
      <3>1. PICK n \in 1..11 : chain = CosmosFrom(n) /\ Known(n)
        BY <2>6 DEF OnCosmosRoute
      <3>2. ~Admits[newCosmosAnteHandler[n]]
        BY <3>1, Distinct, CosmosList DEF Stops
      <3>3. /\ tx.msgs = {"sdk"} /\ ~tx.nested /\ tx.by = tx.signer
            /\ \A i \in DOMAIN tx.opts : tx.opts[i] = "dynamicFee"
            /\ KeyType[tx.signer] \in {"ethsecp256k1", "secp256k1"}
            /\ tx.carriesKey \/ store.known[tx.signer]
        BY <2>1, <3>1, TxIs DEF Known, Due, Sound
      <3>4. n > 8 => branch.known[tx.signer]
        BY <3>1, <3>3 DEF Known
      <3>5. CASE n \in 1..6
        BY <3>2, <3>3, <3>5, DecoratorsAdmit, TheList DEF Due
      <3>6. CASE n = 7
        BY <3>1, <3>2, <3>6, DecoratorsAdmit, TheList DEF Due, CanPay, Known
      <3>7. CASE n = 8
        BY <3>2, <3>3, <3>7, DecoratorsAdmit, TheList
      <3>8. CASE n = 9
        BY <3>2, <3>3, <3>4, <3>8, DecoratorsAdmit, TheList DEF SigVerificationGasConsumer
      <3>9. CASE n \in {10, 11}
        BY <3>1, <3>2, <3>3, <3>4, <3>9, DecoratorsAdmit, TheList DEF Due, IsNext, Known
      <3> QED BY <3>5, <3>6, <3>7, <3>8, <3>9
    <2> QED BY <2>1, <2>4, <2>5, <2>6
  <1> QED BY <1>1, PipeInvHolds, PTL

\* The pipeline implements the ledger: the step that writes the branch back is
\* the ledger's, and all others are invisible to it (app/ante/ante.go:15-53).
THEOREM PipelineIsLedger == Spec => ImplementsLedger
  <1>1. Init => Ledger!LedgerInit
    BY DEF Init, Ledger!LedgerInit
  <1>2. PipeInv /\ [Next]_vars => [\E t \in Tx : Ledger!LetThrough(t)]_(Ledger!ledger)
    <2> SUFFICES ASSUME PipeInv, [Next]_vars
                 PROVE  [\E t \in Tx : Ledger!LetThrough(t)]_(Ledger!ledger)
      OBVIOUS
    <2>1. CASE LetThrough
      <3>1. tx \in Tx /\ Admitted
        BY <2>1, LetThroughStep
      <3>2. store' = branch /\ ran' = [ran EXCEPT ![tx.signer] = Append(@, tx)]
        BY <2>1 DEF LetThrough
      <3>3. Ledger!LetThrough(tx)
        BY <3>1, <3>2 DEF Admitted, Ledger!LetThrough
      <3> QED BY <3>1, <3>3
    <2>2. CASE UNCHANGED <<store, ran>>
      BY <2>2 DEF Ledger!ledger
    <2> QED BY <2>1, <2>2 DEF Next, NextBlock, Route, Pass, Refuse, vars
  <1> QED BY <1>1, <1>2, PipeInvHolds, PTL DEF Spec, ImplementsLedger, Ledger!LedgerSpec
=============================================================================
