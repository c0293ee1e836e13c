---------------------------- MODULE MCTxPipeline ----------------------------
(* Two accounts, two sequences each, and the same transaction in the forms *)
(* a proposer may give it: proper ones of both routes, and ones with one   *)
(* thing wrong.                                                            *)
EXTENDS TxPipeline

Plain(a, n) ==
  [opts |-> <<>>, msgs |-> {"sdk"}, nested |-> FALSE, signer |-> a, nonce |-> n,
   fee |-> 1, timeout |-> 0, by |-> a, carriesKey |-> TRUE]
Evm(a, n) == [Plain(a, n) EXCEPT !.opts = <<"ethereum">>, !.msgs = {"evm"}]

Forms(a, n) ==
  LET p == Plain(a, n) e == Evm(a, n)
  IN  {p, e, [p EXCEPT !.opts = <<"dynamicFee">>], [p EXCEPT !.carriesKey = FALSE],
       [p EXCEPT !.timeout = 1], [p EXCEPT !.fee = 2], [p EXCEPT !.nested = TRUE],
       [p EXCEPT !.opts = <<"unknown">>], [p EXCEPT !.opts = <<"dynamicFee", "unknown">>],
       [e EXCEPT !.opts = <<"ethereum", "unknown">>], [e EXCEPT !.msgs = {"evm", "sdk"}],
       [e EXCEPT !.opts = <<>>], [e EXCEPT !.opts = <<"dynamicFee">>]}
      \cup {[t EXCEPT !.by = b] : t \in {p, e, [p EXCEPT !.carriesKey = FALSE]}, b \in Account \ {a}}

MCTx == UNION {Forms(a, n) : a \in Account, n \in 0..1}
MCKeyType == [a \in Account |-> IF a = "ann" THEN "ethsecp256k1" ELSE "secp256k1"]
=============================================================================
