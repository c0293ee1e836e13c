--------------------------- MODULE MCAuthzLimiter ---------------------------
(* Every transaction of NumMsgs messages over two type URLs, one disabled. *)
EXTENDS AuthzLimiter

MCUrl == {"MsgSend", "MsgEthereumTx"}
MCDisabled == {"MsgEthereumTx"}

\* The url of a MsgExec, or of what cannot be decoded, makes no difference.
MCMsg == {m \in [kind : Kind, url : MCUrl] :
            m.kind \in {"exec", "unreadable"} => m.url = "MsgSend"}

\* One numbering for each tree: level by level.
Shapes == {p \in [Node -> 0..(NumMsgs - 1)] :
             \A n \in Node : /\ p[n] < n
                             /\ n > 1 => p[n - 1] <= p[n]}

MCTxs == {t \in [parent : Shapes, msg : [Node -> MCMsg]] :
            \A n \in Node : t.parent[n] # 0 => t.msg[t.parent[n]].kind = "exec"}
=============================================================================
