------------------------------ MODULE AuthzMsgs ------------------------------
(***************************************************************************)
(* The messages of one Cosmos transaction as app/ante/authz.go sees them:  *)
(* a tree whose inner nodes are authz MsgExec messages.  The nodes are     *)
(* numbered as the transaction lays them out, so that a parent has a       *)
(* smaller number than the messages it wraps and the messages of one list  *)
(* are visited in increasing order.                                        *)
(***************************************************************************)
EXTENDS Naturals, FiniteSets

CONSTANTS
  NumMsgs,            \* how many messages a transaction holds, at any depth
  Url,                \* the type URLs that occur
  DisabledMsgTypes,   \* the URLs NewAuthzLimiterDecorator is given
  MaxNestedMsgs,      \* maxNestedMsgs, 7 in the code
  Txs                 \* the transactions considered

Node == 1..NumMsgs
TopLevel == 0         \* the parent of a message of tx.GetMsgs()

\* "unreadable" is a MsgExec whose GetMessages, or a MsgGrant whose
\* GetAuthorization, returns an error.  The url of a grant is the one it
\* authorizes, that of any other message its own.
Kind == {"exec", "grant", "other", "unreadable"}
Msg == [kind : Kind, url : Url]

\* Only a MsgExec wraps messages.
WellFormed(t) ==
  /\ t \in [parent : [Node -> Node \cup {TopLevel}], msg : [Node -> Msg]]
  /\ \A n \in Node :
       /\ t.parent[n] < n
       /\ t.parent[n] # TopLevel => t.msg[t.parent[n]].kind = "exec"

ASSUME MsgsAssumption ==
  /\ NumMsgs \in Nat
  /\ MaxNestedMsgs \in Nat
  /\ DisabledMsgTypes \subseteq Url
  /\ \A t \in Txs : WellFormed(t)

-----------------------------------------------------------------------------

\* msg.GetMessages() of exec n; tx.GetMsgs() when n is TopLevel.
Inner(t, n) == {m \in Node : t.parent[m] = n}

Execs(t) == {n \in Node : t.msg[n].kind = "exec"}

isDisabledMsg(url) == url \in DisabledMsgTypes

\* Message n asks authz to run, or to let somebody run, a disabled type.
Forbidden(t, n) ==
  /\ isDisabledMsg(t.msg[n].url)
  /\ \/ t.msg[n].kind = "grant"
     \/ t.msg[n].kind = "other" /\ t.parent[n] # TopLevel

\* Nothing at any depth is forbidden or undecodable.
Clean(t) ==
  \A n \in Node : t.msg[n].kind # "unreadable" /\ ~Forbidden(t, n)

\* The transaction has enough MsgExecs to reach the cap at all.
Crowded(t) == Cardinality(Execs(t)) + 1 >= MaxNestedMsgs
=============================================================================
