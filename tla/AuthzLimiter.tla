---------------------------- MODULE AuthzLimiter ----------------------------
(***************************************************************************)
(* AuthzLimiterDecorator of app/ante/authz.go.  checkDisabledMsgs calls    *)
(* itself on the messages a MsgExec wraps; the model keeps the call stack  *)
(* explicitly, one frame per active call, and one step is one turn of the  *)
(* loop of the innermost call or its return.                               *)
(***************************************************************************)
EXTENDS AuthzMsgs, Sequences

VARIABLES
  tx,        \* the transaction, fixed throughout
  stack,     \* the active calls of checkDisabledMsgs, innermost last
  verdict,   \* what AnteHandle has decided
  checked    \* history: the messages some loop has passed

vars == <<tx, stack, verdict, checked>>

Failures == {"tooNested", "undecodable", "disabled"}

\* A call: the messages it has still to look at, isAuthzInnerMsg, nestedLvl.
Frame == [todo : SUBSET Node, inner : BOOLEAN, lvl : 1..(MaxNestedMsgs - 1)]

TypeOK ==
  /\ tx \in Txs
  /\ stack \in Seq(Frame)
  /\ verdict \in {"idle", "checking", "accepted"} \cup Failures
  /\ checked \in SUBSET Node

Top == stack[Len(stack)]

Init ==
  /\ tx \in Txs
  /\ stack = <<>>
  /\ verdict = "idle"
  /\ checked = {}

-----------------------------------------------------------------------------

\* An error of the innermost call is returned by every caller up to AnteHandle.
Fail(why) ==
  /\ verdict' = why
  /\ stack' = <<>>
  /\ UNCHANGED <<tx, checked>>

Mut_CallWithoutCap(callers, msgs, inner, lvl) ==
  /\ stack' = Append(callers, [todo |-> msgs, inner |-> inner, lvl |-> lvl])
  /\ verdict' = "checking"

Mut_CallCapOffByOne(callers, msgs, inner, lvl) ==
  IF lvl + 1 >= MaxNestedMsgs
  THEN stack' = <<>> /\ verdict' = "tooNested"
  ELSE Mut_CallWithoutCap(callers, msgs, inner, lvl)

\* checkDisabledMsgs(msgs, inner, lvl) called from the frames `callers`.
Call(callers, msgs, inner, lvl) ==
  IF lvl >= MaxNestedMsgs
  THEN stack' = <<>> /\ verdict' = "tooNested"
  ELSE /\ stack' = Append(callers, [todo |-> msgs, inner |-> inner, lvl |-> lvl])
       /\ verdict' = "checking"

AnteHandle ==
  /\ verdict = "idle"
  /\ Call(<<>>, Inner(tx, TopLevel), FALSE, 1)
  /\ UNCHANGED <<tx, checked>>

\* n is the message the innermost loop looks at next.
IsNext(n) ==
  /\ verdict = "checking"
  /\ n \in Top.todo
  /\ \A m \in Top.todo : n <= m

\* The loop goes on to the message after n.
Pass(n) ==
  /\ stack' = [stack EXCEPT ![Len(stack)].todo = @ \ {n}]
  /\ checked' = checked \cup {n}
  /\ UNCHANGED <<tx, verdict>>

Mut_CheckExecNotInner(n) ==
  /\ IsNext(n)
  /\ tx.msg[n].kind = "exec"
  /\ Call([stack EXCEPT ![Len(stack)].todo = @ \ {n}, ![Len(stack)].lvl = @ + 1],
          Inner(tx, n), FALSE, Top.lvl + 1)
  /\ checked' = checked \cup {n}
  /\ UNCHANGED tx

Mut_CheckExecSameLevel(n) ==
  /\ IsNext(n)
  /\ tx.msg[n].kind = "exec"
  /\ Call([stack EXCEPT ![Len(stack)].todo = @ \ {n}],
          Inner(tx, n), TRUE, Top.lvl)
  /\ checked' = checked \cup {n}
  /\ UNCHANGED tx

\* nestedLvl++ is the caller's own variable: the messages that follow the
\* MsgExec in the same list are looked at one level deeper too.
CheckExec(n) ==
  /\ IsNext(n)
  /\ tx.msg[n].kind = "exec"
  /\ Call([stack EXCEPT ![Len(stack)].todo = @ \ {n}, ![Len(stack)].lvl = @ + 1],
          Inner(tx, n), TRUE, Top.lvl + 1)
  /\ checked' = checked \cup {n}
  /\ UNCHANGED tx

CheckUnreadable(n) ==
  /\ IsNext(n)
  /\ tx.msg[n].kind = "unreadable"
  /\ Fail("undecodable")

Mut_CheckGrantAny(n) ==
  /\ IsNext(n)
  /\ tx.msg[n].kind = "grant"
  /\ Pass(n)

CheckGrant(n) ==
  /\ IsNext(n)
  /\ tx.msg[n].kind = "grant"
  /\ IF isDisabledMsg(tx.msg[n].url) THEN Fail("disabled") ELSE Pass(n)

CheckOther(n) ==
  /\ IsNext(n)
  /\ tx.msg[n].kind = "other"
  /\ IF Top.inner /\ isDisabledMsg(tx.msg[n].url) THEN Fail("disabled") ELSE Pass(n)

\* The innermost call returns nil; the outermost one lets AnteHandle go on.
Return ==
  /\ verdict = "checking"
  /\ Top.todo = {}
  /\ stack' = SubSeq(stack, 1, Len(stack) - 1)
  /\ verdict' = IF Len(stack) = 1 THEN "accepted" ELSE "checking"
  /\ UNCHANGED <<tx, checked>>

Step ==
  \/ AnteHandle
  \/ Return
  \/ \E n \in Node :
       CheckExec(n) \/ CheckUnreadable(n) \/ CheckGrant(n) \/ CheckOther(n)

\* The check is over: next(ctx, tx, simulate) or the error, for good.
Decided ==
  /\ verdict \in {"accepted"} \cup Failures
  /\ UNCHANGED vars

Next == Step \/ Decided

\* The call runs to its end on the goroutine that handles the transaction.
Spec == Init /\ [][Next]_vars /\ WF_vars(Step)

-----------------------------------------------------------------------------

(* A transaction that passes holds, at whatever depth of MsgExecs, no      *)
(* message and no grant of a disabled type and nothing undecodable: the    *)
(* reason the decorator exists (app/ante/authz.go:15).                     *)
AcceptedIsClean == verdict = "accepted" => Clean(tx)

(* A refusal has the cause it names: a nesting refusal needs a transaction *)
(* with at least MaxNestedMsgs - 1 MsgExecs, and the other two a message   *)
(* that is disabled or undecodable (app/ante/authz.go:44-72).              *)
RejectedForCause ==
  /\ verdict = "tooNested" => Crowded(tx)
  /\ verdict = "disabled" => \E n \in Node : Forbidden(tx, n)
  /\ verdict = "undecodable" => \E n \in Node : tx.msg[n].kind = "unreadable"

(* The recursion never gets deeper than the cap, however the attempted     *)
(* transaction nests its messages (app/ante/authz.go:41-46).               *)
RecursionIsBounded == Len(stack) < MaxNestedMsgs \/ stack = <<>>

\* What the caller of the decorator can tell of the check.
Outcome ==
  CASE verdict \in {"idle", "checking"} -> "pending"
    [] verdict = "accepted" -> "accepted"
    [] OTHER -> "rejected"

Policy == INSTANCE AuthzPolicy WITH outcome <- Outcome

(* The traversal implements the order-free promise of AuthzPolicy, and     *)
(* always reaches a decision.                                              *)
ImplementsPolicy == Policy!PolicySpec
=============================================================================
