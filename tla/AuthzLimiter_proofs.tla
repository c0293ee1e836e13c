------------------------ MODULE AuthzLimiter_proofs ------------------------
(***************************************************************************)
(* Proofs about AuthzLimiter, for every transaction, every set of disabled *)
(* types and every cap.                                                    *)
(***************************************************************************)
EXTENDS AuthzLimiter, FiniteSetTheorems, SequenceTheorems,
        WellFoundedInduction, TLAPS

Running == verdict = "checking"

\* While the check runs there is an innermost call; otherwise there is none.
StackInv == (stack # <<>>) <=> Running

\* Only the outermost call looks at the messages of the transaction itself.
InnerInv ==
  \A i \in 1..Len(stack) : \A n \in stack[i].todo :
    stack[i].inner <=> tx.parent[n] # TopLevel

\* Once its parent has been passed, a message has been passed or is waiting in
\* the list of some active call.
CoverInv ==
  /\ verdict = "idle" => checked = {}
  /\ verdict \in {"checking", "accepted"} =>
    \A n \in Node :
      (tx.parent[n] = TopLevel \/ tx.parent[n] \in checked) =>
        n \in checked \/ \E i \in 1..Len(stack) : n \in stack[i].todo

\* What has been passed is harmless.
CheckedInv ==
  \A n \in checked : tx.msg[n].kind # "unreadable" /\ ~Forbidden(tx, n)

SafetyInv == TypeOK /\ StackInv /\ InnerInv /\ CoverInv /\ CheckedInv

-----------------------------------------------------------------------------

(* A nonempty set of messages has a first one in transaction order: the    *)
(* intervals 1..k below its members are well-founded by strict inclusion.  *)
LEMMA FirstNode ==
  ASSUME NEW S \in SUBSET Nat, S # {}
  PROVE  \E x \in S : \A y \in S : x <= y
<1> DEFINE T == {1..k : k \in S}
           R == StrictSubsetOrdering(Nat)
<1>1. IsWellFoundedOn(R, FiniteSubsetsOf(Nat))
  BY FS_StrictSubsetOrderingWellFounded
<1>2. T \subseteq FiniteSubsetsOf(Nat) /\ T # {}
  <2>1. ASSUME NEW k \in S PROVE 1..k \in FiniteSubsetsOf(Nat)
    <3>1. k \in Int /\ 1 \in Int /\ 1..k \subseteq Nat
      OBVIOUS
    <3>2. IsFiniteSet(1..k)
      BY <3>1, FS_Interval
    <3> QED BY <3>1, <3>2 DEF FiniteSubsetsOf
  <2> QED BY <2>1
<1>3. PICK X \in T : \A Y \in T : ~ (<<Y, X>> \in R)
  <2> HIDE DEF T, R
  <2> QED BY <1>1, <1>2, WFMin
<1>4. PICK x \in S : X = 1..x
  OBVIOUS
<1>5. ASSUME NEW y \in S, y < x PROVE FALSE
  <2>1. 1..y \subseteq 1..x /\ x \in 1..x /\ x \notin 1..y
    BY <1>5
  <2>2. <<1..y, X>> \in R
    BY <2>1, <1>4 DEF StrictSubsetOrdering
  <2> QED BY <1>3, <2>2
<1> QED
  BY <1>5

-----------------------------------------------------------------------------

\* The invariant holds initially.
LEMMA InitSafety == Init => SafetyInv
BY DEF Init, SafetyInv, TypeOK, StackInv, InnerInv, CoverInv, CheckedInv,
   Running, Frame

(* What the invariant says of the innermost call of a running check.       *)
LEMMA TopFrame ==
  ASSUME SafetyInv, Running
  PROVE  /\ Len(stack) \in Nat /\ Len(stack) >= 1
         /\ Top \in Frame
         /\ Top.lvl \in Nat /\ Top.lvl >= 1 /\ Top.lvl < MaxNestedMsgs
<1>1. stack \in Seq(Frame) /\ stack # <<>>
  BY DEF SafetyInv, TypeOK, StackInv
<1>2. Len(stack) \in Nat /\ Len(stack) >= 1
  BY <1>1
<1>3. Top \in Frame
  BY <1>1, <1>2 DEF Top
<1> QED
  BY <1>2, <1>3, MsgsAssumption DEF Frame

(* A failing step keeps the invariant: nothing is asked of a failed check. *)
LEMMA FailSafety ==
  ASSUME SafetyInv, NEW why \in Failures, Fail(why)
  PROVE  SafetyInv'
BY DEF SafetyInv, TypeOK, StackInv, InnerInv, CoverInv, CheckedInv, Running,
   Fail, Failures, Forbidden

\* Frame f after its loop has gone past n, at nesting level lvl.
Advanced(f, n, lvl) == [todo |-> f.todo \ {n}, inner |-> f.inner, lvl |-> lvl]

\* The frame on top after it moved on.
LEMMA AdvancedFields ==
  ASSUME NEW f, NEW n, NEW lvl
  PROVE  /\ Advanced(f, n, lvl).todo = f.todo \ {n}
         /\ Advanced(f, n, lvl).inner = f.inner
         /\ Advanced(f, n, lvl).lvl = lvl
BY DEF Advanced

\* It is the frame without n.
LEMMA AdvancedIsExcept ==
  ASSUME NEW f \in Frame, NEW n
  PROVE  [f EXCEPT !.todo = f.todo \ {n}] = Advanced(f, n, f.lvl)
<1>1. f = [todo |-> f.todo, inner |-> f.inner, lvl |-> f.lvl]
  BY DEF Frame
<1>2. PICK a, b, c : f = [todo |-> a, inner |-> b, lvl |-> c]
  BY <1>1
<1> QED
  BY <1>2 DEF Advanced

(* Passing a message changes the innermost call only.                      *)
LEMMA PassShape ==
  ASSUME SafetyInv, NEW n \in Node, IsNext(n), Pass(n)
  PROVE  /\ stack' \in Seq(Frame) /\ Len(stack') = Len(stack)
         /\ \A i \in 1..Len(stack) :
              stack'[i] = IF i = Len(stack)
                          THEN Advanced(stack[i], n, stack[i].lvl) ELSE stack[i]
<1> DEFINE k == Len(stack)
           f == Advanced(stack[k], n, stack[k].lvl)
<1>1. Running
  BY DEF IsNext, Running
<1>2. /\ k \in Nat /\ k \in 1..Len(stack) /\ stack[k] \in Frame
      /\ stack \in Seq(Frame)
  BY <1>1, TopFrame DEF Top, SafetyInv, TypeOK
<1>3. stack' = [stack EXCEPT ![k] = f] /\ f \in Frame
  <2>1. f \in Frame
    BY <1>2 DEF Frame, Advanced
  <2>2. [stack[k] EXCEPT !.todo = @ \ {n}] = f
    BY <1>2, AdvancedIsExcept
  <2>3. stack' = [stack EXCEPT ![k].todo = @ \ {n}]
    BY DEF Pass
  <2> HIDE DEF f
  <2> QED BY <2>1, <2>2, <2>3
<1> HIDE DEF k, f
<1>4. /\ stack' \in Seq(Frame) /\ Len(stack') = Len(stack)
      /\ \A i \in 1..Len(stack) : stack'[i] = IF i = k THEN f ELSE stack[i]
  BY <1>2, <1>3, ExceptSeq
<1> QED
  BY <1>4 DEF k, f

(* A MsgExec that is not refused moves its own call on, one level deeper,  *)
(* and puts a call for the messages it wraps on top.                       *)
LEMMA PushShape ==
  ASSUME SafetyInv, NEW n \in Node, CheckExec(n), ~(Top.lvl + 1 >= MaxNestedMsgs)
  PROVE  /\ stack' \in Seq(Frame) /\ Len(stack') = Len(stack) + 1
         /\ stack'[Len(stack) + 1] =
              [todo |-> Inner(tx, n), inner |-> TRUE, lvl |-> Top.lvl + 1]
         /\ \A i \in 1..Len(stack) :
              stack'[i] = IF i = Len(stack)
                          THEN Advanced(stack[i], n, Top.lvl + 1) ELSE stack[i]
         /\ verdict' = "checking"
<1> DEFINE k == Len(stack)
           f == Advanced(stack[k], n, Top.lvl + 1)
           callers == [stack EXCEPT ![k].todo = @ \ {n}, ![k].lvl = @ + 1]
           callee == [todo |-> Inner(tx, n), inner |-> TRUE, lvl |-> Top.lvl + 1]
<1>1. Running
  BY DEF CheckExec, IsNext, Running
<1>2. /\ k \in Nat /\ k \in 1..Len(stack) /\ stack[k] \in Frame
      /\ Top = stack[k] /\ stack \in Seq(Frame)
  BY <1>1, TopFrame DEF Top, SafetyInv, TypeOK
<1>3. Top.lvl + 1 \in 1..(MaxNestedMsgs - 1)
  BY <1>1, TopFrame, MsgsAssumption
<1>4. callers = [stack EXCEPT ![k] = f]
  BY <1>2 DEF Frame, Advanced
<1>5. f \in Frame /\ callee \in Frame
  <2>1. Inner(tx, n) \subseteq Node
    BY DEF Inner
  <2> QED BY <1>2, <1>3, <2>1 DEF Frame, Advanced
<1>6. stack' = Append(callers, callee) /\ verdict' = "checking"
  BY DEF CheckExec, Call
<1> HIDE DEF k, f, callers, callee
<1>7. /\ callers \in Seq(Frame) /\ Len(callers) = Len(stack)
      /\ \A i \in 1..Len(stack) : callers[i] = IF i = k THEN f ELSE stack[i]
  BY <1>2, <1>4, <1>5, ExceptSeq
<1>8. /\ stack' \in Seq(Frame) /\ Len(stack') = Len(callers) + 1
      /\ stack'[Len(callers) + 1] = callee
      /\ \A i \in 1..Len(callers) : stack'[i] = callers[i]
  BY <1>5, <1>6, <1>7
<1>9. \A i \in 1..Len(stack) : stack'[i] = IF i = k THEN f ELSE stack[i]
  BY <1>7, <1>8
<1> QED
  BY <1>6, <1>7, <1>8, <1>9 DEF k, f, callee

(* Passing the next message of the innermost loop keeps the invariant, if  *)
(* the message is harmless and wraps nothing.                              *)
LEMMA PassSafety ==
  ASSUME SafetyInv, NEW n \in Node, IsNext(n), Pass(n),
         tx.msg[n].kind \in {"grant", "other"}, ~Forbidden(tx, n)
  PROVE  SafetyInv'
<1> DEFINE k == Len(stack)
<1>1. Running /\ n \in stack[k].todo
  BY DEF IsNext, Running, Top
<1>2. k \in Nat /\ k >= 1
  BY <1>1, TopFrame
<1>3. WellFormed(tx)
  BY MsgsAssumption DEF SafetyInv, TypeOK
<1>4. stack' \in Seq(Frame) /\ Len(stack') = k /\ stack' # <<>>
  BY <1>2, PassShape
<1>5. \A i \in 1..k : /\ stack'[i].inner = stack[i].inner
                       /\ stack'[i].todo \subseteq stack[i].todo
                       /\ stack[i].todo \subseteq stack'[i].todo \cup {n}
  <2>1. \A i \in 1..Len(stack) :
          stack'[i] = IF i = Len(stack)
                      THEN Advanced(stack[i], n, stack[i].lvl) ELSE stack[i]
    BY PassShape
  <2> QED BY <2>1, AdvancedFields
<1>6. TypeOK' /\ StackInv'
  BY <1>1, <1>4 DEF SafetyInv, TypeOK, StackInv, Pass, Running
<1>7. InnerInv'
  BY <1>4, <1>5 DEF SafetyInv, InnerInv, Pass
<1>8. CoverInv'
  <2>1. \A m \in Node : tx.parent[m] # n
    BY <1>3 DEF WellFormed, Kind, Msg, TopLevel, Node
  <2> QED
    BY <1>1, <1>4, <1>5, <2>1 DEF SafetyInv, CoverInv, Pass, Running
<1>9. CheckedInv'
  BY DEF SafetyInv, CheckedInv, Pass, Forbidden
<1> QED
  BY <1>6, <1>7, <1>8, <1>9 DEF SafetyInv

(* So does looking at a MsgExec: the messages it wraps wait in the new call, *)
(* and the cap check that refuses the call refuses the transaction.          *)
LEMMA ExecSafety ==
  ASSUME SafetyInv, NEW n \in Node, CheckExec(n)
  PROVE  SafetyInv'
<1> DEFINE k == Len(stack)
<1>1. Running /\ n \in stack[k].todo /\ tx.msg[n].kind = "exec"
  BY DEF CheckExec, IsNext, Running, Top
<1>2. k \in Nat /\ k >= 1
  BY <1>1, TopFrame
<1>3. WellFormed(tx)
  BY MsgsAssumption DEF SafetyInv, TypeOK
<1>4. tx' = tx /\ checked' = checked \cup {n}
  BY DEF CheckExec
<1>5. CASE Top.lvl + 1 >= MaxNestedMsgs
  <2>1. stack' = <<>> /\ verdict' = "tooNested"
    BY <1>5 DEF CheckExec, Call
  <2> HIDE DEF k
  <2> QED
    BY <1>1, <1>4, <2>1 DEF SafetyInv, TypeOK, StackInv, InnerInv, CoverInv,
       CheckedInv, Running, Failures, Forbidden
<1>6. CASE ~(Top.lvl + 1 >= MaxNestedMsgs)
  <2>1. /\ stack' \in Seq(Frame) /\ Len(stack') = k + 1 /\ stack' # <<>>
        /\ stack'[k + 1].inner = TRUE /\ stack'[k + 1].todo = Inner(tx, n)
        /\ verdict' = "checking"
    <3>1. /\ stack' \in Seq(Frame) /\ Len(stack') = Len(stack) + 1
          /\ stack'[Len(stack) + 1] =
               [todo |-> Inner(tx, n), inner |-> TRUE, lvl |-> Top.lvl + 1]
          /\ verdict' = "checking"
      BY <1>6, PushShape
    <3> QED BY <1>2, <3>1
  <2>2. \A i \in 1..k : /\ stack'[i].inner = stack[i].inner
                         /\ stack'[i].todo \subseteq stack[i].todo
                         /\ stack[i].todo \subseteq stack'[i].todo \cup {n}
    <3>1. \A i \in 1..Len(stack) :
            stack'[i] = IF i = Len(stack)
                        THEN Advanced(stack[i], n, Top.lvl + 1) ELSE stack[i]
      BY <1>6, PushShape
    <3> QED BY <3>1, AdvancedFields
  <2>3. \A m \in Inner(tx, n) : tx.parent[m] = n /\ n # TopLevel
    BY <1>3 DEF Inner, Node, TopLevel
  <2>4. TypeOK' /\ StackInv'
    BY <1>4, <2>1 DEF SafetyInv, TypeOK, StackInv, Running
  <2>5. InnerInv'
    BY <1>2, <1>4, <2>1, <2>2, <2>3 DEF SafetyInv, InnerInv
  <2>6. CoverInv'
    <3>1. \A m \in Node : tx.parent[m] = n => m \in stack'[k + 1].todo
      BY <2>1 DEF Inner
    <3>2. k + 1 \in 1..Len(stack') /\ \A i \in 1..k : i \in 1..Len(stack')
      BY <1>2, <2>1
    <3>3. ASSUME NEW m \in Node,
                 tx.parent[m] = TopLevel \/ tx.parent[m] \in checked
          PROVE  m \in checked' \/ \E i \in 1..Len(stack') : m \in stack'[i].todo
      <4>1. m \in checked \/ \E i \in 1..k : m \in stack[i].todo
        BY <1>1, <3>3 DEF SafetyInv, CoverInv, Running
      <4> HIDE DEF k
      <4> QED BY <1>4, <2>2, <3>2, <4>1
    <3>4. ASSUME NEW m \in Node, tx.parent[m] = n
          PROVE  \E i \in 1..Len(stack') : m \in stack'[i].todo
      BY <3>1, <3>2, <3>4
    <3>5. verdict' # "idle"
      BY <2>1
    <3> HIDE DEF k
    <3> QED BY <1>4, <3>3, <3>4, <3>5 DEF CoverInv
  <2>7. CheckedInv'
    BY <1>1, <1>4 DEF SafetyInv, CheckedInv, Forbidden
  <2> QED
    BY <2>4, <2>5, <2>6, <2>7 DEF SafetyInv
<1> QED
  BY <1>5, <1>6

(* Returning drops the innermost call and nothing else.                    *)
LEMMA ReturnShape ==
  ASSUME SafetyInv, Return
  PROVE  /\ stack' \in Seq(Frame) /\ Len(stack') = Len(stack) - 1
         /\ \A i \in 1..(Len(stack) - 1) : stack'[i] = stack[i]
<1>1. Len(stack) \in Nat /\ stack \in Seq(Frame)
  BY TopFrame DEF Return, Running, SafetyInv, TypeOK
<1>2. stack' = SubSeq(stack, 1, Len(stack) - 1) /\ Len(stack) >= 1
  BY TopFrame DEF Return, Running
<1>3. \A i \in 1..(Len(stack) - 1) : stack[i] \in Frame
  BY <1>1
<1>4. 1 \in Int /\ Len(stack) - 1 \in Int
  BY <1>1
<1> DEFINE n == Len(stack) - 1
<1>5. /\ SubSeq(stack, 1, n) \in Seq(Frame)
      /\ Len(SubSeq(stack, 1, n)) = IF 1 <= n THEN n - 1 + 1 ELSE 0
      /\ \A i \in 1..(n - 1 + 1) : SubSeq(stack, 1, n)[i] = stack[1 + i - 1]
  <2> HIDE DEF n
  <2> QED BY <1>3, <1>4, SubSeqProperties DEF n
<1>6. n \in Nat /\ n - 1 + 1 = n /\ \A i \in 1..n : 1 + i - 1 = i
  BY <1>1, <1>2
<1> QED
  <2> HIDE DEF n
  <2>1. /\ stack' \in Seq(Frame) /\ Len(stack') = n
        /\ \A i \in 1..n : stack'[i] = stack[i]
    BY <1>2, <1>5, <1>6 DEF n
  <2> QED BY <2>1 DEF n

(* A call returns only when it has nothing left to look at, so no message  *)
(* is lost with its frame.                                                 *)
LEMMA ReturnSafety ==
  ASSUME SafetyInv, Return
  PROVE  SafetyInv'
<1> DEFINE k == Len(stack)
<1>1. Running /\ stack[k].todo = {}
  BY DEF Return, Running, Top
<1>2. k \in Nat /\ k >= 1 /\ stack \in Seq(Frame)
  BY <1>1, TopFrame DEF SafetyInv, TypeOK
<1>3. tx' = tx /\ checked' = checked
  BY DEF Return
<1>4. /\ stack' \in Seq(Frame) /\ Len(stack') = k - 1
      /\ \A i \in 1..(k - 1) : stack'[i] = stack[i]
  BY ReturnShape
<1>5. (stack' = <<>>) <=> (k = 1)
  BY <1>2, <1>4
<1>6. verdict' = IF k = 1 THEN "accepted" ELSE "checking"
  BY DEF Return
<1>7. TypeOK' /\ StackInv'
  BY <1>3, <1>4, <1>5, <1>6 DEF SafetyInv, TypeOK, StackInv, Running
<1>8. InnerInv'
  BY <1>2, <1>3, <1>4 DEF SafetyInv, InnerInv
<1>9. CoverInv'
  <2>1. ASSUME NEW n \in Node, NEW i \in 1..k, n \in stack[i].todo
        PROVE  i \in 1..Len(stack') /\ n \in stack'[i].todo
    BY <1>1, <1>2, <1>4, <2>1
  <2>2. ASSUME NEW n \in Node,
               tx.parent[n] = TopLevel \/ tx.parent[n] \in checked
        PROVE  n \in checked \/ \E i \in 1..Len(stack') : n \in stack'[i].todo
    <3>1. n \in checked \/ \E i \in 1..k : n \in stack[i].todo
      BY <1>1, <2>2 DEF SafetyInv, CoverInv, Running
    <3> QED BY <2>1, <3>1
  <2>3. verdict' # "idle"
    BY <1>6
  <2> HIDE DEF k
  <2> QED BY <1>3, <2>2, <2>3 DEF CoverInv
<1>10. CheckedInv'
  BY <1>3 DEF SafetyInv, CheckedInv, Forbidden
<1> QED
  BY <1>7, <1>8, <1>9, <1>10 DEF SafetyInv

\* The start of the check keeps the invariant.
LEMMA AnteHandleSafety ==
  ASSUME SafetyInv, AnteHandle
  PROVE  SafetyInv'
<1> DEFINE f == [todo |-> Inner(tx, TopLevel), inner |-> FALSE, lvl |-> 1]
<1>1. stack = <<>> /\ tx' = tx /\ checked' = checked /\ MaxNestedMsgs \in Nat
  BY MsgsAssumption DEF AnteHandle, SafetyInv, StackInv, Running
<1>2. CASE 1 >= MaxNestedMsgs
  BY <1>1, <1>2 DEF AnteHandle, Call, SafetyInv, TypeOK, StackInv, InnerInv,
     CoverInv, CheckedInv, Running, Failures, Forbidden
<1>3. CASE ~(1 >= MaxNestedMsgs)
  <2>1. f \in Frame
    BY <1>1, <1>3 DEF Frame, Inner
  <2>2. stack' = <<f>> /\ verdict' = "checking"
    BY <1>1, <1>3 DEF AnteHandle, Call
  <2>3. stack' \in Seq(Frame) /\ Len(stack') = 1 /\ stack'[1] = f
    BY <2>1, <2>2
  <2>4. TypeOK' /\ StackInv'
    BY <1>1, <2>2, <2>3 DEF SafetyInv, TypeOK, StackInv, Running
  <2>5. InnerInv'
    BY <1>1, <2>3 DEF InnerInv, Inner
  <2>6. CoverInv'
    BY <1>1, <2>2, <2>3 DEF AnteHandle, SafetyInv, CoverInv, Inner
  <2>7. CheckedInv'
    BY <1>1 DEF SafetyInv, CheckedInv, Forbidden
  <2> QED
    BY <2>4, <2>5, <2>6, <2>7 DEF SafetyInv
<1> QED
  BY <1>2, <1>3

(* Type correctness and the rest of the invariant, of every behaviour.     *)
THEOREM SafetyInvariant == Spec => []SafetyInv
<1>1. Init => SafetyInv
  BY InitSafety
<1>2. SafetyInv /\ [Next]_vars => SafetyInv'
  <2> SUFFICES ASSUME SafetyInv, [Next]_vars PROVE SafetyInv'
    OBVIOUS
  <2>1. CASE AnteHandle
    BY <2>1, AnteHandleSafety
  <2>2. CASE Return
    BY <2>2, ReturnSafety
  <2>3. ASSUME NEW n \in Node, CheckExec(n) PROVE SafetyInv'
    BY <2>3, ExecSafety
  <2>4. ASSUME NEW n \in Node, CheckUnreadable(n) PROVE SafetyInv'
    BY <2>4, FailSafety DEF CheckUnreadable, Failures
  <2>5. ASSUME NEW n \in Node, CheckGrant(n) PROVE SafetyInv'
    <3>1. IsNext(n) /\ tx.msg[n].kind = "grant"
      BY <2>5 DEF CheckGrant
    <3>2. CASE isDisabledMsg(tx.msg[n].url)
      BY <2>5, <3>2, FailSafety DEF CheckGrant, Failures
    <3>3. CASE ~isDisabledMsg(tx.msg[n].url)
      BY <2>5, <3>1, <3>3, PassSafety DEF CheckGrant, Forbidden
    <3> QED BY <3>2, <3>3
  <2>6. ASSUME NEW n \in Node, CheckOther(n) PROVE SafetyInv'
    <3>1. IsNext(n) /\ tx.msg[n].kind = "other"
      BY <2>6 DEF CheckOther
    <3>2. CASE Top.inner /\ isDisabledMsg(tx.msg[n].url)
      BY <2>6, <3>2, FailSafety DEF CheckOther, Failures
    <3>3. CASE ~(Top.inner /\ isDisabledMsg(tx.msg[n].url))
      <4>1. Top.inner <=> tx.parent[n] # TopLevel
        <5>1. Running /\ n \in stack[Len(stack)].todo
          BY <3>1 DEF IsNext, Running, Top
        <5> QED BY <5>1, TopFrame DEF SafetyInv, InnerInv, Top
      <4>2. Pass(n) /\ ~Forbidden(tx, n)
        BY <2>6, <3>1, <3>3, <4>1 DEF CheckOther, Forbidden
      <4> QED BY <3>1, <4>2, PassSafety
    <3> QED BY <3>2, <3>3
  <2>7. CASE Decided \/ UNCHANGED vars
    BY <2>7 DEF Decided, vars, SafetyInv, TypeOK, StackInv, InnerInv, CoverInv,
       CheckedInv, Running, Forbidden
  <2> QED
    BY <2>1, <2>2, <2>3, <2>4, <2>5, <2>6, <2>7 DEF Next, Step
<1> QED
  BY <1>1, <1>2, PTL DEF Spec

(* Every component of the state keeps its type; in particular no call runs *)
(* at a level the cap forbids.                                             *)
THEOREM TypeCorrect == Spec => []TypeOK
<1>1. SafetyInv => TypeOK
  BY DEF SafetyInv
<1> QED
  BY <1>1, SafetyInvariant, PTL

(* When the check accepts, every message has been passed: the first one    *)
(* missed would have a passed parent, so it would wait in an active call.  *)
LEMMA AcceptedChecksAll == SafetyInv /\ verdict = "accepted" => checked = Node
<1> SUFFICES ASSUME SafetyInv, verdict = "accepted" PROVE checked = Node
  OBVIOUS
<1>1. WellFormed(tx) /\ checked \subseteq Node /\ Node \subseteq Nat
  BY MsgsAssumption DEF SafetyInv, TypeOK, Node
<1>2. stack = <<>>
  BY DEF SafetyInv, StackInv, Running
<1>3. \A n \in Node : tx.parent[n] = TopLevel \/ tx.parent[n] \in checked
                       => n \in checked
  BY <1>2 DEF SafetyInv, CoverInv
<1>4. SUFFICES ASSUME Node \ checked # {} PROVE FALSE
  BY <1>1
<1>5. PICK n \in Node \ checked : \A m \in Node \ checked : n <= m
  BY <1>1, <1>4, FirstNode
<1>6. tx.parent[n] \in Node \cup {TopLevel} /\ tx.parent[n] < n
  BY <1>1 DEF WellFormed
<1>7. tx.parent[n] = TopLevel \/ tx.parent[n] \in checked
  BY <1>1, <1>5, <1>6 DEF Node, TopLevel
<1> QED
  BY <1>3, <1>5, <1>7

(* No transaction that passes the decorator smuggles a disabled message or *)
(* a grant of one past it, at whatever depth of MsgExecs.                  *)
THEOREM AcceptedClean == Spec => []AcceptedIsClean
<1>1. SafetyInv => AcceptedIsClean
  BY AcceptedChecksAll DEF AcceptedIsClean, SafetyInv, CheckedInv, Clean
<1> QED
  BY <1>1, SafetyInvariant, PTL

-----------------------------------------------------------------------------
(* Why a check refuses: the levels count the MsgExecs passed so far.       *)

Counted == Execs(tx) \cap checked

Waiting(n) == \E i \in 1..Len(stack) : n \in stack[i].todo

\* No message is looked at twice, and none before its parent.
OnceInv ==
  /\ \A n \in Node : Waiting(n) => n \notin checked
  /\ \A n \in Node : Waiting(n) \/ n \in checked =>
       tx.parent[n] = TopLevel \/ tx.parent[n] \in checked
  /\ \A i, j \in 1..Len(stack) : i # j => stack[i].todo \cap stack[j].todo = {}

\* nestedLvl is at least the depth of the call and at most one more than the
\* number of MsgExecs passed.
LevelInv ==
  \A i \in 1..Len(stack) :
    i <= stack[i].lvl /\ stack[i].lvl <= 1 + Cardinality(Counted)

CauseInv == SafetyInv /\ OnceInv /\ LevelInv /\ RejectedForCause

(* There are finitely many messages, so the counts are numbers.            *)
LEMMA CountedFinite ==
  ASSUME SafetyInv
  PROVE  /\ IsFiniteSet(Execs(tx)) /\ Cardinality(Execs(tx)) \in Nat
         /\ IsFiniteSet(Counted) /\ Cardinality(Counted) \in Nat
<1>1. IsFiniteSet(Node)
  BY MsgsAssumption, FS_Interval DEF Node
<1>2. Execs(tx) \in SUBSET Node
  BY DEF Execs
<1>3. IsFiniteSet(Execs(tx)) /\ Counted \in SUBSET Execs(tx)
  BY <1>1, <1>2, FS_Subset DEF Counted
<1>4. IsFiniteSet(Counted)
  BY <1>3, FS_Subset
<1> QED
  BY <1>3, <1>4, FS_CardinalityType

\* The causes hold initially.
LEMMA InitCause == Init => CauseInv
BY InitSafety DEF Init, CauseInv, OnceInv, LevelInv, RejectedForCause, Waiting

(* Steps that leave fewer or as many messages waiting, and pass no MsgExec. *)
LEMMA FailCause ==
  ASSUME CauseInv, SafetyInv', NEW why \in Failures, Fail(why), RejectedForCause'
  PROVE  CauseInv'
<1>1. stack' = <<>> /\ tx' = tx /\ checked' = checked
  BY DEF Fail
<1>2. OnceInv'
  BY <1>1 DEF CauseInv, OnceInv, Waiting
<1>3. LevelInv'
  BY <1>1 DEF LevelInv
<1> QED
  BY <1>2, <1>3 DEF CauseInv

\* A message passed keeps the causes.
LEMMA PassCause ==
  ASSUME CauseInv, SafetyInv', NEW n \in Node, IsNext(n), Pass(n),
         tx.msg[n].kind # "exec"
  PROVE  CauseInv'
<1> DEFINE k == Len(stack)
<1>1. Running /\ n \in stack[k].todo /\ SafetyInv
  BY DEF IsNext, Running, Top, CauseInv
<1>2. k \in Nat /\ k >= 1 /\ stack \in Seq(Frame)
  BY <1>1, TopFrame DEF SafetyInv, TypeOK
<1>3. tx' = tx /\ verdict' = verdict /\ checked' = checked \cup {n}
  BY DEF Pass
<1>4. /\ Len(stack') = k
      /\ \A i \in 1..k :
           /\ stack'[i].lvl = stack[i].lvl
           /\ stack'[i].todo = IF i = k THEN stack[i].todo \ {n}
                               ELSE stack[i].todo
  <2>1. Len(stack') = k
    BY <1>1, PassShape
  <2>2. \A i \in 1..Len(stack) :
          stack'[i] = IF i = Len(stack)
                      THEN Advanced(stack[i], n, stack[i].lvl) ELSE stack[i]
    BY <1>1, PassShape
  <2>3. ASSUME NEW i \in 1..k
        PROVE  /\ stack'[i].lvl = stack[i].lvl
               /\ stack'[i].todo = IF i = k THEN stack[i].todo \ {n}
                                   ELSE stack[i].todo
    <3>1. CASE i = k
      BY <2>2, <3>1, AdvancedFields
    <3>2. CASE i # k
      BY <2>2, <3>2
    <3> QED BY <3>1, <3>2
  <2> QED BY <2>1, <2>3
<1>5. OnceInv'
  <2>1. k \in 1..k /\ Waiting(n)
    BY <1>1, <1>2 DEF Waiting
  <2>2. \A m \in Node : Waiting(m)' => Waiting(m) /\ m # n
    <3>1. ASSUME NEW m \in Node, NEW i \in 1..k, m \in stack'[i].todo
          PROVE  m \in stack[i].todo /\ m # n
      BY <1>1, <1>4, <2>1, <3>1 DEF CauseInv, OnceInv
    <3> QED BY <1>4, <3>1 DEF Waiting
  <2>3. \A i, j \in 1..k : i # j => stack'[i].todo \cap stack'[j].todo = {}
    BY <1>4 DEF CauseInv, OnceInv
  <2> HIDE DEF k
  <2> QED
    BY <1>3, <1>4, <2>1, <2>2, <2>3 DEF CauseInv, OnceInv
<1>6. Counted' = Counted
  BY <1>3 DEF Counted, Execs
<1>7. LevelInv'
  BY <1>4, <1>6 DEF CauseInv, LevelInv
<1>8. RejectedForCause'
  BY <1>3 DEF CauseInv, RejectedForCause, Crowded, Execs, Forbidden
<1> QED
  BY <1>5, <1>7, <1>8 DEF CauseInv

(* A MsgExec is counted once: it was waiting, so it was not yet passed.    *)
LEMMA ExecCause ==
  ASSUME CauseInv, SafetyInv', NEW n \in Node, CheckExec(n)
  PROVE  CauseInv'
<1> DEFINE k == Len(stack)
<1>1. /\ Running /\ n \in stack[k].todo /\ SafetyInv
      /\ tx.msg[n].kind = "exec"
  BY DEF CheckExec, IsNext, Running, Top, CauseInv
<1>2. /\ k \in Nat /\ k >= 1 /\ k \in 1..k /\ stack \in Seq(Frame)
      /\ Top = stack[k] /\ Top.lvl \in Nat
      /\ MaxNestedMsgs \in Nat /\ WellFormed(tx)
  BY <1>1, TopFrame, MsgsAssumption DEF Top, SafetyInv, TypeOK
<1>3. tx' = tx /\ checked' = checked \cup {n}
  BY DEF CheckExec
<1>4. Waiting(n) /\ n \notin checked
  BY <1>1, <1>2 DEF Waiting, CauseInv, OnceInv
<1>5. Cardinality(Counted') = Cardinality(Counted) + 1
  <2>1. Counted' = Counted \cup {n} /\ n \notin Counted
    BY <1>1, <1>3, <1>4 DEF Counted, Execs
  <2> QED BY <1>1, <2>1, CountedFinite, FS_AddElement
<1>6. Cardinality(Counted) \in Nat /\ Top.lvl <= 1 + Cardinality(Counted)
      /\ k <= Top.lvl
  BY <1>1, <1>2, CountedFinite DEF CauseInv, LevelInv
<1>7. \A m \in Node : tx.parent[m] = n => ~Waiting(m) /\ m \notin checked
  BY <1>2, <1>4 DEF CauseInv, OnceInv, TopLevel, Node
<1>8. \A m \in Node : tx.parent[m] = n => m # n /\ n # TopLevel
  BY <1>2 DEF WellFormed, Node, TopLevel
<1>9. CASE Top.lvl + 1 >= MaxNestedMsgs
  <2>1. stack' = <<>> /\ verdict' = "tooNested"
    BY <1>9 DEF CheckExec, Call
  <2>2. OnceInv'
    BY <1>3, <1>4, <2>1 DEF CauseInv, OnceInv, Waiting
  <2>3. LevelInv'
    BY <2>1 DEF LevelInv
  <2>4. Crowded(tx)
    <3>1. Counted' \in SUBSET Execs(tx)
      BY <1>3 DEF Counted, Execs
    <3>2. Cardinality(Counted') <= Cardinality(Execs(tx))
      BY <1>1, <3>1, CountedFinite, FS_Subset
    <3> QED
      BY <1>1, <1>2, <1>5, <1>6, <1>9, <3>2, CountedFinite DEF Crowded
  <2> QED
    BY <1>3, <2>1, <2>2, <2>3, <2>4
    DEF CauseInv, RejectedForCause, Crowded, Execs
<1>10. CASE ~(Top.lvl + 1 >= MaxNestedMsgs)
  <2>1. verdict' = "checking"
    BY <1>1, <1>10, PushShape
  <2>2. /\ Len(stack') = k + 1
        /\ stack'[k + 1].todo = Inner(tx, n) /\ stack'[k + 1].lvl = Top.lvl + 1
        /\ \A i \in 1..k :
             /\ stack'[i].lvl = IF i = k THEN Top.lvl + 1 ELSE stack[i].lvl
             /\ stack'[i].todo = IF i = k THEN stack[i].todo \ {n}
                                 ELSE stack[i].todo
    <3>1. \A i \in 1..Len(stack) :
            stack'[i] = IF i = Len(stack)
                        THEN Advanced(stack[i], n, Top.lvl + 1) ELSE stack[i]
      BY <1>1, <1>10, PushShape
    <3>2. /\ Len(stack') = Len(stack) + 1
          /\ stack'[Len(stack) + 1] =
               [todo |-> Inner(tx, n), inner |-> TRUE, lvl |-> Top.lvl + 1]
      BY <1>1, <1>10, PushShape
    <3>3. ASSUME NEW i \in 1..k
          PROVE  /\ stack'[i].lvl = IF i = k THEN Top.lvl + 1 ELSE stack[i].lvl
                 /\ stack'[i].todo = IF i = k THEN stack[i].todo \ {n}
                                     ELSE stack[i].todo
      <4>1. CASE i = k
        BY <3>1, <4>1, AdvancedFields
      <4>2. CASE i # k
        BY <3>1, <4>2
      <4> QED BY <4>1, <4>2
    <3>4. stack'[k + 1].todo = Inner(tx, n) /\ stack'[k + 1].lvl = Top.lvl + 1
      BY <3>2
    <3>5. Len(stack') = k + 1
      BY <3>2
    <3> QED BY <3>3, <3>4, <3>5
  <2>3. \A m \in Node : Waiting(m)' => (Waiting(m) /\ m # n) \/ tx.parent[m] = n
    <3>1. ASSUME NEW m \in Node, NEW i \in 1..k, m \in stack'[i].todo
          PROVE  m \in stack[i].todo /\ m # n
      BY <1>1, <1>2, <2>2, <3>1 DEF CauseInv, OnceInv
    <3>2. \A i \in 1..Len(stack') : i \in 1..k \/ i = k + 1
      BY <1>2, <2>2
    <3> QED BY <2>2, <3>1, <3>2 DEF Waiting, Inner
  <2>4. OnceInv'
    <3>1. \A i \in 1..k : stack'[i].todo \cap Inner(tx, n) = {}
      BY <1>7, <2>2 DEF Waiting, Inner
    <3>2. \A i, j \in 1..k : i # j => stack'[i].todo \cap stack'[j].todo = {}
      BY <2>2 DEF CauseInv, OnceInv
    <3>3. \A i, j \in 1..Len(stack') :
            i # j => stack'[i].todo \cap stack'[j].todo = {}
      BY <1>2, <2>2, <3>1, <3>2
    <3>4. \A m \in Node : Waiting(m)' => m \notin checked'
      BY <1>3, <1>7, <1>8, <2>3 DEF CauseInv, OnceInv
    <3>5. \A m \in Node : Waiting(m)' \/ m \in checked' =>
            tx'.parent[m] = TopLevel \/ tx'.parent[m] \in checked'
      BY <1>3, <1>4, <2>3 DEF CauseInv, OnceInv
    <3> QED BY <3>3, <3>4, <3>5 DEF OnceInv
  <2>5. LevelInv'
    <3>1. \A i \in 1..k : /\ i <= stack[i].lvl /\ stack[i].lvl \in Nat
                           /\ stack[i].lvl <= 1 + Cardinality(Counted)
      <4>1. \A i \in 1..k : stack[i] \in Frame
        BY <1>2
      <4>2. \A i \in 1..k : stack[i].lvl \in Nat
        BY <1>2, <4>1 DEF Frame
      <4> QED BY <4>2 DEF CauseInv, LevelInv
    <3>2. \A i \in 1..(k + 1) :
            i <= stack'[i].lvl /\ stack'[i].lvl <= 1 + Cardinality(Counted')
      <4>1. ASSUME NEW i \in 1..k
            PROVE  i <= stack'[i].lvl /\ stack'[i].lvl <= 1 + Cardinality(Counted')
        <5>1. stack'[i].lvl = IF i = k THEN Top.lvl + 1 ELSE stack[i].lvl
          BY <2>2
        <5> HIDE DEF k
        <5> QED BY <1>2, <1>5, <1>6, <3>1, <5>1
      <4>2. /\ k + 1 <= stack'[k + 1].lvl
            /\ stack'[k + 1].lvl <= 1 + Cardinality(Counted')
        BY <1>2, <1>5, <1>6, <2>2
      <4>3. \A i \in 1..(k + 1) : i \in 1..k \/ i = k + 1
        BY <1>2
      <4> HIDE DEF k
      <4> QED BY <4>1, <4>2, <4>3
    <3> QED BY <2>2, <3>2 DEF LevelInv
  <2> QED
    BY <2>1, <2>4, <2>5 DEF CauseInv, RejectedForCause
<1> QED
  BY <1>9, <1>10

\* A return keeps the causes.
LEMMA ReturnCause ==
  ASSUME CauseInv, SafetyInv', Return
  PROVE  CauseInv'
<1> DEFINE k == Len(stack)
<1>1. Running /\ SafetyInv
  BY DEF Return, Running, CauseInv
<1>2. k \in Nat /\ k >= 1 /\ stack \in Seq(Frame)
  BY <1>1, TopFrame DEF SafetyInv, TypeOK
<1>3. tx' = tx /\ checked' = checked
  BY DEF Return
<1>4. Len(stack') = k - 1 /\ \A i \in 1..(k - 1) : stack'[i] = stack[i]
  BY <1>1, ReturnShape
<1>5. OnceInv'
  BY <1>2, <1>3, <1>4 DEF CauseInv, OnceInv, Waiting
<1>6. Counted' = Counted
  BY <1>3 DEF Counted, Execs
<1>7. LevelInv'
  BY <1>2, <1>4, <1>6 DEF CauseInv, LevelInv
<1>8. RejectedForCause'
  BY <1>2 DEF Return, RejectedForCause
<1> QED
  BY <1>5, <1>7, <1>8 DEF CauseInv

\* The start of the check keeps the causes.
LEMMA AnteHandleCause ==
  ASSUME CauseInv, SafetyInv', AnteHandle
  PROVE  CauseInv'
<1>1. /\ stack = <<>> /\ checked = {} /\ SafetyInv
      /\ tx' = tx /\ checked' = checked /\ MaxNestedMsgs \in Nat
  BY MsgsAssumption DEF AnteHandle, CauseInv, SafetyInv, StackInv, CoverInv, Running
<1>2. CASE 1 >= MaxNestedMsgs
  <2>1. Crowded(tx)
    BY <1>1, <1>2, CountedFinite DEF Crowded
  <2> QED
    BY <1>1, <1>2, <2>1 DEF AnteHandle, Call, CauseInv, OnceInv, LevelInv,
       Waiting, RejectedForCause, Crowded, Execs
<1>3. CASE ~(1 >= MaxNestedMsgs)
  <2>1. /\ stack' = <<[todo |-> Inner(tx, TopLevel), inner |-> FALSE, lvl |-> 1]>>
        /\ verdict' = "checking"
    BY <1>1, <1>3 DEF AnteHandle, Call
  <2>2. /\ Len(stack') = 1 /\ stack'[1].lvl = 1
        /\ stack'[1].todo = Inner(tx, TopLevel)
    BY <2>1
  <2>3. OnceInv'
    BY <1>1, <2>2 DEF OnceInv, Waiting, Inner
  <2>4. Counted' = {} /\ Cardinality(Counted') \in Nat
    BY <1>1, FS_EmptySet DEF Counted
  <2>5. LevelInv'
    BY <2>2, <2>4 DEF LevelInv
  <2> QED
    BY <2>1, <2>3, <2>5 DEF CauseInv, RejectedForCause
<1> QED
  BY <1>2, <1>3

(* A refusal has the cause it names, in every behaviour.                   *)
THEOREM CauseInvariant == Spec => []CauseInv
<1>1. Init => CauseInv
  BY InitCause
<1>2. SafetyInv /\ SafetyInv' /\ CauseInv /\ [Next]_vars => CauseInv'
  <2> SUFFICES ASSUME SafetyInv, SafetyInv', CauseInv, [Next]_vars PROVE CauseInv'
    OBVIOUS
  <2>1. CASE AnteHandle
    BY <2>1, AnteHandleCause
  <2>2. CASE Return
    BY <2>2, ReturnCause
  <2>3. ASSUME NEW n \in Node, CheckExec(n) PROVE CauseInv'
    BY <2>3, ExecCause
  <2>4. ASSUME NEW n \in Node, CheckUnreadable(n) PROVE CauseInv'
    <3>1. Fail("undecodable") /\ tx.msg[n].kind = "unreadable"
      BY <2>4 DEF CheckUnreadable
    <3>2. RejectedForCause'
      BY <3>1 DEF Fail, RejectedForCause
    <3> QED BY <3>1, <3>2, FailCause DEF Failures
  <2>5. ASSUME NEW n \in Node, CheckGrant(n) PROVE CauseInv'
    <3>1. IsNext(n) /\ tx.msg[n].kind = "grant"
      BY <2>5 DEF CheckGrant
    <3>2. CASE isDisabledMsg(tx.msg[n].url)
      <4>1. Fail("disabled") /\ Forbidden(tx, n)
        BY <2>5, <3>1, <3>2 DEF CheckGrant, Forbidden
      <4>2. RejectedForCause'
        BY <4>1 DEF Fail, RejectedForCause, Forbidden
      <4> QED BY <4>1, <4>2, FailCause DEF Failures
    <3>3. CASE ~isDisabledMsg(tx.msg[n].url)
      BY <2>5, <3>1, <3>3, PassCause DEF CheckGrant
    <3> QED BY <3>2, <3>3
  <2>6. ASSUME NEW n \in Node, CheckOther(n) PROVE CauseInv'
    <3>1. IsNext(n) /\ tx.msg[n].kind = "other"
      BY <2>6 DEF CheckOther
    <3>2. CASE Top.inner /\ isDisabledMsg(tx.msg[n].url)
      <4>1. tx.parent[n] # TopLevel
        <5>1. Running /\ n \in stack[Len(stack)].todo
          BY <3>1 DEF IsNext, Running, Top
        <5> QED BY <3>2, <5>1, TopFrame DEF SafetyInv, InnerInv, Top
      <4>2. Fail("disabled") /\ Forbidden(tx, n)
        BY <2>6, <3>1, <3>2, <4>1 DEF CheckOther, Forbidden
      <4>3. RejectedForCause'
        BY <4>2 DEF Fail, RejectedForCause, Forbidden
      <4> QED BY <4>2, <4>3, FailCause DEF Failures
    <3>3. CASE ~(Top.inner /\ isDisabledMsg(tx.msg[n].url))
      BY <2>6, <3>1, <3>3, PassCause DEF CheckOther
    <3> QED BY <3>2, <3>3
  <2>7. CASE Decided \/ UNCHANGED vars
    BY <2>7 DEF Decided, vars, CauseInv, OnceInv, LevelInv, Waiting, Counted,
       Execs, RejectedForCause, Crowded, Forbidden
  <2> QED
    BY <2>1, <2>2, <2>3, <2>4, <2>5, <2>6, <2>7 DEF Next, Step
<1> QED
  BY <1>1, <1>2, SafetyInvariant, PTL DEF Spec

\* A refusal has the cause it names (authz.go:43-68).
THEOREM RejectedCause == Spec => []RejectedForCause
<1>1. CauseInv => RejectedForCause
  BY DEF CauseInv
<1> QED
  BY <1>1, CauseInvariant, PTL

(* The recursion is bounded by the cap, whatever the transaction: a call's *)
(* level is at least its depth.                                            *)
THEOREM RecursionBounded == Spec => []RecursionIsBounded
<1>1. CauseInv => RecursionIsBounded
  <2> SUFFICES ASSUME CauseInv, stack # <<>> PROVE Len(stack) < MaxNestedMsgs
    BY DEF RecursionIsBounded
  <2>1. SafetyInv /\ Running
    BY DEF CauseInv, SafetyInv, StackInv
  <2>2. /\ Len(stack) \in Nat /\ Len(stack) >= 1
        /\ Top.lvl \in Nat /\ Top.lvl < MaxNestedMsgs
    BY <2>1, TopFrame
  <2>3. Len(stack) <= Top.lvl
    BY <2>2 DEF CauseInv, LevelInv, Top
  <2> QED
    BY <2>2, <2>3, MsgsAssumption
<1> QED
  BY <1>1, CauseInvariant, PTL

-----------------------------------------------------------------------------

(* The traversal implements the safety part of the order-free policy: each *)
(* step leaves the outcome alone or is the policy's own decision.          *)
THEOREM ImplementsPolicySafety == Spec => Policy!PolicySafety
<1>1. Init => Policy!PolicyInit
  BY DEF Init, Policy!PolicyInit, Outcome
<1>2. SafetyInv /\ SafetyInv' /\ CauseInv' /\ [Next]_vars
        => [Policy!Decide]_(Policy!policyVars)
  <2> SUFFICES ASSUME SafetyInv, SafetyInv', CauseInv', [Next]_vars
               PROVE  [Policy!Decide]_(Policy!policyVars)
    OBVIOUS
  <2>1. tx' = tx
    BY DEF Next, Step, AnteHandle, Return, CheckExec, CheckUnreadable, CheckGrant,
       CheckOther, Fail, Pass, Decided, vars
  <2>2. CASE verdict' = verdict
    BY <2>1, <2>2 DEF Outcome, Policy!policyVars
  <2>3. CASE verdict' # verdict
    <3>1. verdict \in {"idle", "checking"}
      BY <2>3 DEF Next, Step, AnteHandle, Return, CheckExec, CheckUnreadable,
         CheckGrant, CheckOther, IsNext, Decided, vars
    <3>2. Outcome = "pending"
      BY <3>1 DEF Outcome
    <3>3. CASE verdict' \in {"idle", "checking"}
      BY <2>1, <3>2, <3>3 DEF Outcome, Policy!policyVars
    <3>4. CASE verdict' = "accepted"
      <4>1. (SafetyInv /\ verdict = "accepted" => checked = Node)'
        BY AcceptedChecksAll, PTL
      <4>2. checked' = Node
        BY <3>4, <4>1
      <4>3. Clean(tx)
        BY <2>1, <4>2 DEF SafetyInv, CheckedInv, Clean, Forbidden
      <4>4. Outcome' = "accepted"
        BY <3>4 DEF Outcome
      <4> QED BY <2>1, <3>2, <4>3, <4>4
              DEF Policy!Decide, Policy!Accept
    <3>5. CASE verdict' \in Failures
      <4>1. ~Clean(tx) \/ Crowded(tx)
        BY <2>1, <3>5 DEF CauseInv, RejectedForCause, Failures, Clean, Crowded,
           Execs, Forbidden
      <4>2. Outcome' = "rejected"
        BY <3>5 DEF Outcome, Failures
      <4> QED BY <2>1, <3>2, <4>1, <4>2
              DEF Policy!Decide, Policy!Reject
    <3> QED BY <3>3, <3>4, <3>5 DEF SafetyInv, TypeOK
  <2> QED
    BY <2>2, <2>3
<1> QED
  BY <1>1, <1>2, SafetyInvariant, CauseInvariant, PTL
  DEF Spec, Policy!PolicySafety

=============================================================================
