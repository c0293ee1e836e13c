------------------------------ MODULE TransferStack ------------------------------
(***************************************************************************)
(* Token transfers through echofi's IBC stacks: out to a neighbour, in     *)
(* from one, and through, when the memo of a packet asks the packet        *)
(* forwarding middleware to send it on. Channels "A" and "B" are of IBC    *)
(* v1; "A2" is a client of IBC v2, to the neighbour behind "A". A denom is *)
(* named after the channel it came through, or "E" for echofi's own. Every *)
(* packet carries one token. keeper.go stacks the middlewares and hands    *)
(* each keeper the way it sends packets; what the middlewares and the core *)
(* of IBC do is external, and so are the neighbours, which receive or      *)
(* refuse, and the relayers, which deliver a packet, its acknowledgement   *)
(* or its timeout in any order and late.                                   *)
(*                                                                         *)
(* Bounds: MaxPackets packets, Supply tokens of each denom of AtHome at    *)
(* home and one of each of Abroad, which went out over "A" earlier,        *)
(* MaxEpoch resets of the quotas. MaxRecv and MaxSend are the quotas.      *)
(***************************************************************************)
EXTENDS Integers, Sequences, FiniteSets, SequencesExt

CONSTANTS MaxPackets, Supply, MaxEpoch, MaxRecv, MaxSend, AtHome, Abroad
ASSUME StackAssumption ==
  /\ {MaxPackets, Supply, MaxEpoch, MaxRecv, MaxSend} \subseteq Nat
  /\ AtHome \subseteq {"A", "B", "A2", "E"} /\ Abroad \subseteq {"B", "A2", "E"}

VARIABLES
  user,           \* echofi users' tokens, by denom
  esc,            \* echofi's escrow accounts, by channel and denom
  far,            \* the tokens of the users behind a channel
  packets,        \* every packet ever sent, by its number
  flow, pending,  \* rate limits: flows of a channel and denom; v2 sends that may be undone
  epoch           \* quota windows so far

vars == <<user, esc, far, packets, flow, pending, epoch>>

Channels == {"A", "B", "A2"}
V1       == {"A", "B"}
Denoms   == Channels \union {"E"}
Numbers  == DOMAIN packets

-----------------------------------------------------------------------------
(* The wiring of keeper.go.                                                  *)

\* Middlewares a packet meets, outermost first, and those a sent packet goes
\* through on its way to the core: the transfer keeper was given the channel
\* keeper, and so was the forwarding middleware's transfer keeper.
transferStack   == <<"ratelimit", "pfm", "transfer">>
Mut_StackV2Unlimited == <<"callbacks", "transfer">>
transferStackV2 == <<"ratelimit", "callbacks", "transfer">>
ICS4Wrapper     == <<"transfer">>

Stack(ch)    == IF ch \in V1 THEN transferStack ELSE transferStackV2
SendPath(ch) == IF ch \in V1 THEN ICS4Wrapper ELSE transferStackV2
Limited(path) == "ratelimit" \in ToSet(path)

\* The retries of a forward after a timeout, unless its memo says.
DefaultRetries == 0
NoMemo   == [to |-> "", retries |-> 0]
Forwards == {NoMemo} \union [to: V1, retries: {DefaultRetries, 1}]

\* A packet: over ch, out of echofi or into it, of denom d; memo of an
\* incoming one; orig, of an outgoing one, the packet it forwards (0: none)
\* and the retries left. st: sent; plus, minus: taken or refused by the
\* neighbour; ok, err: acknowledged by echofi; held: not yet; done, back: its
\* sender knows. win is the quota window echofi sent or received it in.
Packet(ch, out, d, memo, orig, retries) ==
  [ch |-> ch, out |-> out, d |-> d, memo |-> memo, orig |-> orig,
   retries |-> retries, st |-> "sent", win |-> IF out THEN epoch ELSE -1]

TypeOK ==
  /\ user \in [Denoms -> Nat] /\ esc \in [Channels -> [Denoms -> Nat]]
  /\ far \in [Channels -> [Denoms -> Nat]]
  /\ \A i \in Numbers : /\ packets[i].ch \in Channels /\ packets[i].d \in Denoms
                        /\ packets[i].orig \in 0..(i - 1)
                        /\ packets[i].st \in {"sent", "plus", "minus", "held", "ok", "err",
                                              "done", "back"}
  /\ flow \in [Channels -> [Denoms -> [in: Nat, out: Nat]]]
  /\ pending \subseteq Numbers /\ epoch \in 0..MaxEpoch

Tokens(n, there) == IF there THEN n ELSE 0

Init ==
  /\ user = [d \in Denoms |-> Tokens(Supply, d = "E" /\ d \in AtHome)]
  /\ esc = [c \in Channels |-> [d \in Denoms |-> Tokens(1, c = "A" /\ d \in Abroad)]]
  /\ far = [c \in Channels |-> [d \in Denoms |->
       Tokens(Supply, c = d /\ d \in AtHome) + Tokens(1, c = "A" /\ d \in Abroad)]]
  /\ packets = <<>>
  /\ flow = [c \in Channels |-> [d \in Denoms |-> [in |-> 0, out |-> 0]]]
  /\ pending = {} /\ epoch = 0

-----------------------------------------------------------------------------
(* Bookkeeping. A denom goes home over the channel it came through, where it *)
(* is burned and minted; any other is escrowed.                              *)
Home(ch, d) == ch = d

\* Escrow after a token of d left (n = 1) or came back over ch (n = -1).
Escrowed(e, ch, d, n) == IF Home(ch, d) THEN e ELSE [e EXCEPT ![ch][d] = @ + n]

Become(i, st) == [packets EXCEPT ![i].st = st]

RecvAllowed(ch, d) == flow[ch][d].in - flow[ch][d].out + 1 <= MaxRecv
SendAllowed(f, ch, d) == f[ch][d].out - f[ch][d].in + 1 <= MaxSend

\* A sent packet is not sent any more: v1 and v2 look it up among the pending
\* ones, where a v1 packet never is.
Mut_SettledAsSent(i, delivered) ==
  pending' = pending \ {i} /\ UNCHANGED flow

Mut_SettledUnlooked(i, delivered) ==
  /\ pending' = pending \ {i}
  /\ flow' = IF delivered THEN flow
             ELSE [flow EXCEPT ![packets[i].ch][packets[i].d].out = @ - 1]

TakenOut(i, delivered) ==
  IF delivered \/ i \notin pending THEN flow
  ELSE [flow EXCEPT ![packets[i].ch][packets[i].d].out = @ - 1]

Settled(i, delivered) == pending' = pending \ {i} /\ flow' = TakenOut(i, delivered)

\* A receipt is counted on its way in, and packet i on its way out, if the
\* limit lets it through: f and s are the flows and what is pending by then.
CountedIn(ch, d) == IF Limited(Stack(ch)) THEN [flow EXCEPT ![ch][d].in = @ + 1] ELSE flow

CountOut(i, ch, d, f, s) ==
  IF Limited(SendPath(ch))
  THEN /\ SendAllowed(f, ch, d)
       /\ flow' = [f EXCEPT ![ch][d].out = @ + 1] /\ pending' = s \union {i}
  ELSE flow' = f /\ pending' = s

-----------------------------------------------------------------------------
(* Sending.                                                                  *)
Send(ch, d) ==
  /\ Len(packets) < MaxPackets /\ user[d] > 0
  /\ user' = [user EXCEPT ![d] = @ - 1]
  /\ esc' = Escrowed(esc, ch, d, 1)
  /\ packets' = Append(packets, Packet(ch, TRUE, d, NoMemo, 0, 0))
  /\ CountOut(Len(packets) + 1, ch, d, flow, pending)
  /\ UNCHANGED <<far, epoch>>

\* A user behind ch sends to echofi, or on through it.
FarSend(ch, d, memo) ==
  /\ Len(packets) < MaxPackets /\ far[ch][d] > 0
  /\ memo # NoMemo => ch \in V1 /\ memo.to # ch
  /\ far' = [far EXCEPT ![ch][d] = @ - 1]
  /\ packets' = Append(packets, Packet(ch, FALSE, d, memo, 0, 0))
  /\ UNCHANGED <<user, esc, flow, pending, epoch>>

-----------------------------------------------------------------------------
(* Receiving.                                                                *)
InFlightTo(i) == ~packets[i].out /\ packets[i].st = "sent"

\* An error acknowledgement drops what the receipt changed. Above the quota it
\* is certain; a receiver, a callback or the next hop may refuse as well.
RecvFails(i) ==
  /\ InFlightTo(i)
  /\ packets' = Become(i, "err")
  /\ UNCHANGED <<user, esc, far, flow, pending, epoch>>

RecvCounts(i) == Limited(Stack(packets[i].ch)) => RecvAllowed(packets[i].ch, packets[i].d)

Recv(i) ==
  LET p == packets[i] IN
  /\ InFlightTo(i) /\ RecvCounts(i)
  /\ p.memo.to = ""
  /\ user' = [user EXCEPT ![p.d] = @ + 1]
  /\ esc' = Escrowed(esc, p.ch, p.d, -1)
  /\ packets' = [packets EXCEPT ![i].st = "ok", ![i].win = epoch]
  /\ flow' = CountedIn(p.ch, p.d)
  /\ UNCHANGED <<far, pending, epoch>>

\* The middleware receives for the user, sends on through the transfer keeper
\* and acknowledges nothing yet.
Forward(i) ==
  LET p == packets[i] IN
  /\ InFlightTo(i) /\ RecvCounts(i)
  /\ p.memo.to # "" /\ "pfm" \in ToSet(Stack(p.ch)) /\ Len(packets) < MaxPackets
  /\ esc' = Escrowed(Escrowed(esc, p.ch, p.d, -1), p.memo.to, p.d, 1)
  /\ packets' = Append([packets EXCEPT ![i].st = "held", ![i].win = epoch],
                       Packet(p.memo.to, TRUE, p.d, NoMemo, i, p.memo.retries))
  /\ CountOut(Len(packets) + 1, p.memo.to, p.d, CountedIn(p.ch, p.d), pending)
  /\ UNCHANGED <<user, far, epoch>>

-----------------------------------------------------------------------------
(* What becomes of a packet echofi sent.                                     *)
FarRecv(i) ==
  LET p == packets[i] IN
  /\ p.out /\ p.st = "sent"
  /\ \/ far' = [far EXCEPT ![p.ch][p.d] = @ + 1] /\ packets' = Become(i, "plus")
     \/ UNCHANGED far /\ packets' = Become(i, "minus")
  /\ UNCHANGED <<user, esc, flow, pending, epoch>>

\* The transfer module gives its user the token back.
RefundSender(i) ==
  LET p == packets[i] IN
  /\ packets' = Become(i, "back")
  /\ user' = [user EXCEPT ![p.d] = @ + 1]
  /\ esc' = Escrowed(esc, p.ch, p.d, -1)

Mut_RefundedHere(i) ==
  LET p == packets[i] IN
  /\ packets' = [packets EXCEPT ![i].st = "back", ![p.orig].st = "err"]
  /\ esc' = Escrowed(esc, p.ch, p.d, -1)
  /\ user' = [user EXCEPT ![p.d] = @ + 1]

Mut_BurnsOnly(i) ==
  LET p == packets[i] IN
  /\ packets' = [packets EXCEPT ![i].st = "back", ![p.orig].st = "err"]
  /\ esc' = Escrowed(esc, p.ch, p.d, -1)
  /\ UNCHANGED user

\* The middleware moves the token to where the refund of the packet before
\* expects it: out of an escrow it is burned or put into the other one, and
\* what was burned is minted into that one. It acknowledges the packet before.
FailForward(i) ==
  LET p == packets[i] o == packets[p.orig] IN
  /\ packets' = [packets EXCEPT ![i].st = "back", ![p.orig].st = "err"]
  /\ esc' = Escrowed(Escrowed(esc, p.ch, p.d, -1), o.ch, p.d, 1)
  /\ UNCHANGED user

AckSuccess(i) ==
  LET p == packets[i] IN
  /\ p.out /\ p.st = "plus"
  /\ packets' = [j \in Numbers |-> IF j = i THEN [p EXCEPT !.st = "done"]
                                   ELSE IF j = p.orig THEN [packets[j] EXCEPT !.st = "ok"]
                                   ELSE packets[j]]
  /\ Settled(i, TRUE)
  /\ UNCHANGED <<user, esc, far, epoch>>

AckError(i) ==
  /\ packets[i].out /\ packets[i].st = "minus"
  /\ IF packets[i].orig = 0 THEN RefundSender(i) ELSE FailForward(i)
  /\ Settled(i, FALSE)
  /\ UNCHANGED <<far, epoch>>

Mut_GiveUp(i) ==
  /\ packets[i].orig # 0 /\ packets[i].retries = 0
  /\ packets' = Become(i, "back")
  /\ UNCHANGED <<user, esc>>

\* Without retries left the forward has failed.
GiveUp(i) == packets[i].orig # 0 /\ packets[i].retries = 0 /\ FailForward(i)

\* With retries left the token is refunded and sent again, in a new packet that
\* takes the place of this one.
Retry(i) ==
  /\ packets[i].orig # 0 /\ packets[i].retries > 0
  /\ packets' = [packets EXCEPT ![i].retries = @ - 1, ![i].win = epoch]
  /\ CountOut(i, packets[i].ch, packets[i].d, TakenOut(i, FALSE), pending \ {i})
  /\ UNCHANGED <<user, esc>>

Timeout(i) ==
  /\ packets[i].out /\ packets[i].st = "sent"
  /\ \/ packets[i].orig = 0 /\ RefundSender(i) /\ Settled(i, FALSE)
     \/ GiveUp(i) /\ Settled(i, FALSE)
     \/ Retry(i)
  /\ UNCHANGED <<far, epoch>>

\* What becomes of one echofi received, or did not receive in time.
FarAck(i) ==
  /\ ~packets[i].out /\ packets[i].st = "ok"
  /\ packets' = Become(i, "done")
  /\ UNCHANGED <<user, esc, far, flow, pending, epoch>>

FarRefund(i) ==
  LET p == packets[i] IN
  /\ ~p.out /\ p.st \in {"err", "sent"}
  /\ packets' = Become(i, "back")
  /\ far' = [far EXCEPT ![p.ch][p.d] = @ + 1]
  /\ UNCHANGED <<user, esc, flow, pending, epoch>>

\* A new window forgets the flows and what may be undone.
ResetQuotas ==
  /\ epoch < MaxEpoch /\ epoch' = epoch + 1
  /\ flow' = [c \in Channels |-> [d \in Denoms |-> [in |-> 0, out |-> 0]]]
  /\ pending' = {}
  /\ UNCHANGED <<user, esc, far, packets>>

-----------------------------------------------------------------------------
\* What relayers do with packet i.
Relay(i) ==
  /\ i \in Numbers
  /\ \/ RecvFails(i) \/ Recv(i) \/ Forward(i) \/ FarRecv(i)
     \/ AckSuccess(i) \/ AckError(i) \/ Timeout(i) \/ FarAck(i) \/ FarRefund(i)

Next ==
  \/ \E ch \in Channels, d \in Denoms : Send(ch, d)
  \/ \E ch \in Channels, d \in Denoms, memo \in Forwards : FarSend(ch, d, memo)
  \/ \E i \in Numbers : Relay(i)
  \/ ResetQuotas

\* While there is something to relay, somebody relays something.
Fairness == WF_vars(\E i \in Numbers : Relay(i))

Spec == Init /\ [][Next]_vars /\ Fairness

-----------------------------------------------------------------------------
(* Properties.                                                               *)
With(ch, d, P(_)) == {i \in Numbers : packets[i].ch = ch /\ packets[i].d = d /\ P(packets[i])}

\* A token between the ends: its packet is on its way, or was refused and the
\* refund is.
Between(p) == p.st \in {"sent", "err", "minus"}

\* What echofi holds in escrow on a channel is what users behind it may send
\* back, and a token that came through a channel exists once: nothing is
\* minted, burned or left behind by a refund along a forward (keeper.go:575-582).
EscrowBacksVouchers ==
  \A ch \in Channels, d \in Denoms :
    /\ d # ch => esc[ch][d] = far[ch][d] + Cardinality(With(ch, d, Between))
    /\ d = ch => user[d] + far[ch][d] + esc["A"][d] + esc["B"][d] + esc["A2"][d]
                 + Cardinality(With(ch, d, Between))
                 = Tokens(Supply, d \in AtHome) + Tokens(1, d \in Abroad)

Received(p) == ~p.out /\ p.win = epoch
Sent(p)     == p.out /\ p.win = epoch
Undone(p)   == Sent(p) /\ p.st = "back"

CountsSends(ch, d) ==
  flow[ch][d].out = Cardinality(With(ch, d, Sent)) - Cardinality(With(ch, d, Undone))

\* What a window let in and then went back, when the hop of its forward failed: the
\* rate limit hears nothing of that. And what it let in and echofi kept or passed on.
GoneBack(p) == Received(p) /\ p.st \in {"err", "back"}
Kept(p)     == Received(p) /\ ~GoneBack(p)

\* In a window, the inflow of a channel counts what it let in and echofi holds
\* or passes on, and goes on counting forwards whose hop failed and whose token
\* went back; a packet that is refused at once is not counted. The outflow of a
\* v2 channel counts what left and did not fail: a failure is taken out again,
\* in its own window only (keeper.go:410-422, 582, 599-604).
FlowsCounted ==
  \A ch \in Channels, d \in Denoms :
    /\ flow[ch][d].in = Cardinality(With(ch, d, Kept)) + Cardinality(With(ch, d, GoneBack))
    /\ ch \notin V1 => CountsSends(ch, d)

\* Quotas bound what a window really lets through: receipts net of everything
\* sent, v2 sends net of receipts.
QuotasHold ==
  \A ch \in Channels, d \in Denoms :
    LET in == Cardinality(With(ch, d, Received)) out == Cardinality(With(ch, d, Sent)) IN
    /\ in - out <= MaxRecv
    /\ ch \notin V1 => out - Cardinality(With(ch, d, Undone)) - in <= MaxSend

\* Sends of every channel pass the rate limit (keeper.go:571).
SendsAreCounted == \A ch \in Channels, d \in Denoms : CountsSends(ch, d)

\* Who made a transfer sees it delivered or refunded once, whatever happens on
\* the way: forwards, retries and intermediate acknowledgements do not show.
Taken(i) == \E j \in Numbers : packets[j].orig = i /\ packets[j].st = "plus"

Outcome(i) == IF packets[i].st \in {"plus", "ok", "done"} \/ Taken(i) THEN "delivered"
              ELSE IF packets[i].st = "back" THEN "refunded" ELSE "open"

Sender(p)   == IF p.out THEN "E" ELSE p.ch
Receiver(p) == IF p.out THEN p.ch ELSE IF p.memo.to = "" THEN "E" ELSE p.memo.to

Deal(i) == [from |-> Sender(packets[i]), to |-> Receiver(packets[i]), d |-> packets[i].d,
            end |-> Outcome(i)]

Ends  == Channels \union {"E"}
Purse == [e \in Ends |-> IF e = "E" THEN user ELSE far[e]]
Deals == [i \in {j \in Numbers : packets[j].orig = 0} |-> Deal(i)]

Abstract == INSTANCE Transfers WITH
  Names <- 1..MaxPackets, purse <- Purse, deals <- Deals

ImplementsTransfers == Abstract!Spec

\* Every transfer ends, also when the only try of its forward timed out: again
\* and again nothing is left open (keeper.go:578).
TransfersEnd ==
  []<>(\A i \in Numbers : packets[i].st \in {"done", "back"})
=============================================================================
