------------------------- MODULE TransferStack_proofs -------------------------
(***************************************************************************)
(* Theorems of TransferStack for any number of packets and quota windows,  *)
(* any supply and any quotas: tokens are conserved and quotas hold.        *)
(***************************************************************************)
EXTENDS TransferStack, FiniteSetTheorems, SequenceTheorems, TLAPS

States == {"sent", "plus", "minus", "held", "ok", "err", "done", "back"}
Live   == {"sent", "plus", "minus"}

PacketType ==
  [ch : Channels, out : BOOLEAN, d : Denoms, memo : Forwards, orig : Nat,
   retries : Nat, st : States, win : Int]

\* The sets the properties count, and their sizes.
Flying(c, d)  == {i \in DOMAIN packets : /\ packets[i].ch = c /\ packets[i].d = d
                                         /\ packets[i].st \in {"sent", "err", "minus"}}
Arrived(c, d) == {i \in DOMAIN packets : /\ packets[i].ch = c /\ packets[i].d = d
                                         /\ ~packets[i].out /\ packets[i].win = epoch}
Left(c, d)    == {i \in DOMAIN packets : /\ packets[i].ch = c /\ packets[i].d = d
                                         /\ packets[i].out /\ packets[i].win = epoch}
Failed(c, d)  == {i \in DOMAIN packets : /\ packets[i].ch = c /\ packets[i].d = d
                                         /\ packets[i].out /\ packets[i].win = epoch
                                         /\ packets[i].st = "back"}
NFlying(c, d)  == Cardinality(Flying(c, d))
NArrived(c, d) == Cardinality(Arrived(c, d))
NLeft(c, d)    == Cardinality(Left(c, d))
NFailed(c, d)  == Cardinality(Failed(c, d))

Bit(b) == IF b THEN 1 ELSE 0

Typed ==
  /\ user \in [Denoms -> Nat] /\ esc \in [Channels -> [Denoms -> Nat]]
  /\ far \in [Channels -> [Denoms -> Nat]]
  /\ packets \in Seq(PacketType)
  /\ flow \in [Channels -> [Denoms -> [in : Nat, out : Nat]]]
  /\ pending \subseteq DOMAIN packets /\ epoch \in 0..MaxEpoch

\* A forward and its hop: one hop each, of the same token, over another channel
\* of v1; the forward is held as long as its hop is under way.
HopOf(j, o) ==
  /\ o \in DOMAIN packets /\ o < j /\ packets[j].out /\ ~packets[o].out
  /\ packets[j].ch \in V1 /\ packets[o].ch # packets[j].ch /\ packets[o].d = packets[j].d
  /\ packets[o].st # "sent"
  /\ packets[j].st \in Live => packets[o].st = "held"
  /\ \A k \in DOMAIN packets : packets[k].orig = o => k = j
Hops ==
  \A j \in DOMAIN packets :
    /\ packets[j].orig # 0 => HopOf(j, packets[j].orig)
    /\ packets[j].memo # NoMemo => packets[j].memo.to # packets[j].ch

\* The window of a packet, and which sends may be undone.
Windows ==
  /\ \A j \in DOMAIN packets :
       /\ packets[j].win <= epoch
       /\ ~packets[j].out /\ packets[j].st = "sent" => packets[j].win = -1
       /\ packets[j].out => packets[j].st \in Live \cup {"done", "back"}
       /\ packets[j].out /\ packets[j].ch \notin V1 /\ packets[j].win = epoch =>
            (j \in pending <=> packets[j].st \in Live)
  /\ \A j \in pending : packets[j].out /\ packets[j].ch \notin V1 /\ packets[j].win = epoch

\* The tokens of d there are.
Owed(d) == Tokens(Supply, d \in AtHome) + Tokens(1, d \in Abroad)

AllEscrowed(d) == esc["A"][d] + esc["B"][d] + esc["A2"][d]

Money ==
  \A c \in Channels, d \in Denoms :
    /\ d # c => esc[c][d] = far[c][d] + NFlying(c, d)
    /\ d = c => user[d] + far[c][d] + AllEscrowed(d) + NFlying(c, d) = Owed(d)

Flows ==
  \A c \in Channels, d \in Denoms :
    /\ flow[c][d].in = NArrived(c, d)
    /\ NArrived(c, d) - NLeft(c, d) <= MaxRecv
    /\ c \notin V1 => /\ flow[c][d].out = NLeft(c, d) - NFailed(c, d)
                      /\ flow[c][d].out - flow[c][d].in <= MaxSend
    /\ c \in V1 => flow[c][d].out = 0

StackInv == Typed /\ Hops /\ Windows /\ Money /\ Flows

-----------------------------------------------------------------------------
\* A set in or out of which one element goes.
LEMMA OneElement ==
  ASSUME NEW S, NEW T, NEW i, IsFiniteSet(S), \A j : j # i => (j \in T <=> j \in S)
  PROVE  IsFiniteSet(T) /\ Cardinality(T) = Cardinality(S) + Bit(i \in T) - Bit(i \in S)
  <1>0. Cardinality(S) \in Nat
    BY FS_CardinalityType
  <1>1. CASE i \in T
    <2>1. T = S \cup {i}
      BY <1>1
    <2> QED BY <1>0, <1>1, <2>1, FS_AddElement DEF Bit
  <1>2. CASE i \notin T
    <2>1. T = S \ {i}
      BY <1>2
    <2> QED BY <1>0, <1>2, <2>1, FS_RemoveElement DEF Bit
  <1> QED BY <1>1, <1>2

\* The counted sets are finite, and what failed had left.
LEMMA Counted ==
  ASSUME packets \in Seq(PacketType), NEW c, NEW d
  PROVE  /\ IsFiniteSet(Flying(c, d)) /\ IsFiniteSet(Arrived(c, d))
         /\ IsFiniteSet(Left(c, d)) /\ IsFiniteSet(Failed(c, d))
         /\ NFlying(c, d) \in Nat /\ NArrived(c, d) \in Nat
         /\ NLeft(c, d) \in Nat /\ NFailed(c, d) \in Nat
         /\ NFailed(c, d) <= NLeft(c, d)
  <1>1. DOMAIN packets = 1..Len(packets) /\ Len(packets) \in Nat
    BY LenProperties
  <1>2. IsFiniteSet(DOMAIN packets)
    BY <1>1, FS_Interval
  <1>3. /\ Flying(c, d) \subseteq DOMAIN packets /\ Arrived(c, d) \subseteq DOMAIN packets
        /\ Left(c, d) \subseteq DOMAIN packets /\ Failed(c, d) \subseteq Left(c, d)
    BY DEF Flying, Arrived, Left, Failed
  <1>4. /\ IsFiniteSet(Flying(c, d)) /\ IsFiniteSet(Arrived(c, d)) /\ IsFiniteSet(Left(c, d))
    BY <1>2, <1>3, FS_Subset
  <1>5. IsFiniteSet(Failed(c, d)) /\ NFailed(c, d) <= NLeft(c, d)
    BY <1>3, <1>4, FS_Subset DEF NFailed, NLeft
  <1> QED BY <1>4, <1>5, FS_CardinalityType DEF NFlying, NArrived, NLeft, NFailed

\* The counts after a step that touches one packet of channel c.
Touched(c, i) ==
  \A j : j # i =>
    /\ j \in DOMAIN packets /\ packets[j].ch = c =>
         j \in DOMAIN packets' /\ packets'[j] = packets[j]
    /\ j \in DOMAIN packets' /\ packets'[j].ch = c =>
         j \in DOMAIN packets /\ packets'[j] = packets[j]

\* The counts after such a step differ by that packet.
LEMMA Counts ==
  ASSUME packets \in Seq(PacketType), NEW c, NEW d, NEW i, Touched(c, i)
  PROVE  /\ NFlying(c, d)' = NFlying(c, d) + Bit(i \in Flying(c, d)') - Bit(i \in Flying(c, d))
         /\ epoch' = epoch =>
              /\ NArrived(c, d)' = NArrived(c, d) + Bit(i \in Arrived(c, d)') - Bit(i \in Arrived(c, d))
              /\ NLeft(c, d)' = NLeft(c, d) + Bit(i \in Left(c, d)') - Bit(i \in Left(c, d))
              /\ NFailed(c, d)' = NFailed(c, d) + Bit(i \in Failed(c, d)') - Bit(i \in Failed(c, d))
  <1>1. \A j : j # i => (j \in Flying(c, d)' <=> j \in Flying(c, d))
    BY DEF Flying, Touched
  <1>2. ASSUME epoch' = epoch
        PROVE  \A j : j # i => /\ j \in Arrived(c, d)' <=> j \in Arrived(c, d)
                               /\ j \in Left(c, d)' <=> j \in Left(c, d)
                               /\ j \in Failed(c, d)' <=> j \in Failed(c, d)
    BY <1>2 DEF Arrived, Left, Failed, Touched
  <1>3. /\ IsFiniteSet(Flying(c, d)) /\ IsFiniteSet(Arrived(c, d))
        /\ IsFiniteSet(Left(c, d)) /\ IsFiniteSet(Failed(c, d))
    BY Counted
  <1>4. NFlying(c, d)' = NFlying(c, d) + Bit(i \in Flying(c, d)') - Bit(i \in Flying(c, d))
    BY <1>1, <1>3, OneElement DEF NFlying
  <1>5. ASSUME epoch' = epoch
        PROVE  NArrived(c, d)' = NArrived(c, d) + Bit(i \in Arrived(c, d)') - Bit(i \in Arrived(c, d))
    BY <1>2, <1>3, <1>5, OneElement DEF NArrived
  <1>6. ASSUME epoch' = epoch
        PROVE  NLeft(c, d)' = NLeft(c, d) + Bit(i \in Left(c, d)') - Bit(i \in Left(c, d))
    BY <1>2, <1>3, <1>6, OneElement DEF NLeft
  <1>7. ASSUME epoch' = epoch
        PROVE  NFailed(c, d)' = NFailed(c, d) + Bit(i \in Failed(c, d)') - Bit(i \in Failed(c, d))
    BY <1>2, <1>3, <1>7, OneElement DEF NFailed
  <1> QED BY <1>4, <1>5, <1>6, <1>7

-----------------------------------------------------------------------------
\* Escrow g is e but for n tokens of d on ch, if they do not go home there.
EscrowIs(g, e, ch, d, n) ==
  /\ g \in [Channels -> [Denoms -> Int]]
  /\ \A c \in Channels, x \in Denoms :
       g[c][x] = IF c = ch /\ x = d /\ ch # d THEN e[c][x] + n ELSE e[c][x]

\* What Escrowed makes of the escrows.
LEMMA EscrowedIs ==
  ASSUME NEW e \in [Channels -> [Denoms -> Int]], NEW ch \in Channels, NEW d \in Denoms,
         NEW n \in Int
  PROVE  EscrowIs(Escrowed(e, ch, d, n), e, ch, d, n)
  <1> DEFINE g == Escrowed(e, ch, d, n)
  <1>1. CASE ch = d
    <2>1. g = e
      BY <1>1 DEF Escrowed, Home
    <2> HIDE DEF g
    <2>2. EscrowIs(g, e, ch, d, n)
      BY <1>1, <2>1 DEF EscrowIs
    <2> QED BY <2>2 DEF g
  <1>2. CASE ch # d
    <2>1. g = [e EXCEPT ![ch][d] = @ + n]
      BY <1>2 DEF Escrowed, Home
    <2>2. \A c \in Channels, x \in Denoms : e[c][x] \in Int
      OBVIOUS
    <2> HIDE DEF g
    <2>3. g \in [Channels -> [Denoms -> Int]]
      BY <2>1, <2>2
    <2>4. EscrowIs(g, e, ch, d, n)
      BY <1>2, <2>1, <2>2, <2>3 DEF EscrowIs
    <2> QED BY <2>4 DEF g
  <1> QED BY <1>1, <1>2

\* All of these are numbers.
LEMMA NumbersAre ==
  ASSUME Typed, NEW c \in Channels, NEW e \in Denoms
  PROVE  /\ Channels = {"A", "B", "A2"}
         /\ user[e] \in Nat /\ far[c][e] \in Nat /\ esc[c][e] \in Nat
         /\ NFlying(c, e) \in Nat /\ AllEscrowed(e) \in Nat
  <1>1. NFlying(c, e) \in Nat
    BY Counted DEF Typed
  <1>2. Channels = {"A", "B", "A2"}
    BY DEF Channels
  <1>3. user[e] \in Nat /\ far[c][e] \in Nat
    BY DEF Typed
  <1>4. \A x \in Channels : esc[x][e] \in Nat
    BY DEF Typed
  <1>5. esc["A"][e] \in Nat /\ esc["B"][e] \in Nat /\ esc["A2"][e] \in Nat
    BY <1>2, <1>4
  <1>6. AllEscrowed(e) \in Nat
    BY <1>5 DEF AllEscrowed
  <1> QED BY <1>1, <1>2, <1>3, <1>4, <1>6

\* Between the purses, escrow and flight of one channel: u to the user at
\* echofi, f to the one behind ch, x to escrow and b to flight.
Moves(ch, d, u, f, x, b) ==
  /\ user' \in [Denoms -> Int] /\ far' \in [Channels -> [Denoms -> Int]]
  /\ esc' \in [Channels -> [Denoms -> Int]]
  /\ \A e \in Denoms : user'[e] = IF e = d THEN user[e] + u ELSE user[e]
  /\ \A c \in Channels, e \in Denoms :
       /\ far'[c][e] = IF c = ch /\ e = d THEN far[c][e] + f ELSE far[c][e]
       /\ esc'[c][e] = IF c = ch /\ e = d /\ ch # d THEN esc[c][e] + x ELSE esc[c][e]
       /\ NFlying(c, e)' = IF c = ch /\ e = d THEN NFlying(c, e) + b ELSE NFlying(c, e)

Balances(u, f, x, b) == u + x = 0 /\ x = f + b

\* From one channel of echofi to another.
Crosses(from, to, d) ==
  /\ user' = user /\ far' = far
  /\ esc' \in [Channels -> [Denoms -> Int]]
  /\ \A c \in Channels, e \in Denoms :
       /\ esc'[c][e] = IF c = from /\ e = d /\ from # d THEN esc[c][e] - 1
                       ELSE IF c = to /\ e = d /\ to # d THEN esc[c][e] + 1 ELSE esc[c][e]
       /\ NFlying(c, e)' = IF c = from /\ e = d THEN NFlying(c, e) - 1
                           ELSE IF c = to /\ e = d THEN NFlying(c, e) + 1 ELSE NFlying(c, e)

\* Escrow stays a number, for it is what is owed.
LEMMA EscrowIsNat ==
  ASSUME Money', packets' \in Seq(PacketType), far' \in [Channels -> [Denoms -> Nat]],
         esc \in [Channels -> [Denoms -> Nat]], esc' \in [Channels -> [Denoms -> Int]],
         \A c \in Channels : esc'[c][c] = esc[c][c]
  PROVE  esc' \in [Channels -> [Denoms -> Nat]]
  <1>1. ASSUME NEW c \in Channels, NEW e \in Denoms PROVE esc'[c][e] \in Nat
    <2>1. CASE c = e
      BY <2>1
    <2>2. CASE c # e
      <3>1. esc'[c][e] = far'[c][e] + NFlying(c, e)'
        BY <2>2 DEF Money
      <3>2. NFlying(c, e)' \in Nat
        <4>1. Cardinality(Flying(c, e)') \in Nat
          <5>1. DOMAIN packets' = 1..Len(packets') /\ Len(packets') \in Nat
            BY LenProperties
          <5>2. IsFiniteSet(DOMAIN packets')
            BY <5>1, FS_Interval
          <5>3. Flying(c, e)' \subseteq DOMAIN packets'
            BY DEF Flying
          <5> QED BY <5>2, <5>3, FS_Subset, FS_CardinalityType
        <4> QED BY <4>1 DEF NFlying
      <3> QED BY <3>1, <3>2
    <2> QED BY <2>1, <2>2
  <1> QED BY <1>1
\* Of the three escrows of d one changes.
LEMMA OneOfThree ==
  ASSUME NEW e, NEW c \in Channels, NEW x \in Int, \A o \in Channels : esc[o][e] \in Nat,
         esc'[c][e] = esc[c][e] + x, \A o \in Channels \ {c} : esc'[o][e] = esc[o][e]
  PROVE  AllEscrowed(e)' = AllEscrowed(e) + x
  <1>0. /\ Channels = {"A", "B", "A2"} /\ "A" # "B" /\ "A" # "A2" /\ "B" # "A2"
        /\ esc["A"][e] \in Nat /\ esc["B"][e] \in Nat /\ esc["A2"][e] \in Nat
    BY DEF Channels
  <1> USE DEF AllEscrowed
  <1>1. CASE c = "A"
    <2>1. esc'["A"][e] = esc["A"][e] + x /\ esc'["B"][e] = esc["B"][e] /\ esc'["A2"][e] = esc["A2"][e]
      BY <1>0, <1>1
    <2> QED BY <1>0, <2>1
  <1>2. CASE c = "B"
    <2>1. esc'["A"][e] = esc["A"][e] /\ esc'["B"][e] = esc["B"][e] + x /\ esc'["A2"][e] = esc["A2"][e]
      BY <1>0, <1>2
    <2> QED BY <1>0, <2>1
  <1>3. CASE c = "A2"
    <2>1. esc'["A"][e] = esc["A"][e] /\ esc'["B"][e] = esc["B"][e] /\ esc'["A2"][e] = esc["A2"][e] + x
      BY <1>0, <1>3
    <2> QED BY <1>0, <2>1
  <1> QED BY <1>0, <1>1, <1>2, <1>3

\* What leaves one place of a denom at home is in another.
Shifts(e, u, f, x, b) ==
  /\ user'[e] = user[e] + u /\ far'[e][e] = far[e][e] + f
  /\ AllEscrowed(e)' = AllEscrowed(e) + x /\ NFlying(e, e)' = NFlying(e, e) + b

\* One change that balances keeps the total of a denomination.
LEMMA TotalKept ==
  ASSUME Typed, Money, NEW e \in Channels,
         NEW u \in Int, NEW f \in Int, NEW x \in Int, NEW b \in Int,
         Shifts(e, u, f, x, b), u + f + x + b = 0
  PROVE  user'[e] + far'[e][e] + AllEscrowed(e)' + NFlying(e, e)' = Owed(e)
  <1> DEFINE u0 == user[e]  u1 == user'[e]  f0 == far[e][e]  f1 == far'[e][e]
             x0 == AllEscrowed(e)  x1 == AllEscrowed(e)'
             b0 == NFlying(e, e)  b1 == NFlying(e, e)'  o == Owed(e)
  <1>0. e \in Denoms
    BY DEF Denoms
  <1>1. u0 \in Nat /\ f0 \in Nat /\ x0 \in Nat /\ b0 \in Nat
    BY <1>0, NumbersAre
  <1>2. u0 + f0 + x0 + b0 = o
    BY <1>0 DEF Money
  <1>3. u1 = u0 + u /\ f1 = f0 + f /\ x1 = x0 + x /\ b1 = b0 + b
    BY DEF Shifts
  <1>4. u1 + f1 + x1 + b1 = o
    <2> HIDE DEF u0, u1, f0, f1, x0, x1, b0, b1, o
    <2> QED BY <1>1, <1>2, <1>3
  <1> QED BY <1>4

\* The order of the three does not matter.
LEMMA ThreeChannels ==
  ASSUME NEW g \in [Channels -> Int], NEW p \in Channels, NEW q \in Channels, NEW r \in Channels,
         p # q, q # r, p # r
  PROVE  g["A"] + g["B"] + g["A2"] = g[p] + g[q] + g[r]
  <1>1. /\ Channels = {"A", "B", "A2"} /\ g["A"] \in Int /\ g["B"] \in Int /\ g["A2"] \in Int
    BY DEF Channels
  <1>2. CASE p = "A"
    BY <1>1, <1>2
  <1>3. CASE p = "B"
    BY <1>1, <1>3
  <1>4. CASE p = "A2"
    BY <1>1, <1>4
  <1> QED BY <1>1, <1>2, <1>3, <1>4

\* A balanced change over one channel keeps tokens backed.
LEMMA MoneyMoves ==
  ASSUME StackInv, packets' \in Seq(PacketType), far' \in [Channels -> [Denoms -> Nat]],
         NEW ch \in Channels, NEW d \in Denoms,
         NEW u \in Int, NEW f \in Int, NEW x \in Int, NEW b \in Int,
         Moves(ch, d, u, f, x, b), Balances(u, f, x, b)
  PROVE  Money' /\ esc' \in [Channels -> [Denoms -> Nat]]
  <1>1. ASSUME NEW c \in Channels, NEW e \in Denoms, e # c
        PROVE  esc'[c][e] = far'[c][e] + NFlying(c, e)'
    <2> DEFINE x0 == esc[c][e]  f0 == far[c][e]  n0 == NFlying(c, e)
               x1 == esc'[c][e] f1 == far'[c][e] n1 == NFlying(c, e)'
    <2>1. x0 = f0 + n0
      BY <1>1 DEF StackInv, Money
    <2>2. f0 \in Nat /\ n0 \in Nat
      BY NumbersAre DEF StackInv
    <2>3. CASE c = ch /\ e = d
      <3>1. x1 = x0 + x /\ f1 = f0 + f /\ n1 = n0 + b
        BY <1>1, <2>3 DEF Moves
      <3>2. x = f + b
        BY DEF Balances
      <3> HIDE DEF x0, x1, f0, f1, n0, n1
      <3>3. x1 = f1 + n1
        BY <2>1, <2>2, <3>1, <3>2
      <3> QED BY <3>3 DEF x1, f1, n1
    <2>4. CASE ~(c = ch /\ e = d)
      <3>1. /\ esc'[c][e] = esc[c][e] /\ far'[c][e] = far[c][e]
            /\ NFlying(c, e)' = NFlying(c, e)
        <4>1. /\ esc'[c][e] = IF c = ch /\ e = d /\ ch # d THEN esc[c][e] + x ELSE esc[c][e]
              /\ far'[c][e] = IF c = ch /\ e = d THEN far[c][e] + f ELSE far[c][e]
              /\ NFlying(c, e)' = IF c = ch /\ e = d THEN NFlying(c, e) + b ELSE NFlying(c, e)
          BY <1>1 DEF Moves
        <4> QED BY <2>4, <4>1
      <3> QED BY <2>1, <3>1
    <2> QED BY <2>3, <2>4
  <1>2. ASSUME NEW e \in Channels
        PROVE  user'[e] + far'[e][e] + AllEscrowed(e)' + NFlying(e, e)' = Owed(e)
    <2>0. e \in Denoms /\ Typed /\ Money /\ \A o \in Channels : esc[o][e] \in Nat
      <3>1. e \in Denoms
        BY DEF Denoms
      <3>2. Typed /\ Money
        BY DEF StackInv
      <3>3. \A o \in Channels : esc[o][e] \in Nat
        BY <3>1, <3>2 DEF Typed
      <3> QED BY <3>1, <3>2, <3>3
    <2>1. user[e] \in Nat /\ far[e][e] \in Nat /\ AllEscrowed(e) \in Nat /\ NFlying(e, e) \in Nat
      BY <2>0, NumbersAre
    <2>2. AllEscrowed(e)' = AllEscrowed(e) + (IF e = d /\ ch # d THEN x ELSE 0)
      <3>1. CASE e = d /\ ch # d
        <4>1. /\ esc'[ch][e] = esc[ch][e] + x
              /\ \A o \in Channels \ {ch} : esc'[o][e] = esc[o][e]
          BY <2>0, <3>1 DEF Moves
        <4>2. AllEscrowed(e)' = AllEscrowed(e) + x
          BY <2>0, <4>1, OneOfThree, Zenon
        <4> QED BY <3>1, <4>2
      <3>2. CASE ~(e = d /\ ch # d)
        <4>1. \A o \in Channels : esc'[o][e] = esc[o][e]
          BY <2>0, <3>2 DEF Moves
        <4>2. AllEscrowed(e)' = AllEscrowed(e)
          BY <4>1 DEF AllEscrowed, Channels
        <4> QED BY <2>1, <3>2, <4>2
      <3> QED BY <3>1, <3>2
    <2>3. CASE e # d
      <3>1. Shifts(e, 0, 0, 0, 0)
        <4>1. AllEscrowed(e)' = AllEscrowed(e) + 0
          BY <2>2, <2>3
        <4>2. user'[e] = user[e] /\ far'[e][e] = far[e][e] /\ NFlying(e, e)' = NFlying(e, e)
          BY <2>0, <2>3 DEF Moves
        <4>3. user[e] = user[e] + 0 /\ far[e][e] = far[e][e] + 0
              /\ NFlying(e, e) = NFlying(e, e) + 0
          BY <2>1, SMTT(30)
        <4> QED BY <4>1, <4>2, <4>3 DEF Shifts
      <3> QED BY <2>0, <3>1, TotalKept
    <2>4. CASE e = d /\ ch = d
      <3>0. AllEscrowed(e)' = AllEscrowed(e) + 0
        BY <2>2, <2>4
      <3>1. Shifts(e, u, f, 0, b)
        <4>1. user'[e] = user[e] + u
          BY <2>0, <2>4 DEF Moves
        <4>2. far'[e][e] = far[e][e] + f /\ NFlying(e, e)' = NFlying(e, e) + b
          BY <2>0, <2>4 DEF Moves
        <4> QED BY <3>0, <4>1, <4>2 DEF Shifts
      <3>2. u + f + 0 + b = 0
        BY DEF Balances
      <3>3. 0 \in Int
        OBVIOUS
      <3> QED BY <2>0, <3>1, <3>2, <3>3, TotalKept, Zenon
    <2>5. CASE e = d /\ ch # d
      <3>0. AllEscrowed(e)' = AllEscrowed(e) + x
        BY <2>2, <2>5
      <3>1. Shifts(e, u, 0, x, 0)
        <4>1. user'[e] = user[e] + u
          BY <2>0, <2>5 DEF Moves
        <4>2. far'[e][e] = far[e][e] + 0 /\ NFlying(e, e)' = NFlying(e, e) + 0
          BY <2>0, <2>1, <2>5 DEF Moves
        <4> QED BY <3>0, <4>1, <4>2 DEF Shifts
      <3>2. u + 0 + x + 0 = 0
        BY DEF Balances
      <3>3. 0 \in Int
        OBVIOUS
      <3> QED BY <2>0, <3>1, <3>2, <3>3, TotalKept, Zenon
    <2> QED BY <2>3, <2>4, <2>5
  <1>3. Money'
    BY <1>1, <1>2 DEF Money
  <1>4. \A c \in Channels : esc'[c][c] = esc[c][c]
    <2>1. \A c \in Channels : c \in Denoms
      BY DEF Denoms
    <2> QED BY <2>1 DEF Moves
  <1> QED BY <1>3, <1>4, EscrowIsNat DEF Moves, StackInv, Typed

\* So does a token that crosses from one channel to another.
LEMMA MoneyCrosses ==
  ASSUME StackInv, packets' \in Seq(PacketType),
         NEW from \in Channels, NEW to \in Channels, NEW d \in Denoms,
         from # to, Crosses(from, to, d)
  PROVE  Money' /\ esc' \in [Channels -> [Denoms -> Nat]]
  <1>1. ASSUME NEW c \in Channels, NEW e \in Denoms, e # c
        PROVE  esc'[c][e] = far'[c][e] + NFlying(c, e)'
    <2> DEFINE x0 == esc[c][e]  f0 == far[c][e]  n0 == NFlying(c, e)
               x1 == esc'[c][e] f1 == far'[c][e] n1 == NFlying(c, e)'
    <2>1. x0 = f0 + n0
      BY <1>1 DEF StackInv, Money
    <2>2. f0 \in Nat /\ n0 \in Nat
      BY NumbersAre DEF StackInv
    <2>3. CASE c = from /\ e = d
      <3>1. x1 = x0 - 1 /\ f1 = f0 /\ n1 = n0 - 1
        BY <1>1, <2>3 DEF Crosses
      <3> HIDE DEF x0, x1, f0, f1, n0, n1
      <3>2. x1 = f1 + n1
        BY <2>1, <2>2, <3>1
      <3> QED BY <3>2 DEF x1, f1, n1
    <2>4. CASE c = to /\ e = d
      <3>1. x1 = x0 + 1 /\ f1 = f0 /\ n1 = n0 + 1
        BY <1>1, <2>4 DEF Crosses
      <3> HIDE DEF x0, x1, f0, f1, n0, n1
      <3>2. x1 = f1 + n1
        BY <2>1, <2>2, <3>1
      <3> QED BY <3>2 DEF x1, f1, n1
    <2>5. CASE c \notin {from, to} \/ e # d
      <3>1. /\ esc'[c][e] = esc[c][e] /\ far'[c][e] = far[c][e]
            /\ NFlying(c, e)' = NFlying(c, e)
        BY <2>5 DEF Crosses
      <3> QED BY <2>1, <3>1
    <2> QED BY <2>3, <2>4, <2>5
  <1>2. ASSUME NEW e \in Channels
        PROVE  user'[e] + far'[e][e] + AllEscrowed(e)' + NFlying(e, e)' = Owed(e)
    <2>0. e \in Denoms /\ Typed /\ Money /\ \A o \in Channels : esc[o][e] \in Nat
      <3>1. e \in Denoms
        BY DEF Denoms
      <3>2. Typed /\ Money
        BY DEF StackInv
      <3>3. \A o \in Channels : esc[o][e] \in Nat
        BY <3>1, <3>2 DEF Typed
      <3> QED BY <3>1, <3>2, <3>3
    <2>1. user[e] \in Nat /\ far[e][e] \in Nat /\ AllEscrowed(e) \in Nat /\ NFlying(e, e) \in Nat
      BY <2>0, NumbersAre
    <2>2. CASE e # d
      <3>1. \A o \in Channels : esc'[o][e] = esc[o][e]
        BY <2>0, <2>2 DEF Crosses
      <3>2. AllEscrowed(e)' = AllEscrowed(e)
        BY <3>1 DEF AllEscrowed, Channels
      <3>3. Shifts(e, 0, 0, 0, 0)
        BY <2>0, <2>1, <2>2, <3>2 DEF Crosses, Shifts
      <3> QED BY <2>0, <3>3, TotalKept
    <2>3. CASE e = d /\ from = d
      <3>1. /\ esc'[to][e] = esc[to][e] + 1 /\ \A o \in Channels \ {to} : esc'[o][e] = esc[o][e]
        BY <2>0, <2>3 DEF Crosses
      <3>2. AllEscrowed(e)' = AllEscrowed(e) + 1
        <4>1. 1 \in Int
          OBVIOUS
        <4> QED BY <2>0, <3>1, <4>1, OneOfThree, Zenon
      <3>3. Shifts(e, 0, 0, 1, -1)
        BY <2>0, <2>1, <2>3, <3>2 DEF Crosses, Shifts
      <3> QED BY <2>0, <3>3, TotalKept
    <2>4. CASE e = d /\ to = d
      <3>1. /\ esc'[from][e] = esc[from][e] + (-1)
            /\ \A o \in Channels \ {from} : esc'[o][e] = esc[o][e]
        BY <2>0, <2>4 DEF Crosses
      <3>2. AllEscrowed(e)' = AllEscrowed(e) + (-1)
        <4>1. -1 \in Int
          OBVIOUS
        <4> QED BY <2>0, <3>1, <4>1, OneOfThree, Zenon
      <3>3. Shifts(e, 0, 0, -1, 1)
        BY <2>0, <2>1, <2>4, <3>2 DEF Crosses, Shifts
      <3> QED BY <2>0, <3>3, TotalKept
    <2>5. CASE e = d /\ from # d /\ to # d
      <3>1. Channels = {from, to, d} /\ Channels = {"A", "B", "A2"}
        BY <2>5 DEF Channels
      <3>2. /\ esc'[from][e] = esc[from][e] - 1 /\ esc'[to][e] = esc[to][e] + 1
            /\ esc'[d][e] = esc[d][e]
        BY <2>0, <2>5, <3>1 DEF Crosses
      <3> DEFINE g == [o \in Channels |-> esc[o][e]]
                 h == [o \in Channels |-> esc'[o][e]]
      <3>3. AllEscrowed(e) = esc[from][e] + esc[to][e] + esc[d][e]
        <4>1. g \in [Channels -> Int]
          BY <2>0
        <4>2. g["A"] + g["B"] + g["A2"] = g[from] + g[to] + g[d]
          <5> HIDE DEF g
          <5> QED BY <2>0, <2>5, <4>1, ThreeChannels
        <4> QED BY <2>5, <4>2, <3>1 DEF AllEscrowed
      <3>4. AllEscrowed(e)' = esc'[from][e] + esc'[to][e] + esc'[d][e]
        <4>1. h \in [Channels -> Int]
          BY <2>0 DEF Crosses
        <4>2. h["A"] + h["B"] + h["A2"] = h[from] + h[to] + h[d]
          <5> HIDE DEF h
          <5> QED BY <2>0, <2>5, <4>1, ThreeChannels
        <4> QED BY <2>5, <4>2, <3>1 DEF AllEscrowed
      <3>5. AllEscrowed(e)' = AllEscrowed(e)
        <4> HIDE DEF g, h
        <4> DEFINE a0 == esc[from][e]  a1 == esc'[from][e]
                   b0 == esc[to][e]    b1 == esc'[to][e]
                   c0 == esc[d][e]     c1 == esc'[d][e]
        <4>1. a0 \in Int /\ b0 \in Int /\ c0 \in Int
          BY <2>0, <2>5
        <4>2. a1 = a0 - 1 /\ b1 = b0 + 1 /\ c1 = c0
          BY <3>2
        <4>3. AllEscrowed(e) = a0 + b0 + c0 /\ AllEscrowed(e)' = a1 + b1 + c1
          BY <3>3, <3>4
        <4> HIDE DEF a0, a1, b0, b1, c0, c1
        <4> QED BY <4>1, <4>2, <4>3
      <3>6. Shifts(e, 0, 0, 0, 0)
        BY <2>0, <2>1, <2>5, <3>5 DEF Crosses, Shifts
      <3> QED BY <2>0, <3>6, TotalKept
    <2> QED BY <2>2, <2>3, <2>4, <2>5
  <1>3. Money'
    BY <1>1, <1>2 DEF Money
  <1>4. \A c \in Channels : esc'[c][c] = esc[c][c]
    <2>1. \A c \in Channels : c \in Denoms
      BY DEF Denoms
    <2> QED BY <2>1 DEF Crosses
  <1> QED BY <1>3, <1>4, EscrowIsNat DEF Crosses, StackInv, Typed

-----------------------------------------------------------------------------
\* One packet changes, in its state and its window, but neither is sent anew
\* nor, while a hop is under way, released.
Becomes(i, q) ==
  /\ i \in DOMAIN packets /\ q \in PacketType /\ packets' = [packets EXCEPT ![i] = q]
  /\ q.ch = packets[i].ch /\ q.d = packets[i].d /\ q.out = packets[i].out
  /\ q.memo = packets[i].memo /\ q.orig = packets[i].orig
  /\ q.st = "sent" => packets[i].st = "sent"
  /\ packets[i].st = "held" => q.st = "held"
  /\ q.orig # 0 /\ q.st \in Live => packets[i].st \in Live

\* The fields of a packet.
LEMMA FieldsOf ==
  ASSUME NEW p \in PacketType
  PROVE  /\ p.ch \in Channels /\ p.d \in Denoms /\ p.out \in BOOLEAN /\ p.memo \in Forwards
         /\ p.orig \in Nat /\ p.retries \in Nat /\ p.st \in States /\ p.win \in Int
  BY DEF PacketType

\* Such a change leaves the other packets alone.
LEMMA BecomesIs ==
  ASSUME Typed, NEW i, NEW q, Becomes(i, q)
  PROVE  /\ packets' \in Seq(PacketType) /\ DOMAIN packets' = DOMAIN packets
         /\ packets'[i] = q /\ \A j \in DOMAIN packets : j # i => packets'[j] = packets[j]
         /\ \A c : Touched(c, i)
         /\ DOMAIN packets = 1..Len(packets) /\ Len(packets) \in Nat
         /\ \A j \in DOMAIN packets : packets[j] \in PacketType /\ packets'[j] \in PacketType
  <1>1. DOMAIN packets = 1..Len(packets) /\ Len(packets) \in Nat /\ packets \in [DOMAIN packets -> PacketType]
    BY LenProperties DEF Typed
  <1>2. packets' = [packets EXCEPT ![i] = q] /\ i \in DOMAIN packets /\ q \in PacketType
    BY DEF Becomes
  <1>3. packets' \in Seq(PacketType)
    BY <1>1, <1>2, ExceptSeq DEF Typed
  <1>4. DOMAIN packets' = DOMAIN packets /\ packets'[i] = q
        /\ \A j \in DOMAIN packets : j # i => packets'[j] = packets[j]
    BY <1>1, <1>2
  <1>5. \A c : Touched(c, i)
    BY <1>4 DEF Touched
  <1>6. \A j \in DOMAIN packets : packets[j] \in PacketType /\ packets'[j] \in PacketType
    BY <1>1, <1>2, <1>4
  <1> QED BY <1>1, <1>3, <1>4, <1>5, <1>6

\* It keeps hops and forwards together.
LEMMA BecomesHops ==
  ASSUME Typed, Hops, NEW i, NEW q, Becomes(i, q)
  PROVE  Hops'
  <1>1. /\ DOMAIN packets' = DOMAIN packets /\ packets'[i] = q /\ i \in DOMAIN packets
        /\ \A j \in DOMAIN packets : j # i => packets'[j] = packets[j]
    BY BecomesIs DEF Becomes
  <1>2. ASSUME NEW j \in DOMAIN packets
        PROVE  /\ packets'[j].ch = packets[j].ch /\ packets'[j].d = packets[j].d
               /\ packets'[j].out = packets[j].out /\ packets'[j].memo = packets[j].memo
               /\ packets'[j].orig = packets[j].orig
               /\ packets'[j].st = "sent" => packets[j].st = "sent"
               /\ packets[j].st = "held" => packets'[j].st = "held"
               /\ packets[j].orig # 0 /\ packets'[j].st \in Live => packets[j].st \in Live
    BY <1>1 DEF Becomes
  <1>3. ASSUME NEW j \in DOMAIN packets, packets[j].orig # 0
        PROVE  HopOf(j, packets[j].orig)'
    <2>1. HopOf(j, packets[j].orig)
      BY <1>3 DEF Hops
    <2> QED BY <1>1, <1>2, <1>3, <2>1 DEF HopOf
  <1> QED BY <1>1, <1>2, <1>3 DEF Hops

Flight == {"sent", "err", "minus"}

\* It moves the counts of its own channel and denomination.
LEMMA BecomesCounts ==
  ASSUME Typed, NEW i, NEW q, Becomes(i, q), NEW c \in Channels, NEW e \in Denoms
  PROVE  IF c = q.ch /\ e = q.d
         THEN /\ NFlying(c, e)' = NFlying(c, e) + Bit(q.st \in Flight) - Bit(packets[i].st \in Flight)
              /\ epoch' = epoch =>
                   /\ NArrived(c, e)' = NArrived(c, e) + Bit(~q.out /\ q.win = epoch)
                                          - Bit(~q.out /\ packets[i].win = epoch)
                   /\ NLeft(c, e)' = NLeft(c, e) + Bit(q.out /\ q.win = epoch)
                                       - Bit(q.out /\ packets[i].win = epoch)
                   /\ NFailed(c, e)' = NFailed(c, e) + Bit(q.out /\ q.win = epoch /\ q.st = "back")
                        - Bit(q.out /\ packets[i].win = epoch /\ packets[i].st = "back")
         ELSE /\ NFlying(c, e)' = NFlying(c, e)
              /\ epoch' = epoch => /\ NArrived(c, e)' = NArrived(c, e)
                                   /\ NLeft(c, e)' = NLeft(c, e) /\ NFailed(c, e)' = NFailed(c, e)
  <1>1. Touched(c, i) /\ packets \in Seq(PacketType) /\ packets'[i] = q
        /\ i \in DOMAIN packets /\ DOMAIN packets' = DOMAIN packets
        /\ q.ch = packets[i].ch /\ q.d = packets[i].d /\ q.out = packets[i].out
    BY BecomesIs DEF Typed, Becomes
  <1>2. /\ NFlying(c, e) \in Nat /\ NArrived(c, e) \in Nat /\ NLeft(c, e) \in Nat
        /\ NFailed(c, e) \in Nat
    BY <1>1, Counted
  <1>3. /\ NFlying(c, e)' = NFlying(c, e) + Bit(i \in Flying(c, e)') - Bit(i \in Flying(c, e))
        /\ epoch' = epoch =>
             /\ NArrived(c, e)' = NArrived(c, e) + Bit(i \in Arrived(c, e)') - Bit(i \in Arrived(c, e))
             /\ NLeft(c, e)' = NLeft(c, e) + Bit(i \in Left(c, e)') - Bit(i \in Left(c, e))
             /\ NFailed(c, e)' = NFailed(c, e) + Bit(i \in Failed(c, e)') - Bit(i \in Failed(c, e))
    BY <1>1, Counts
  <1>4. CASE ~(c = q.ch /\ e = q.d)
    <2>1. /\ i \notin Flying(c, e) /\ i \notin Flying(c, e)'
          /\ i \notin Arrived(c, e) /\ i \notin Arrived(c, e)'
          /\ i \notin Left(c, e) /\ i \notin Left(c, e)'
          /\ i \notin Failed(c, e) /\ i \notin Failed(c, e)'
      BY <1>1, <1>4 DEF Flying, Arrived, Left, Failed
    <2> QED BY <1>2, <1>3, <1>4, <2>1 DEF Bit
  <1>5. CASE c = q.ch /\ e = q.d
    <2>1. /\ i \in Flying(c, e) <=> packets[i].st \in Flight
          /\ i \in Flying(c, e)' <=> q.st \in Flight
      BY <1>1, <1>5 DEF Flying, Flight
    <2>2. /\ i \in Arrived(c, e) <=> ~q.out /\ packets[i].win = epoch
          /\ i \in Left(c, e) <=> q.out /\ packets[i].win = epoch
          /\ i \in Failed(c, e) <=> q.out /\ packets[i].win = epoch /\ packets[i].st = "back"
      BY <1>1, <1>5 DEF Arrived, Left, Failed
    <2>3. ASSUME epoch' = epoch
          PROVE  /\ i \in Arrived(c, e)' <=> ~q.out /\ q.win = epoch
                 /\ i \in Left(c, e)' <=> q.out /\ q.win = epoch
                 /\ i \in Failed(c, e)' <=> q.out /\ q.win = epoch /\ q.st = "back"
      BY <1>1, <1>5, <2>3 DEF Arrived, Left, Failed
    <2>4. NFlying(c, e)' = NFlying(c, e) + Bit(q.st \in Flight) - Bit(packets[i].st \in Flight)
      BY <1>2, <1>3, <2>1 DEF Bit
    <2>5. ASSUME epoch' = epoch
          PROVE  NArrived(c, e)' = NArrived(c, e) + Bit(~q.out /\ q.win = epoch)
                                          - Bit(~q.out /\ packets[i].win = epoch)
      BY <1>2, <1>3, <2>2, <2>3, <2>5 DEF Bit
    <2>6. ASSUME epoch' = epoch
          PROVE  NLeft(c, e)' = NLeft(c, e) + Bit(q.out /\ q.win = epoch)
                                       - Bit(q.out /\ packets[i].win = epoch)
      BY <1>2, <1>3, <2>2, <2>3, <2>6 DEF Bit
    <2>7. ASSUME epoch' = epoch
          PROVE  NFailed(c, e)' = NFailed(c, e) + Bit(q.out /\ q.win = epoch /\ q.st = "back")
                        - Bit(q.out /\ packets[i].win = epoch /\ packets[i].st = "back")
      BY <1>2, <1>3, <2>2, <2>3, <2>7 DEF Bit
    <2> QED BY <1>5, <2>4, <2>5, <2>6, <2>7
  <1> QED BY <1>4, <1>5

\* The window of the packet that changed.
LEMMA BecomesWindows ==
  ASSUME Typed, Windows, NEW i, NEW q, Becomes(i, q), epoch' = epoch,
         pending' = pending \/ pending' = pending \ {i},
         q.win <= epoch, ~q.out /\ q.st = "sent" => q.win = -1,
         q.out => q.st \in Live \cup {"done", "back"},
         q.out /\ q.ch \notin V1 /\ q.win = epoch => (i \in pending' <=> q.st \in Live),
         i \in pending' => q.win = epoch
  PROVE  Windows'
  <1>1. /\ DOMAIN packets' = DOMAIN packets /\ packets'[i] = q /\ i \in DOMAIN packets
        /\ \A j \in DOMAIN packets : j # i => packets'[j] = packets[j]
        /\ q.ch = packets[i].ch /\ q.out = packets[i].out
    BY BecomesIs DEF Becomes
  <1>2. \A j : j # i => (j \in pending' <=> j \in pending)
    OBVIOUS
  <1>3. pending \subseteq DOMAIN packets /\ pending' \subseteq pending
    BY DEF Typed
  <1> QED BY <1>1, <1>2, <1>3 DEF Windows

\* Flows of a channel and denom none of whose counts moved.
FlowsAt(c, d) ==
  /\ flow[c][d].in = NArrived(c, d)
  /\ NArrived(c, d) - NLeft(c, d) <= MaxRecv
  /\ c \notin V1 => /\ flow[c][d].out = NLeft(c, d) - NFailed(c, d)
                    /\ flow[c][d].out - flow[c][d].in <= MaxSend
  /\ c \in V1 => flow[c][d].out = 0

\* Flows and counts are numbers.
LEMMA FlowNumbers ==
  ASSUME Typed, NEW c \in Channels, NEW e \in Denoms
  PROVE  /\ flow[c][e].in \in Nat /\ flow[c][e].out \in Nat
         /\ NArrived(c, e) \in Nat /\ NLeft(c, e) \in Nat /\ NFailed(c, e) \in Nat
         /\ NFailed(c, e) <= NLeft(c, e) /\ MaxRecv \in Nat /\ MaxSend \in Nat
  <1>1. packets \in Seq(PacketType)
    BY DEF Typed
  <1>2. flow[c][e] \in [in : Nat, out : Nat]
    BY DEF Typed
  <1> QED BY <1>1, <1>2, Counted, StackAssumption

\* A change that moves no flow: neither a window nor a failure in this one.
LEMMA BecomesFlows ==
  ASSUME Typed, Flows, NEW i, NEW q, Becomes(i, q), epoch' = epoch, flow' = flow,
         q.win # packets[i].win => q.out /\ q.ch \in V1 /\ packets[i].win < q.win /\ q.win <= epoch,
         q.out /\ q.ch \notin V1 /\ q.win = epoch => (q.st = "back" <=> packets[i].st = "back")
  PROVE  Flows'
  <1>1. ASSUME NEW c \in Channels, NEW e \in Denoms PROVE FlowsAt(c, e)'
    <2>1. FlowsAt(c, e)
      BY DEF Flows, FlowsAt
    <2>2. /\ flow[c][e].in \in Nat /\ flow[c][e].out \in Nat
          /\ NArrived(c, e) \in Nat /\ NLeft(c, e) \in Nat /\ NFailed(c, e) \in Nat
          /\ MaxRecv \in Nat /\ MaxSend \in Nat
      BY FlowNumbers
    <2>3. CASE ~(c = q.ch /\ e = q.d)
      <3>1. NArrived(c, e)' = NArrived(c, e) /\ NLeft(c, e)' = NLeft(c, e) /\ NFailed(c, e)' = NFailed(c, e)
        BY <2>3, BecomesCounts
      <3> QED BY <2>1, <3>1 DEF FlowsAt
    <2>4. CASE c = q.ch /\ e = q.d
      <3>1. /\ NArrived(c, e)' = NArrived(c, e) + Bit(~q.out /\ q.win = epoch)
                                          - Bit(~q.out /\ packets[i].win = epoch)
            /\ NLeft(c, e)' = NLeft(c, e) + Bit(q.out /\ q.win = epoch)
                                       - Bit(q.out /\ packets[i].win = epoch)
            /\ NFailed(c, e)' = NFailed(c, e) + Bit(q.out /\ q.win = epoch /\ q.st = "back")
                        - Bit(q.out /\ packets[i].win = epoch /\ packets[i].st = "back")
        BY <2>4, BecomesCounts
      <3>2. CASE q.win = packets[i].win
        <4>1. NArrived(c, e)' = NArrived(c, e) /\ NLeft(c, e)' = NLeft(c, e)
          BY <2>2, <3>1, <3>2 DEF Bit
        <4>2. c \notin V1 => NFailed(c, e)' = NFailed(c, e)
          BY <2>2, <2>4, <3>1, <3>2 DEF Bit
        <4> QED BY <2>1, <4>1, <4>2 DEF FlowsAt
      <3>3. CASE q.win # packets[i].win
        <4>1. q.out /\ c \in V1 /\ NArrived(c, e)' = NArrived(c, e)
          BY <2>2, <2>4, <3>1, <3>3 DEF Bit
        <4>2. NLeft(c, e)' \in Nat /\ NLeft(c, e)' >= NLeft(c, e)
          <5>0. packets[i].win \in Int /\ q.win \in Int /\ epoch \in Int
            BY BecomesIs, FieldsOf DEF Typed, Becomes
          <5>1. packets[i].win # epoch
            BY <3>3, <5>0
          <5> QED BY <2>2, <3>1, <4>1, <5>1 DEF Bit
        <4> QED BY <2>1, <2>2, <4>1, <4>2 DEF FlowsAt
      <3> QED BY <3>2, <3>3
    <2> QED BY <2>3, <2>4
  <1> QED BY <1>1 DEF Flows, FlowsAt

\* What a step does to purses and escrow: u to the user at echofi, f to the one
\* behind ch, x to escrow.
Purses(ch, d, u, f, x) ==
  /\ user' \in [Denoms -> Int] /\ far' \in [Channels -> [Denoms -> Int]]
  /\ esc' \in [Channels -> [Denoms -> Int]]
  /\ \A e \in Denoms : user'[e] = IF e = d THEN user[e] + u ELSE user[e]
  /\ \A c \in Channels, e \in Denoms :
       /\ far'[c][e] = IF c = ch /\ e = d THEN far[c][e] + f ELSE far[c][e]
       /\ esc'[c][e] = IF c = ch /\ e = d /\ ch # d THEN esc[c][e] + x ELSE esc[c][e]

\* Accounts that stay.
LEMMA PursesStay ==
  ASSUME Typed, NEW ch, NEW d, UNCHANGED <<user, far, esc>>
  PROVE  Purses(ch, d, 0, 0, 0)
  <1>1. /\ \A e \in Denoms : user[e] \in Nat
        /\ \A c \in Channels, e \in Denoms : far[c][e] \in Nat /\ esc[c][e] \in Nat
    BY DEF Typed
  <1>2. /\ user \in [Denoms -> Int] /\ far \in [Channels -> [Denoms -> Int]]
        /\ esc \in [Channels -> [Denoms -> Int]]
    BY DEF Typed
  <1>3. user' = user /\ far' = far /\ esc' = esc
    OBVIOUS
  <1> QED BY <1>1, <1>2, <1>3 DEF Purses

\* A token out of escrow to a user of echofi.
LEMMA PursesRefund ==
  ASSUME Typed, NEW ch \in Channels, NEW d \in Denoms, far' = far,
         user' = [user EXCEPT ![d] = @ + 1], esc' = Escrowed(esc, ch, d, -1)
  PROVE  Purses(ch, d, 1, 0, -1) /\ user' \in [Denoms -> Nat]
  <1>1. /\ \A e \in Denoms : user[e] \in Nat
        /\ \A c \in Channels, e \in Denoms : far[c][e] \in Nat /\ esc[c][e] \in Int
    BY DEF Typed
  <1>2. /\ user \in [Denoms -> Nat] /\ far \in [Channels -> [Denoms -> Int]]
        /\ esc \in [Channels -> [Denoms -> Int]] /\ -1 \in Int
    BY DEF Typed
  <1>3. /\ esc' \in [Channels -> [Denoms -> Int]]
        /\ \A c \in Channels, e \in Denoms :
             esc'[c][e] = IF c = ch /\ e = d /\ ch # d THEN esc[c][e] + (-1) ELSE esc[c][e]
    <2>1. EscrowIs(esc', esc, ch, d, -1)
      BY <1>2, EscrowedIs, Zenon
    <2> QED BY <2>1 DEF EscrowIs
  <1>4. /\ user' \in [Denoms -> Nat]
        /\ \A e \in Denoms : user'[e] = IF e = d THEN user[e] + 1 ELSE user[e]
    BY <1>1, <1>2
  <1>5. user' \in [Denoms -> Int]
    BY <1>4
  <1> QED BY <1>1, <1>2, <1>3, <1>4, <1>5 DEF Purses

\* A token more or less behind a channel.
LEMMA PursesFar ==
  ASSUME Typed, NEW ch \in Channels, NEW d \in Denoms, NEW f \in Int, far[ch][d] + f \in Nat,
         far' = [far EXCEPT ![ch][d] = @ + f], UNCHANGED <<user, esc>>
  PROVE  Purses(ch, d, 0, f, 0) /\ far' \in [Channels -> [Denoms -> Nat]]
  <1>1. /\ \A e \in Denoms : user[e] \in Nat
        /\ \A c \in Channels, e \in Denoms : far[c][e] \in Nat /\ esc[c][e] \in Nat
    BY DEF Typed
  <1>2. /\ user \in [Denoms -> Int] /\ far \in [Channels -> [Denoms -> Nat]]
        /\ esc \in [Channels -> [Denoms -> Int]]
    BY DEF Typed
  <1>3. user' = user /\ esc' = esc
    OBVIOUS
  <1>4. /\ far' \in [Channels -> [Denoms -> Nat]]
        /\ \A c \in Channels, e \in Denoms :
             far'[c][e] = IF c = ch /\ e = d THEN far[c][e] + f ELSE far[c][e]
    BY <1>2
  <1>5. far' \in [Channels -> [Denoms -> Int]]
    BY <1>4
  <1> QED BY <1>1, <1>2, <1>3, <1>4, <1>5 DEF Purses

\* A balanced change of one packet keeps the invariant.
LEMMA BecomesInv ==
  ASSUME StackInv, NEW i, NEW q, Becomes(i, q),
         NEW u \in Int, NEW f \in Int, NEW x \in Int, Purses(q.ch, q.d, u, f, x),
         Balances(u, f, x, Bit(q.st \in Flight) - Bit(packets[i].st \in Flight)),
         user' \in [Denoms -> Nat], far' \in [Channels -> [Denoms -> Nat]],
         epoch' = epoch, pending' \subseteq pending,
         flow' \in [Channels -> [Denoms -> [in : Nat, out : Nat]]], Windows', Flows'
  PROVE  StackInv'
  <1> DEFINE b == Bit(q.st \in Flight) - Bit(packets[i].st \in Flight)
  <1>1. /\ packets' \in Seq(PacketType) /\ DOMAIN packets' = DOMAIN packets
        /\ q.ch \in Channels /\ q.d \in Denoms /\ Typed
    BY BecomesIs, FieldsOf DEF Becomes, StackInv
  <1>2. b \in Int
    BY DEF Bit
  <1>3. ASSUME NEW c \in Channels, NEW e \in Denoms
        PROVE  NFlying(c, e)' = IF c = q.ch /\ e = q.d THEN NFlying(c, e) + b ELSE NFlying(c, e)
    <2>1. NFlying(c, e) \in Nat
      BY <1>1, NumbersAre
    <2>2. CASE c = q.ch /\ e = q.d
      <3>1. NFlying(c, e)' = NFlying(c, e) + Bit(q.st \in Flight) - Bit(packets[i].st \in Flight)
        BY <1>1, <2>2, BecomesCounts
      <3> QED BY <2>1, <2>2, <3>1 DEF Bit
    <2>3. CASE ~(c = q.ch /\ e = q.d)
      BY <1>1, <2>3, BecomesCounts
    <2> QED BY <2>2, <2>3
  <1>4. Moves(q.ch, q.d, u, f, x, b)
    <2> HIDE DEF b
    <2> QED BY <1>3 DEF Moves, Purses
  <1>5. Money' /\ esc' \in [Channels -> [Denoms -> Nat]]
    <2>1. Balances(u, f, x, b)
      OBVIOUS
    <2> HIDE DEF b
    <2> QED BY <1>1, <1>2, <1>4, <2>1, MoneyMoves
  <1>6. Hops'
    BY <1>1, BecomesHops DEF StackInv
  <1>7. Typed'
    BY <1>1, <1>5 DEF Typed
  <1> QED BY <1>5, <1>6, <1>7 DEF StackInv

-----------------------------------------------------------------------------
\* The steps that change one packet.
LEMMA PacketIs ==
  ASSUME StackInv, NEW i \in Numbers
  PROVE  packets[i] \in PacketType /\ i \in DOMAIN packets /\ Typed /\ Hops /\ Windows /\ Flows
  <1>1. packets \in [DOMAIN packets -> PacketType]
    BY LenProperties DEF StackInv, Typed
  <1> QED BY <1>1 DEF Numbers, StackInv

\* A change of state that is neither to "sent" nor out of "held".
LEMMA BecomeIs ==
  ASSUME StackInv, NEW i \in Numbers, NEW st \in States \ {"sent"}, packets' = Become(i, st),
         packets[i].st # "held",
         packets[i].orig # 0 /\ st \in Live => packets[i].st \in Live
  PROVE  Becomes(i, [packets[i] EXCEPT !.st = st])
  <1> DEFINE q == [packets[i] EXCEPT !.st = st]
  <1>1. packets[i] \in PacketType /\ i \in DOMAIN packets
    BY PacketIs
  <1>2. /\ q \in PacketType /\ q.ch = packets[i].ch /\ q.d = packets[i].d /\ q.out = packets[i].out
        /\ q.memo = packets[i].memo /\ q.orig = packets[i].orig /\ q.st = st
    BY <1>1 DEF PacketType
  <1>3. packets' = [packets EXCEPT ![i] = q]
    BY DEF Become
  <1> HIDE DEF q
  <1> QED BY <1>1, <1>2, <1>3 DEF Becomes, q

\* What such a change does to the tokens: nothing, a credit behind the channel,
\* or a credit at echofi out of escrow.
BecomesAnd(i, q) ==
  /\ Becomes(i, q) /\ Windows' /\ Flows'
  /\ epoch' = epoch /\ pending' \subseteq pending
  /\ flow' \in [Channels -> [Denoms -> [in : Nat, out : Nat]]]

\* No account moves.
LEMMA StaysInv ==
  ASSUME StackInv, NEW i, NEW q, BecomesAnd(i, q), UNCHANGED <<user, far, esc>>,
         q.st \in Flight <=> packets[i].st \in Flight
  PROVE  StackInv'
  <1>1. Purses(q.ch, q.d, 0, 0, 0) /\ 0 \in Int
    BY PursesStay DEF StackInv
  <1>2. Balances(0, 0, 0, Bit(q.st \in Flight) - Bit(packets[i].st \in Flight))
    BY DEF Balances, Bit
  <1>3. user' \in [Denoms -> Nat] /\ far' \in [Channels -> [Denoms -> Nat]]
    BY DEF StackInv, Typed
  <1> QED BY <1>1, <1>2, <1>3, BecomesInv, Zenon DEF BecomesAnd

\* A token arrives behind the channel.
LEMMA FarInv ==
  ASSUME StackInv, NEW i, NEW q, BecomesAnd(i, q), UNCHANGED <<user, esc>>,
         far' = [far EXCEPT ![q.ch][q.d] = @ + 1], q.st \notin Flight, packets[i].st \in Flight
  PROVE  StackInv'
  <1>0. Typed /\ q.ch \in Channels /\ q.d \in Denoms /\ 0 \in Int /\ 1 \in Int
    BY FieldsOf DEF BecomesAnd, Becomes, StackInv
  <1>1. Purses(q.ch, q.d, 0, 1, 0) /\ far' \in [Channels -> [Denoms -> Nat]]
    <2>1. far[q.ch][q.d] + 1 \in Nat
      BY <1>0 DEF Typed
    <2> QED BY <1>0, <2>1, PursesFar
  <1>2. Balances(0, 1, 0, Bit(q.st \in Flight) - Bit(packets[i].st \in Flight))
    BY DEF Balances, Bit
  <1>3. user' \in [Denoms -> Nat]
    BY <1>0 DEF Typed
  <1> QED BY <1>0, <1>1, <1>2, <1>3, BecomesInv, Zenon DEF BecomesAnd

\* A token comes back to echofi's user.
LEMMA RefundInv ==
  ASSUME StackInv, NEW i, NEW q, BecomesAnd(i, q), far' = far,
         user' = [user EXCEPT ![q.d] = @ + 1], esc' = Escrowed(esc, q.ch, q.d, -1),
         q.st \notin Flight, packets[i].st \in Flight
  PROVE  StackInv'
  <1>0. Typed /\ q.ch \in Channels /\ q.d \in Denoms /\ 0 \in Int /\ 1 \in Int /\ -1 \in Int
    BY FieldsOf DEF BecomesAnd, Becomes, StackInv
  <1>1. Purses(q.ch, q.d, 1, 0, -1) /\ user' \in [Denoms -> Nat]
    BY <1>0, PursesRefund
  <1>2. Balances(1, 0, -1, Bit(q.st \in Flight) - Bit(packets[i].st \in Flight))
    BY DEF Balances, Bit
  <1>3. far' \in [Channels -> [Denoms -> Nat]]
    BY <1>0 DEF Typed
  <1> QED BY <1>0, <1>1, <1>2, <1>3, BecomesInv, Zenon DEF BecomesAnd

\* RecvFails keeps the invariant.
LEMMA RecvFailsStep ==
  ASSUME StackInv, NEW i \in Numbers, RecvFails(i) PROVE StackInv'
  <1> DEFINE q == [packets[i] EXCEPT !.st = "err"]
  <1>1. /\ packets[i].st = "sent" /\ ~packets[i].out /\ packets' = Become(i, "err")
        /\ UNCHANGED <<user, esc, far, flow, pending, epoch>>
    BY DEF RecvFails, InFlightTo
  <1>2. packets[i] \in PacketType /\ i \in DOMAIN packets /\ Typed /\ Hops /\ Windows /\ Flows
    BY PacketIs
  <1>3. packets[i].orig = 0
    BY <1>1, <1>2 DEF Hops, HopOf
  <1>4. Becomes(i, q)
    BY <1>1, <1>3, BecomeIs DEF States
  <1>5. q.st = "err" /\ q.win = packets[i].win /\ q.out = packets[i].out /\ q.ch = packets[i].ch
    BY <1>2 DEF PacketType
  <1>6. q.win <= epoch /\ i \notin pending
    BY <1>1, <1>2, <1>5 DEF Windows
  <1> HIDE DEF q
  <1>7. Windows'
    BY <1>1, <1>2, <1>4, <1>5, <1>6, BecomesWindows DEF Live
  <1>8. Flows'
    BY <1>1, <1>2, <1>4, <1>5, BecomesFlows
  <1>9. BecomesAnd(i, q)
    BY <1>1, <1>2, <1>4, <1>7, <1>8 DEF BecomesAnd, Typed
  <1> QED BY <1>1, <1>5, <1>9, StaysInv DEF Flight

\* FarAck keeps the invariant.
LEMMA FarAckStep ==
  ASSUME StackInv, NEW i \in Numbers, FarAck(i) PROVE StackInv'
  <1> DEFINE q == [packets[i] EXCEPT !.st = "done"]
  <1>1. /\ packets[i].st = "ok" /\ ~packets[i].out /\ packets' = Become(i, "done")
        /\ UNCHANGED <<user, esc, far, flow, pending, epoch>>
    BY DEF FarAck
  <1>2. packets[i] \in PacketType /\ i \in DOMAIN packets /\ Typed /\ Hops /\ Windows /\ Flows
    BY PacketIs
  <1>3. packets[i].orig = 0
    BY <1>1, <1>2 DEF Hops, HopOf
  <1>4. Becomes(i, q)
    BY <1>1, <1>3, BecomeIs DEF States
  <1>5. q.st = "done" /\ q.win = packets[i].win /\ q.out = packets[i].out /\ q.ch = packets[i].ch
    BY <1>2 DEF PacketType
  <1>6. q.win <= epoch /\ i \notin pending
    BY <1>1, <1>2, <1>5 DEF Windows
  <1> HIDE DEF q
  <1>7. Windows'
    BY <1>1, <1>2, <1>4, <1>5, <1>6, BecomesWindows DEF Live
  <1>8. Flows'
    BY <1>1, <1>2, <1>4, <1>5, BecomesFlows
  <1>9. BecomesAnd(i, q)
    BY <1>1, <1>2, <1>4, <1>7, <1>8 DEF BecomesAnd, Typed
  <1> QED BY <1>1, <1>5, <1>9, StaysInv DEF Flight

\* FarRefund keeps the invariant.
LEMMA FarRefundStep ==
  ASSUME StackInv, NEW i \in Numbers, FarRefund(i) PROVE StackInv'
  <1> DEFINE q == [packets[i] EXCEPT !.st = "back"]
  <1>1. /\ packets[i].st \in {"err", "sent"} /\ ~packets[i].out /\ packets' = Become(i, "back")
        /\ far' = [far EXCEPT ![packets[i].ch][packets[i].d] = @ + 1]
        /\ UNCHANGED <<user, esc, flow, pending, epoch>>
    BY DEF FarRefund
  <1>2. packets[i] \in PacketType /\ i \in DOMAIN packets /\ Typed /\ Hops /\ Windows /\ Flows
    BY PacketIs
  <1>3. packets[i].orig = 0
    BY <1>1, <1>2 DEF Hops, HopOf
  <1>4. Becomes(i, q)
    BY <1>1, <1>3, BecomeIs DEF States
  <1>5. /\ q.st = "back" /\ q.win = packets[i].win /\ q.out = packets[i].out
        /\ q.ch = packets[i].ch /\ q.d = packets[i].d
    BY <1>2 DEF PacketType
  <1>6. q.win <= epoch /\ i \notin pending
    BY <1>1, <1>2, <1>5 DEF Windows
  <1> HIDE DEF q
  <1>7. Windows'
    BY <1>1, <1>2, <1>4, <1>5, <1>6, BecomesWindows DEF Live
  <1>8. Flows'
    BY <1>1, <1>2, <1>4, <1>5, BecomesFlows
  <1>9. BecomesAnd(i, q)
    BY <1>1, <1>2, <1>4, <1>7, <1>8 DEF BecomesAnd, Typed
  <1> QED BY <1>1, <1>5, <1>9, FarInv DEF Flight

\* FarRecv keeps the invariant.
LEMMA FarRecvStep ==
  ASSUME StackInv, NEW i \in Numbers, FarRecv(i) PROVE StackInv'
  <1>1. /\ packets[i].st = "sent" /\ packets[i].out
        /\ UNCHANGED <<user, esc, flow, pending, epoch>>
    BY DEF FarRecv
  <1>2. packets[i] \in PacketType /\ i \in DOMAIN packets /\ Typed /\ Hops /\ Windows /\ Flows
    BY PacketIs
  <1>3. ASSUME NEW st \in {"plus", "minus"}, packets' = Become(i, st)
        PROVE  BecomesAnd(i, [packets[i] EXCEPT !.st = st])
    <2> DEFINE q == [packets[i] EXCEPT !.st = st]
    <2>1. Becomes(i, q)
      BY <1>1, <1>3, BecomeIs DEF States, Live
    <2>2. q.st = st /\ q.win = packets[i].win /\ q.out = packets[i].out /\ q.ch = packets[i].ch
      BY <1>2 DEF PacketType
    <2>3. /\ q.win <= epoch
          /\ q.out /\ q.ch \notin V1 /\ q.win = epoch => i \in pending
          /\ i \in pending => q.win = epoch
      BY <1>1, <1>2, <2>2 DEF Windows, Live
    <2> HIDE DEF q
    <2>4. Windows'
      BY <1>1, <1>2, <1>3, <2>1, <2>2, <2>3, BecomesWindows DEF Live
    <2>5. Flows'
      BY <1>1, <1>2, <1>3, <2>1, <2>2, BecomesFlows
    <2> QED BY <1>1, <1>2, <2>1, <2>4, <2>5 DEF BecomesAnd, Typed, q
  <1>4. CASE packets' = Become(i, "plus") /\ far' = [far EXCEPT ![packets[i].ch][packets[i].d] = @ + 1]
    <2> DEFINE q == [packets[i] EXCEPT !.st = "plus"]
    <2>1. q.st = "plus" /\ q.ch = packets[i].ch /\ q.d = packets[i].d
      BY <1>2 DEF PacketType
    <2>2. BecomesAnd(i, q)
      BY <1>3, <1>4
    <2> HIDE DEF q
    <2> QED BY <1>1, <1>4, <2>1, <2>2, FarInv DEF Flight
  <1>5. CASE packets' = Become(i, "minus") /\ far' = far
    <2> DEFINE q == [packets[i] EXCEPT !.st = "minus"]
    <2>1. q.st = "minus"
      BY <1>2 DEF PacketType
    <2>2. BecomesAnd(i, q)
      BY <1>3, <1>5
    <2> HIDE DEF q
    <2> QED BY <1>1, <1>5, <2>1, <2>2, StaysInv DEF Flight
  <1> QED BY <1>4, <1>5 DEF FarRecv

\* Every stack has the rate limit, so whatever arrives is counted.
LEMMA StacksAreLimited ==
  ASSUME NEW ch \in Channels PROVE Limited(Stack(ch))
  <1>1. "ratelimit" \in ToSet(transferStack)
    <2>1. 1 \in DOMAIN transferStack /\ transferStack[1] = "ratelimit"
      BY DEF transferStack
    <2> QED BY <2>1 DEF ToSet
  <1>2. "ratelimit" \in ToSet(transferStackV2)
    <2>1. 1 \in DOMAIN transferStackV2 /\ transferStackV2[1] = "ratelimit"
      BY DEF transferStackV2
    <2> QED BY <2>1 DEF ToSet
  <1> QED BY <1>1, <1>2 DEF Limited, Stack

\* Sends of v1 do not meet the rate limit, sends of v2 do.
LEMMA SendsAreLimited ==
  ASSUME NEW ch \in Channels PROVE Limited(SendPath(ch)) <=> ch \notin V1
  <1>1. "ratelimit" \in ToSet(transferStackV2)
    <2>1. 1 \in DOMAIN transferStackV2 /\ transferStackV2[1] = "ratelimit"
      BY DEF transferStackV2
    <2> QED BY <2>1 DEF ToSet
  <1>2. "ratelimit" \notin ToSet(ICS4Wrapper)
    <2>1. \A j \in DOMAIN ICS4Wrapper : ICS4Wrapper[j] = "transfer"
      BY DEF ICS4Wrapper
    <2> QED BY <2>1 DEF ToSet
  <1> QED BY <1>1, <1>2 DEF Limited, SendPath

\* The flows do not see a packet leave over a channel of v1.
LEMMA HopIsUncounted ==
  ASSUME NEW ch \in V1, NEW i, NEW d, NEW f, NEW s, CountOut(i, ch, d, f, s)
  PROVE  flow' = f /\ pending' = s
  <1>1. ch \in Channels
    BY DEF V1, Channels
  <1>2. ~Limited(SendPath(ch))
    BY <1>1, SendsAreLimited
  <1> QED BY <1>2 DEF CountOut

\* The counts after a receipt over ch, which may leave over a channel of v1.
ArrivedOver(ch, d) ==
  \A c \in Channels, e \in Denoms :
    /\ NArrived(c, e)' = IF c = ch /\ e = d THEN NArrived(c, e) + 1 ELSE NArrived(c, e)
    /\ NLeft(c, e)' \in Nat /\ NLeft(c, e)' >= NLeft(c, e)
    /\ c \notin V1 => NLeft(c, e)' = NLeft(c, e) /\ NFailed(c, e)' = NFailed(c, e)

\* A counted receipt keeps the flows and their quota.
LEMMA ReceiptFlows ==
  ASSUME Typed, Flows, NEW ch \in Channels, NEW d \in Denoms, RecvAllowed(ch, d),
         flow' = CountedIn(ch, d), ArrivedOver(ch, d)
  PROVE  Flows' /\ flow' \in [Channels -> [Denoms -> [in : Nat, out : Nat]]]
  <1>1. flow' = [flow EXCEPT ![ch][d].in = @ + 1]
    BY StacksAreLimited DEF CountedIn
  <1>2. flow \in [Channels -> [Denoms -> [in : Nat, out : Nat]]]
    BY DEF Typed
  <1>3. \A c \in Channels, e \in Denoms :
          /\ flow'[c][e].out = flow[c][e].out
          /\ flow'[c][e].in = IF c = ch /\ e = d THEN flow[c][e].in + 1 ELSE flow[c][e].in
          /\ flow'[c][e] \in [in : Nat, out : Nat]
    BY <1>1, <1>2
  <1>4. flow' \in [Channels -> [Denoms -> [in : Nat, out : Nat]]]
    BY <1>1, <1>2
  <1>5. ASSUME NEW c \in Channels, NEW e \in Denoms PROVE FlowsAt(c, e)'
    <2>1. FlowsAt(c, e)
      BY DEF Flows, FlowsAt
    <2>2. /\ flow[c][e].in \in Nat /\ flow[c][e].out \in Nat
          /\ NArrived(c, e) \in Nat /\ NLeft(c, e) \in Nat /\ NFailed(c, e) \in Nat
          /\ NFailed(c, e) <= NLeft(c, e) /\ MaxRecv \in Nat /\ MaxSend \in Nat
      BY FlowNumbers
    <2>3. /\ NArrived(c, e)' = IF c = ch /\ e = d THEN NArrived(c, e) + 1 ELSE NArrived(c, e)
          /\ NLeft(c, e)' \in Nat /\ NLeft(c, e)' >= NLeft(c, e)
          /\ c \notin V1 => NLeft(c, e)' = NLeft(c, e) /\ NFailed(c, e)' = NFailed(c, e)
      BY DEF ArrivedOver
    <2>4. /\ flow'[c][e].out = flow[c][e].out
          /\ flow'[c][e].in = IF c = ch /\ e = d THEN flow[c][e].in + 1 ELSE flow[c][e].in
      BY <1>3
    <2>5. CASE c = ch /\ e = d
      <3>1. flow[c][e].in - flow[c][e].out + 1 <= MaxRecv
        BY <2>5 DEF RecvAllowed
      <3>2. flow[c][e].out <= NLeft(c, e)
        BY <2>1, <2>2 DEF FlowsAt
      <3> QED BY <2>1, <2>2, <2>3, <2>4, <2>5, <3>1, <3>2 DEF FlowsAt
    <2>6. CASE ~(c = ch /\ e = d)
      BY <2>1, <2>2, <2>3, <2>4, <2>6 DEF FlowsAt
    <2> QED BY <2>5, <2>6
  <1> QED BY <1>4, <1>5 DEF Flows, FlowsAt

\* Recv keeps the invariant.
LEMMA RecvStep ==
  ASSUME StackInv, NEW i \in Numbers, Recv(i) PROVE StackInv'
  <1> DEFINE q == [packets[i] EXCEPT !.st = "ok", !.win = epoch]
  <1>1. /\ packets[i].st = "sent" /\ ~packets[i].out
        /\ packets' = [packets EXCEPT ![i].st = "ok", ![i].win = epoch]
        /\ user' = [user EXCEPT ![packets[i].d] = @ + 1]
        /\ esc' = Escrowed(esc, packets[i].ch, packets[i].d, -1)
        /\ flow' = CountedIn(packets[i].ch, packets[i].d) /\ RecvCounts(i)
        /\ UNCHANGED <<far, pending, epoch>>
    BY DEF Recv, InFlightTo
  <1>2. packets[i] \in PacketType /\ i \in DOMAIN packets /\ Typed /\ Hops /\ Windows /\ Flows
    BY PacketIs
  <1>3. packets[i].orig = 0 /\ packets[i].win = -1 /\ i \notin pending
    BY <1>1, <1>2 DEF Hops, HopOf, Windows
  <1>4. epoch \in Nat /\ packets[i].ch \in Channels /\ packets[i].d \in Denoms
    BY <1>2, FieldsOf, StackAssumption DEF Typed
  <1>5. /\ q \in PacketType /\ q.st = "ok" /\ q.win = epoch /\ q.out = packets[i].out
        /\ q.ch = packets[i].ch /\ q.d = packets[i].d /\ q.memo = packets[i].memo
        /\ q.orig = packets[i].orig
    <2>1. "ok" \in States
      BY DEF States
    <2>2. epoch \in Int
      BY <1>4
    <2> QED BY <1>2, <2>1, <2>2 DEF PacketType
  <1>6. packets' = [packets EXCEPT ![i] = q]
    BY <1>1, <1>2
  <1> HIDE DEF q
  <1>7. Becomes(i, q)
    BY <1>1, <1>2, <1>3, <1>5, <1>6 DEF Becomes
  <1>8. Windows'
    BY <1>1, <1>2, <1>3, <1>4, <1>5, <1>7, BecomesWindows
  <1>9. ArrivedOver(q.ch, q.d)
    <2>1. ASSUME NEW c \in Channels, NEW e \in Denoms
          PROVE  /\ NArrived(c, e)' = IF c = q.ch /\ e = q.d THEN NArrived(c, e) + 1 ELSE NArrived(c, e)
                 /\ NLeft(c, e)' = NLeft(c, e) /\ NFailed(c, e)' = NFailed(c, e)
                 /\ NLeft(c, e) \in Nat
      <3>1. NArrived(c, e) \in Nat /\ NLeft(c, e) \in Nat /\ NFailed(c, e) \in Nat
        BY <1>2, FlowNumbers
      <3>2. CASE c = q.ch /\ e = q.d
        <4>1. /\ NArrived(c, e)' = NArrived(c, e) + Bit(~q.out /\ q.win = epoch)
                                          - Bit(~q.out /\ packets[i].win = epoch)
              /\ NLeft(c, e)' = NLeft(c, e) + Bit(q.out /\ q.win = epoch)
                                       - Bit(q.out /\ packets[i].win = epoch)
              /\ NFailed(c, e)' = NFailed(c, e) + Bit(q.out /\ q.win = epoch /\ q.st = "back")
                        - Bit(q.out /\ packets[i].win = epoch /\ packets[i].st = "back")
          BY <1>1, <1>2, <1>7, <3>2, BecomesCounts
        <4>2. packets[i].win # epoch
          BY <1>3, <1>4
        <4> QED BY <1>1, <1>5, <3>1, <3>2, <4>1, <4>2 DEF Bit
      <3>3. CASE ~(c = q.ch /\ e = q.d)
        BY <1>1, <1>2, <1>7, <3>1, <3>3, BecomesCounts
      <3> QED BY <3>2, <3>3
    <2> QED BY <2>1 DEF ArrivedOver
  <1>10. RecvAllowed(q.ch, q.d)
    BY <1>1, <1>4, <1>5, StacksAreLimited DEF RecvCounts
  <1>11. Flows' /\ flow' \in [Channels -> [Denoms -> [in : Nat, out : Nat]]]
    BY <1>1, <1>2, <1>4, <1>5, <1>9, <1>10, ReceiptFlows
  <1>12. BecomesAnd(i, q)
    BY <1>1, <1>7, <1>8, <1>11 DEF BecomesAnd
  <1> QED BY <1>1, <1>5, <1>12, RefundInv DEF Flight

-----------------------------------------------------------------------------
\* A refund at echofi, of a send nobody forwards for.
LEMMA RefundStep ==
  ASSUME StackInv, NEW i \in Numbers, packets[i].out, packets[i].st \in {"minus", "sent"},
         packets[i].orig = 0, RefundSender(i), Settled(i, FALSE), UNCHANGED <<far, epoch>>
  PROVE  StackInv'
  <1> DEFINE q == [packets[i] EXCEPT !.st = "back"]
  <1>1. /\ packets' = Become(i, "back")
        /\ user' = [user EXCEPT ![packets[i].d] = @ + 1]
        /\ esc' = Escrowed(esc, packets[i].ch, packets[i].d, -1)
        /\ pending' = pending \ {i}
        /\ flow' = IF i \notin pending THEN flow
                   ELSE [flow EXCEPT ![packets[i].ch][packets[i].d].out = @ - 1]
    BY DEF RefundSender, Settled, TakenOut
  <1>2. packets[i] \in PacketType /\ i \in DOMAIN packets /\ Typed /\ Hops /\ Windows /\ Flows
    BY PacketIs
  <1>3. Becomes(i, q)
    BY <1>1, BecomeIs DEF States
  <1>4. /\ q.st = "back" /\ q.win = packets[i].win /\ q.out = packets[i].out
        /\ q.ch = packets[i].ch /\ q.d = packets[i].d
    BY <1>2 DEF PacketType
  <1>5. q.win <= epoch /\ i \notin pending'
    BY <1>1, <1>2, <1>4 DEF Windows
  <1> HIDE DEF q
  <1>6. Windows'
    BY <1>1, <1>2, <1>3, <1>4, <1>5, BecomesWindows DEF Live
  <1>7. Flows' /\ flow' \in [Channels -> [Denoms -> [in : Nat, out : Nat]]]
    <2>1. CASE i \notin pending
      <3>1. ~(q.out /\ q.ch \notin V1 /\ q.win = epoch)
        BY <1>2, <1>4, <2>1 DEF Windows, Live
      <3>2. flow' = flow
        BY <1>1, <2>1
      <3>3. Flows'
        BY <1>2, <1>3, <1>4, <3>1, <3>2, BecomesFlows
      <3> QED BY <1>2, <3>2, <3>3 DEF Typed
    <2>2. CASE i \in pending
      <3>1. q.out /\ q.ch \notin V1 /\ q.win = epoch /\ q.ch \in Channels /\ q.d \in Denoms
        BY <1>2, <1>4, <2>2, FieldsOf DEF Windows
      <3>2. /\ flow' = [flow EXCEPT ![q.ch][q.d].out = @ - 1]
            /\ flow \in [Channels -> [Denoms -> [in : Nat, out : Nat]]]
        BY <1>1, <1>2, <1>4, <2>2 DEF Typed
      <3>3. NFailed(q.ch, q.d) < NLeft(q.ch, q.d)
        <4>1. i \in Left(q.ch, q.d) /\ i \notin Failed(q.ch, q.d)
          BY <1>2, <1>4, <3>1 DEF Left, Failed
        <4>2. Failed(q.ch, q.d) \subseteq Left(q.ch, q.d) /\ IsFiniteSet(Left(q.ch, q.d))
          <5>1. packets \in Seq(PacketType)
            BY <1>2 DEF Typed
          <5>2. IsFiniteSet(Left(q.ch, q.d))
            BY <5>1, Counted
          <5> QED BY <5>2 DEF Left, Failed
        <4>3. NFailed(q.ch, q.d) # NLeft(q.ch, q.d)
          BY <4>1, <4>2, FS_Subset DEF NFailed, NLeft
        <4> QED BY <1>2, <3>1, <4>3, FlowNumbers
      <3>4. flow[q.ch][q.d].out \in Nat \ {0}
        <4>1. flow[q.ch][q.d].out = NLeft(q.ch, q.d) - NFailed(q.ch, q.d)
          BY <1>2, <3>1 DEF Flows
        <4> QED BY <1>2, <3>1, <3>3, <4>1, FlowNumbers
      <3>5. /\ flow' \in [Channels -> [Denoms -> [in : Nat, out : Nat]]]
            /\ \A c \in Channels, e \in Denoms :
                 /\ flow'[c][e].in = flow[c][e].in
                 /\ flow'[c][e].out = IF c = q.ch /\ e = q.d THEN flow[c][e].out - 1
                                      ELSE flow[c][e].out
        <4> DEFINE n == flow[q.ch][q.d].out - 1
                   r == [flow[q.ch][q.d] EXCEPT !.out = n]
                   g == [flow[q.ch] EXCEPT ![q.d] = r]
        <4>1. n \in Nat
          BY <3>4
        <4>2. flow[q.ch] \in [Denoms -> [in : Nat, out : Nat]]
          BY <3>1, <3>2
        <4>3. flow[q.ch][q.d] \in [in : Nat, out : Nat]
          BY <3>1, <4>2
        <4>4. flow' = [flow EXCEPT ![q.ch] = g]
          BY <3>2
        <4>5. r \in [in : Nat, out : Nat] /\ r.in = flow[q.ch][q.d].in /\ r.out = n
          <5> HIDE DEF n
          <5> QED BY <4>1, <4>3
        <4> HIDE DEF r
        <4>6. /\ g \in [Denoms -> [in : Nat, out : Nat]]
              /\ g[q.d] = r /\ \A e \in Denoms : e # q.d => g[e] = flow[q.ch][e]
          BY <3>1, <4>2, <4>5
        <4> HIDE DEF g
        <4>7. /\ flow' \in [Channels -> [Denoms -> [in : Nat, out : Nat]]]
              /\ flow'[q.ch] = g /\ \A c \in Channels : c # q.ch => flow'[c] = flow[c]
          BY <3>1, <3>2, <4>4, <4>6
        <4> QED BY <4>5, <4>6, <4>7
      <3>6. ASSUME NEW c \in Channels, NEW e \in Denoms PROVE FlowsAt(c, e)'
        <4>1. FlowsAt(c, e)
          BY <1>2 DEF Flows, FlowsAt
        <4>2. /\ flow[c][e].in \in Nat /\ flow[c][e].out \in Nat
              /\ NArrived(c, e) \in Nat /\ NLeft(c, e) \in Nat /\ NFailed(c, e) \in Nat
              /\ MaxRecv \in Nat /\ MaxSend \in Nat
          BY <1>2, FlowNumbers
        <4>3. CASE c = q.ch /\ e = q.d
          <5>1. /\ NArrived(c, e)' = NArrived(c, e) + Bit(~q.out /\ q.win = epoch)
                                          - Bit(~q.out /\ packets[i].win = epoch)
                /\ NLeft(c, e)' = NLeft(c, e) + Bit(q.out /\ q.win = epoch)
                                       - Bit(q.out /\ packets[i].win = epoch)
                /\ NFailed(c, e)' = NFailed(c, e) + Bit(q.out /\ q.win = epoch /\ q.st = "back")
                        - Bit(q.out /\ packets[i].win = epoch /\ packets[i].st = "back")
            BY <1>2, <1>3, <4>3, BecomesCounts
          <5>2. /\ NArrived(c, e)' = NArrived(c, e) /\ NLeft(c, e)' = NLeft(c, e)
                /\ NFailed(c, e)' = NFailed(c, e) + 1
            <6>1. packets[i].win = epoch /\ packets[i].st # "back" /\ q.out /\ q.st = "back"
              BY <1>4, <3>1
            <6>2. /\ Bit(~q.out /\ q.win = epoch) = 0 /\ Bit(~q.out /\ packets[i].win = epoch) = 0
                  /\ Bit(q.out /\ q.win = epoch) = 1 /\ Bit(q.out /\ packets[i].win = epoch) = 1
                  /\ Bit(q.out /\ q.win = epoch /\ q.st = "back") = 1
                  /\ Bit(q.out /\ packets[i].win = epoch /\ packets[i].st = "back") = 0
              BY <3>1, <6>1 DEF Bit
            <6> QED BY <4>2, <5>1, <6>2
          <5>3. flow'[c][e].in = flow[c][e].in /\ flow'[c][e].out = flow[c][e].out - 1
            BY <3>5, <4>3
          <5> QED BY <3>1, <4>1, <4>2, <4>3, <5>2, <5>3 DEF FlowsAt
        <4>4. CASE ~(c = q.ch /\ e = q.d)
          <5>1. /\ NArrived(c, e)' = NArrived(c, e) /\ NLeft(c, e)' = NLeft(c, e)
                /\ NFailed(c, e)' = NFailed(c, e)
            BY <1>2, <1>3, <4>4, BecomesCounts
          <5>2. flow'[c][e].in = flow[c][e].in /\ flow'[c][e].out = flow[c][e].out
            <6>1. flow'[c][e].out = IF c = q.ch /\ e = q.d THEN flow[c][e].out - 1
                                    ELSE flow[c][e].out
              BY <3>5, Zenon
            <6>2. flow'[c][e].in = flow[c][e].in
              BY <3>5, Zenon
            <6> QED BY <4>4, <6>1, <6>2, Zenon
          <5> QED BY <4>1, <5>1, <5>2 DEF FlowsAt
        <4> QED BY <4>3, <4>4
      <3> QED BY <3>5, <3>6 DEF Flows, FlowsAt
    <2> QED BY <2>1, <2>2
  <1>8. BecomesAnd(i, q)
    BY <1>1, <1>3, <1>6, <1>7 DEF BecomesAnd
  <1> QED BY <1>1, <1>4, <1>8, RefundInv DEF Flight

\* A retry and a delivery change one packet too.
LEMMA RetryStep ==
  ASSUME StackInv, NEW i \in Numbers, packets[i].out, packets[i].st = "sent",
         Retry(i), UNCHANGED <<far, epoch>>
  PROVE  StackInv'
  <1> DEFINE q == [packets[i] EXCEPT !.retries = @ - 1, !.win = epoch]
  <1>1. /\ packets[i].orig # 0 /\ packets[i].retries > 0
        /\ packets' = [packets EXCEPT ![i].retries = @ - 1, ![i].win = epoch]
        /\ CountOut(i, packets[i].ch, packets[i].d, TakenOut(i, FALSE), pending \ {i})
        /\ UNCHANGED <<user, esc>>
    BY DEF Retry
  <1>2. packets[i] \in PacketType /\ i \in DOMAIN packets /\ Typed /\ Hops /\ Windows /\ Flows
    BY PacketIs
  <1>3. packets[i].ch \in V1 /\ i \notin pending
    BY <1>1, <1>2 DEF Hops, HopOf, Windows
  <1>4. pending' = pending /\ flow' = flow
    <2>1. TakenOut(i, FALSE) = flow /\ pending \ {i} = pending
      BY <1>3 DEF TakenOut
    <2> QED BY <1>1, <1>3, <2>1, HopIsUncounted
  <1>5. epoch \in Int /\ packets[i].retries - 1 \in Nat
    BY <1>1, <1>2, FieldsOf DEF Typed
  <1>6. /\ q \in PacketType /\ q.st = "sent" /\ q.win = epoch /\ q.out = packets[i].out
        /\ q.ch = packets[i].ch /\ q.d = packets[i].d /\ q.memo = packets[i].memo
        /\ q.orig = packets[i].orig
    BY <1>2, <1>5 DEF PacketType
  <1>7. packets' = [packets EXCEPT ![i] = q]
    BY <1>1, <1>2
  <1>8. packets[i].win <= epoch /\ packets[i].win \in Int
    BY <1>2, FieldsOf DEF Windows
  <1> HIDE DEF q
  <1>9. Becomes(i, q)
    BY <1>2, <1>6, <1>7 DEF Becomes, Live
  <1>a. q.out /\ q.ch \in V1 /\ q.win <= epoch /\ i \notin pending' /\ q.st \in Live /\ epoch' = epoch
    BY <1>3, <1>4, <1>5, <1>6 DEF Live
  <1>10. Windows'
    BY <1>2, <1>4, <1>9, <1>a, BecomesWindows
  <1>11. Flows'
    <2>1. q.win # packets[i].win => packets[i].win < q.win
      BY <1>5, <1>6, <1>8
    <2> QED BY <1>2, <1>4, <1>9, <1>a, <2>1, BecomesFlows
  <1>12. BecomesAnd(i, q)
    BY <1>2, <1>4, <1>9, <1>10, <1>11 DEF BecomesAnd, Typed
  <1> QED BY <1>1, <1>6, <1>12, StaysInv DEF Flight

\* The acknowledgement of a user's own packet keeps the invariant.
LEMMA DeliveredStep ==
  ASSUME StackInv, NEW i \in Numbers, AckSuccess(i), packets[i].orig = 0 PROVE StackInv'
  <1> DEFINE q == [packets[i] EXCEPT !.st = "done"]
  <1>1. /\ packets[i].out /\ packets[i].st = "plus" /\ Settled(i, TRUE)
        /\ packets' = [j \in Numbers |-> IF j = i THEN [packets[i] EXCEPT !.st = "done"]
                         ELSE IF j = packets[i].orig THEN [packets[j] EXCEPT !.st = "ok"]
                         ELSE packets[j]]
        /\ UNCHANGED <<user, esc, far, epoch>>
    BY DEF AckSuccess
  <1>2. packets[i] \in PacketType /\ i \in DOMAIN packets /\ Typed /\ Hops /\ Windows /\ Flows
    BY PacketIs
  <1>3. packets' = Become(i, "done")
    <2>1. DOMAIN packets = 1..Len(packets) /\ Len(packets) \in Nat
          /\ packets \in [DOMAIN packets -> PacketType]
      BY <1>2, LenProperties DEF Typed
    <2>2. \A j \in Numbers : j # packets[i].orig
      BY <2>1 DEF Numbers
    <2>3. packets' = [j \in Numbers |-> IF j = i THEN [packets[i] EXCEPT !.st = "done"] ELSE packets[j]]
      BY <1>1, <2>2
    <2> QED BY <2>1, <2>3 DEF Become, Numbers
  <1>4. Becomes(i, q)
    BY <1>1, <1>3, BecomeIs DEF States
  <1>5. /\ q.st = "done" /\ q.win = packets[i].win /\ q.out = packets[i].out
        /\ q.ch = packets[i].ch /\ q.d = packets[i].d
    BY <1>2 DEF PacketType
  <1>6. q.win <= epoch /\ pending' = pending \ {i} /\ flow' = flow
    BY <1>1, <1>2, <1>5 DEF Windows, Settled, TakenOut
  <1> HIDE DEF q
  <1>7. Windows'
    BY <1>1, <1>2, <1>4, <1>5, <1>6, BecomesWindows DEF Live
  <1>8. Flows'
    BY <1>1, <1>2, <1>4, <1>5, <1>6, BecomesFlows
  <1>9. BecomesAnd(i, q)
    BY <1>1, <1>2, <1>4, <1>6, <1>7, <1>8 DEF BecomesAnd, Typed
  <1> QED BY <1>1, <1>5, <1>9, StaysInv DEF Flight

-----------------------------------------------------------------------------
\* The steps that end a hop and let go of the packet it forwarded.
Lets(i, o, st, ost) ==
  /\ i \in DOMAIN packets /\ packets[i].orig = o /\ o # 0 /\ packets[i].st \in Live
  /\ st \in {"done", "back"} /\ ost \in {"ok", "err"}
  /\ packets' = [j \in DOMAIN packets |->
       IF j = i THEN [packets[i] EXCEPT !.st = st]
       ELSE IF j = o THEN [packets[o] EXCEPT !.st = ost] ELSE packets[j]]
  /\ pending' = pending /\ flow' = flow /\ epoch' = epoch

\* What such a step leaves alone.
LEMMA LetsIs ==
  ASSUME StackInv, NEW i, NEW o, NEW st, NEW ost, Lets(i, o, st, ost)
  PROVE  /\ packets' \in Seq(PacketType) /\ DOMAIN packets' = DOMAIN packets
         /\ o \in DOMAIN packets /\ o # i /\ HopOf(i, o) /\ packets[o].st = "held"
         /\ packets[i] \in PacketType /\ packets[o] \in PacketType
         /\ \A j \in DOMAIN packets :
              /\ packets'[j].ch = packets[j].ch /\ packets'[j].d = packets[j].d
              /\ packets'[j].out = packets[j].out /\ packets'[j].memo = packets[j].memo
              /\ packets'[j].orig = packets[j].orig /\ packets'[j].win = packets[j].win
         /\ packets'[i].st = st /\ packets'[o].st = ost
         /\ \A j \in DOMAIN packets \ {i, o} : packets'[j] = packets[j]
  <1>1. /\ DOMAIN packets = 1..Len(packets) /\ Len(packets) \in Nat
        /\ packets \in [DOMAIN packets -> PacketType]
    BY LenProperties DEF StackInv, Typed
  <1>2. HopOf(i, o)
    BY DEF StackInv, Hops, Lets
  <1>3. o \in DOMAIN packets /\ o # i /\ packets[o].st = "held"
    BY <1>1, <1>2 DEF HopOf, Lets
  <1>4. packets[i] \in PacketType /\ packets[o] \in PacketType /\ i \in DOMAIN packets
    BY <1>1, <1>3 DEF Lets
  <1>5. st \in States /\ ost \in States
    BY DEF Lets, States
  <1>6. /\ packets' = [j \in DOMAIN packets |->
             IF j = i THEN [packets[i] EXCEPT !.st = st]
             ELSE IF j = o THEN [packets[o] EXCEPT !.st = ost] ELSE packets[j]]
    BY DEF Lets
  <1>7. /\ [packets[i] EXCEPT !.st = st] \in PacketType
        /\ [packets[o] EXCEPT !.st = ost] \in PacketType
    BY <1>4, <1>5 DEF PacketType
  <1>8. packets' \in [1..Len(packets) -> PacketType] /\ DOMAIN packets' = DOMAIN packets
    BY <1>1, <1>6, <1>7
  <1>9. packets' \in Seq(PacketType)
    BY <1>1, <1>8
  <1>10. /\ packets'[i] = [packets[i] EXCEPT !.st = st]
         /\ packets'[o] = [packets[o] EXCEPT !.st = ost]
         /\ \A j \in DOMAIN packets \ {i, o} : packets'[j] = packets[j]
    BY <1>3, <1>4, <1>6
  <1>11. ASSUME NEW j \in DOMAIN packets
         PROVE  /\ packets'[j].ch = packets[j].ch /\ packets'[j].d = packets[j].d
                /\ packets'[j].out = packets[j].out /\ packets'[j].memo = packets[j].memo
                /\ packets'[j].orig = packets[j].orig /\ packets'[j].win = packets[j].win
    <2>1. CASE j = i
      BY <1>4, <1>10, <2>1 DEF PacketType
    <2>2. CASE j = o
      BY <1>4, <1>10, <2>2 DEF PacketType
    <2>3. CASE j \notin {i, o}
      BY <1>10, <2>3
    <2> QED BY <2>1, <2>2, <2>3
  <1>12. packets'[i].st = st /\ packets'[o].st = ost
    BY <1>4, <1>10 DEF PacketType
  <1> QED BY <1>2, <1>3, <1>4, <1>8, <1>9, <1>10, <1>11, <1>12

\* It keeps hops and forwards together.
LEMMA LetsHops ==
  ASSUME StackInv, NEW i, NEW o, NEW st, NEW ost, Lets(i, o, st, ost)
  PROVE  Hops'
  <1>1. /\ DOMAIN packets' = DOMAIN packets
        /\ o \in DOMAIN packets /\ i \in DOMAIN packets /\ HopOf(i, o)
        /\ \A j \in DOMAIN packets :
              /\ packets'[j].ch = packets[j].ch /\ packets'[j].d = packets[j].d
              /\ packets'[j].out = packets[j].out /\ packets'[j].memo = packets[j].memo
              /\ packets'[j].orig = packets[j].orig
        /\ packets'[i].st = st /\ packets'[o].st = ost
        /\ \A j \in DOMAIN packets \ {i, o} : packets'[j] = packets[j]
    <2>1. i \in DOMAIN packets
      BY DEF Lets
    <2> QED BY <2>1, LetsIs
  <1>2. st \notin Live /\ st # "sent" /\ ost # "sent" /\ packets[i].orig = o /\ Hops
    BY DEF Lets, Live, StackInv
  <1>3. ASSUME NEW j \in DOMAIN packets, packets[j].orig # 0
        PROVE  HopOf(j, packets[j].orig)'
    <2>1. HopOf(j, packets[j].orig)
      BY <1>2, <1>3 DEF Hops
    <2>2. j # o
      BY <1>1, <2>1 DEF HopOf
    <2>3. CASE j = i
      BY <1>1, <1>2, <2>1, <2>3 DEF HopOf
    <2>4. CASE j # i
      <3>1. packets[j].orig # o
        BY <1>1, <2>4 DEF HopOf
      <3>2. packets[j].orig # i
        BY <1>1, <2>1 DEF HopOf
      <3>3. packets'[j] = packets[j] /\ packets'[packets[j].orig] = packets[packets[j].orig]
        BY <1>1, <2>1, <2>2, <2>4, <3>1, <3>2 DEF HopOf
      <3> QED BY <1>1, <2>1, <3>3 DEF HopOf
    <2> QED BY <2>3, <2>4
  <1> QED BY <1>1, <1>2, <1>3 DEF Hops

\* Only the flights move: neither windows nor what an outgoing v2 packet is.
LEMMA LetsCounts ==
  ASSUME StackInv, NEW i, NEW o, NEW st, NEW ost, Lets(i, o, st, ost),
         NEW c \in Channels, NEW e \in Denoms
  PROVE  /\ NFlying(c, e)' = IF c = packets[i].ch /\ e = packets[i].d
                             THEN NFlying(c, e) - Bit(packets[i].st \in Flight)
                             ELSE IF c = packets[o].ch /\ e = packets[o].d
                             THEN NFlying(c, e) + Bit(ost \in Flight)
                             ELSE NFlying(c, e)
         /\ NArrived(c, e)' = NArrived(c, e) /\ NLeft(c, e)' = NLeft(c, e)
         /\ c \notin V1 => NFailed(c, e)' = NFailed(c, e)
  <1>1. /\ DOMAIN packets' = DOMAIN packets /\ epoch' = epoch
        /\ o \in DOMAIN packets /\ i \in DOMAIN packets /\ o # i
        /\ packets[o].ch # packets[i].ch /\ packets[i].ch \in V1 /\ ~packets[o].out
        /\ \A j \in DOMAIN packets :
              /\ packets'[j].ch = packets[j].ch /\ packets'[j].d = packets[j].d
              /\ packets'[j].out = packets[j].out /\ packets'[j].win = packets[j].win
        /\ packets'[i].st = st /\ packets'[o].st = ost
        /\ \A j \in DOMAIN packets \ {i, o} : packets'[j] = packets[j]
    <2>1. i \in DOMAIN packets /\ epoch' = epoch
      BY DEF Lets
    <2>2. HopOf(i, o)
      BY LetsIs
    <2>3. packets[o].ch # packets[i].ch /\ packets[i].ch \in V1 /\ ~packets[o].out
      BY <2>2 DEF HopOf
    <2> QED BY <2>1, <2>3, LetsIs
  <1>2. packets \in Seq(PacketType) /\ packets[o].st = "held" /\ st \notin Flight
    <2>1. packets[o].st = "held"
      BY LetsIs
    <2> QED BY <2>1 DEF StackInv, Typed, Lets, Flight
  <1>3. NArrived(c, e)' = NArrived(c, e) /\ NLeft(c, e)' = NLeft(c, e)
    <2>1. Arrived(c, e)' = Arrived(c, e) /\ Left(c, e)' = Left(c, e)
      BY <1>1 DEF Arrived, Left
    <2> QED BY <2>1 DEF NArrived, NLeft
  <1>4. ASSUME c \notin V1 PROVE NFailed(c, e)' = NFailed(c, e)
    <2>1. Failed(c, e)' = Failed(c, e)
      BY <1>1, <1>4 DEF Failed
    <2> QED BY <2>1 DEF NFailed
  <1>5. NFlying(c, e) \in Nat
    BY <1>2, Counted
  <1>6. CASE c # packets[o].ch
    <2>1. Touched(c, i)
      BY <1>1, <1>6 DEF Touched
    <2>2. NFlying(c, e)' = NFlying(c, e) + Bit(i \in Flying(c, e)') - Bit(i \in Flying(c, e))
      BY <1>2, <2>1, Counts
    <2>3. /\ i \notin Flying(c, e)'
          /\ i \in Flying(c, e) <=> /\ c = packets[i].ch /\ e = packets[i].d
                                    /\ packets[i].st \in Flight
      BY <1>1, <1>2 DEF Flying, Flight
    <2>4. CASE c = packets[i].ch /\ e = packets[i].d
      <3>0. /\ Bit(i \in Flying(c, e)') = 0 /\ Bit(packets[i].st \in Flight) \in {0, 1}
            /\ Bit(i \in Flying(c, e)) = Bit(packets[i].st \in Flight)
        BY <2>3, <2>4 DEF Bit
      <3>1. NFlying(c, e)' = NFlying(c, e) - Bit(packets[i].st \in Flight)
        BY <1>5, <2>2, <3>0
      <3> QED BY <1>3, <1>4, <2>4, <3>1
    <2>5. CASE ~(c = packets[i].ch /\ e = packets[i].d)
      <3>0. Bit(i \in Flying(c, e)') = 0 /\ Bit(i \in Flying(c, e)) = 0
        BY <2>3, <2>5 DEF Bit
      <3>1. NFlying(c, e)' = NFlying(c, e)
        BY <1>5, <2>2, <3>0
      <3> QED BY <1>3, <1>4, <1>6, <2>5, <3>1
    <2> QED BY <2>4, <2>5
  <1>7. CASE c = packets[o].ch
    <2>1. Touched(c, o)
      BY <1>1, <1>7 DEF Touched
    <2>2. NFlying(c, e)' = NFlying(c, e) + Bit(o \in Flying(c, e)') - Bit(o \in Flying(c, e))
      BY <1>2, <2>1, Counts
    <2>3. /\ o \notin Flying(c, e)
          /\ o \in Flying(c, e)' <=> e = packets[o].d /\ ost \in Flight
      BY <1>1, <1>2, <1>7 DEF Flying, Flight
    <2>4. c # packets[i].ch
      BY <1>1, <1>7
    <2>5. CASE e = packets[o].d
      <3>0. /\ Bit(o \in Flying(c, e)) = 0 /\ Bit(ost \in Flight) \in {0, 1}
            /\ Bit(o \in Flying(c, e)') = Bit(ost \in Flight)
        BY <2>3, <2>5 DEF Bit
      <3>1. NFlying(c, e)' = NFlying(c, e) + Bit(ost \in Flight)
        BY <1>5, <2>2, <3>0
      <3> QED BY <1>3, <1>4, <1>7, <2>4, <2>5, <3>1
    <2>6. CASE e # packets[o].d
      <3>0. Bit(o \in Flying(c, e)') = 0 /\ Bit(o \in Flying(c, e)) = 0
        BY <2>3, <2>6 DEF Bit
      <3>1. NFlying(c, e)' = NFlying(c, e)
        BY <1>5, <2>2, <3>0
      <3> QED BY <1>3, <1>4, <1>7, <2>4, <2>6, <3>1
    <2> QED BY <2>5, <2>6
  <1> QED BY <1>3, <1>4, <1>6, <1>7

\* It keeps windows and flows.
LEMMA LetsRest ==
  ASSUME StackInv, NEW i, NEW o, NEW st, NEW ost, Lets(i, o, st, ost)
  PROVE  Windows' /\ Flows'
  <1>1. /\ DOMAIN packets' = DOMAIN packets /\ epoch' = epoch /\ pending' = pending /\ flow' = flow
        /\ o \in DOMAIN packets /\ i \in DOMAIN packets /\ ~packets[o].out /\ packets[i].out
        /\ packets[i].ch \in V1
        /\ \A j \in DOMAIN packets :
              /\ packets'[j].ch = packets[j].ch
              /\ packets'[j].out = packets[j].out /\ packets'[j].win = packets[j].win
        /\ packets'[i].st = st /\ packets'[o].st = ost
        /\ \A j \in DOMAIN packets \ {i, o} : packets'[j] = packets[j]
    <2>1. i \in DOMAIN packets /\ epoch' = epoch /\ pending' = pending /\ flow' = flow
      BY DEF Lets
    <2>2. HopOf(i, o)
      BY LetsIs
    <2>3. packets[i].ch \in V1 /\ ~packets[o].out /\ packets[i].out
      BY <2>2 DEF HopOf
    <2> QED BY <2>1, <2>3, LetsIs
  <1>2. Windows /\ Flows /\ st \in {"done", "back"} /\ ost # "sent" /\ pending \subseteq DOMAIN packets
    BY DEF StackInv, Lets, Typed
  <1>3. Windows'
    <2>1. ASSUME NEW j \in DOMAIN packets
          PROVE  /\ packets'[j].win <= epoch
                 /\ ~packets'[j].out /\ packets'[j].st = "sent" => packets'[j].win = -1
                 /\ packets'[j].out => packets'[j].st \in Live \cup {"done", "back"}
                 /\ packets'[j].out /\ packets'[j].ch \notin V1 /\ packets'[j].win = epoch =>
                      (j \in pending <=> packets'[j].st \in Live)
      <3>1. CASE j = i
        BY <1>1, <1>2, <3>1 DEF Windows
      <3>2. CASE j = o
        BY <1>1, <1>2, <3>2 DEF Windows
      <3>3. CASE j \notin {i, o}
        BY <1>1, <1>2, <3>3 DEF Windows
      <3> QED BY <3>1, <3>2, <3>3
    <2> QED BY <1>1, <1>2, <2>1 DEF Windows
  <1>4. Flows'
    <2>1. ASSUME NEW c \in Channels, NEW e \in Denoms PROVE FlowsAt(c, e)'
      <3>1. FlowsAt(c, e)
        BY <1>2 DEF Flows, FlowsAt
      <3>2. /\ NArrived(c, e)' = NArrived(c, e) /\ NLeft(c, e)' = NLeft(c, e)
            /\ c \notin V1 => NFailed(c, e)' = NFailed(c, e)
        BY LetsCounts
      <3> QED BY <1>1, <3>1, <3>2 DEF FlowsAt
    <2> QED BY <2>1 DEF Flows, FlowsAt
  <1> QED BY <1>3, <1>4

\* Nothing moves.
LEMMA MoneyStays ==
  ASSUME Money, UNCHANGED <<user, esc, far>>,
         \A c \in Channels, e \in Denoms : NFlying(c, e)' = NFlying(c, e)
  PROVE  Money'
  <1>1. \A e : AllEscrowed(e)' = AllEscrowed(e)
    BY DEF AllEscrowed
  <1> QED BY <1>1 DEF Money

\* A hop was delivered: its forward is acknowledged.
LEMMA PassedOnLets ==
  ASSUME StackInv, NEW i \in Numbers, AckSuccess(i), packets[i].orig # 0
  PROVE  Lets(i, packets[i].orig, "done", "ok")
  <1> DEFINE o == packets[i].orig
  <1>1. /\ packets[i].out /\ packets[i].st = "plus" /\ Settled(i, TRUE)
        /\ packets' = [j \in Numbers |-> IF j = i THEN [packets[i] EXCEPT !.st = "done"]
                         ELSE IF j = o THEN [packets[j] EXCEPT !.st = "ok"]
                         ELSE packets[j]]
        /\ UNCHANGED <<user, esc, far, epoch>>
    BY DEF AckSuccess
  <1>2. i \in DOMAIN packets /\ Typed /\ Hops /\ Windows /\ Money
    BY PacketIs DEF StackInv
  <1>3. i \notin pending
    BY <1>2 DEF Hops, HopOf, Windows
  <1>4. pending' = pending /\ flow' = flow
    BY <1>1, <1>3 DEF Settled, TakenOut
  <1>5. packets' = [j \in DOMAIN packets |->
             IF j = i THEN [packets[i] EXCEPT !.st = "done"]
             ELSE IF j = o THEN [packets[o] EXCEPT !.st = "ok"] ELSE packets[j]]
    BY <1>1 DEF Numbers
  <1>6. Lets(i, o, "done", "ok")
    <2> HIDE DEF o
    <2>1. packets[i].orig = o
      BY DEF o
    <2> QED BY <1>1, <1>2, <1>4, <1>5, <2>1 DEF Lets, Live
  <1> QED BY <1>6

\* The acknowledgement of a hop keeps the invariant.
LEMMA PassedOnStep ==
  ASSUME StackInv, NEW i \in Numbers, AckSuccess(i), packets[i].orig # 0 PROVE StackInv'
  <1> DEFINE o == packets[i].orig
  <1>1. /\ packets[i].out /\ packets[i].st = "plus" /\ Settled(i, TRUE)
        /\ packets' = [j \in Numbers |-> IF j = i THEN [packets[i] EXCEPT !.st = "done"]
                         ELSE IF j = o THEN [packets[j] EXCEPT !.st = "ok"]
                         ELSE packets[j]]
        /\ UNCHANGED <<user, esc, far, epoch>>
    BY DEF AckSuccess
  <1>2. i \in DOMAIN packets /\ Typed /\ Hops /\ Windows /\ Money
    BY PacketIs DEF StackInv
  <1>3. i \notin pending
    BY <1>2 DEF Hops, HopOf, Windows
  <1>4. pending' = pending /\ flow' = flow
    BY <1>1, <1>3 DEF Settled, TakenOut
  <1>6. Lets(i, o, "done", "ok")
    BY PassedOnLets
  <1>7. Hops' /\ Windows' /\ Flows' /\ packets' \in Seq(PacketType) /\ DOMAIN packets' = DOMAIN packets
    BY <1>6, LetsHops, LetsRest, LetsIs
  <1>8. ASSUME NEW c \in Channels, NEW e \in Denoms PROVE NFlying(c, e)' = NFlying(c, e)
    <2>1. NFlying(c, e) \in Nat
      BY <1>2, NumbersAre
    <2>2. NFlying(c, e)' = IF c = packets[i].ch /\ e = packets[i].d
                             THEN NFlying(c, e) - Bit(packets[i].st \in Flight)
                             ELSE IF c = packets[o].ch /\ e = packets[o].d
                             THEN NFlying(c, e) + Bit("ok" \in Flight)
                             ELSE NFlying(c, e)
      BY <1>6, LetsCounts
    <2>3. Bit(packets[i].st \in Flight) = 0 /\ Bit("ok" \in Flight) = 0
      BY <1>1 DEF Bit, Flight
    <2> QED BY <2>1, <2>2, <2>3
  <1>9. Money'
    BY <1>1, <1>2, <1>8, MoneyStays
  <1>10. Typed'
    BY <1>1, <1>2, <1>4, <1>7 DEF Typed
  <1> QED BY <1>7, <1>9, <1>10 DEF StackInv

-----------------------------------------------------------------------------
\* A token taken from one escrow or minted, and put into another or burned.
LEMMA EscrowCrosses ==
  ASSUME Typed, NEW from \in Channels, NEW to \in Channels, NEW d \in Denoms, from # to,
         esc' = Escrowed(Escrowed(esc, from, d, -1), to, d, 1)
  PROVE  /\ esc' \in [Channels -> [Denoms -> Int]]
         /\ \A c \in Channels, e \in Denoms :
              esc'[c][e] = IF c = from /\ e = d /\ from # d THEN esc[c][e] - 1
                           ELSE IF c = to /\ e = d /\ to # d THEN esc[c][e] + 1 ELSE esc[c][e]
  <1>1. esc \in [Channels -> [Denoms -> Int]] /\ -1 \in Int /\ 1 \in Int
    BY DEF Typed
  <1> DEFINE m == Escrowed(esc, from, d, -1)
  <1>2. EscrowIs(m, esc, from, d, -1)
    BY <1>1, EscrowedIs, Zenon
  <1>3. m \in [Channels -> [Denoms -> Int]]
    BY <1>2 DEF EscrowIs
  <1> HIDE DEF m
  <1>4. EscrowIs(esc', m, to, d, 1)
    <2>1. esc' = Escrowed(m, to, d, 1)
      BY DEF m
    <2> QED BY <1>1, <1>3, <2>1, EscrowedIs, Zenon
  <1>5. ASSUME NEW c \in Channels, NEW e \in Denoms
        PROVE  esc'[c][e] = IF c = from /\ e = d /\ from # d THEN esc[c][e] - 1
                            ELSE IF c = to /\ e = d /\ to # d THEN esc[c][e] + 1 ELSE esc[c][e]
    <2>1. /\ m[c][e] = IF c = from /\ e = d /\ from # d THEN esc[c][e] + (-1) ELSE esc[c][e]
          /\ esc'[c][e] = IF c = to /\ e = d /\ to # d THEN m[c][e] + 1 ELSE m[c][e]
          /\ esc[c][e] \in Int
      BY <1>1, <1>2, <1>4 DEF EscrowIs
    <2> QED BY <2>1
  <1> QED BY <1>4, <1>5 DEF EscrowIs

\* A hop failed: its forward is refused.
LEMMA FailsLets ==
  ASSUME StackInv, NEW i \in Numbers, packets[i].out, packets[i].st \in {"minus", "sent"},
         packets[i].orig # 0, FailForward(i), Settled(i, FALSE), UNCHANGED <<far, epoch>>
  PROVE  Lets(i, packets[i].orig, "back", "err")
  <1> DEFINE o == packets[i].orig
             p == packets[i]
  <1>1. /\ packets' = [packets EXCEPT ![i].st = "back", ![o].st = "err"]
        /\ esc' = Escrowed(Escrowed(esc, p.ch, p.d, -1), packets[o].ch, p.d, 1)
        /\ user' = user
    BY DEF FailForward
  <1>2. i \in DOMAIN packets /\ Typed /\ Hops /\ Windows /\ HopOf(i, o) /\ p \in PacketType
    BY PacketIs DEF Hops
  <1>3. i \notin pending /\ o \in DOMAIN packets /\ o # i /\ p.ch # packets[o].ch
        /\ packets[o].d = p.d
    <2>1. DOMAIN packets = 1..Len(packets) /\ Len(packets) \in Nat
      BY <1>2, LenProperties DEF Typed
    <2>2. o \in DOMAIN packets /\ o < i /\ p.ch \in V1 /\ p.ch # packets[o].ch /\ packets[o].d = p.d
      BY <1>2 DEF HopOf
    <2>3. i \notin pending
      BY <1>2, <2>2 DEF Windows
    <2> QED BY <1>2, <2>1, <2>2, <2>3
  <1>4. pending' = pending /\ flow' = flow
    BY <1>3 DEF Settled, TakenOut
  <1>5. packets' = [j \in DOMAIN packets |->
             IF j = i THEN [packets[i] EXCEPT !.st = "back"]
             ELSE IF j = o THEN [packets[o] EXCEPT !.st = "err"] ELSE packets[j]]
    <2>1. packets = [j \in DOMAIN packets |-> packets[j]]
      BY <1>2, LenProperties DEF Typed
    <2> HIDE DEF o
    <2> QED BY <1>1, <1>2, <1>3, <2>1
  <1>6. Lets(i, o, "back", "err")
    <2> HIDE DEF o
    <2>1. packets[i].orig = o
      BY DEF o
    <2> QED BY <1>2, <1>4, <1>5, <2>1 DEF Lets, Live
  <1> QED BY <1>6

\* A failed hop keeps the invariant.
LEMMA FailForwardStep ==
  ASSUME StackInv, NEW i \in Numbers, packets[i].out, packets[i].st \in {"minus", "sent"},
         packets[i].orig # 0, FailForward(i), Settled(i, FALSE), UNCHANGED <<far, epoch>>
  PROVE  StackInv'
  <1> DEFINE o == packets[i].orig
             p == packets[i]
  <1>1. /\ packets' = [packets EXCEPT ![i].st = "back", ![o].st = "err"]
        /\ esc' = Escrowed(Escrowed(esc, p.ch, p.d, -1), packets[o].ch, p.d, 1)
        /\ user' = user
    BY DEF FailForward
  <1>2. i \in DOMAIN packets /\ Typed /\ Hops /\ Windows /\ HopOf(i, o) /\ p \in PacketType
    BY PacketIs DEF Hops
  <1>3. i \notin pending /\ o \in DOMAIN packets /\ o # i /\ p.ch # packets[o].ch
        /\ packets[o].d = p.d
    <2>1. DOMAIN packets = 1..Len(packets) /\ Len(packets) \in Nat
      BY <1>2, LenProperties DEF Typed
    <2>2. o \in DOMAIN packets /\ o < i /\ p.ch \in V1 /\ p.ch # packets[o].ch /\ packets[o].d = p.d
      BY <1>2 DEF HopOf
    <2>3. i \notin pending
      BY <1>2, <2>2 DEF Windows
    <2> QED BY <1>2, <2>1, <2>2, <2>3
  <1>4. pending' = pending /\ flow' = flow
    BY <1>3 DEF Settled, TakenOut
  <1>6. Lets(i, o, "back", "err")
    BY FailsLets
  <1>7. /\ Hops' /\ Windows' /\ Flows' /\ packets' \in Seq(PacketType)
        /\ DOMAIN packets' = DOMAIN packets /\ packets[o] \in PacketType
    BY <1>6, LetsHops, LetsRest, LetsIs
  <1>8. p.ch \in Channels /\ p.d \in Denoms /\ packets[o].ch \in Channels
    BY <1>2, <1>7, FieldsOf
  <1>9. Crosses(p.ch, packets[o].ch, p.d)
    <2>1. ASSUME NEW c \in Channels, NEW e \in Denoms
          PROVE  NFlying(c, e)' = IF c = p.ch /\ e = p.d THEN NFlying(c, e) - 1
                           ELSE IF c = packets[o].ch /\ e = p.d THEN NFlying(c, e) + 1
                           ELSE NFlying(c, e)
      <3>1. NFlying(c, e) \in Nat
        BY <1>2, NumbersAre
      <3>2. NFlying(c, e)' = IF c = packets[i].ch /\ e = packets[i].d
                             THEN NFlying(c, e) - Bit(packets[i].st \in Flight)
                             ELSE IF c = packets[o].ch /\ e = packets[o].d
                             THEN NFlying(c, e) + Bit("err" \in Flight)
                             ELSE NFlying(c, e)
        BY <1>6, LetsCounts
      <3>3. Bit(packets[i].st \in Flight) = 1 /\ Bit("err" \in Flight) = 1
        BY DEF Bit, Flight
      <3> QED BY <1>3, <3>1, <3>2, <3>3
    <2>2. /\ esc' \in [Channels -> [Denoms -> Int]]
          /\ \A c \in Channels, e \in Denoms :
               esc'[c][e] = IF c = p.ch /\ e = p.d /\ p.ch # p.d THEN esc[c][e] - 1
                            ELSE IF c = packets[o].ch /\ e = p.d /\ packets[o].ch # p.d
                            THEN esc[c][e] + 1 ELSE esc[c][e]
      <3> HIDE DEF p, o
      <3> QED BY <1>1, <1>2, <1>3, <1>8, EscrowCrosses
    <2> HIDE DEF p, o
    <2> QED BY <1>1, <2>1, <2>2 DEF Crosses
  <1>10. Money' /\ esc' \in [Channels -> [Denoms -> Nat]]
    <2> HIDE DEF p, o
    <2> QED BY <1>3, <1>7, <1>8, <1>9, MoneyCrosses
  <1>11. Typed'
    BY <1>1, <1>2, <1>4, <1>7, <1>10 DEF Typed
  <1> QED BY <1>7, <1>10, <1>11 DEF StackInv

\* AckSuccess keeps the invariant.
LEMMA AckSuccessStep ==
  ASSUME StackInv, NEW i \in Numbers, AckSuccess(i) PROVE StackInv'
  BY DeliveredStep, PassedOnStep

\* AckError keeps the invariant.
LEMMA AckErrorStep ==
  ASSUME StackInv, NEW i \in Numbers, AckError(i) PROVE StackInv'
  BY RefundStep, FailForwardStep DEF AckError

\* Timeout keeps the invariant.
LEMMA TimeoutStep ==
  ASSUME StackInv, NEW i \in Numbers, Timeout(i) PROVE StackInv'
  <1>1. packets[i].out /\ packets[i].st = "sent" /\ UNCHANGED <<far, epoch>>
    BY DEF Timeout
  <1>2. CASE packets[i].orig = 0 /\ RefundSender(i) /\ Settled(i, FALSE)
    BY <1>1, <1>2, RefundStep
  <1>3. CASE GiveUp(i) /\ Settled(i, FALSE)
    BY <1>1, <1>3, FailForwardStep DEF GiveUp
  <1>4. CASE Retry(i)
    BY <1>1, <1>4, RetryStep
  <1> QED BY <1>2, <1>3, <1>4 DEF Timeout

-----------------------------------------------------------------------------
\* The steps that send.
Adds(n) ==
  /\ packets' = Append(packets, n) /\ epoch' = epoch
  /\ n \in PacketType /\ n.st = "sent" /\ n.orig = 0
  /\ n.memo # NoMemo => n.memo.to # n.ch
  /\ n.win = IF n.out THEN epoch ELSE -1

\* Appending to the packets.
LEMMA AppendIs ==
  ASSUME NEW s \in Seq(PacketType), NEW n \in PacketType
  PROVE  /\ Append(s, n) \in Seq(PacketType)
         /\ DOMAIN Append(s, n) = DOMAIN s \cup {Len(s) + 1} /\ Len(s) + 1 \notin DOMAIN s
         /\ Append(s, n)[Len(s) + 1] = n /\ \A j \in DOMAIN s : Append(s, n)[j] = s[j]
         /\ DOMAIN s = 1..Len(s) /\ Len(s) \in Nat
  <1>1. DOMAIN s = 1..Len(s) /\ Len(s) \in Nat
    BY LenProperties
  <1>2. /\ Append(s, n) \in Seq(PacketType) /\ Len(Append(s, n)) = Len(s) + 1
        /\ \A i \in 1..Len(s) : Append(s, n)[i] = s[i]
        /\ Append(s, n)[Len(s) + 1] = n
    BY AppendProperties
  <1>3. DOMAIN Append(s, n) = 1..(Len(s) + 1)
    BY <1>2, LenProperties
  <1> QED BY <1>1, <1>2, <1>3

\* What such a step leaves alone.
LEMMA AddsIs ==
  ASSUME StackInv, NEW n, Adds(n)
  PROVE  LET k == Len(packets) + 1 IN
         /\ packets' \in Seq(PacketType) /\ DOMAIN packets' = DOMAIN packets \cup {k}
         /\ k \notin DOMAIN packets /\ packets'[k] = n
         /\ \A j \in DOMAIN packets : packets'[j] = packets[j]
         /\ \A c : Touched(c, k)
         /\ 0 \notin DOMAIN packets /\ epoch \in Nat
  <1>1. /\ packets \in Seq(PacketType) /\ packets' = Append(packets, n) /\ n \in PacketType
        /\ epoch \in Nat
    BY StackAssumption DEF Adds, StackInv, Typed
  <1> DEFINE k == Len(packets) + 1
  <1>2. /\ packets' \in Seq(PacketType) /\ DOMAIN packets' = DOMAIN packets \cup {k}
        /\ k \notin DOMAIN packets /\ packets'[k] = n
        /\ \A j \in DOMAIN packets : packets'[j] = packets[j]
        /\ DOMAIN packets = 1..Len(packets) /\ Len(packets) \in Nat
    BY <1>1, AppendIs
  <1>3. 0 \notin DOMAIN packets
    BY <1>2
  <1>4. \A c : Touched(c, k)
    <2> HIDE DEF k
    <2> QED BY <1>2 DEF Touched
  <1> QED BY <1>1, <1>2, <1>3, <1>4

\* It keeps hops and forwards together.
LEMMA AddsHops ==
  ASSUME StackInv, NEW n, Adds(n)
  PROVE  Hops'
  <1> DEFINE k == Len(packets) + 1
  <1>1. /\ DOMAIN packets' = DOMAIN packets \cup {k} /\ k \notin DOMAIN packets
        /\ packets'[k] = n /\ \A j \in DOMAIN packets : packets'[j] = packets[j]
        /\ 0 \notin DOMAIN packets
    BY AddsIs
  <1>2. Hops /\ n.orig = 0 /\ (n.memo # NoMemo => n.memo.to # n.ch)
    BY DEF Adds, StackInv
  <1> HIDE DEF k
  <1>3. ASSUME NEW j \in DOMAIN packets, packets[j].orig # 0
        PROVE  HopOf(j, packets[j].orig)'
    <2>1. HopOf(j, packets[j].orig)
      BY <1>2, <1>3 DEF Hops
    <2>2. packets'[packets[j].orig] = packets[packets[j].orig] /\ packets'[j] = packets[j]
      BY <1>1, <2>1 DEF HopOf
    <2> QED BY <1>1, <1>2, <1>3, <2>1, <2>2 DEF HopOf
  <1> QED BY <1>1, <1>2, <1>3 DEF Hops

\* It adds one to the counts of its channel.
LEMMA AddsCounts ==
  ASSUME StackInv, NEW n, Adds(n), NEW c \in Channels, NEW e \in Denoms
  PROVE  LET here == c = n.ch /\ e = n.d IN
         /\ NFlying(c, e)' = IF here THEN NFlying(c, e) + 1 ELSE NFlying(c, e)
         /\ NArrived(c, e)' = NArrived(c, e) /\ NFailed(c, e)' = NFailed(c, e)
         /\ NLeft(c, e)' = IF here /\ n.out THEN NLeft(c, e) + 1 ELSE NLeft(c, e)
  <1> DEFINE k == Len(packets) + 1
             here == c = n.ch /\ e = n.d
  <1>1. /\ DOMAIN packets' = DOMAIN packets \cup {k} /\ k \notin DOMAIN packets
        /\ packets'[k] = n /\ Touched(c, k) /\ epoch \in Nat
    BY AddsIs
  <1>2. /\ n.st = "sent" /\ n.win = (IF n.out THEN epoch ELSE -1) /\ epoch' = epoch
        /\ packets \in Seq(PacketType) /\ Typed
    BY DEF Adds, StackInv, Typed
  <1>3. n.win = epoch <=> n.out
    BY <1>1, <1>2
  <1> HIDE DEF k
  <1>4. /\ NFlying(c, e)' = NFlying(c, e) + Bit(k \in Flying(c, e)') - Bit(k \in Flying(c, e))
        /\ NArrived(c, e)' = NArrived(c, e) + Bit(k \in Arrived(c, e)') - Bit(k \in Arrived(c, e))
        /\ NLeft(c, e)' = NLeft(c, e) + Bit(k \in Left(c, e)') - Bit(k \in Left(c, e))
        /\ NFailed(c, e)' = NFailed(c, e) + Bit(k \in Failed(c, e)') - Bit(k \in Failed(c, e))
    BY <1>1, <1>2, Counts
  <1>5. /\ k \in Flying(c, e)' <=> here
        /\ k \in Left(c, e)' <=> here /\ n.out
        /\ k \notin Arrived(c, e)' /\ k \notin Failed(c, e)'
    BY <1>1, <1>2, <1>3 DEF Flying, Left, Arrived, Failed
  <1>6. /\ k \notin Flying(c, e) /\ k \notin Left(c, e)
        /\ k \notin Arrived(c, e) /\ k \notin Failed(c, e)
    BY <1>1 DEF Flying, Left, Arrived, Failed
  <1>7. /\ NFlying(c, e) \in Nat /\ NArrived(c, e) \in Nat /\ NLeft(c, e) \in Nat
        /\ NFailed(c, e) \in Nat
    BY <1>2, Counted
  <1>8. /\ Bit(k \in Flying(c, e)) = 0 /\ Bit(k \in Left(c, e)) = 0
        /\ Bit(k \in Arrived(c, e)) = 0 /\ Bit(k \in Failed(c, e)) = 0
        /\ Bit(k \in Arrived(c, e)') = 0 /\ Bit(k \in Failed(c, e)') = 0
    BY <1>5, <1>6 DEF Bit
  <1>9. /\ Bit(k \in Flying(c, e)') = IF here THEN 1 ELSE 0
        /\ Bit(k \in Left(c, e)') = IF here /\ n.out THEN 1 ELSE 0
    BY <1>5 DEF Bit
  <1> HIDE DEF here
  <1>10. /\ NFlying(c, e)' = IF here THEN NFlying(c, e) + 1 ELSE NFlying(c, e)
         /\ NArrived(c, e)' = NArrived(c, e) /\ NFailed(c, e)' = NFailed(c, e)
         /\ NLeft(c, e)' = IF here /\ n.out THEN NLeft(c, e) + 1 ELSE NLeft(c, e)
    BY <1>4, <1>7, <1>8, <1>9
  <1> QED BY <1>10 DEF here

\* Only a send of v2 may be undone.
LEMMA AddsWindows ==
  ASSUME StackInv, NEW n, Adds(n),
         pending' = IF n.out /\ n.ch \notin V1 THEN pending \cup {Len(packets) + 1} ELSE pending
  PROVE  Windows' /\ pending' \subseteq DOMAIN packets'
  <1> DEFINE k == Len(packets) + 1
  <1>1. /\ DOMAIN packets' = DOMAIN packets \cup {k} /\ k \notin DOMAIN packets
        /\ packets'[k] = n /\ \A j \in DOMAIN packets : packets'[j] = packets[j]
        /\ epoch \in Nat
    BY AddsIs
  <1>2. /\ n.st = "sent" /\ n.win = (IF n.out THEN epoch ELSE -1) /\ epoch' = epoch
        /\ Windows /\ pending \subseteq DOMAIN packets
    BY DEF Adds, StackInv, Typed
  <1>3. pending' = IF n.out /\ n.ch \notin V1 THEN pending \cup {k} ELSE pending
    OBVIOUS
  <1> HIDE DEF k
  <1>4. \A j \in DOMAIN packets : j \in pending' <=> j \in pending
    BY <1>1, <1>3
  <1>5. k \in pending' <=> n.out /\ n.ch \notin V1
    BY <1>1, <1>2, <1>3
  <1>6. n.win <= epoch /\ (~n.out => n.win = -1) /\ (n.win = epoch <=> n.out)
    BY <1>1, <1>2
  <1>7. pending' \subseteq DOMAIN packets'
    BY <1>1, <1>2, <1>3
  <1>8. ASSUME NEW j \in DOMAIN packets'
        PROVE  /\ packets'[j].win <= epoch'
               /\ ~packets'[j].out /\ packets'[j].st = "sent" => packets'[j].win = -1
               /\ packets'[j].out => packets'[j].st \in Live \cup {"done", "back"}
               /\ packets'[j].out /\ packets'[j].ch \notin V1 /\ packets'[j].win = epoch' =>
                    (j \in pending' <=> packets'[j].st \in Live)
               /\ j \in pending' => /\ packets'[j].out /\ packets'[j].ch \notin V1
                                    /\ packets'[j].win = epoch'
    <2>1. CASE j = k
      BY <1>1, <1>2, <1>5, <1>6, <2>1 DEF Live
    <2>2. CASE j \in DOMAIN packets
      BY <1>1, <1>2, <1>4, <2>2 DEF Windows
    <2> QED BY <1>1, <2>1, <2>2
  <1> QED BY <1>7, <1>8 DEF Windows

\* What a send counts: its token, if it is one of v2.
LEMMA AddsFlows ==
  ASSUME StackInv, NEW n, Adds(n),
         n.out /\ n.ch \notin V1 =>
            flow[n.ch][n.d].out - flow[n.ch][n.d].in + 1 <= MaxSend,
         flow' \in [Channels -> [Denoms -> [in : Nat, out : Nat]]],
         \A c \in Channels, e \in Denoms :
            /\ flow'[c][e].in = flow[c][e].in
            /\ flow'[c][e].out = IF c = n.ch /\ e = n.d /\ n.out /\ n.ch \notin V1
                                 THEN flow[c][e].out + 1 ELSE flow[c][e].out
  PROVE  Flows'
  <1>1. ASSUME NEW c \in Channels, NEW e \in Denoms PROVE FlowsAt(c, e)'
    <2>1. FlowsAt(c, e)
      BY DEF StackInv, Flows, FlowsAt
    <2>2. /\ flow[c][e].in \in Nat /\ flow[c][e].out \in Nat
          /\ NArrived(c, e) \in Nat /\ NLeft(c, e) \in Nat /\ NFailed(c, e) \in Nat
          /\ MaxRecv \in Nat /\ MaxSend \in Nat
      BY FlowNumbers DEF StackInv
    <2>3. /\ NArrived(c, e)' = NArrived(c, e) /\ NFailed(c, e)' = NFailed(c, e)
          /\ NLeft(c, e)' = IF (c = n.ch /\ e = n.d) /\ n.out THEN NLeft(c, e) + 1 ELSE NLeft(c, e)
      BY AddsCounts
    <2>4. /\ flow'[c][e].in = flow[c][e].in
          /\ flow'[c][e].out = IF c = n.ch /\ e = n.d /\ n.out /\ n.ch \notin V1
                                 THEN flow[c][e].out + 1 ELSE flow[c][e].out
      OBVIOUS
    <2>5. CASE c = n.ch /\ e = n.d /\ n.out /\ c \notin V1
      BY <2>1, <2>2, <2>3, <2>4, <2>5 DEF FlowsAt
    <2>6. CASE c = n.ch /\ e = n.d /\ n.out /\ c \in V1
      BY <2>1, <2>2, <2>3, <2>4, <2>6 DEF FlowsAt
    <2>7. CASE ~(c = n.ch /\ e = n.d /\ n.out)
      BY <2>1, <2>2, <2>3, <2>4, <2>7 DEF FlowsAt
    <2> QED BY <2>5, <2>6, <2>7
  <1> QED BY <1>1 DEF Flows, FlowsAt

\* A balanced one keeps the invariant.
LEMMA AddsInv ==
  ASSUME StackInv, NEW n, Adds(n), NEW u \in Int, NEW f \in Int, NEW x \in Int,
         Purses(n.ch, n.d, u, f, x), Balances(u, f, x, 1),
         user' \in [Denoms -> Nat], far' \in [Channels -> [Denoms -> Nat]],
         flow' \in [Channels -> [Denoms -> [in : Nat, out : Nat]]],
         Windows', pending' \subseteq DOMAIN packets', Flows'
  PROVE  StackInv'
  <1>1. n.ch \in Channels /\ n.d \in Denoms /\ epoch' = epoch /\ Typed /\ 1 \in Int
    BY FieldsOf DEF Adds, StackInv
  <1>2. packets' \in Seq(PacketType)
    BY AddsIs
  <1>3. \A c \in Channels, e \in Denoms :
          NFlying(c, e)' = IF c = n.ch /\ e = n.d THEN NFlying(c, e) + 1 ELSE NFlying(c, e)
    BY AddsCounts
  <1>4. Moves(n.ch, n.d, u, f, x, 1)
    BY <1>3 DEF Moves, Purses
  <1>5. Money' /\ esc' \in [Channels -> [Denoms -> Nat]]
    BY <1>1, <1>2, <1>4, MoneyMoves, Zenon
  <1>6. Typed'
    BY <1>1, <1>2, <1>5 DEF Typed
  <1> QED BY <1>5, <1>6, AddsHops DEF StackInv

\* The record Packet makes.
Made(n, ch, out, d, memo, orig) ==
  /\ n \in PacketType /\ n.ch = ch /\ n.out = out /\ n.d = d /\ n.memo = memo
  /\ n.orig = orig /\ n.st = "sent" /\ n.win = IF out THEN epoch ELSE -1

\* It is what Packet says.
LEMMA PacketMade ==
  ASSUME NEW ch \in Channels, NEW out \in BOOLEAN, NEW d \in Denoms, NEW memo \in Forwards,
         NEW orig \in Nat, NEW retries \in Nat, epoch \in Nat
  PROVE  Made(Packet(ch, out, d, memo, orig, retries), ch, out, d, memo, orig)
  <1>1. "sent" \in States /\ (IF out THEN epoch ELSE -1) \in Int
    BY DEF States
  <1> QED BY <1>1 DEF Packet, PacketType, Made

\* The memos of forwards.
LEMMA ForwardsAre ==
  /\ NoMemo \in Forwards
  /\ \A memo \in Forwards : memo.to # "" => memo.to \in V1 /\ memo.retries \in Nat /\ memo # NoMemo
  <1>1. NoMemo.to = "" /\ NoMemo \in Forwards
    BY DEF NoMemo, Forwards
  <1>2. ASSUME NEW memo \in Forwards, memo.to # ""
        PROVE  memo.to \in V1 /\ memo.retries \in Nat /\ memo # NoMemo
    <2>1. memo # NoMemo
      BY <1>1, <1>2
    <2>2. memo \in [to : V1, retries : {DefaultRetries, 1}]
      BY <2>1 DEF Forwards
    <2> QED BY <2>1, <2>2 DEF DefaultRetries
  <1> QED BY <1>1, <1>2

\* The packet of a user is added.
LEMMA UserAdds ==
  ASSUME StackInv, NEW ch \in Channels, NEW out \in BOOLEAN, NEW d \in Denoms,
         NEW memo \in Forwards, memo # NoMemo => memo.to # ch,
         NEW n, n = Packet(ch, out, d, memo, 0, 0),
         packets' = Append(packets, n), epoch' = epoch
  PROVE  Adds(n) /\ Made(n, ch, out, d, memo, 0)
  <1>1. 0 \in Nat /\ epoch \in Nat
    BY StackAssumption DEF StackInv, Typed
  <1>2. Made(n, ch, out, d, memo, 0)
    BY <1>1, PacketMade, Zenon
  <1> QED BY <1>2 DEF Adds, Made

\* Send keeps the invariant.
LEMMA SendStep ==
  ASSUME StackInv, NEW ch \in Channels, NEW d \in Denoms, Send(ch, d) PROVE StackInv'
  <1> DEFINE n == Packet(ch, TRUE, d, NoMemo, 0, 0)
             k == Len(packets) + 1
  <1>1. /\ user[d] > 0 /\ (ch \notin V1 => SendAllowed(flow, ch, d))
        /\ user' = [user EXCEPT ![d] = @ - 1] /\ esc' = Escrowed(esc, ch, d, 1)
        /\ packets' = Append(packets, n) /\ far' = far /\ epoch' = epoch
        /\ IF ch \notin V1
           THEN flow' = [flow EXCEPT ![ch][d].out = @ + 1] /\ pending' = pending \cup {k}
           ELSE flow' = flow /\ pending' = pending
    BY SendsAreLimited DEF Send, CountOut
  <1>2. Typed /\ epoch \in Nat
    BY StackAssumption DEF StackInv, Typed
  <1>0. Adds(n) /\ Made(n, ch, TRUE, d, NoMemo, 0)
    <2>1. TRUE \in BOOLEAN /\ NoMemo \in Forwards
      BY ForwardsAre
    <2> QED BY <1>1, <2>1, UserAdds
  <1>3. /\ n \in PacketType /\ n.ch = ch /\ n.out = TRUE /\ n.d = d /\ n.memo = NoMemo
        /\ n.orig = 0 /\ n.st = "sent" /\ n.win = epoch
    <2> HIDE DEF n
    <2> QED BY <1>0 DEF Made
  <1> HIDE DEF n
  <1>4. Adds(n)
    BY <1>0
  <1>5. Windows' /\ pending' \subseteq DOMAIN packets'
    BY <1>1, <1>3, <1>4, AddsWindows
  <1>6. /\ flow' \in [Channels -> [Denoms -> [in : Nat, out : Nat]]]
        /\ \A c \in Channels, e \in Denoms :
              /\ flow'[c][e].in = flow[c][e].in
              /\ flow'[c][e].out = IF c = ch /\ e = d /\ ch \notin V1
                                   THEN flow[c][e].out + 1 ELSE flow[c][e].out
    <2>1. flow \in [Channels -> [Denoms -> [in : Nat, out : Nat]]]
      BY <1>2 DEF Typed
    <2>2. CASE ch \in V1
      BY <1>1, <2>1, <2>2
    <2>3. CASE ch \notin V1
      <3>1. flow' = [flow EXCEPT ![ch][d].out = @ + 1]
        BY <1>1, <2>3
      <3> QED BY <2>1, <2>3, <3>1
    <2> QED BY <2>2, <2>3
  <1>7. Flows'
    <2>1. n.out /\ n.ch \notin V1 => flow[n.ch][n.d].out - flow[n.ch][n.d].in + 1 <= MaxSend
      BY <1>1, <1>3 DEF SendAllowed
    <2>2. \A c \in Channels, e \in Denoms :
            /\ flow'[c][e].in = flow[c][e].in
            /\ flow'[c][e].out = IF c = n.ch /\ e = n.d /\ n.out /\ n.ch \notin V1
                                 THEN flow[c][e].out + 1 ELSE flow[c][e].out
      BY <1>3, <1>6
    <2> QED BY <1>4, <1>6, <2>1, <2>2, AddsFlows
  <1>8. /\ \A e \in Denoms : user[e] \in Nat
        /\ user \in [Denoms -> Nat] /\ far \in [Channels -> [Denoms -> Int]]
        /\ esc \in [Channels -> [Denoms -> Int]] /\ -1 \in Int /\ 0 \in Int /\ 1 \in Int
        /\ \A c \in Channels, e \in Denoms : far[c][e] \in Int
    BY <1>2 DEF Typed
  <1>9. /\ user' \in [Denoms -> Nat]
        /\ \A e \in Denoms : user'[e] = IF e = d THEN user[e] + (-1) ELSE user[e]
    BY <1>1, <1>8
  <1>10. EscrowIs(esc', esc, ch, d, 1)
    BY <1>1, <1>8, EscrowedIs, Zenon
  <1>11. Purses(n.ch, n.d, -1, 0, 1)
    <2>1. user' \in [Denoms -> Int]
      BY <1>9
    <2>2. \A c \in Channels, e \in Denoms :
            far'[c][e] = IF c = ch /\ e = d THEN far[c][e] + 0 ELSE far[c][e]
      BY <1>1, <1>8
    <2>3. far' \in [Channels -> [Denoms -> Int]]
      BY <1>1, <1>8
    <2> QED BY <1>3, <1>9, <1>10, <2>1, <2>2, <2>3 DEF Purses, EscrowIs
  <1>12. Balances(-1, 0, 1, 1)
    BY DEF Balances
  <1>13. far' \in [Channels -> [Denoms -> Nat]]
    BY <1>1, <1>2 DEF Typed
  <1> QED BY <1>4, <1>5, <1>6, <1>7, <1>8, <1>9, <1>11, <1>12, <1>13, AddsInv, Zenon

\* FarSend keeps the invariant.
LEMMA FarSendStep ==
  ASSUME StackInv, NEW ch \in Channels, NEW d \in Denoms, NEW memo \in Forwards,
         FarSend(ch, d, memo)
  PROVE  StackInv'
  <1> DEFINE n == Packet(ch, FALSE, d, memo, 0, 0)
  <1>1. /\ far[ch][d] > 0 /\ (memo # NoMemo => memo.to # ch)
        /\ far' = [far EXCEPT ![ch][d] = @ - 1] /\ packets' = Append(packets, n)
        /\ UNCHANGED <<user, esc, flow, pending, epoch>>
    BY DEF FarSend
  <1>2. Typed /\ epoch \in Nat
    BY StackAssumption DEF StackInv, Typed
  <1>0. Adds(n) /\ Made(n, ch, FALSE, d, memo, 0)
    <2>1. FALSE \in BOOLEAN
      OBVIOUS
    <2> QED BY <1>1, <2>1, UserAdds
  <1>3. /\ n \in PacketType /\ n.ch = ch /\ n.out = FALSE /\ n.d = d /\ n.memo = memo
        /\ n.orig = 0 /\ n.st = "sent" /\ n.win = -1
    <2> HIDE DEF n
    <2> QED BY <1>0 DEF Made
  <1> HIDE DEF n
  <1>4. Adds(n)
    BY <1>0
  <1>5. Windows' /\ pending' \subseteq DOMAIN packets'
    BY <1>1, <1>3, <1>4, AddsWindows
  <1>6. flow' \in [Channels -> [Denoms -> [in : Nat, out : Nat]]] /\ flow' = flow
    BY <1>1, <1>2 DEF Typed
  <1>7. Flows'
    BY <1>3, <1>4, <1>6, AddsFlows
  <1>8. far[ch][d] + (-1) \in Nat /\ far' = [far EXCEPT ![ch][d] = @ + (-1)] /\ -1 \in Int
    <2>1. far[ch][d] \in Nat
      BY <1>2 DEF Typed
    <2>2. far[ch][d] - 1 = far[ch][d] + (-1) /\ far[ch][d] - 1 \in Nat
      BY <1>1, <2>1
    <2>3. far' = [far EXCEPT ![ch][d] = far[ch][d] - 1]
      BY <1>1
    <2>4. far' = [far EXCEPT ![ch][d] = far[ch][d] + (-1)]
      BY <2>2, <2>3, Zenon
    <2> QED BY <2>2, <2>4
  <1>9. Purses(n.ch, n.d, 0, -1, 0) /\ far' \in [Channels -> [Denoms -> Nat]]
    <2>1. Purses(ch, d, 0, -1, 0) /\ far' \in [Channels -> [Denoms -> Nat]]
      BY <1>1, <1>2, <1>8, PursesFar
    <2> QED BY <1>3, <2>1
  <1>10. Balances(0, -1, 0, 1) /\ 0 \in Int
    BY DEF Balances
  <1>11. user' \in [Denoms -> Nat]
    BY <1>1, <1>2 DEF Typed
  <1> QED BY <1>4, <1>5, <1>6, <1>7, <1>8, <1>9, <1>10, <1>11, AddsInv, Zenon

-----------------------------------------------------------------------------
\* The step that forwards: i is held by the hop n.
Holds(i, h, n) ==
  /\ i \in DOMAIN packets /\ packets[i] \in PacketType /\ h \in PacketType /\ n \in PacketType
  /\ packets' = Append([packets EXCEPT ![i] = h], n) /\ epoch' = epoch /\ pending' = pending
  /\ ~packets[i].out /\ packets[i].st = "sent" /\ packets[i].win = -1
  /\ h.ch = packets[i].ch /\ h.d = packets[i].d /\ h.out = packets[i].out
  /\ h.memo = packets[i].memo /\ h.orig = packets[i].orig /\ h.st = "held" /\ h.win = epoch
  /\ n.out /\ n.ch \in V1 /\ n.ch # h.ch /\ n.d = h.d /\ n.orig = i /\ n.st = "sent"
  /\ n.memo = NoMemo /\ n.win = epoch

\* What such a step leaves alone.
LEMMA HoldsIs ==
  ASSUME StackInv, NEW i, NEW h, NEW n, Holds(i, h, n)
  PROVE  LET k == Len(packets) + 1 IN
         /\ packets' \in Seq(PacketType) /\ DOMAIN packets' = DOMAIN packets \cup {k}
         /\ k \notin DOMAIN packets /\ k # i /\ i < k /\ packets'[k] = n /\ packets'[i] = h
         /\ \A j \in DOMAIN packets : j # i => packets'[j] = packets[j]
         /\ \A c : c # n.ch => Touched(c, i)
         /\ \A c : c # h.ch => Touched(c, k)
         /\ 0 \notin DOMAIN packets /\ epoch \in Nat
  <1>1. /\ packets \in Seq(PacketType) /\ i \in DOMAIN packets /\ h \in PacketType
        /\ n \in PacketType /\ packets' = Append([packets EXCEPT ![i] = h], n) /\ epoch \in Nat
    BY StackAssumption DEF Holds, StackInv, Typed
  <1> DEFINE k == Len(packets) + 1
             s == [packets EXCEPT ![i] = h]
  <1>2. /\ DOMAIN packets = 1..Len(packets) /\ Len(packets) \in Nat
        /\ packets \in [DOMAIN packets -> PacketType]
    BY <1>1, LenProperties
  <1>3. /\ s \in Seq(PacketType) /\ Len(s) = Len(packets)
        /\ \A j \in 1..Len(packets) : s[j] = IF j = i THEN h ELSE packets[j]
    BY <1>1, <1>2, ExceptSeq
  <1>4. packets' = Append(s, n)
    BY <1>1
  <1> HIDE DEF s
  <1>5. /\ packets' \in Seq(PacketType)
        /\ DOMAIN packets' = DOMAIN s \cup {Len(s) + 1} /\ Len(s) + 1 \notin DOMAIN s
        /\ packets'[Len(s) + 1] = n /\ \A j \in DOMAIN s : packets'[j] = s[j]
        /\ DOMAIN s = 1..Len(s)
    BY <1>1, <1>3, <1>4, AppendIs
  <1>6. DOMAIN s = DOMAIN packets
    BY <1>2, <1>3, <1>5
  <1>7. /\ packets' \in Seq(PacketType) /\ DOMAIN packets' = DOMAIN packets \cup {k}
        /\ k \notin DOMAIN packets /\ packets'[k] = n /\ packets'[i] = h
        /\ \A j \in DOMAIN packets : j # i => packets'[j] = packets[j]
    BY <1>1, <1>2, <1>3, <1>5, <1>6
  <1>8. k # i /\ i < k /\ 0 \notin DOMAIN packets
    BY <1>1, <1>2
  <1> HIDE DEF k
  <1>9. h.ch = packets[i].ch
    BY DEF Holds
  <1>10. \A c : c # n.ch => Touched(c, i)
    BY <1>7 DEF Touched
  <1>11. \A c : c # h.ch => Touched(c, k)
    BY <1>1, <1>7, <1>9 DEF Touched
  <1> QED BY <1>1, <1>7, <1>8, <1>10, <1>11 DEF k

\* It keeps hops and forwards together.
LEMMA HoldsHops ==
  ASSUME StackInv, NEW i, NEW h, NEW n, Holds(i, h, n)
  PROVE  Hops'
  <1>0. PICK k : k = Len(packets) + 1
    OBVIOUS
  <1>1. /\ DOMAIN packets' = DOMAIN packets \cup {k}
        /\ k \notin DOMAIN packets /\ k # i /\ i < k /\ packets'[k] = n /\ packets'[i] = h
        /\ \A j \in DOMAIN packets : j # i => packets'[j] = packets[j]
        /\ 0 \notin DOMAIN packets
    BY <1>0, HoldsIs
  <1>2. /\ i \in DOMAIN packets
        /\ ~packets[i].out /\ packets[i].st = "sent"
        /\ h.ch = packets[i].ch /\ h.d = packets[i].d /\ h.out = packets[i].out
        /\ h.memo = packets[i].memo /\ h.orig = packets[i].orig /\ h.st = "held"
        /\ n.out /\ n.ch \in V1 /\ n.ch # h.ch /\ n.d = h.d /\ n.orig = i /\ n.st = "sent"
        /\ n.memo = NoMemo
    BY DEF Holds
  <1>3. Hops
    BY DEF StackInv
  <1>4. \A j \in DOMAIN packets : packets[j].orig # i
    BY <1>1, <1>2, <1>3 DEF Hops, HopOf
  <1>5. packets[i].orig = 0
    BY <1>2, <1>3 DEF Hops, HopOf
  <1>6. ASSUME NEW j \in DOMAIN packets, NEW o, packets'[j].orig = o, o # 0
        PROVE  HopOf(j, o)'
    <2>1. j # i
      BY <1>1, <1>2, <1>5, <1>6
    <2>2. packets'[j] = packets[j] /\ packets[j].orig = o
      BY <1>1, <1>6, <2>1
    <2>3. HopOf(j, o) /\ o # i
      BY <1>3, <1>4, <1>6, <2>2 DEF Hops
    <2>4. packets'[o] = packets[o] /\ o \in DOMAIN packets
      BY <1>1, <2>3 DEF HopOf
    <2>5. \A l \in DOMAIN packets' : packets'[l].orig = o => l = j
      BY <1>1, <1>2, <1>5, <1>6, <2>3 DEF HopOf
    <2> QED BY <1>1, <2>2, <2>3, <2>4, <2>5 DEF HopOf
  <1>7. HopOf(k, i)'
    <2>1. \A l \in DOMAIN packets' : packets'[l].orig = i => l = k
      BY <1>1, <1>2, <1>4, <1>5
    <2>2. /\ i \in DOMAIN packets' /\ i < k /\ packets'[k].out /\ ~packets'[i].out
          /\ packets'[k].ch \in V1 /\ packets'[i].ch # packets'[k].ch
          /\ packets'[i].d = packets'[k].d /\ packets'[i].st = "held"
      BY <1>1, <1>2
    <2> QED BY <2>1, <2>2 DEF HopOf
  <1>8. ASSUME NEW j \in DOMAIN packets', packets'[j].memo # NoMemo
        PROVE  packets'[j].memo.to # packets'[j].ch
    <2>1. j # k
      BY <1>1, <1>2, <1>8
    <2>2. CASE j = i
      BY <1>1, <1>2, <1>3, <1>8, <2>2 DEF Hops
    <2>3. CASE j # i
      BY <1>1, <1>3, <1>8, <2>1, <2>3 DEF Hops
    <2> QED BY <2>2, <2>3
  <1>9. ASSUME NEW j \in DOMAIN packets', NEW o, packets'[j].orig = o, o # 0
        PROVE  HopOf(j, o)'
    <2>1. CASE j = k
      BY <1>1, <1>2, <1>7, <1>9, <2>1
    <2>2. CASE j \in DOMAIN packets
      BY <1>6, <1>9, <2>2
    <2> QED BY <1>1, <2>1, <2>2
  <1>10. \A j \in DOMAIN packets' : packets'[j].orig # 0 => HopOf(j, packets[j].orig)'
    BY <1>9 DEF HopOf
  <1> QED BY <1>8, <1>10 DEF Hops

\* It keeps the windows.
LEMMA HoldsWindows ==
  ASSUME StackInv, NEW i, NEW h, NEW n, Holds(i, h, n)
  PROVE  Windows' /\ pending' \subseteq DOMAIN packets'
  <1> DEFINE k == Len(packets) + 1
  <1>1. /\ DOMAIN packets' = DOMAIN packets \cup {k}
        /\ k \notin DOMAIN packets /\ packets'[k] = n /\ packets'[i] = h
        /\ \A j \in DOMAIN packets : j # i => packets'[j] = packets[j]
        /\ epoch \in Nat
    BY HoldsIs
  <1>2. /\ i \in DOMAIN packets /\ epoch' = epoch /\ pending' = pending
        /\ ~packets[i].out /\ h.out = packets[i].out /\ h.st = "held" /\ h.win = epoch
        /\ n.out /\ n.ch \in V1 /\ n.st = "sent" /\ n.win = epoch
    BY DEF Holds
  <1>3. Windows /\ pending \subseteq DOMAIN packets
    BY DEF StackInv, Typed
  <1> HIDE DEF k
  <1>4. i \notin pending /\ k \notin pending
    BY <1>1, <1>2, <1>3 DEF Windows
  <1>5. ASSUME NEW j \in DOMAIN packets'
        PROVE  /\ packets'[j].win <= epoch'
               /\ ~packets'[j].out /\ packets'[j].st = "sent" => packets'[j].win = -1
               /\ packets'[j].out => packets'[j].st \in Live \cup {"done", "back"}
               /\ packets'[j].out /\ packets'[j].ch \notin V1 /\ packets'[j].win = epoch' =>
                    (j \in pending' <=> packets'[j].st \in Live)
               /\ j \in pending' => /\ packets'[j].out /\ packets'[j].ch \notin V1
                                    /\ packets'[j].win = epoch'
    <2>1. CASE j = k
      BY <1>1, <1>2, <1>4, <2>1 DEF Live
    <2>2. CASE j = i
      BY <1>1, <1>2, <1>4, <2>2
    <2>3. CASE j \in DOMAIN packets /\ j # i
      BY <1>1, <1>2, <1>3, <2>3 DEF Windows
    <2> QED BY <1>1, <2>1, <2>2, <2>3
  <1> QED BY <1>1, <1>2, <1>3, <1>5 DEF Windows

\* It moves one flight to the other channel.
LEMMA HoldsCounts ==
  ASSUME StackInv, NEW i, NEW h, NEW n, Holds(i, h, n)
  PROVE  /\ \A c \in Channels, e \in Denoms :
              NFlying(c, e)' = IF c = h.ch /\ e = h.d THEN NFlying(c, e) - 1
                               ELSE IF c = n.ch /\ e = h.d THEN NFlying(c, e) + 1
                               ELSE NFlying(c, e)
         /\ ArrivedOver(h.ch, h.d)
  <1>0. PICK k : k = Len(packets) + 1
    OBVIOUS
  <1>1. /\ DOMAIN packets' = DOMAIN packets \cup {k} /\ i \in DOMAIN packets
        /\ k \notin DOMAIN packets /\ packets'[k] = n /\ packets'[i] = h
        /\ \A c : c # n.ch => Touched(c, i)
        /\ \A c : c # h.ch => Touched(c, k)
        /\ epoch \in Nat
    <2>1. i \in DOMAIN packets
      BY DEF Holds
    <2> QED BY <1>0, <2>1, HoldsIs
  <1>2. /\ epoch' = epoch
        /\ ~packets[i].out /\ packets[i].st = "sent" /\ packets[i].win # epoch
        /\ h.ch = packets[i].ch /\ h.d = packets[i].d /\ h.out = packets[i].out
        /\ h.st = "held" /\ h.win = epoch
        /\ n.out /\ n.ch \in V1 /\ n.ch # h.ch /\ n.d = h.d /\ n.st = "sent" /\ n.win = epoch
    BY <1>1 DEF Holds
  <1>3. ASSUME NEW c \in Channels, NEW e \in Denoms
        PROVE  /\ NFlying(c, e)' = IF c = h.ch /\ e = h.d THEN NFlying(c, e) - 1
                               ELSE IF c = n.ch /\ e = h.d THEN NFlying(c, e) + 1
                               ELSE NFlying(c, e)
               /\ NArrived(c, e)' = IF c = h.ch /\ e = h.d THEN NArrived(c, e) + 1
                                    ELSE NArrived(c, e)
               /\ NLeft(c, e)' \in Nat /\ NLeft(c, e)' >= NLeft(c, e)
               /\ c \notin V1 => NLeft(c, e)' = NLeft(c, e) /\ NFailed(c, e)' = NFailed(c, e)
    <2>1. /\ packets \in Seq(PacketType)
          /\ NFlying(c, e) \in Nat /\ NArrived(c, e) \in Nat /\ NLeft(c, e) \in Nat
          /\ NFailed(c, e) \in Nat
      BY Counted DEF StackInv, Typed
    <2>2. CASE c # n.ch
      <3>1. /\ NFlying(c, e)' = NFlying(c, e) + Bit(i \in Flying(c, e)') - Bit(i \in Flying(c, e))
            /\ NArrived(c, e)' = NArrived(c, e) + Bit(i \in Arrived(c, e)') - Bit(i \in Arrived(c, e))
            /\ NLeft(c, e)' = NLeft(c, e) + Bit(i \in Left(c, e)') - Bit(i \in Left(c, e))
            /\ NFailed(c, e)' = NFailed(c, e) + Bit(i \in Failed(c, e)') - Bit(i \in Failed(c, e))
        BY <1>1, <1>2, <2>1, <2>2, Counts
      <3>2. /\ i \notin Flying(c, e)' /\ (i \in Flying(c, e) <=> c = h.ch /\ e = h.d)
            /\ i \notin Arrived(c, e) /\ (i \in Arrived(c, e)' <=> c = h.ch /\ e = h.d)
            /\ i \notin Left(c, e) /\ i \notin Left(c, e)'
            /\ i \notin Failed(c, e) /\ i \notin Failed(c, e)'
        BY <1>1, <1>2 DEF Flying, Arrived, Left, Failed
      <3>3. /\ Bit(i \in Flying(c, e)') = 0 /\ Bit(i \in Arrived(c, e)) = 0
            /\ Bit(i \in Left(c, e)) = 0 /\ Bit(i \in Left(c, e)') = 0
            /\ Bit(i \in Failed(c, e)) = 0 /\ Bit(i \in Failed(c, e)') = 0
        BY <3>2 DEF Bit
      <3>4. CASE c = h.ch /\ e = h.d
        <4>1. Bit(i \in Flying(c, e)) = 1 /\ Bit(i \in Arrived(c, e)') = 1
          BY <3>2, <3>4 DEF Bit
        <4> QED BY <2>1, <3>1, <3>3, <3>4, <4>1
      <3>5. CASE ~(c = h.ch /\ e = h.d)
        <4>1. Bit(i \in Flying(c, e)) = 0 /\ Bit(i \in Arrived(c, e)') = 0
          BY <3>2, <3>5 DEF Bit
        <4> QED BY <2>1, <2>2, <3>1, <3>3, <3>5, <4>1
      <3> QED BY <3>4, <3>5
    <2>3. CASE c = n.ch
      <3>0. c # h.ch /\ c \in V1
        BY <1>2, <2>3
      <3>1. /\ NFlying(c, e)' = NFlying(c, e) + Bit(k \in Flying(c, e)') - Bit(k \in Flying(c, e))
            /\ NArrived(c, e)' = NArrived(c, e) + Bit(k \in Arrived(c, e)') - Bit(k \in Arrived(c, e))
            /\ NLeft(c, e)' = NLeft(c, e) + Bit(k \in Left(c, e)') - Bit(k \in Left(c, e))
        BY <1>1, <1>2, <2>1, <3>0, Counts
      <3>2. /\ k \notin Flying(c, e) /\ (k \in Flying(c, e)' <=> e = h.d)
            /\ k \notin Arrived(c, e) /\ k \notin Arrived(c, e)'
            /\ k \notin Left(c, e)
        BY <1>1, <1>2, <2>3 DEF Flying, Arrived, Left
      <3>3. /\ Bit(k \in Flying(c, e)) = 0 /\ Bit(k \in Arrived(c, e)) = 0
            /\ Bit(k \in Arrived(c, e)') = 0 /\ Bit(k \in Left(c, e)) = 0
            /\ Bit(k \in Left(c, e)') \in {0, 1}
            /\ Bit(k \in Flying(c, e)') = IF e = h.d THEN 1 ELSE 0
        BY <3>2 DEF Bit
      <3> QED BY <2>1, <2>3, <3>0, <3>1, <3>3
    <2> QED BY <2>2, <2>3
  <1> QED BY <1>3 DEF ArrivedOver

\* What Forward makes of the packet and of its hop.
LEMMA ForwardHolds ==
  ASSUME StackInv, NEW i \in Numbers, Forward(i)
  PROVE  \E h, n : Holds(i, h, n) /\ n.ch = packets[i].memo.to
  <1> DEFINE p == packets[i]
             h == [packets[i] EXCEPT !.st = "held", !.win = epoch]
             n == Packet(p.memo.to, TRUE, p.d, NoMemo, i, p.memo.retries)
  <1>1. /\ p.st = "sent" /\ ~p.out /\ p.memo.to # "" /\ RecvCounts(i)
        /\ esc' = Escrowed(Escrowed(esc, p.ch, p.d, -1), p.memo.to, p.d, 1)
        /\ packets' = Append([packets EXCEPT ![i].st = "held", ![i].win = epoch], n)
        /\ CountOut(Len(packets) + 1, p.memo.to, p.d, CountedIn(p.ch, p.d), pending)
        /\ UNCHANGED <<user, far, epoch>>
    BY DEF Forward, InFlightTo
  <1>2. /\ p \in PacketType /\ i \in DOMAIN packets /\ Typed /\ Hops /\ Windows /\ Flows
        /\ i \in Nat
    <2>1. DOMAIN packets = 1..Len(packets)
      BY LenProperties DEF StackInv, Typed
    <2> QED BY <2>1, PacketIs
  <1>3. epoch \in Nat /\ p.ch \in Channels /\ p.d \in Denoms /\ p.memo \in Forwards
    BY <1>2, FieldsOf, StackAssumption DEF Typed
  <1>4. /\ p.memo.to \in V1 /\ p.memo.to \in Channels /\ p.memo.retries \in Nat
        /\ p.memo.to # p.ch /\ p.win = -1
    <2>1. p.memo.to \in V1 /\ p.memo.retries \in Nat /\ p.memo # NoMemo
      BY <1>1, <1>3, ForwardsAre
    <2> QED BY <1>1, <1>2, <2>1 DEF Hops, Windows, V1, Channels
  <1>5. /\ n \in PacketType /\ n.ch = p.memo.to /\ n.out = TRUE /\ n.d = p.d /\ n.memo = NoMemo
        /\ n.orig = i /\ n.st = "sent" /\ n.win = epoch
    <2>1. TRUE \in BOOLEAN /\ NoMemo \in Forwards
      BY ForwardsAre
    <2>2. Made(n, p.memo.to, TRUE, p.d, NoMemo, i)
      BY <1>2, <1>3, <1>4, <2>1, PacketMade, Zenon
    <2> HIDE DEF n
    <2> QED BY <2>2 DEF Made
  <1>6. /\ h \in PacketType /\ h.st = "held" /\ h.win = epoch /\ h.out = p.out
        /\ h.ch = p.ch /\ h.d = p.d /\ h.memo = p.memo /\ h.orig = p.orig
    <2>1. "held" \in States
      BY DEF States
    <2>2. epoch \in Int
      BY <1>3
    <2> QED BY <1>2, <2>1, <2>2 DEF PacketType
  <1>7. packets' = Append([packets EXCEPT ![i] = h], n)
    BY <1>1, <1>2
  <1> HIDE DEF h, n
  <1>8. Holds(i, h, n)
    <2>1. pending' = pending
      BY <1>1, <1>4, HopIsUncounted
    <2> QED BY <2>1, <1>1, <1>2, <1>4, <1>5, <1>6, <1>7 DEF Holds
  <1> QED BY <1>5, <1>8

\* Forward keeps the invariant.
LEMMA ForwardStep ==
  ASSUME StackInv, NEW i \in Numbers, Forward(i) PROVE StackInv'
  <1> DEFINE p == packets[i]
  <1>1. /\ p.st = "sent" /\ ~p.out /\ p.memo.to # "" /\ RecvCounts(i)
        /\ esc' = Escrowed(Escrowed(esc, p.ch, p.d, -1), p.memo.to, p.d, 1)
        /\ CountOut(Len(packets) + 1, p.memo.to, p.d, CountedIn(p.ch, p.d), pending)
        /\ UNCHANGED <<user, far, epoch>>
    BY DEF Forward, InFlightTo
  <1>2. /\ p \in PacketType /\ i \in DOMAIN packets /\ Typed /\ Hops /\ Windows /\ Flows
        /\ i \in Nat
    <2>1. DOMAIN packets = 1..Len(packets)
      BY LenProperties DEF StackInv, Typed
    <2> QED BY <2>1, PacketIs
  <1>3. epoch \in Nat /\ p.ch \in Channels /\ p.d \in Denoms /\ p.memo \in Forwards
    BY <1>2, FieldsOf, StackAssumption DEF Typed
  <1>4. /\ p.memo.to \in V1 /\ p.memo.to \in Channels /\ p.memo.retries \in Nat
        /\ p.memo.to # p.ch /\ p.win = -1
    <2>1. p.memo.to \in V1 /\ p.memo.retries \in Nat /\ p.memo # NoMemo
      BY <1>1, <1>3, ForwardsAre
    <2> QED BY <1>1, <1>2, <2>1 DEF Hops, Windows, V1, Channels
  <1>5. PICK h, n : Holds(i, h, n) /\ n.ch = p.memo.to
    BY ForwardHolds
  <1>6. n.d = p.d /\ h.ch = p.ch /\ h.d = p.d
    BY <1>5 DEF Holds
  <1>9. /\ packets' \in Seq(PacketType) /\ Hops' /\ Windows' /\ pending' \subseteq DOMAIN packets'
        /\ ArrivedOver(p.ch, p.d)
        /\ \A c \in Channels, e \in Denoms :
              NFlying(c, e)' = IF c = p.ch /\ e = p.d THEN NFlying(c, e) - 1
                               ELSE IF c = p.memo.to /\ e = p.d THEN NFlying(c, e) + 1
                               ELSE NFlying(c, e)
    BY <1>5, <1>6, HoldsIs, HoldsHops, HoldsWindows, HoldsCounts
  <1>10. Flows' /\ flow' \in [Channels -> [Denoms -> [in : Nat, out : Nat]]]
    <2>1. RecvAllowed(p.ch, p.d)
      BY <1>1, <1>3, StacksAreLimited DEF RecvCounts
    <2>2. flow' = CountedIn(p.ch, p.d)
      BY <1>1, <1>4, HopIsUncounted
    <2> HIDE DEF p
    <2> QED BY <1>2, <1>3, <1>9, <2>1, <2>2, ReceiptFlows
  <1>11. Crosses(p.ch, p.memo.to, p.d)
    <2> HIDE DEF p
    <2>0. /\ esc' = Escrowed(Escrowed(esc, p.ch, p.d, -1), p.memo.to, p.d, 1) /\ Typed
          /\ p.ch \in Channels /\ p.memo.to \in Channels /\ p.d \in Denoms /\ p.ch # p.memo.to
      BY <1>1, <1>2, <1>3, <1>4
    <2>1. /\ esc' \in [Channels -> [Denoms -> Int]]
          /\ \A c \in Channels, e \in Denoms :
               esc'[c][e] = IF c = p.ch /\ e = p.d /\ p.ch # p.d THEN esc[c][e] - 1
                            ELSE IF c = p.memo.to /\ e = p.d /\ p.memo.to # p.d
                            THEN esc[c][e] + 1 ELSE esc[c][e]
      BY <2>0, EscrowCrosses
    <2> QED BY <1>1, <1>9, <2>1 DEF Crosses
  <1>12. Money' /\ esc' \in [Channels -> [Denoms -> Nat]]
    <2> HIDE DEF p
    <2> QED BY <1>3, <1>4, <1>9, <1>11, MoneyCrosses
  <1>13. Typed'
    BY <1>1, <1>2, <1>9, <1>10, <1>12 DEF Typed
  <1> QED BY <1>9, <1>10, <1>12, <1>13 DEF StackInv

-----------------------------------------------------------------------------
\* A new window has counted nothing yet.
LEMMA ResetStep ==
  ASSUME StackInv, ResetQuotas PROVE StackInv'
  <1>1. /\ epoch < MaxEpoch /\ epoch' = epoch + 1 /\ pending' = {}
        /\ flow' = [c \in Channels |-> [d \in Denoms |-> [in |-> 0, out |-> 0]]]
        /\ UNCHANGED <<user, esc, far, packets>>
    BY DEF ResetQuotas
  <1>2. /\ Typed /\ Hops /\ Windows /\ Money /\ epoch \in Nat /\ MaxEpoch \in Nat
        /\ MaxRecv \in Nat /\ MaxSend \in Nat
    BY StackAssumption DEF StackInv, Typed
  <1>3. \A j \in DOMAIN packets : packets[j].win \in Int /\ packets[j].win <= epoch
    <2>1. packets \in [DOMAIN packets -> PacketType]
      BY <1>2, LenProperties DEF Typed
    <2> QED BY <1>2, <2>1, FieldsOf DEF Windows
  <1>4. \A j \in DOMAIN packets' : packets'[j].win <= epoch' /\ packets'[j].win # epoch'
    BY <1>1, <1>2, <1>3
  <1>5. Typed'
    <2>1. flow' \in [Channels -> [Denoms -> [in : Nat, out : Nat]]] /\ epoch' \in 0..MaxEpoch
      BY <1>1, <1>2
    <2> QED BY <1>1, <1>2, <2>1 DEF Typed
  <1>6. Hops'
    BY <1>1, <1>2 DEF Hops, HopOf
  <1>7. Windows'
    BY <1>1, <1>2, <1>4 DEF Windows
  <1>8. Money'
    <2>1. \A c, e : NFlying(c, e)' = NFlying(c, e)
      BY <1>1 DEF NFlying, Flying
    <2> QED BY <1>1, <1>2, <2>1, MoneyStays
  <1>9. Flows'
    <2>1. ASSUME NEW c \in Channels, NEW e \in Denoms PROVE FlowsAt(c, e)'
      <3>1. Arrived(c, e)' = {} /\ Left(c, e)' = {} /\ Failed(c, e)' = {}
        BY <1>4 DEF Arrived, Left, Failed
      <3>2. NArrived(c, e)' = 0 /\ NLeft(c, e)' = 0 /\ NFailed(c, e)' = 0
        BY <3>1, FS_EmptySet DEF NArrived, NLeft, NFailed
      <3>3. flow'[c][e].in = 0 /\ flow'[c][e].out = 0
        BY <1>1
      <3> QED BY <1>2, <3>2, <3>3 DEF FlowsAt
    <2> QED BY <2>1 DEF Flows, FlowsAt
  <1> QED BY <1>5, <1>6, <1>7, <1>8, <1>9 DEF StackInv

\* The invariant holds initially.
LEMMA InitInv == Init => StackInv
  <1> SUFFICES ASSUME Init PROVE StackInv
    OBVIOUS
  <1>1. /\ user = [d \in Denoms |-> Tokens(Supply, d = "E" /\ d \in AtHome)]
        /\ esc = [c \in Channels |-> [d \in Denoms |-> Tokens(1, c = "A" /\ d \in Abroad)]]
        /\ far = [c \in Channels |-> [d \in Denoms |->
             Tokens(Supply, c = d /\ d \in AtHome) + Tokens(1, c = "A" /\ d \in Abroad)]]
        /\ packets = <<>> /\ pending = {} /\ epoch = 0
        /\ flow = [c \in Channels |-> [d \in Denoms |-> [in |-> 0, out |-> 0]]]
    BY DEF Init
  <1>2. Supply \in Nat /\ MaxRecv \in Nat /\ MaxSend \in Nat /\ MaxEpoch \in Nat
    BY StackAssumption
  <1>3. packets \in Seq(PacketType) /\ DOMAIN packets = {}
    BY <1>1, EmptySeq
  <1>4. /\ user \in [Denoms -> Nat] /\ esc \in [Channels -> [Denoms -> Nat]]
        /\ far \in [Channels -> [Denoms -> Nat]]
    BY <1>1, <1>2 DEF Tokens
  <1>5. Typed
    BY <1>1, <1>2, <1>3, <1>4 DEF Typed
  <1>6. Hops /\ Windows
    BY <1>1, <1>3 DEF Hops, Windows
  <1>7. ASSUME NEW c \in Channels, NEW e \in Denoms
        PROVE  NFlying(c, e) = 0 /\ NArrived(c, e) = 0 /\ NLeft(c, e) = 0 /\ NFailed(c, e) = 0
    <2>1. /\ Flying(c, e) = {} /\ Arrived(c, e) = {} /\ Left(c, e) = {} /\ Failed(c, e) = {}
      BY <1>3 DEF Flying, Arrived, Left, Failed
    <2> QED BY <2>1, FS_EmptySet DEF NFlying, NArrived, NLeft, NFailed
  <1>8. Money
    <2>1. ASSUME NEW c \in Channels, NEW d \in Denoms, d # c
          PROVE  esc[c][d] = far[c][d] + NFlying(c, d)
      <3>1. esc[c][d] = Tokens(1, c = "A" /\ d \in Abroad)
        BY <1>1
      <3>2. far[c][d] = 0 + Tokens(1, c = "A" /\ d \in Abroad)
        BY <1>1, <2>1 DEF Tokens
      <3> QED BY <1>7, <3>1, <3>2 DEF Tokens
    <2>2. ASSUME NEW c \in Channels
          PROVE  user[c] + far[c][c] + AllEscrowed(c) + NFlying(c, c) = Owed(c)
      <3>0. c \in Denoms /\ c # "E" /\ "A" \notin Abroad /\ Channels = {"A", "B", "A2"}
        BY StackAssumption DEF Denoms, Channels
      <3>1. user[c] = 0
        BY <1>1, <3>0 DEF Tokens
      <3>2. far[c][c] = Tokens(Supply, c \in AtHome)
        <4>1. ~(c = "A" /\ c \in Abroad)
          BY <3>0
        <4>2. far[c][c] = Tokens(Supply, c = c /\ c \in AtHome) + Tokens(1, c = "A" /\ c \in Abroad)
          BY <1>1, <3>0
        <4> QED BY <1>2, <4>1, <4>2 DEF Tokens
      <3>3. esc["A"][c] = Tokens(1, c \in Abroad) /\ esc["B"][c] = 0 /\ esc["A2"][c] = 0
        BY <1>1, <3>0 DEF Tokens
      <3>4. AllEscrowed(c) = Tokens(1, c \in Abroad)
        BY <3>3 DEF AllEscrowed, Tokens
      <3>5. Tokens(Supply, c \in AtHome) \in Nat /\ Tokens(1, c \in Abroad) \in Nat
        BY <1>2 DEF Tokens
      <3> QED BY <1>7, <3>0, <3>1, <3>2, <3>4, <3>5 DEF Owed
    <2> QED BY <2>1, <2>2 DEF Money
  <1>9. Flows
    <2>1. \A c \in Channels, e \in Denoms : flow[c][e].in = 0 /\ flow[c][e].out = 0
      BY <1>1
    <2> QED BY <1>2, <1>7, <2>1 DEF Flows
  <1> QED BY <1>5, <1>6, <1>8, <1>9 DEF StackInv

\* Nothing changed keeps it.
LEMMA StutterInv ==
  ASSUME StackInv, UNCHANGED vars PROVE StackInv'
  <1>1. /\ user' = user /\ esc' = esc /\ far' = far /\ packets' = packets
        /\ flow' = flow /\ pending' = pending /\ epoch' = epoch
    BY DEF vars
  <1>2. Typed /\ Hops /\ Windows /\ Money /\ Flows
    BY DEF StackInv
  <1>3. \A c, e : /\ NFlying(c, e)' = NFlying(c, e) /\ NArrived(c, e)' = NArrived(c, e)
                  /\ NLeft(c, e)' = NLeft(c, e) /\ NFailed(c, e)' = NFailed(c, e)
    BY <1>1 DEF NFlying, NArrived, NLeft, NFailed, Flying, Arrived, Left, Failed
  <1>4. Typed'
    BY <1>1, <1>2 DEF Typed
  <1>5. Hops'
    BY <1>1, <1>2 DEF Hops, HopOf
  <1>6. Windows'
    BY <1>1, <1>2 DEF Windows
  <1>7. Money'
    BY <1>1, <1>2, <1>3, MoneyStays
  <1>8. Flows'
    BY <1>1, <1>2, <1>3 DEF Flows
  <1> QED BY <1>4, <1>5, <1>6, <1>7, <1>8 DEF StackInv

\* Every step keeps the invariant.
LEMMA NextInv == StackInv /\ [Next]_vars => StackInv'
  <1> SUFFICES ASSUME StackInv, [Next]_vars PROVE StackInv'
    OBVIOUS
  <1>1. ASSUME NEW ch \in Channels, NEW d \in Denoms, Send(ch, d) PROVE StackInv'
    BY <1>1, SendStep
  <1>2. ASSUME NEW ch \in Channels, NEW d \in Denoms, NEW memo \in Forwards,
               FarSend(ch, d, memo)
        PROVE  StackInv'
    BY <1>2, FarSendStep
  <1>3. ASSUME NEW i \in Numbers, Relay(i) PROVE StackInv'
    <2>1. CASE RecvFails(i)
      BY <2>1, RecvFailsStep
    <2>2. CASE Recv(i)
      BY <2>2, RecvStep
    <2>3. CASE Forward(i)
      BY <2>3, ForwardStep
    <2>4. CASE FarRecv(i)
      BY <2>4, FarRecvStep
    <2>5. CASE AckSuccess(i)
      BY <2>5, AckSuccessStep
    <2>6. CASE AckError(i)
      BY <2>6, AckErrorStep
    <2>7. CASE Timeout(i)
      BY <2>7, TimeoutStep
    <2>8. CASE FarAck(i)
      BY <2>8, FarAckStep
    <2>9. CASE FarRefund(i)
      BY <2>9, FarRefundStep
    <2> QED BY <1>3, <2>1, <2>2, <2>3, <2>4, <2>5, <2>6, <2>7, <2>8, <2>9 DEF Relay
  <1>4. CASE ResetQuotas
    BY <1>4, ResetStep
  <1>5. CASE UNCHANGED vars
    BY <1>5, StutterInv
  <1> QED BY <1>1, <1>2, <1>3, <1>4, <1>5 DEF Next

\* The inductive invariant: what is known of hops, windows, tokens and flows in
\* every state of the transfer stacks of keeper.go:575-604.
THEOREM StackInvHolds == Spec => []StackInv
  BY InitInv, NextInv, PTL DEF Spec

\* Purses, escrows, packets and flows keep their types: no account goes below
\* zero, whatever is refunded (keeper.go:575-604).
THEOREM TypeCorrect == Spec => []TypeOK
  <1>1. StackInv => TypeOK
    <2> SUFFICES ASSUME StackInv PROVE TypeOK
      OBVIOUS
    <2>1. Typed /\ Hops
      BY DEF StackInv
    <2>2. ASSUME NEW i \in Numbers
          PROVE  /\ packets[i].ch \in Channels /\ packets[i].d \in Denoms
                 /\ packets[i].orig \in 0..(i - 1)
                 /\ packets[i].st \in {"sent", "plus", "minus", "held", "ok", "err",
                                       "done", "back"}
      <3>1. packets[i] \in PacketType /\ i \in DOMAIN packets
        BY PacketIs
      <3>2. i \in 1..Len(packets) /\ Len(packets) \in Nat
        BY <2>1, <3>1, LenProperties DEF Typed
      <3>3. packets[i].orig \in Nat /\ (packets[i].orig # 0 => packets[i].orig < i)
        BY <2>1, <3>1, FieldsOf DEF Hops, HopOf
      <3>4. packets[i].orig \in 0..(i - 1)
        BY <3>2, <3>3
      <3> QED BY <3>1, <3>4, FieldsOf DEF States
    <2> QED BY <2>1, <2>2 DEF TypeOK, Typed, Numbers
  <1> QED BY <1>1, StackInvHolds, PTL

\* Tokens are conserved through echofi: escrow backs what users behind a
\* channel hold, and a token that came in exists once, for every interleaving
\* of forwards, retries, acknowledgements and timeouts (keeper.go:575-582).
THEOREM EscrowBacked == Spec => []EscrowBacksVouchers
  <1>1. StackInv => EscrowBacksVouchers
    <2> SUFFICES ASSUME StackInv PROVE EscrowBacksVouchers
      OBVIOUS
    <2>1. ASSUME NEW ch, NEW d PROVE With(ch, d, Between) = Flying(ch, d)
      BY DEF With, Between, Flying, Numbers
    <2>2. ASSUME NEW ch, NEW d PROVE Cardinality(With(ch, d, Between)) = NFlying(ch, d)
      BY <2>1 DEF NFlying
    <2>3. Typed /\ Money
      BY DEF StackInv
    <2>4. ASSUME NEW ch \in Channels, NEW d \in Denoms, d = ch
          PROVE  user[d] + far[ch][d] + esc["A"][d] + esc["B"][d] + esc["A2"][d]
                   + Cardinality(With(ch, d, Between))
                 = Tokens(Supply, d \in AtHome) + Tokens(1, d \in Abroad)
      <3>1. user[d] + far[ch][d] + AllEscrowed(d) + NFlying(ch, d) = Owed(d)
        BY <2>3, <2>4 DEF Money
      <3>2. /\ user[d] \in Nat /\ far[ch][d] \in Nat /\ NFlying(ch, d) \in Nat
            /\ \A c \in Channels : esc[c][d] \in Nat
        BY <2>3, NumbersAre DEF Typed
      <3>3. esc["A"][d] \in Nat /\ esc["B"][d] \in Nat /\ esc["A2"][d] \in Nat
        BY <3>2 DEF Channels
      <3>4. user[d] + far[ch][d] + esc["A"][d] + esc["B"][d] + esc["A2"][d]
              + NFlying(ch, d) = Owed(d)
        BY <3>1, <3>2, <3>3 DEF AllEscrowed
      <3> QED BY <2>2, <3>4 DEF Owed
    <2>5. ASSUME NEW ch \in Channels, NEW d \in Denoms, d # ch
          PROVE  esc[ch][d] = far[ch][d] + Cardinality(With(ch, d, Between))
      BY <2>2, <2>3, <2>5 DEF Money
    <2> QED BY <2>4, <2>5 DEF EscrowBacksVouchers
  <1> QED BY <1>1, StackInvHolds, PTL

\* The flow of receipts is what a window let in, split into what echofi kept or
\* passed on and what a failed forward took back out, which it goes on counting;
\* the flow of v2 sends is what left and did not fail, also when an
\* acknowledgement comes a window late (keeper.go:410-422, 582, 599-604).
THEOREM FlowsAreCounted == Spec => []FlowsCounted
  <1>1. StackInv => FlowsCounted
    <2> SUFFICES ASSUME StackInv PROVE FlowsCounted
      OBVIOUS
    <2>1. ASSUME NEW ch, NEW d
          PROVE  /\ Arrived(ch, d) = With(ch, d, Kept) \cup With(ch, d, GoneBack)
                 /\ With(ch, d, Kept) \cap With(ch, d, GoneBack) = {}
                 /\ With(ch, d, Sent) = Left(ch, d) /\ With(ch, d, Undone) = Failed(ch, d)
      <3>1. With(ch, d, Sent) = Left(ch, d) /\ With(ch, d, Undone) = Failed(ch, d)
        BY DEF With, Sent, Undone, Left, Failed, Numbers
      <3>2. With(ch, d, Kept) \cap With(ch, d, GoneBack) = {}
        BY DEF With, Kept, GoneBack
      <3>3. Arrived(ch, d) = With(ch, d, Kept) \cup With(ch, d, GoneBack)
        BY DEF With, Received, Kept, GoneBack, Arrived, Numbers
      <3> QED BY <3>1, <3>2, <3>3
    <2>2. Flows
      BY DEF StackInv
    <2>3. ASSUME NEW ch \in Channels, NEW d \in Denoms
          PROVE  NArrived(ch, d) = Cardinality(With(ch, d, Kept)) + Cardinality(With(ch, d, GoneBack))
      <3>1. IsFiniteSet(Arrived(ch, d))
        BY Counted DEF StackInv, Typed
      <3>2. /\ IsFiniteSet(With(ch, d, Kept)) /\ IsFiniteSet(With(ch, d, GoneBack))
        BY <2>1, <3>1, FS_Subset
      <3>3. /\ Cardinality(With(ch, d, Kept)) \in Nat /\ Cardinality(With(ch, d, GoneBack)) \in Nat
            /\ Cardinality(With(ch, d, Kept) \cap With(ch, d, GoneBack)) = 0
        BY <2>1, <3>2, FS_CardinalityType, FS_EmptySet
      <3>4. Cardinality(With(ch, d, Kept) \cup With(ch, d, GoneBack))
              = Cardinality(With(ch, d, Kept)) + Cardinality(With(ch, d, GoneBack))
                - Cardinality(With(ch, d, Kept) \cap With(ch, d, GoneBack))
        BY <3>2, FS_Union
      <3>5. NArrived(ch, d) = Cardinality(With(ch, d, Kept) \cup With(ch, d, GoneBack))
        BY <2>1, Zenon DEF NArrived
      <3> QED BY <3>3, <3>4, <3>5
    <2> QED BY <2>1, <2>2, <2>3 DEF FlowsCounted, CountsSends, Flows, NLeft, NFailed
  <1> QED BY <1>1, StackInvHolds, PTL

\* No interleaving lets more through a window than its quotas (keeper.go:582, 599).
THEOREM QuotasKept == Spec => []QuotasHold
  <1>1. StackInv => QuotasHold
    <2> SUFFICES ASSUME StackInv PROVE QuotasHold
      OBVIOUS
    <2>1. ASSUME NEW ch, NEW d
          PROVE  /\ Cardinality(With(ch, d, Received)) = NArrived(ch, d)
                 /\ Cardinality(With(ch, d, Sent)) = NLeft(ch, d)
                 /\ Cardinality(With(ch, d, Undone)) = NFailed(ch, d)
      <3>1. /\ With(ch, d, Received) = Arrived(ch, d) /\ With(ch, d, Sent) = Left(ch, d)
            /\ With(ch, d, Undone) = Failed(ch, d)
        BY DEF With, Received, Sent, Undone, Arrived, Left, Failed, Numbers
      <3> QED BY <3>1 DEF NArrived, NLeft, NFailed
    <2>2. ASSUME NEW ch \in Channels, NEW d \in Denoms
          PROVE  /\ NArrived(ch, d) - NLeft(ch, d) <= MaxRecv
                 /\ ch \notin V1 => NLeft(ch, d) - NFailed(ch, d) - NArrived(ch, d) <= MaxSend
      BY DEF StackInv, Flows
    <2> QED BY <2>1, <2>2 DEF QuotasHold
  <1> QED BY <1>1, StackInvHolds, PTL
-----------------------------------------------------------------------------
(* TransferStack implements Transfers. What a step does to the deals follows *)
(* from what it does to the packets: a deal ends with its own packet, or     *)
(* with the hop of its forward.                                              *)

\* A hop takes the way the memo of its forward names.
Routes ==
  \A j \in DOMAIN packets :
    packets[j].orig # 0 => packets[packets[j].orig].memo.to = packets[j].ch

RoutesInv == StackInv /\ Routes

\* No packet of before changes in what the deal keeps, and none was sent by a user.
Keeps ==
  \A j \in DOMAIN packets :
    /\ j \in DOMAIN packets'
    /\ packets'[j].ch = packets[j].ch /\ packets'[j].d = packets[j].d
    /\ packets'[j].out = packets[j].out /\ packets'[j].memo = packets[j].memo
    /\ packets'[j].orig = packets[j].orig

OnlyHopsAdded == \A j \in DOMAIN packets' : j \notin DOMAIN packets => packets'[j].orig # 0

\* The transfers users made, hops left out.
MadeByUsers == {j \in DOMAIN packets : packets[j].orig = 0}

\* The deal of a transfer a user made.
LEMMA DealOf ==
  ASSUME NEW k \in MadeByUsers
  PROVE  /\ Deals[k] = Deal(k) /\ k \in DOMAIN Deals /\ Deals[k].end = Outcome(k)
         /\ Deals[k].from = Sender(packets[k]) /\ Deals[k].to = Receiver(packets[k])
         /\ Deals[k].d = packets[k].d
  BY DEF Deals, Deal, MadeByUsers, Numbers

\* Deals stay when outcomes do.
LEMMA DealsStay ==
  ASSUME Keeps, OnlyHopsAdded, \A j \in MadeByUsers : Outcome(j)' = Outcome(j)
  PROVE  Deals' = Deals
  <1>1. {j \in Numbers : packets[j].orig = 0}' = {j \in Numbers : packets[j].orig = 0}
    BY DEF Keeps, OnlyHopsAdded, Numbers
  <1>2. ASSUME NEW j \in MadeByUsers PROVE Deal(j)' = Deal(j)
    BY <1>2 DEF Deal, Sender, Receiver, Keeps, MadeByUsers
  <1> QED BY <1>1, <1>2 DEF Deals, MadeByUsers, Numbers

\* One deal ends when its outcome changes.
LEMMA DealEnds ==
  ASSUME Keeps, OnlyHopsAdded, NEW k \in MadeByUsers, NEW how, Outcome(k)' = how,
         \A j \in MadeByUsers : j # k => Outcome(j)' = Outcome(j)
  PROVE  Deals' = [Deals EXCEPT ![k].end = how]
  <1>1. {j \in Numbers : packets[j].orig = 0}' = MadeByUsers /\ DOMAIN Deals = MadeByUsers
    BY DEF Keeps, OnlyHopsAdded, Numbers, MadeByUsers, Deals
  <1>2. ASSUME NEW j \in MadeByUsers, j # k PROVE Deal(j)' = Deal(j)
    BY <1>2 DEF Deal, Sender, Receiver, Keeps, MadeByUsers
  <1>3. Deal(k)' = [Deal(k) EXCEPT !.end = how]
    <2>1. /\ packets'[k].ch = packets[k].ch /\ packets'[k].d = packets[k].d
          /\ packets'[k].out = packets[k].out /\ packets'[k].memo = packets[k].memo
      BY DEF Keeps, MadeByUsers
    <2>2. Sender(packets'[k]) = Sender(packets[k]) /\ Receiver(packets'[k]) = Receiver(packets[k])
      BY <2>1 DEF Sender, Receiver
    <2> QED BY <2>1, <2>2 DEF Deal
  <1>4. Deals = [j \in MadeByUsers |-> Deal(j)] /\ Deals' = [j \in MadeByUsers |-> Deal(j)']
    BY <1>1 DEF Deals, Numbers, MadeByUsers
  <1> QED BY <1>2, <1>3, <1>4

-----------------------------------------------------------------------------
\* The outcome of a packet that is not held is its own.
Plain(st) == IF st \in {"plus", "ok", "done"} THEN "delivered"
             ELSE IF st = "back" THEN "refunded" ELSE "open"

OutcomesAre ==
  /\ \A i \in DOMAIN packets :
       packets[i].st # "held" \/ packets[i].out => Outcome(i) = Plain(packets[i].st)
  /\ \A j \in DOMAIN packets : packets[j].orig # 0 /\ packets[packets[j].orig].st = "held" =>
       Outcome(packets[j].orig) = IF packets[j].st = "plus" THEN "delivered" ELSE "open"

\* So it is in every state with the invariant.
LEMMA Outcomes == StackInv => OutcomesAre
  <1> SUFFICES ASSUME StackInv PROVE OutcomesAre
    OBVIOUS
  <1>1. Hops /\ 0 \notin DOMAIN packets
    BY LenProperties DEF StackInv, Typed
  <1>2. ASSUME NEW i \in DOMAIN packets, packets[i].st # "held" \/ packets[i].out
        PROVE  Outcome(i) = Plain(packets[i].st)
    <2>1. ASSUME NEW j \in DOMAIN packets, packets[j].orig = i
          PROVE  packets[j].st # "plus"
      <3>1. HopOf(j, i)
        BY <1>1, <2>1 DEF Hops
      <3> QED BY <1>2, <3>1 DEF HopOf, Live
    <2>2. ~Taken(i)
      BY <2>1 DEF Taken, Numbers
    <2> QED BY <2>2 DEF Outcome, Plain
  <1>3. ASSUME NEW j \in DOMAIN packets, packets[j].orig # 0, packets[packets[j].orig].st = "held"
        PROVE  Outcome(packets[j].orig) = IF packets[j].st = "plus" THEN "delivered" ELSE "open"
    <2>1. HopOf(j, packets[j].orig)
      BY <1>1, <1>3 DEF Hops
    <2>2. Taken(packets[j].orig) <=> packets[j].st = "plus"
      BY <2>1 DEF HopOf, Taken, Numbers
    <2> QED BY <1>3, <2>2 DEF Outcome
  <1> QED BY <1>2, <1>3 DEF OutcomesAre

\* A packet whose state and whose hop stay keeps its outcome.
LEMMA OutcomeStays ==
  ASSUME NEW k, packets'[k].st = packets[k].st,
         \A j \in DOMAIN packets : packets[j].orig = k =>
           j \in DOMAIN packets' /\ packets'[j].orig = k /\ packets'[j].st = packets[j].st,
         \A j \in DOMAIN packets' : packets'[j].orig = k =>
           \/ j \in DOMAIN packets /\ packets[j].orig = k /\ packets'[j].st = packets[j].st
           \/ packets'[j].st # "plus"
  PROVE  Outcome(k)' = Outcome(k)
  <1>1. Taken(k)' <=> Taken(k)
    BY DEF Taken, Numbers
  <1> QED BY <1>1 DEF Outcome

-----------------------------------------------------------------------------
\* One packet changes, in its state and window.
Alters(i, st) ==
  /\ i \in DOMAIN packets /\ DOMAIN packets' = DOMAIN packets /\ Keeps
  /\ packets'[i].st = st /\ \A j \in DOMAIN packets : j # i => packets'[j] = packets[j]

\* The outcome of the others stays.
LEMMA AltersOutcomes ==
  ASSUME StackInv, NEW i, NEW st, Alters(i, st), NEW k \in DOMAIN packets,
         k # i, k # packets[i].orig
  PROVE  Outcome(k)' = Outcome(k)
  BY OutcomeStays DEF Alters, Keeps

\* A packet that is no hop: its own deal follows it.
LEMMA AltersDeal ==
  ASSUME StackInv, StackInv', NEW i, NEW st, Alters(i, st), packets[i].orig = 0,
         packets[i].st # "held", st # "held"
  PROVE  /\ Plain(st) = Plain(packets[i].st) => Deals' = Deals
         /\ Deals' = [Deals EXCEPT ![i].end = Plain(st)]
         /\ i \in MadeByUsers /\ Deals[i] = Deal(i) /\ i \in DOMAIN Deals
         /\ Deals[i].end = Plain(packets[i].st)
  <1>1. i \in MadeByUsers /\ 0 \notin DOMAIN packets /\ i \in DOMAIN packets'
    BY LenProperties DEF Alters, MadeByUsers, StackInv, Typed
  <1>2. Keeps /\ OnlyHopsAdded
    BY DEF Alters, OnlyHopsAdded
  <1>3. ASSUME NEW j \in MadeByUsers, j # i PROVE Outcome(j)' = Outcome(j)
    BY <1>1, <1>3, AltersOutcomes DEF MadeByUsers
  <1>4. Outcome(i) = Plain(packets[i].st)
    BY <1>1, Outcomes DEF OutcomesAre, MadeByUsers
  <1>5. Outcome(i)' = Plain(st)
    <2>1. OutcomesAre'
      BY Outcomes, PTL
    <2> QED BY <1>1, <2>1 DEF OutcomesAre, Alters, Plain
  <1>6. Deals' = [Deals EXCEPT ![i].end = Plain(st)]
    BY <1>1, <1>2, <1>3, <1>5, DealEnds
  <1>7. ASSUME Plain(st) = Plain(packets[i].st) PROVE Deals' = Deals
    <2>1. \A j \in MadeByUsers : Outcome(j)' = Outcome(j)
      BY <1>3, <1>4, <1>5, <1>7
    <2> QED BY <1>2, <2>1, DealsStay
  <1> QED BY <1>1, <1>4, <1>6, <1>7, DealOf

\* A hop under way: the deal of its forward follows it.
LEMMA AltersHop ==
  ASSUME StackInv, StackInv', NEW i, NEW st, Alters(i, st), NEW o, packets[i].orig = o, o # 0,
         packets[i].st \in Live, packets[i].st # "plus"
  PROVE  /\ st # "plus" => Deals' = Deals
         /\ st = "plus" => Deals' = [Deals EXCEPT ![o].end = "delivered"]
         /\ o \in MadeByUsers /\ Deals[o] = Deal(o) /\ o \in DOMAIN Deals /\ Deals[o].end = "open"
  <1>1. HopOf(i, o) /\ i \in DOMAIN packets
    BY DEF Alters, StackInv, Hops
  <1>2. /\ o \in DOMAIN packets /\ packets[o].st = "held" /\ ~packets[o].out /\ o # i
        /\ DOMAIN packets = 1..Len(packets) /\ Len(packets) \in Nat
    <2>1. DOMAIN packets = 1..Len(packets) /\ Len(packets) \in Nat
      BY LenProperties DEF StackInv, Typed
    <2> QED BY <1>1, <2>1 DEF HopOf
  <1>3. packets[o].orig = 0
    BY <1>2 DEF StackInv, Hops, HopOf
  <1>4. Keeps /\ OnlyHopsAdded /\ o \in MadeByUsers
    BY <1>2, <1>3 DEF Alters, OnlyHopsAdded, MadeByUsers
  <1>5. ASSUME NEW j \in MadeByUsers, j # o PROVE Outcome(j)' = Outcome(j)
    BY <1>5, AltersOutcomes DEF MadeByUsers
  <1>6. Outcome(o) = "open"
    BY <1>1, <1>2, Outcomes DEF OutcomesAre
  <1>7. Outcome(o)' = IF st = "plus" THEN "delivered" ELSE "open"
    <2>1. OutcomesAre'
      BY Outcomes, PTL
    <2>2. packets'[i].orig = o /\ packets'[o].st = "held" /\ packets'[i].st = st
          /\ i \in DOMAIN packets' /\ o # 0
      BY <1>1, <1>2 DEF Alters, Keeps
    <2> QED BY <2>1, <2>2 DEF OutcomesAre
  <1>8. CASE st = "plus"
    <2>1. Deals' = [Deals EXCEPT ![o].end = "delivered"]
      BY <1>4, <1>5, <1>7, <1>8, DealEnds
    <2> QED BY <1>4, <1>6, <1>8, <2>1, DealOf
  <1>9. CASE st # "plus"
    <2>1. \A j \in MadeByUsers : Outcome(j)' = Outcome(j)
      BY <1>5, <1>6, <1>7, <1>9
    <2>2. Deals' = Deals
      BY <1>4, <2>1, DealsStay
    <2> QED BY <1>4, <1>6, <1>9, <2>2, DealOf
  <1> QED BY <1>8, <1>9
\* The hop ends and its forward is acknowledged: what was delivered stays so, and
\* what was not is still to be refunded.
LEMMA LetsDeal ==
  ASSUME StackInv, StackInv', NEW i, NEW o, NEW st, NEW ost, Lets(i, o, st, ost),
         packets[i].st = "plus" <=> ost = "ok"
  PROVE  Deals' = Deals
  <1>1. /\ DOMAIN packets' = DOMAIN packets /\ o \in DOMAIN packets /\ HopOf(i, o)
        /\ packets[o].st = "held" /\ o # i
        /\ \A j \in DOMAIN packets :
             /\ packets'[j].ch = packets[j].ch /\ packets'[j].d = packets[j].d
             /\ packets'[j].out = packets[j].out /\ packets'[j].memo = packets[j].memo
             /\ packets'[j].orig = packets[j].orig
        /\ packets'[o].st = ost /\ \A j \in DOMAIN packets \ {i, o} : packets'[j] = packets[j]
    BY LetsIs
  <1>2. i \in DOMAIN packets /\ packets[i].orig = o /\ o # 0 /\ ost \in {"ok", "err"}
    BY DEF Lets
  <1>3. Keeps /\ OnlyHopsAdded /\ 0 \notin DOMAIN packets
    BY <1>1, LenProperties DEF Keeps, OnlyHopsAdded, StackInv, Typed
  <1>4. packets[o].orig = 0
    BY <1>1 DEF StackInv, Hops, HopOf
  <1>5. ASSUME NEW k \in MadeByUsers, k # o PROVE Outcome(k)' = Outcome(k)
    <2>1. k \in DOMAIN packets /\ k # i /\ k # 0
      BY <1>2, <1>3 DEF MadeByUsers
    <2>2. ASSUME NEW j \in DOMAIN packets, packets[j].orig = k PROVE packets'[j] = packets[j]
      BY <1>1, <1>2, <1>4, <1>5, <2>1, <2>2
    <2>3. packets'[k].st = packets[k].st
      BY <1>1, <1>5, <2>1
    <2> QED BY <1>1, <2>2, <2>3, OutcomeStays
  <1>6. Outcome(o) = IF packets[i].st = "plus" THEN "delivered" ELSE "open"
    BY <1>1, <1>2, Outcomes DEF OutcomesAre
  <1>7. Outcome(o)' = Plain(ost)
    <2>1. OutcomesAre'
      BY Outcomes, PTL
    <2> QED BY <1>1, <1>2, <2>1 DEF OutcomesAre
  <1>8. Outcome(o)' = Outcome(o)
    BY <1>2, <1>6, <1>7 DEF Plain
  <1> QED BY <1>3, <1>5, <1>8, DealsStay

\* A user's packet opens a deal.
Opened(p) == [from |-> Sender(p), to |-> Receiver(p), d |-> p.d, end |-> "open"]

DealAdded(k, n) ==
  /\ k \notin DOMAIN Deals
  /\ Deals' = [j \in DOMAIN Deals \union {k} |-> IF j = k THEN Opened(n) ELSE Deals[j]]

\* A user's packet does, and leaves the other deals alone.
LEMMA AddsDeal ==
  ASSUME StackInv, StackInv', NEW k, k = Len(packets) + 1, NEW n, Adds(n)
  PROVE  DealAdded(k, n)
  <1>1. /\ DOMAIN packets' = DOMAIN packets \cup {k} /\ k \notin DOMAIN packets
        /\ packets'[k] = n /\ \A j \in DOMAIN packets : packets'[j] = packets[j]
        /\ n.orig = 0 /\ n.st = "sent" /\ 0 \notin DOMAIN packets
    BY AddsIs DEF Adds
  <1>2. {j \in Numbers : packets[j].orig = 0}' = MadeByUsers \cup {k}
    BY <1>1 DEF Numbers, MadeByUsers
  <1>3. DOMAIN Deals = MadeByUsers /\ k \notin MadeByUsers /\ k # 0
    <2>1. k # 0
      BY <1>1, LenProperties DEF StackInv, Typed
    <2> QED BY <1>1, <2>1 DEF Deals, MadeByUsers, Numbers
  <1>4. ASSUME NEW j \in MadeByUsers PROVE Deal(j)' = Deals[j]
    <2>1. packets'[j] = packets[j] /\ j # k
      BY <1>1, <1>3 DEF MadeByUsers
    <2>2. Outcome(j)' = Outcome(j)
      <3>1. \A l \in DOMAIN packets' : packets'[l].orig = j => l \in DOMAIN packets
        BY <1>1, <1>3 DEF MadeByUsers
      <3> QED BY <1>1, <2>1, <3>1, OutcomeStays
    <2> QED BY <2>1, <2>2, DealOf DEF Deal
  <1>5. Deal(k)' = Opened(n)
    <2>1. OutcomesAre'
      BY Outcomes, PTL
    <2>2. Outcome(k)' = "open"
      BY <1>1, <2>1 DEF OutcomesAre, Plain
    <2> QED BY <1>1, <2>2 DEF Deal, Opened
  <1>6. Deals' = [j \in MadeByUsers \cup {k} |-> Deal(j)']
    BY <1>2 DEF Deals
  <1> QED BY <1>3, <1>4, <1>5, <1>6 DEF DealAdded

\* A hop does not show.
LEMMA HoldsDeal ==
  ASSUME StackInv, StackInv', NEW i, NEW h, NEW n, Holds(i, h, n)
  PROVE  Deals' = Deals
  <1>1. PICK k : /\ k = Len(packets) + 1 /\ DOMAIN packets' = DOMAIN packets \cup {k}
                 /\ k \notin DOMAIN packets /\ k # i /\ packets'[k] = n /\ packets'[i] = h
                 /\ \A j \in DOMAIN packets : j # i => packets'[j] = packets[j]
                 /\ 0 \notin DOMAIN packets
    BY HoldsIs
  <1>2. /\ i \in DOMAIN packets /\ packets[i].st = "sent"
        /\ h.ch = packets[i].ch /\ h.d = packets[i].d /\ h.out = packets[i].out
        /\ h.memo = packets[i].memo /\ h.orig = packets[i].orig /\ h.st = "held"
        /\ n.orig = i /\ n.st = "sent"
    BY DEF Holds
  <1>3. Keeps /\ OnlyHopsAdded
    BY <1>1, <1>2 DEF Keeps, OnlyHopsAdded
  <1>4. ASSUME NEW j \in MadeByUsers, j # i PROVE Outcome(j)' = Outcome(j)
    <2>1. packets'[j] = packets[j]
      BY <1>1, <1>4 DEF MadeByUsers
    <2>2. ASSUME NEW l \in DOMAIN packets'
          PROVE  packets'[l].orig = j => l \in DOMAIN packets /\ packets'[l].orig = packets[l].orig
      BY <1>1, <1>2, <1>4
    <2>3. ASSUME NEW l \in DOMAIN packets, packets[l].orig = j
          PROVE  l \in DOMAIN packets' /\ packets'[l].orig = j
                 /\ (l # i => packets'[l].st = packets[l].st)
      BY <1>1, <1>2, <2>3
    <2>4. packets[i].orig # j
      BY <1>1, <1>2, <1>4 DEF Holds, MadeByUsers, StackInv, Hops, HopOf
    <2> QED BY <1>1, <2>1, <2>2, <2>3, <2>4, OutcomeStays
  <1>5. Outcome(i) = "open"
    BY <1>2, Outcomes DEF OutcomesAre, Plain
  <1>6. Outcome(i)' = "open"
    <2>1. OutcomesAre'
      BY Outcomes, PTL
    <2>2. k \in DOMAIN packets' /\ packets'[k].orig = i /\ packets'[i].st = "held" /\ i # 0
          /\ packets'[k].st = "sent"
      BY <1>1, <1>2
    <2> QED BY <2>1, <2>2 DEF OutcomesAre
  <1> QED BY <1>3, <1>4, <1>5, <1>6, DealsStay

-----------------------------------------------------------------------------
\* The purses of Transfers: echofi's users, and those behind each channel.
LEMMA PurseIs ==
  /\ Purse["E"] = user /\ DOMAIN Purse = Ends /\ "E" \in Ends
  /\ \A ch \in Channels : ch \in Ends /\ ch # "E" /\ Purse[ch] = far[ch]
  BY DEF Purse, Ends, Channels

\* A change of what a user of echofi has.
LEMMA PurseAtHome ==
  ASSUME NEW d \in Denoms, NEW v, user' = [user EXCEPT ![d] = v], far' = far
  PROVE  Purse' = [Purse EXCEPT !["E"][d] = v]
  BY PurseIs DEF Purse

\* A change of what is behind a channel.
LEMMA PurseAbroad ==
  ASSUME Typed, NEW ch \in Channels, NEW d \in Denoms, NEW v, far' = [far EXCEPT ![ch][d] = v],
         user' = user
  PROVE  Purse' = [Purse EXCEPT ![ch][d] = v]
  BY PurseIs DEF Purse, Ends, Typed

\* A token more or less in a purse.
Credit(at, d) == Purse' = [Purse EXCEPT ![at][d] = @ + 1]
Debit(at, d)  == Purse' = [Purse EXCEPT ![at][d] = @ - 1]

\* A token to or from a user of echofi.
LEMMA UserPurse ==
  ASSUME NEW d \in Denoms, far' = far
  PROVE  /\ user' = [user EXCEPT ![d] = @ + 1] => Credit("E", d)
         /\ user' = [user EXCEPT ![d] = @ - 1] => Debit("E", d)
  <1>1. \A v : user' = [user EXCEPT ![d] = v] => Purse' = [Purse EXCEPT !["E"][d] = v]
    BY PurseAtHome
  <1>2. Purse["E"][d] = user[d]
    BY PurseIs
  <1> QED BY <1>1, <1>2 DEF Credit, Debit

\* A token to or from behind a channel.
LEMMA FarPurse ==
  ASSUME Typed, NEW ch \in Channels, NEW d \in Denoms, user' = user
  PROVE  /\ far' = [far EXCEPT ![ch][d] = @ + 1] => Credit(ch, d)
         /\ far' = [far EXCEPT ![ch][d] = @ - 1] => Debit(ch, d)
  <1>1. ASSUME NEW v, far' = [far EXCEPT ![ch][d] = v]
        PROVE  Purse' = [Purse EXCEPT ![ch][d] = v]
    BY <1>1, PurseAbroad, Zenon
  <1>2. Purse[ch] = far[ch]
    BY PurseIs
  <1> QED BY <1>1, <1>2 DEF Credit, Debit

\* Accounts that stay leave the purses.
LEMMA PurseStays ==
  ASSUME UNCHANGED <<user, far>> PROVE Purse' = Purse
  BY DEF Purse
-----------------------------------------------------------------------------
\* Every step of the stacks is a step of Transfers or none.
TransfersStep == [Abstract!Next]_<<Purse, Deals>>

\* An open deal whose token arrives where it may is closed.
LEMMA Closes ==
  ASSUME NEW k \in DOMAIN Deals, Deals[k].end = "open", NEW at, NEW how,
         \/ at = Deals[k].to /\ how = "delivered"
         \/ at = Deals[k].from /\ how = "refunded",
         Credit(at, Deals[k].d),
         Deals' = [Deals EXCEPT ![k].end = how]
  PROVE  TransfersStep
  <1>1. Abstract!Close(k, at, how)
    BY DEF Abstract!Close, Credit
  <1> QED BY <1>1 DEF TransfersStep, Abstract!Next

\* A new deal whose token leaves its sender is opened.
LEMMA Opens ==
  ASSUME NEW k \in 1..MaxPackets, NEW n, DealAdded(k, n), n.d \in Denoms,
         Sender(n) \in Ends, Receiver(n) \in Ends, Sender(n) # Receiver(n),
         Purse[Sender(n)][n.d] > 0,
         Debit(Sender(n), n.d)
  PROVE  TransfersStep
  <1>1. Abstract!Open(k, Sender(n), Receiver(n), n.d)
    BY DEF Abstract!Open, Opened, Debit, DealAdded
  <1> QED BY <1>1 DEF TransfersStep, Abstract!Next

\* No purse and no deal moved.
LEMMA Stays ==
  ASSUME UNCHANGED <<user, far>>, Deals' = Deals PROVE TransfersStep
  BY PurseStays DEF TransfersStep

\* The way of each hop is still the one its forward asked for.
Follows == TransfersStep /\ (Routes => Routes')

\* Memos and channels of old packets stay, so routes do.
LEMMA KeepsRoutes ==
  ASSUME StackInv, Keeps, Routes,
         \A j \in DOMAIN packets' : j \in DOMAIN packets \/ packets'[j].orig = 0
  PROVE  Routes'
  <1> SUFFICES ASSUME NEW j \in DOMAIN packets, packets[j].orig # 0
               PROVE  packets'[packets[j].orig].memo.to = packets[j].ch
    BY DEF Routes, Keeps
  <1>1. packets[j].orig \in DOMAIN packets
    BY DEF StackInv, Hops, HopOf
  <1> QED BY <1>1 DEF Routes, Keeps

\* A change of state keeps the routes.
LEMMA AltersRoutes ==
  ASSUME StackInv, NEW i, NEW st, Alters(i, st) PROVE Routes => Routes'
  BY KeepsRoutes DEF Alters

\* The new value of a packet as one change.
LEMMA AltersBy ==
  ASSUME StackInv, NEW i \in Numbers, NEW q, packets' = [packets EXCEPT ![i] = q],
         q.ch = packets[i].ch, q.d = packets[i].d, q.out = packets[i].out,
         q.memo = packets[i].memo, q.orig = packets[i].orig
  PROVE  Alters(i, q.st)
  <1>1. packets \in [DOMAIN packets -> PacketType] /\ i \in DOMAIN packets
    BY LenProperties DEF StackInv, Typed, Numbers
  <1>2. /\ DOMAIN packets' = DOMAIN packets /\ packets'[i] = q
        /\ \A j \in DOMAIN packets : j # i => packets'[j] = packets[j]
    BY <1>1
  <1>3. Keeps
    BY <1>2 DEF Keeps
  <1> QED BY <1>1, <1>2, <1>3 DEF Alters

\* A change of state alone.
LEMMA BecomeAlters ==
  ASSUME StackInv, NEW i \in Numbers, NEW st, packets' = Become(i, st)
  PROVE  Alters(i, st)
  <1> DEFINE q == [packets[i] EXCEPT !.st = st]
  <1>1. packets[i] \in PacketType
    BY PacketIs
  <1>2. /\ q.ch = packets[i].ch /\ q.d = packets[i].d /\ q.out = packets[i].out
        /\ q.memo = packets[i].memo /\ q.orig = packets[i].orig /\ q.st = st
    BY <1>1 DEF PacketType
  <1>3. packets' = [packets EXCEPT ![i] = q]
    BY DEF Become
  <1> HIDE DEF q
  <1> QED BY <1>2, <1>3, AltersBy

\* What is known of packet i, whoever sent it.
LEMMA AtNumber ==
  ASSUME StackInv, NEW i \in Numbers
  PROVE  /\ packets[i].ch \in Channels /\ packets[i].d \in Denoms /\ i \in DOMAIN packets
         /\ packets[i].memo \in Forwards /\ packets[i].st \in States
         /\ ~packets[i].out => packets[i].orig = 0
         /\ packets[i].orig = 0 => i \in MadeByUsers
  <1>1. packets[i] \in PacketType /\ i \in DOMAIN packets /\ Hops
    BY PacketIs
  <1> QED BY <1>1, FieldsOf DEF Hops, HopOf, MadeByUsers

-----------------------------------------------------------------------------
\* A deal that a packet of its own ends.
LEMMA OwnEnds ==
  ASSUME StackInv, StackInv', NEW i, NEW st, Alters(i, st), packets[i].orig = 0,
         packets[i].st \in {"sent", "minus", "err"}, st \in {"plus", "ok", "back"}, NEW at,
         st = "back" => at = Sender(packets[i]), st # "back" => at = Receiver(packets[i]),
         Credit(at, packets[i].d)
  PROVE  Follows
  <1>1. Plain(packets[i].st) = "open" /\ packets[i].st # "held" /\ st # "held"
    BY DEF Plain
  <1>2. /\ i \in DOMAIN Deals /\ Deals[i] = Deal(i) /\ Deals[i].end = "open"
        /\ Deals' = [Deals EXCEPT ![i].end = Plain(st)]
    BY <1>1, AltersDeal
  <1>3. Deals[i].from = Sender(packets[i]) /\ Deals[i].to = Receiver(packets[i])
        /\ Deals[i].d = packets[i].d
    BY <1>2 DEF Deal
  <1>4. ASSUME st = "back" PROVE TransfersStep
    <2>1. Plain(st) = "refunded"
      BY <1>4 DEF Plain
    <2> QED BY <1>2, <1>3, <1>4, <2>1, Closes
  <1>5. ASSUME st # "back" PROVE TransfersStep
    <2>1. Plain(st) = "delivered"
      BY <1>5 DEF Plain
    <2> QED BY <1>2, <1>3, <1>5, <2>1, Closes
  <1> QED BY <1>4, <1>5, AltersRoutes DEF Follows

\* One that only changes the way its packet goes.
LEMMA OwnStays ==
  ASSUME StackInv, StackInv', NEW i, NEW st, Alters(i, st), packets[i].orig = 0,
         packets[i].st # "held", st # "held", Plain(st) = Plain(packets[i].st),
         UNCHANGED <<user, far>>
  PROVE  Follows
  <1>1. Deals' = Deals
    BY AltersDeal
  <1> QED BY <1>1, Stays, AltersRoutes DEF Follows

\* RecvFails is a step of Transfers or none.
LEMMA RecvFailsDeal ==
  ASSUME StackInv, StackInv', NEW i \in Numbers, RecvFails(i) PROVE Follows
  <1>1. /\ packets[i].st = "sent" /\ ~packets[i].out /\ packets' = Become(i, "err")
        /\ UNCHANGED <<user, far>>
    BY DEF RecvFails, InFlightTo
  <1>2. Plain("err") = Plain("sent")
    BY DEF Plain
  <1> QED BY <1>1, <1>2, AtNumber, BecomeAlters, OwnStays

\* FarAck is a step of Transfers or none.
LEMMA FarAckDeal ==
  ASSUME StackInv, StackInv', NEW i \in Numbers, FarAck(i) PROVE Follows
  <1>1. /\ packets[i].st = "ok" /\ ~packets[i].out /\ packets' = Become(i, "done")
        /\ UNCHANGED <<user, far>>
    BY DEF FarAck
  <1>2. Plain("done") = Plain("ok")
    BY DEF Plain
  <1> QED BY <1>1, <1>2, AtNumber, BecomeAlters, OwnStays

\* FarRefund is a step of Transfers or none.
LEMMA FarRefundDeal ==
  ASSUME StackInv, StackInv', NEW i \in Numbers, FarRefund(i) PROVE Follows
  <1>1. /\ packets[i].st \in {"err", "sent"} /\ ~packets[i].out /\ packets' = Become(i, "back")
        /\ far' = [far EXCEPT ![packets[i].ch][packets[i].d] = @ + 1] /\ user' = user
    BY DEF FarRefund
  <1>2. /\ packets[i].ch \in Channels /\ packets[i].d \in Denoms /\ packets[i].orig = 0
        /\ Sender(packets[i]) = packets[i].ch /\ Typed
    BY <1>1, AtNumber DEF Sender, StackInv
  <1>5. Credit(packets[i].ch, packets[i].d)
    BY <1>1, <1>2, FarPurse
  <1>6. Alters(i, "back")
    BY <1>1, BecomeAlters
  <1> QED BY <1>1, <1>2, <1>5, <1>6, OwnEnds

\* Recv is a step of Transfers or none.
LEMMA RecvDeal ==
  ASSUME StackInv, StackInv', NEW i \in Numbers, Recv(i) PROVE Follows
  <1> DEFINE q == [packets[i] EXCEPT !.st = "ok", !.win = epoch]
  <1>1. /\ packets[i].st = "sent" /\ ~packets[i].out /\ packets[i].memo.to = ""
        /\ packets' = [packets EXCEPT ![i].st = "ok", ![i].win = epoch]
        /\ user' = [user EXCEPT ![packets[i].d] = @ + 1] /\ far' = far
    BY DEF Recv, InFlightTo
  <1>2. /\ packets[i] \in PacketType /\ packets[i].d \in Denoms /\ packets[i].orig = 0
        /\ Receiver(packets[i]) = "E"
    BY <1>1, AtNumber, PacketIs DEF Receiver
  <1>3. /\ q.ch = packets[i].ch /\ q.d = packets[i].d /\ q.out = packets[i].out
        /\ q.memo = packets[i].memo /\ q.orig = packets[i].orig /\ q.st = "ok"
        /\ packets' = [packets EXCEPT ![i] = q]
    BY <1>1, <1>2 DEF PacketType
  <1>4. Alters(i, "ok")
    <2> HIDE DEF q
    <2> QED BY <1>3, AltersBy
  <1>6. Credit("E", packets[i].d)
    BY <1>1, <1>2, UserPurse
  <1>7. packets[i].st = "sent"
    BY <1>1
  <1> QED BY <1>2, <1>4, <1>6, <1>7, OwnEnds
\* FarRecv is a step of Transfers or none.
LEMMA FarRecvDeal ==
  ASSUME RoutesInv, StackInv', NEW i \in Numbers, FarRecv(i) PROVE Follows
  <1>0. StackInv /\ Routes
    BY DEF RoutesInv
  <1>1. packets[i].st = "sent" /\ packets[i].out /\ user' = user
    BY DEF FarRecv
  <1>2. /\ packets[i].ch \in Channels /\ packets[i].d \in Denoms /\ i \in DOMAIN packets
        /\ Receiver(packets[i]) = packets[i].ch /\ Typed
    BY <1>0, <1>1, AtNumber DEF Receiver, StackInv
  <1>3. CASE packets' = Become(i, "plus") /\ far' = [far EXCEPT ![packets[i].ch][packets[i].d] = @ + 1]
    <2>1. Credit(packets[i].ch, packets[i].d)
      BY <1>1, <1>2, <1>3, FarPurse
    <2>2. Alters(i, "plus")
      BY <1>0, <1>3, BecomeAlters
    <2>3. CASE packets[i].orig = 0
      BY <1>0, <1>1, <1>2, <2>1, <2>2, <2>3, OwnEnds
    <2>4. CASE packets[i].orig # 0
      <3>1. PICK o : o = packets[i].orig
        OBVIOUS
      <3>2. /\ Deals' = [Deals EXCEPT ![o].end = "delivered"]
            /\ o \in MadeByUsers /\ o \in DOMAIN Deals /\ Deals[o].end = "open"
        BY <1>0, <1>1, <2>2, <2>4, <3>1, AltersHop DEF Live
      <3>3. HopOf(i, o)
        BY <1>0, <1>2, <2>4, <3>1 DEF StackInv, Hops
      <3>4. packets[o].memo.to = packets[i].ch
        BY <1>0, <1>2, <2>4, <3>1 DEF Routes
      <3>5. Deals[o].to = packets[i].ch /\ Deals[o].d = packets[i].d
        <4>1. ~packets[o].out /\ packets[o].memo.to # "" /\ packets[o].d = packets[i].d
          BY <3>3, <3>4 DEF HopOf, V1
        <4>2. Receiver(packets[o]) = packets[i].ch
          BY <3>4, <4>1 DEF Receiver
        <4>3. Deals[o].to = Receiver(packets[o]) /\ Deals[o].d = packets[o].d
          BY <3>2, DealOf
        <4> QED BY <4>1, <4>2, <4>3
      <3>6. Credit(packets[i].ch, Deals[o].d)
        BY <2>1, <3>5
      <3> QED BY <1>0, <2>2, <3>2, <3>5, <3>6, Closes, AltersRoutes DEF Follows
    <2> QED BY <2>3, <2>4
  <1>4. CASE packets' = Become(i, "minus") /\ far' = far
    <2>1. Alters(i, "minus")
      BY <1>0, <1>4, BecomeAlters
    <2>2. CASE packets[i].orig = 0
      <3>1. Plain("minus") = Plain("sent")
        BY DEF Plain
      <3> QED BY <1>0, <1>1, <1>4, <2>1, <2>2, <3>1, OwnStays
    <2>3. CASE packets[i].orig # 0
      <3>1. Deals' = Deals
        BY <1>0, <1>1, <2>1, <2>3, AltersHop DEF Live
      <3> QED BY <1>0, <1>1, <1>4, <2>1, <3>1, Stays, AltersRoutes DEF Follows
    <2> QED BY <2>2, <2>3
  <1> QED BY <1>3, <1>4 DEF FarRecv

\* Letting a forward go moves no purse.
LEMMA LetsFollows ==
  ASSUME StackInv, StackInv', NEW i, NEW o, NEW st, NEW ost, Lets(i, o, st, ost),
         packets[i].st = "plus" <=> ost = "ok", UNCHANGED <<user, far>>
  PROVE  Follows
  <1>1. Deals' = Deals
    BY LetsDeal
  <1>2. Keeps /\ DOMAIN packets' = DOMAIN packets
    BY LetsIs DEF Keeps
  <1>3. Routes => Routes'
    BY <1>2, KeepsRoutes
  <1> QED BY <1>1, <1>3, Stays DEF Follows

\* A refund to echofi's user refunds the deal.
LEMMA RefundDeal ==
  ASSUME StackInv, StackInv', NEW i \in Numbers, packets[i].out,
         packets[i].st \in {"minus", "sent"}, packets[i].orig = 0, RefundSender(i), far' = far
  PROVE  Follows
  <1>1. packets' = Become(i, "back") /\ user' = [user EXCEPT ![packets[i].d] = @ + 1]
    BY DEF RefundSender
  <1>2. packets[i].d \in Denoms /\ Sender(packets[i]) = "E"
    BY AtNumber DEF Sender
  <1>3. Credit("E", packets[i].d)
    BY <1>1, <1>2, UserPurse
  <1>4. Alters(i, "back")
    BY <1>1, BecomeAlters
  <1> QED BY <1>2, <1>3, <1>4, OwnEnds

\* A failed hop leaves the deal open, to be refunded where it began.
LEMMA FailForwardDeal ==
  ASSUME StackInv, StackInv', NEW i \in Numbers, packets[i].out,
         packets[i].st \in {"minus", "sent"}, packets[i].orig # 0, FailForward(i),
         Settled(i, FALSE), UNCHANGED <<far, epoch>>
  PROVE  Follows
  <1>1. Lets(i, packets[i].orig, "back", "err")
    BY FailsLets
  <1>2. user' = user
    BY DEF FailForward
  <1>3. packets[i].st # "plus"
    OBVIOUS
  <1> QED BY <1>1, <1>2, <1>3, LetsFollows

\* AckError is a step of Transfers or none.
LEMMA AckErrorDeal ==
  ASSUME StackInv, StackInv', NEW i \in Numbers, AckError(i) PROVE Follows
  BY RefundDeal, FailForwardDeal DEF AckError

\* An acknowledged packet whose sender is echofi's user changes alone.
LEMMA DeliveredIs ==
  ASSUME StackInv, NEW i \in Numbers, AckSuccess(i), packets[i].orig = 0
  PROVE  packets' = Become(i, "done")
  <1>1. packets' = [j \in Numbers |-> IF j = i THEN [packets[i] EXCEPT !.st = "done"]
                      ELSE IF j = packets[i].orig THEN [packets[j] EXCEPT !.st = "ok"]
                      ELSE packets[j]]
    BY DEF AckSuccess
  <1>2. /\ DOMAIN packets = 1..Len(packets) /\ Len(packets) \in Nat
        /\ packets \in [DOMAIN packets -> PacketType]
    BY LenProperties DEF StackInv, Typed
  <1>3. \A j \in Numbers : j # packets[i].orig
    BY <1>2 DEF Numbers
  <1>4. packets' = [j \in Numbers |-> IF j = i THEN [packets[i] EXCEPT !.st = "done"] ELSE packets[j]]
    BY <1>1, <1>3
  <1> QED BY <1>2, <1>4 DEF Become, Numbers

\* AckSuccess is a step of Transfers or none.
LEMMA AckSuccessDeal ==
  ASSUME StackInv, StackInv', NEW i \in Numbers, AckSuccess(i) PROVE Follows
  <1>1. packets[i].st = "plus" /\ UNCHANGED <<user, far>>
    BY DEF AckSuccess
  <1>2. CASE packets[i].orig = 0
    <2>1. Alters(i, "done")
      BY <1>2, DeliveredIs, BecomeAlters
    <2>2. Plain("done") = Plain("plus")
      BY DEF Plain
    <2> QED BY <1>1, <1>2, <2>1, <2>2, OwnStays
  <1>3. CASE packets[i].orig # 0
    <2>1. Lets(i, packets[i].orig, "done", "ok")
      BY <1>3, PassedOnLets
    <2> QED BY <1>1, <2>1, LetsFollows
  <1> QED BY <1>2, <1>3

\* Retry is a step of Transfers or none.
LEMMA RetryDeal ==
  ASSUME StackInv, StackInv', NEW i \in Numbers, packets[i].st = "sent", Retry(i), far' = far
  PROVE  Follows
  <1> DEFINE q == [packets[i] EXCEPT !.retries = @ - 1, !.win = epoch]
  <1>1. /\ packets[i].orig # 0 /\ user' = user
        /\ packets' = [packets EXCEPT ![i].retries = @ - 1, ![i].win = epoch]
    BY DEF Retry
  <1>2. packets[i] \in PacketType
    BY PacketIs
  <1>3. /\ q.ch = packets[i].ch /\ q.d = packets[i].d /\ q.out = packets[i].out
        /\ q.memo = packets[i].memo /\ q.orig = packets[i].orig /\ q.st = "sent"
        /\ packets' = [packets EXCEPT ![i] = q]
    BY <1>1, <1>2 DEF PacketType
  <1>4. Alters(i, "sent")
    <2> HIDE DEF q
    <2> QED BY <1>3, AltersBy
  <1>5. packets[i].orig # 0 /\ UNCHANGED <<user, far>>
    BY <1>1
  <1>6. Deals' = Deals
    BY <1>4, <1>5, AltersHop DEF Live
  <1> QED BY <1>4, <1>5, <1>6, Stays, AltersRoutes DEF Follows

\* Timeout is a step of Transfers or none.
LEMMA TimeoutDeal ==
  ASSUME StackInv, StackInv', NEW i \in Numbers, Timeout(i) PROVE Follows
  <1>1. packets[i].out /\ packets[i].st = "sent" /\ UNCHANGED <<far, epoch>>
    BY DEF Timeout
  <1>2. CASE packets[i].orig = 0 /\ RefundSender(i) /\ Settled(i, FALSE)
    BY <1>1, <1>2, RefundDeal
  <1>3. CASE GiveUp(i) /\ Settled(i, FALSE)
    BY <1>1, <1>3, FailForwardDeal DEF GiveUp
  <1>4. CASE Retry(i)
    BY <1>1, <1>4, RetryDeal
  <1> QED BY <1>2, <1>3, <1>4 DEF Timeout
\* Forward is a step of Transfers or none.
LEMMA ForwardDeal ==
  ASSUME StackInv, StackInv', NEW i \in Numbers, Forward(i) PROVE Follows
  <1>1. PICK h, n : Holds(i, h, n) /\ n.ch = packets[i].memo.to
    BY ForwardHolds
  <1>2. UNCHANGED <<user, far>>
    BY DEF Forward
  <1>3. Deals' = Deals
    BY <1>1, HoldsDeal
  <1>4. ASSUME Routes PROVE Routes'
    <2>1. PICK k : /\ k = Len(packets) + 1 /\ DOMAIN packets' = DOMAIN packets \cup {k}
                   /\ k \notin DOMAIN packets /\ packets'[k] = n /\ packets'[i] = h
                   /\ \A j \in DOMAIN packets : j # i => packets'[j] = packets[j]
      BY <1>1, HoldsIs
    <2>2. /\ i \in DOMAIN packets /\ h.ch = packets[i].ch /\ h.memo = packets[i].memo
          /\ h.orig = packets[i].orig /\ n.orig = i
      BY <1>1 DEF Holds
    <2>3. ASSUME NEW j \in DOMAIN packets
          PROVE  /\ packets'[j].ch = packets[j].ch /\ packets'[j].memo = packets[j].memo
                 /\ packets'[j].orig = packets[j].orig
      BY <2>1, <2>2
    <2>4. ASSUME NEW j \in DOMAIN packets, packets[j].orig # 0
          PROVE  packets[j].orig \in DOMAIN packets /\ packets[packets[j].orig].memo.to = packets[j].ch
      BY <1>4, <2>4 DEF StackInv, Hops, HopOf, Routes
    <2>5. packets'[i].memo.to = packets'[k].ch /\ packets'[k].orig = i
      BY <1>1, <2>1, <2>2
    <2> QED BY <2>1, <2>3, <2>4, <2>5 DEF Routes
  <1> QED BY <1>2, <1>3, <1>4, Stays DEF Follows

\* The number of a new packet names its deal.
LEMMA UserFollows ==
  ASSUME StackInv, StackInv', NEW n, Adds(n), Len(packets) < MaxPackets, n.d \in Denoms,
         Sender(n) \in Ends, Receiver(n) \in Ends, Sender(n) # Receiver(n),
         Purse[Sender(n)][n.d] > 0, Debit(Sender(n), n.d)
  PROVE  Follows
  <1>1. PICK k : k = Len(packets) + 1
    OBVIOUS
  <1>2. k \in 1..MaxPackets
    BY <1>1, LenProperties, StackAssumption DEF StackInv, Typed
  <1>3. DealAdded(k, n)
    BY <1>1, AddsDeal
  <1>4. TransfersStep
    BY <1>2, <1>3, Opens
  <1>5. /\ DOMAIN packets' = DOMAIN packets \cup {k} /\ packets'[k] = n /\ n.orig = 0
        /\ \A j \in DOMAIN packets : packets'[j] = packets[j]
    BY <1>1, AddsIs DEF Adds
  <1>6. Routes => Routes'
    BY <1>5, KeepsRoutes DEF Keeps
  <1> QED BY <1>4, <1>6 DEF Follows

\* Send is a step of Transfers or none.
LEMMA SendDeal ==
  ASSUME StackInv, StackInv', NEW ch \in Channels, NEW d \in Denoms, Send(ch, d) PROVE Follows
  <1>1. PICK n : n = Packet(ch, TRUE, d, NoMemo, 0, 0)
    OBVIOUS
  <1>2. /\ Len(packets) < MaxPackets /\ user[d] > 0 /\ user' = [user EXCEPT ![d] = @ - 1]
        /\ packets' = Append(packets, n) /\ far' = far /\ epoch' = epoch
    BY <1>1 DEF Send
  <1>3. Adds(n) /\ Made(n, ch, TRUE, d, NoMemo, 0)
    <2>1. TRUE \in BOOLEAN /\ NoMemo \in Forwards
      BY ForwardsAre
    <2> QED BY <1>1, <1>2, <2>1, UserAdds
  <1>4. Sender(n) = "E" /\ Receiver(n) = ch /\ n.d = d
    BY <1>3 DEF Sender, Receiver, Made
  <1>5. /\ Sender(n) \in Ends /\ Receiver(n) \in Ends /\ Sender(n) # Receiver(n)
        /\ Purse[Sender(n)][n.d] > 0
    BY <1>2, <1>4, PurseIs
  <1>6. Debit(Sender(n), n.d)
    BY <1>2, <1>4, UserPurse
  <1> QED BY <1>2, <1>3, <1>4, <1>5, <1>6, UserFollows

\* FarSend is a step of Transfers or none.
LEMMA FarSendDeal ==
  ASSUME StackInv, StackInv', NEW ch \in Channels, NEW d \in Denoms, NEW memo \in Forwards,
         FarSend(ch, d, memo)
  PROVE  Follows
  <1>1. PICK n : n = Packet(ch, FALSE, d, memo, 0, 0)
    OBVIOUS
  <1>2. /\ Len(packets) < MaxPackets /\ far[ch][d] > 0 /\ far' = [far EXCEPT ![ch][d] = @ - 1]
        /\ packets' = Append(packets, n) /\ user' = user /\ epoch' = epoch
        /\ memo # NoMemo => memo.to # ch
    BY <1>1 DEF FarSend
  <1>3. Adds(n) /\ Made(n, ch, FALSE, d, memo, 0)
    <2>1. FALSE \in BOOLEAN
      OBVIOUS
    <2> QED BY <1>1, <1>2, <2>1, UserAdds
  <1>4. Sender(n) = ch /\ n.d = d /\ Receiver(n) = IF memo.to = "" THEN "E" ELSE memo.to
    BY <1>3 DEF Sender, Receiver, Made
  <1>5. memo.to # "" => memo.to \in Channels /\ memo.to # ch
    BY <1>2, ForwardsAre DEF V1, Channels
  <1>6. /\ Sender(n) \in Ends /\ Receiver(n) \in Ends /\ Sender(n) # Receiver(n)
        /\ Purse[Sender(n)][n.d] > 0
    BY <1>2, <1>4, <1>5, PurseIs
  <1>7. Debit(Sender(n), n.d)
    BY <1>2, <1>4, FarPurse DEF StackInv
  <1> QED BY <1>2, <1>3, <1>4, <1>6, <1>7, UserFollows

\* Every step keeps the invariant and is a step of Transfers or none.
LEMMA NextFollows == RoutesInv /\ [Next]_vars => RoutesInv' /\ TransfersStep
  <1> SUFFICES ASSUME RoutesInv, [Next]_vars PROVE RoutesInv' /\ TransfersStep
    OBVIOUS
  <1>0. StackInv /\ Routes /\ StackInv'
    BY NextInv DEF RoutesInv
  <1>1. ASSUME NEW ch \in Channels, NEW d \in Denoms, Send(ch, d) PROVE Follows
    BY <1>0, <1>1, SendDeal
  <1>2. ASSUME NEW ch \in Channels, NEW d \in Denoms, NEW memo \in Forwards,
               FarSend(ch, d, memo)
        PROVE  Follows
    BY <1>0, <1>2, FarSendDeal
  <1>3. ASSUME NEW i \in Numbers, Relay(i) PROVE Follows
    <2>1. CASE RecvFails(i)
      BY <1>0, <2>1, RecvFailsDeal
    <2>2. CASE Recv(i)
      BY <1>0, <2>2, RecvDeal
    <2>3. CASE Forward(i)
      BY <1>0, <2>3, ForwardDeal
    <2>4. CASE FarRecv(i)
      BY <1>0, <2>4, FarRecvDeal
    <2>5. CASE AckSuccess(i)
      BY <1>0, <2>5, AckSuccessDeal
    <2>6. CASE AckError(i)
      BY <1>0, <2>6, AckErrorDeal
    <2>7. CASE Timeout(i)
      BY <1>0, <2>7, TimeoutDeal
    <2>8. CASE FarAck(i)
      BY <1>0, <2>8, FarAckDeal
    <2>9. CASE FarRefund(i)
      BY <1>0, <2>9, FarRefundDeal
    <2> QED BY <1>3, <2>1, <2>2, <2>3, <2>4, <2>5, <2>6, <2>7, <2>8, <2>9 DEF Relay
  <1>4. ASSUME UNCHANGED <<user, far, packets>> PROVE Follows
    <2>1. Deals' = Deals
      BY <1>4 DEF Deals, Deal, Outcome, Taken, Numbers
    <2>2. Routes => Routes'
      BY <1>4 DEF Routes
    <2> QED BY <1>4, <2>1, <2>2, Stays DEF Follows
  <1>5. ASSUME ResetQuotas PROVE Follows
    BY <1>4, <1>5 DEF ResetQuotas
  <1>6. ASSUME UNCHANGED vars PROVE Follows
    BY <1>4, <1>6 DEF vars
  <1>7. Follows
    BY <1>1, <1>2, <1>3, <1>5, <1>6 DEF Next
  <1> QED BY <1>0, <1>7 DEF Follows, RoutesInv

\* Initial states map to initial states.
LEMMA InitFollows == Init => RoutesInv /\ Abstract!Init
  <1> SUFFICES ASSUME Init PROVE RoutesInv /\ Abstract!Init
    OBVIOUS
  <1>1. DOMAIN packets = {} /\ StackInv
    BY InitInv DEF Init
  <1>2. Purse \in [Ends -> [Denoms -> Nat]]
    BY <1>1 DEF StackInv, Typed, Purse, Ends
  <1>3. DOMAIN Deals = {}
    BY <1>1 DEF Deals, Numbers
  <1> QED BY <1>1, <1>2, <1>3 DEF RoutesInv, Routes, Abstract!Init

\* Whoever makes a transfer sees it delivered or refunded, once, whatever is
\* forwarded, retried and acknowledged on the way (keeper.go:571-582): the
\* stacks implement Transfers.
THEOREM StacksImplementTransfers == Spec => ImplementsTransfers
  BY InitFollows, NextFollows, PTL DEF Spec, ImplementsTransfers, Abstract!Spec, TransfersStep
=============================================================================
