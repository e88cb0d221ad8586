----------------------------- MODULE BookProofs -----------------------------
(***************************************************************************)
(* Proofs about the keeper's rebalancing, for every set of coins, weights, *)
(* prices and bounds: types, that no batch ever flips a position, what a   *)
(* batch that filled has achieved, and what a tick that reports its drift  *)
(* cleared may claim.                                                      *)
(***************************************************************************)
EXTENDS RebalanceBook, FixedPointProofs, SequenceTheorems

-----------------------------------------------------------------------------
(* Arithmetic.                                                              *)

LEMMA TimesInt ==
    ASSUME NEW a \in Int, NEW b \in Int
    PROVE  a * b \in Int
OBVIOUS

LEMMA TimesSum ==
    ASSUME NEW a \in Int, NEW b \in Int, NEW c \in Int
    PROVE  /\ (a + b) * c = a * c + b * c
           /\ (a - b) * c = a * c - b * c
OBVIOUS

\* Size rounds a quantity down to whole lots.
LEMMA SizeFloor ==
    ASSUME NEW delta \in Int, NEW lot \in Nat \ {0}
    PROVE  /\ Size(delta, lot) \in Nat
           /\ Size(delta, lot) * lot <= Abs(delta)
           /\ Abs(delta) < Size(delta, lot) * lot + lot
<1>1. Abs(delta) \in Nat
  BY DEF Abs
<1> QED BY <1>1, DivBounds DEF Size

\* A quantity of at most n lots is rounded to at most n lots.
LEMMA SizeAtMost ==
    ASSUME NEW delta \in Int, NEW lot \in Nat \ {0}, NEW n \in Nat, Abs(delta) <= n * lot
    PROVE  Size(delta, lot) <= n
<1> DEFINE q == Size(delta, lot)
<1>1. q \in Nat /\ q * lot <= Abs(delta)
  BY SizeFloor
<1>2. Abs(delta) \in Int /\ q * lot \in Int /\ n * lot \in Int
  BY <1>1, TimesInt DEF Abs
<1> HIDE DEF q
<1>3. q * lot <= n * lot
  BY <1>1, <1>2
<1>4. q <= n
  BY <1>1, <1>3, MulDivMonotone
<1> QED BY <1>4 DEF q

-----------------------------------------------------------------------------
(* What a tick plans from one reading.                                      *)

\* A book on the basket's side
OnSide(pos) == \A coin \in Coins : side * pos[coin] >= 0

Delta(pos, px, coin) == Targets(pos, px)[coin] - pos[coin] * LotScale(px, coin)

\* The order for a coin
OrderOf(pos, px, coin) ==
    [coin |-> coin, isBuy |-> Delta(pos, px, coin) > 0,
     size |-> Size(Delta(pos, px, coin), LotScale(px, coin)),
     reduceOnly |-> Shrinks(pos[coin], Delta(pos, px, coin), Targets(pos, px)[coin])]

LEMMA PriceTypes ==
    ASSUME NEW px \in Prices, NEW coin \in Coins
    PROVE  px[coin] \in Nat \ {0} /\ LotScale(px, coin) \in Nat \ {0}
<1>1. px[coin] \in LotPrices[coin] /\ LotPrices[coin] \subseteq Nat \ {0}
  BY BookAssumption DEF Prices
<1>2. WeightBase \in Nat \ {0}
  BY BookAssumption
<1> QED BY <1>1, <1>2 DEF LotScale

LEMMA SideTypes ==
    ASSUME BookTypeOK
    PROVE  side \in {1, -1} /\ side \in Int
BY BookAssumption DEF BookTypeOK

\* Targets lie on the basket's side.
LEMMA TargetTypes ==
    ASSUME BookTypeOK, NEW pos \in Positions, NEW px \in Prices, NEW coin \in Coins
    PROVE  /\ Targets(pos, px)[coin] \in Int
           /\ side * Targets(pos, px)[coin] >= 0
           /\ Delta(pos, px, coin) \in Int
<1>1. side \in {1, -1}
  BY SideTypes
<1>2. Gross(pos, px) \in Nat
  <2> DEFINE f == [c \in Coins |-> Notional(pos, px, c)]
  <2>1. \A c \in Coins : f[c] \in Nat
    <3> SUFFICES ASSUME NEW c \in Coins PROVE Notional(pos, px, c) \in Nat
      OBVIOUS
    <3>1. Abs(pos[c]) \in Nat /\ px[c] \in Nat
      BY PriceTypes DEF Positions, Abs
    <3> QED BY <3>1, TimesNat DEF Notional
  <2>2. IsFiniteSet(Coins)
    BY BookAssumption
  <2> HIDE DEF f
  <2>3. Total(f, Coins) \in Nat
    BY <2>1, <2>2, TokensFinite
  <2> QED BY <2>3 DEF f, Gross
<1>3. Weight[coin] \in Nat
  BY BookAssumption
<1>4. PICK n \in Nat : n = Gross(pos, px) * Weight[coin]
  BY <1>2, <1>3, TimesNat
<1>5. Targets(pos, px)[coin] = side * n
  <2>1. Targets(pos, px)[coin] = side * Gross(pos, px) * Weight[coin]
    BY DEF Targets
  <2>2. CASE side = 1
    BY <1>2, <1>3, <1>4, <2>1, <2>2
  <2>3. CASE side = -1
    BY <1>2, <1>3, <1>4, <2>1, <2>3
  <2> QED BY <1>1, <2>2, <2>3
<1>6. side * n \in Int /\ side * (side * n) >= 0
  <2>1. CASE side = 1
    BY <2>1
  <2>2. CASE side = -1
    BY <2>2
  <2> QED BY <1>1, <2>1, <2>2
<1>7. pos[coin] * LotScale(px, coin) \in Int
  <2>1. pos[coin] \in Int /\ LotScale(px, coin) \in Int
    BY PriceTypes DEF Positions
  <2> QED BY <2>1, TimesInt
<1> QED BY <1>5, <1>6, <1>7 DEF Delta

LEMMA RebalanceOrders ==
    ASSUME NEW pos, NEW px
    PROVE  Rebalance(pos, px)
             = {OrderOf(pos, px, coin) :
                   coin \in {c \in Coins : Size(Delta(pos, px, c), LotScale(px, c)) # 0}}
BY DEF Rebalance, OrderOf, Delta

\* An order either trades on the basket's side or only reduces.
SafeOrder(order) == order.reduceOnly \/ (order.isBuy <=> side = 1)

\* How many lots an order may reduce a position of n lots by
Open(order, n) == IF order.isBuy THEN -n ELSE n

LEMMA OrderFacts ==
    ASSUME BookTypeOK, NEW pos \in Positions, OnSide(pos), NEW px \in Prices,
           NEW coin \in Coins, Size(Delta(pos, px, coin), LotScale(px, coin)) # 0
    PROVE  /\ OrderOf(pos, px, coin) \in Orders
           /\ SafeOrder(OrderOf(pos, px, coin))
           /\ OrderOf(pos, px, coin).reduceOnly =>
                 OrderOf(pos, px, coin).size <= Open(OrderOf(pos, px, coin), pos[coin])
<1> DEFINE d == Delta(pos, px, coin)
           t == Targets(pos, px)[coin]
           n == pos[coin]
           lot == LotScale(px, coin)
           order == OrderOf(pos, px, coin)
<1>1. /\ t \in Int /\ d \in Int /\ n \in Int /\ lot \in Nat \ {0}
      /\ d = t - n * lot /\ side * t >= 0 /\ side * n >= 0 /\ side \in {1, -1}
  BY TargetTypes, PriceTypes, SideTypes DEF Delta, OnSide, Positions
<1>2. n * lot \in Int
  BY <1>1, TimesInt
<1>3. Size(d, lot) \in Nat \ {0}
  BY <1>1, SizeFloor
<1>4. /\ order.coin = coin /\ order.isBuy = (d > 0) /\ order.size = Size(d, lot)
      /\ order.reduceOnly = Shrinks(n, d, t)
  BY DEF OrderOf
<1>5. order \in Orders
  <2>1. (d > 0) \in BOOLEAN /\ Shrinks(n, d, t) \in BOOLEAN
    BY DEF Shrinks
  <2> HIDE DEF d, t, n, lot
  <2>2. order = [coin |-> coin, isBuy |-> d > 0, size |-> Size(d, lot),
                 reduceOnly |-> Shrinks(n, d, t)]
    BY DEF OrderOf, d, t, n, lot
  <2> QED BY <1>3, <2>1, <2>2 DEF Orders
<1>6. d # 0
  <2>1. d = 0 => Abs(d) <= 0 * lot
    BY <1>1 DEF Abs
  <2>2. d = 0 => Size(d, lot) <= 0
    BY <1>1, <2>1, SizeAtMost
  <2> QED BY <1>3, <2>2
<1> HIDE DEF d, t, n, lot, order
<1>7. ASSUME d > 0, n < 0, t <= 0 PROVE Size(d, lot) <= -n
  <2>1. -n \in Nat /\ (-n) * lot = -(n * lot)
    BY <1>1, <1>7
  <2>2. Abs(d) <= (-n) * lot
    BY <1>1, <1>2, <1>7, <2>1 DEF Abs
  <2> QED BY <1>1, <2>1, <2>2, SizeAtMost
<1>8. ASSUME d < 0, n > 0, t >= 0 PROVE Size(d, lot) <= n
  <2>1. Abs(d) <= n * lot
    BY <1>1, <1>2, <1>8 DEF Abs
  <2> QED BY <1>1, <1>8, <2>1, SizeAtMost
<1>9. CASE d > 0
  <2>1. order.isBuy /\ (order.reduceOnly <=> n < 0 /\ t <= 0)
    <3>1. Shrinks(n, d, t) <=> n < 0 /\ t <= 0
      BY <1>1, <1>9 DEF Shrinks
    <3> QED BY <1>4, <1>9, <3>1, Zenon
  <2>2. side = 1 => t >= 0 /\ n >= 0
    BY <1>1
  <2>3. side = -1 => n < 0 /\ t <= 0
    <3>1. side = -1 => t <= 0 /\ n <= 0
      BY <1>1
    <3>2. n = 0 => n * lot = 0
      BY <1>1
    <3>3. n * lot < t
      BY <1>1, <1>2, <1>9
    <3> QED BY <1>1, <1>2, <3>1, <3>2, <3>3
  <2>4. SafeOrder(order)
    BY <1>1, <2>1, <2>3 DEF SafeOrder
  <2>5. order.reduceOnly => order.size <= Open(order, n)
    BY <1>4, <1>7, <1>9, <2>1 DEF Open
  <2> QED BY <1>5, <2>4, <2>5 DEF order, n
<1>10. CASE d < 0
  <2>1. ~order.isBuy /\ (order.reduceOnly <=> n > 0 /\ t >= 0)
    <3>1. ~(d > 0) /\ (Shrinks(n, d, t) <=> n > 0 /\ t >= 0)
      BY <1>1, <1>10 DEF Shrinks
    <3> QED BY <1>4, <3>1, Zenon
  <2>2. side = 1 => n > 0 /\ t >= 0
    <3>1. side = 1 => t >= 0 /\ n >= 0
      BY <1>1
    <3>2. n = 0 => n * lot = 0
      BY <1>1
    <3>3. n * lot > t
      BY <1>1, <1>2, <1>10
    <3> QED BY <1>1, <1>2, <3>1, <3>2, <3>3
  <2>3. SafeOrder(order)
    BY <1>1, <2>1, <2>2 DEF SafeOrder
  <2>4. order.reduceOnly => order.size <= Open(order, n)
    BY <1>4, <1>8, <1>10, <2>1 DEF Open
  <2> QED BY <1>5, <2>3, <2>4 DEF order, n
<1> QED BY <1>1, <1>6, <1>9, <1>10

LEMMA PlansAreSafe ==
    ASSUME BookTypeOK, NEW pos \in Positions, OnSide(pos), NEW px \in Prices
    PROVE  /\ Rebalance(pos, px) \subseteq Orders
           /\ \A order \in Rebalance(pos, px) : SafeOrder(order)
BY RebalanceOrders, OrderFacts

-----------------------------------------------------------------------------
(* Types, and no flip.                                                      *)

\* The invariant, by the variables its parts are about: the book is on its side, and
\* so is the last reading; every order on its way trades on that side or only reduces.
MarketInv ==
    /\ side \in Sides /\ position \in Positions /\ price \in Prices
    /\ windDown \in BOOLEAN /\ stray \in BOOLEAN
    /\ OnSide(position)

FlightInv ==
    /\ mempool \in SUBSET Orders /\ batches \in Seq(SUBSET Orders)
    /\ \A order \in mempool : SafeOrder(order)
    /\ \A i \in DOMAIN batches : \A order \in batches[i] : SafeOrder(order)

TickTypes ==
    /\ pc \in {"asleep", "positions", "prices", "verify", "reprices"}
    /\ held \in Positions /\ OnSide(held)
    /\ tries \in 0 .. MaxRetries - 1
    /\ cleared \in BOOLEAN

AuxTypes ==
    /\ alone \in BOOLEAN /\ calm \in BOOLEAN
    /\ plan = NoPlan \/ plan \in [held : Positions, px : Prices]

BookInv == MarketInv /\ FlightInv /\ TickTypes /\ AuxTypes

LEMMA BookInvImplies ==
    ASSUME BookInv
    PROVE  BookTypeOK /\ NeverFlips
<1>1. {windDown, stray, cleared, alone, calm} \subseteq BOOLEAN
  BY Zenon DEF BookInv, MarketInv, TickTypes, AuxTypes
<1>2. /\ side \in Sides /\ position \in Positions /\ price \in Prices
      /\ mempool \in SUBSET Orders /\ batches \in Seq(SUBSET Orders)
      /\ pc \in {"asleep", "positions", "prices", "verify", "reprices"}
      /\ held \in Positions /\ tries \in 0 .. MaxRetries - 1
      /\ plan = NoPlan \/ plan \in [held : Positions, px : Prices]
  BY Zenon DEF BookInv, MarketInv, FlightInv, TickTypes, AuxTypes
<1>3. NeverFlips
  BY DEF BookInv, MarketInv, OnSide, NeverFlips
<1> QED BY <1>1, <1>2, <1>3, Zenon DEF BookTypeOK

LEMMA FlatReading ==
    ASSUME side \in Sides
    PROVE  Flat \in Positions /\ OnSide(Flat)
<1>1. Flat \in [Coins -> Int] /\ \A coin \in Coins : Flat[coin] = 0
  BY DEF Flat
<1>2. side * 0 >= 0
  BY BookAssumption
<1> QED BY <1>1, <1>2 DEF Positions, OnSide

LEMMA BookInitInv == BookInit => BookInv
<1> SUFFICES ASSUME BookInit PROVE BookInv
  OBVIOUS
<1>1. side \in {1, -1} /\ SeedLots \in Nat /\ MaxRetries \in Nat \ {0}
  BY BookAssumption DEF BookInit
<1>2. ASSUME NEW coin \in Coins PROVE position[coin] \in Int /\ side * position[coin] >= 0
  <2>1. PICK n \in 0 .. SeedLots : position[coin] = side * n
    BY DEF BookInit
  <2>2. CASE side = 1
    BY <1>1, <2>1, <2>2
  <2>3. CASE side = -1
    BY <1>1, <2>1, <2>3
  <2> QED BY <1>1, <2>2, <2>3
<1>3. position \in Positions /\ OnSide(position)
  <2>1. position = [coin \in Coins |-> position[coin]]
    BY DEF BookInit
  <2> QED BY <1>2, <2>1 DEF Positions, OnSide
<1>4. MarketInv
  BY <1>3 DEF BookInit, MarketInv
<1>5. FlightInv
  <2>1. mempool = {} /\ batches = << >>
    BY DEF BookInit, None
  <2> QED BY <2>1 DEF FlightInv
<1>6. TickTypes
  <2>1. pc = "asleep" /\ held = Flat /\ tries = 0 /\ cleared = TRUE /\ side \in Sides
    BY DEF BookInit
  <2>2. held \in Positions /\ OnSide(held)
    BY <2>1, FlatReading
  <2> QED BY <1>1, <2>1, <2>2 DEF TickTypes
<1>7. AuxTypes
  BY DEF BookInit, AuxTypes
<1> QED BY <1>4, <1>5, <1>6, <1>7 DEF BookInv

\* What HyperCore makes of an order
LEMMA ExecutableTypes ==
    ASSUME BookTypeOK, NEW order \in Orders
    PROVE  /\ order.coin \in Coins /\ order.size \in Nat \ {0}
           /\ position[order.coin] \in Int
           /\ Executable(order) \in Nat
           /\ order.reduceOnly /\ Executable(order) # 0 =>
                 Executable(order) <= Open(order, position[order.coin])
           /\ ~order.reduceOnly => Executable(order) = order.size
           /\ order.reduceOnly /\ order.size <= Open(order, position[order.coin])
                 => Executable(order) = order.size
<1> DEFINE n == position[order.coin]
<1>1. order.coin \in Coins /\ order.size \in Nat \ {0}
  BY DEF Orders
<1>2. n \in Int
  BY <1>1 DEF BookTypeOK, Positions
<1>3. Open(order, n) \in Int
  BY <1>2 DEF Open
<1>4. Executable(order) = IF ~order.reduceOnly THEN order.size
                          ELSE IF Open(order, n) <= 0 THEN 0
                          ELSE IF Open(order, n) < order.size THEN Open(order, n)
                          ELSE order.size
  BY DEF Executable, Open
<1> HIDE DEF n
<1>5. /\ Executable(order) \in Nat
      /\ order.reduceOnly /\ Executable(order) # 0 => Executable(order) <= Open(order, n)
      /\ ~order.reduceOnly => Executable(order) = order.size
      /\ order.reduceOnly /\ order.size <= Open(order, n) => Executable(order) = order.size
  BY <1>1, <1>3, <1>4
<1> QED BY <1>1, <1>2, <1>5 DEF n

\* A fill of a safe order, of whatever size, leaves the position on its side.
LEMMA FillKeepsSide ==
    ASSUME BookTypeOK, NeverFlips, NEW order \in Orders, SafeOrder(order),
           NEW lots \in 0 .. Executable(order),
           position' = [position EXCEPT ![order.coin] = @ + Signed(order, lots)]
    PROVE  /\ position' \in Positions
           /\ \A coin \in Coins : side * position'[coin] >= 0
<1> DEFINE c == order.coin
           n == position[c]
           m == n + Signed(order, lots)
<1>1. /\ c \in Coins /\ n \in Int /\ Executable(order) \in Nat /\ lots \in Nat
      /\ lots <= Executable(order)
      /\ order.reduceOnly /\ Executable(order) # 0 => Executable(order) <= Open(order, n)
  BY ExecutableTypes
<1>2. side \in {1, -1} /\ position \in [Coins -> Int] /\ side * n >= 0
  BY <1>1, SideTypes DEF BookTypeOK, Positions, NeverFlips
<1>3. Signed(order, lots) \in Int /\ m \in Int
  BY <1>1 DEF Signed
<1> HIDE DEF n
<1>4. side * m >= 0
  <2>1. CASE order.isBuy
    <3>1. m = n + lots /\ Open(order, n) = -n
      BY <2>1 DEF Signed, Open
    <3>2. CASE side = 1
      BY <1>1, <1>2, <3>1, <3>2
    <3>3. CASE side = -1
      <4>1. order.reduceOnly
        BY <2>1, <3>3 DEF SafeOrder
      <4>2. n <= 0 /\ lots <= -n
        BY <1>1, <1>2, <3>1, <3>3, <4>1 DEF n
      <4> QED BY <1>1, <3>1, <3>3, <4>2 DEF n
    <3> QED BY <1>2, <3>2, <3>3
  <2>2. CASE ~order.isBuy
    <3>1. m = n - lots /\ Open(order, n) = n
      BY <1>1, <2>2 DEF Signed, Open, n
    <3>2. CASE side = -1
      BY <1>1, <1>2, <3>1, <3>2 DEF n
    <3>3. CASE side = 1
      <4>1. order.reduceOnly
        BY <2>2, <3>3 DEF SafeOrder
      <4>2. n >= 0 /\ lots <= n
        BY <1>1, <1>2, <3>1, <3>3, <4>1 DEF n
      <4> QED BY <1>1, <3>1, <3>3, <4>2 DEF n
    <3> QED BY <1>2, <3>2, <3>3
  <2> QED BY <2>1, <2>2
<1>5. position' = [position EXCEPT ![c] = m]
  BY DEF n
<1> HIDE DEF c, m
<1>6. position' \in [Coins -> Int] /\ \A coin \in Coins : side * position'[coin] >= 0
  BY <1>1, <1>2, <1>3, <1>4, <1>5 DEF NeverFlips
<1> QED BY <1>6 DEF Positions

\* A sequence with one more element in front
LEMMA Prepend ==
    ASSUME NEW S, NEW x \in S, NEW s \in Seq(S)
    PROVE  /\ <<x>> \o s \in Seq(S)
           /\ Len(<<x>> \o s) = Len(s) + 1
           /\ (<<x>> \o s)[1] = x
           /\ \A i \in 2 .. Len(s) + 1 : (<<x>> \o s)[i] = s[i - 1]
           /\ s = << >> => <<x>> \o s = <<x>>
<1>1. <<x>> \in Seq(S) /\ Len(<<x>>) = 1 /\ <<x>>[1] = x
  OBVIOUS
<1> DEFINE h == <<x>>
<1>2. h \in Seq(S) /\ Len(h) = 1 /\ h[1] = x
  BY <1>1
<1> HIDE DEF h
<1>3. /\ h \o s \in Seq(S) /\ Len(h \o s) = 1 + Len(s)
      /\ \A i \in 1 .. 1 + Len(s) : (h \o s)[i] = IF i <= 1 THEN h[1] ELSE s[i - 1]
  <2>1. \A i \in 1 .. 1 + Len(s) : i <= 1 => i = 1
    OBVIOUS
  <2>2. /\ h \o s \in Seq(S) /\ Len(h \o s) = Len(h) + Len(s)
        /\ \A i \in 1 .. Len(h) + Len(s) :
              (h \o s)[i] = IF i <= Len(h) THEN h[i] ELSE s[i - Len(h)]
    BY <1>2, ConcatProperties
  <2> QED BY <1>2, <2>1, <2>2
<1>4. (h \o s)[1] = x /\ \A i \in 2 .. Len(s) + 1 : (h \o s)[i] = s[i - 1]
  <2>1. Len(s) \in Nat
    OBVIOUS
  <2> QED BY <1>2, <1>3, <2>1
<1>5. s = << >> => h \o s = h
  BY <1>2, ConcatEmptySeq
<1>6. Len(h \o s) = Len(s) + 1
  <2>1. Len(s) \in Nat
    OBVIOUS
  <2> QED BY <1>3, <2>1
<1> QED BY <1>3, <1>4, <1>5, <1>6 DEF h

\* The batches left after a leg ran are what they were, less that leg.
LEMMA RunKeepsBatches ==
    ASSUME batches \in Seq(SUBSET Orders), batches # << >>, NEW order \in Head(batches),
           batches' = IF Head(batches) = {order} THEN Tail(batches)
                      ELSE <<Head(batches) \ {order}>> \o Tail(batches)
    PROVE  /\ batches' \in Seq(SUBSET Orders)
           /\ \A i \in DOMAIN batches' : \E j \in DOMAIN batches : batches'[i] \subseteq batches[j]
           /\ order \in Orders /\ 1 \in DOMAIN batches /\ Head(batches) = batches[1]
           /\ Len(batches) <= 1 =>
                 batches' = IF Head(batches) = {order} THEN << >>
                            ELSE <<Head(batches) \ {order}>>
<1> DEFINE rest == Tail(batches)
           less == Head(batches) \ {order}
<1>1. /\ Len(batches) \in Nat \ {0} /\ DOMAIN batches = 1 .. Len(batches)
      /\ rest \in Seq(SUBSET Orders) /\ Len(rest) = Len(batches) - 1
      /\ Head(batches) = batches[1] /\ Head(batches) \in SUBSET Orders
      /\ \A i \in 1 .. Len(rest) : rest[i] = batches[i + 1]
  OBVIOUS
<1>2. DOMAIN rest = 1 .. Len(rest) /\ Len(rest) \in Nat
  BY <1>1
<1>3. Len(batches) <= 1 => rest = << >>
  BY <1>1
<1> HIDE DEF rest
<1>4. CASE Head(batches) = {order}
  <2>1. batches' = rest
    BY <1>4 DEF rest
  <2>2. \A i \in DOMAIN rest : i + 1 \in DOMAIN batches /\ rest[i] = batches[i + 1]
    BY <1>1, <1>2
  <2> QED BY <1>1, <1>3, <1>4, <2>1, <2>2
<1>5. CASE Head(batches) # {order}
  <2> DEFINE left == <<less>> \o rest
  <2>2. batches' = left
    BY <1>5 DEF rest
  <2>3. less \in SUBSET Orders /\ less \subseteq batches[1]
    BY <1>1
  <2> HIDE DEF less
  <2>4. /\ left \in Seq(SUBSET Orders) /\ Len(left) = Len(rest) + 1 /\ left[1] = less
        /\ \A i \in 2 .. Len(rest) + 1 : left[i] = rest[i - 1]
        /\ rest = << >> => left = <<less>>
    <3> DEFINE S == SUBSET Orders
    <3>1. rest \in Seq(S)
      BY <1>1
    <3>2. less \in S
      BY <2>3
    <3> HIDE DEF S
    <3>3. /\ left \in Seq(S) /\ Len(left) = Len(rest) + 1 /\ left[1] = less
          /\ \A i \in 2 .. Len(rest) + 1 : left[i] = rest[i - 1]
          /\ rest = << >> => left = <<less>>
      BY <3>1, <3>2, Prepend
    <3> QED BY <3>3 DEF S
  <2> HIDE DEF left
  <2>5. DOMAIN left = 1 .. Len(batches)
    BY <1>1, <2>4
  <2>6. ASSUME NEW i \in 1 .. Len(batches) PROVE left[i] \subseteq batches[i]
    <3>1. CASE i = 1
      BY <2>3, <2>4, <3>1
    <3>2. CASE i # 1
      <4>1. i \in 2 .. Len(rest) + 1 /\ i - 1 \in 1 .. Len(rest) /\ (i - 1) + 1 = i
        BY <1>1, <3>2
      <4>2. left[i] = batches[i]
        BY <1>1, <2>4, <4>1
      <4> QED BY <4>2
    <3> QED BY <3>1, <3>2
  <2>7. Len(batches) <= 1 => left = <<less>>
    BY <1>3, <2>4
  <2>8. \A i \in DOMAIN batches' : \E j \in DOMAIN batches : batches'[i] \subseteq batches[j]
    BY <1>1, <2>2, <2>5, <2>6
  <2>9. Len(batches) <= 1 =>
          batches' = IF Head(batches) = {order} THEN << >> ELSE <<Head(batches) \ {order}>>
    BY <1>5, <2>2, <2>7, Zenon DEF less
  <2>10. batches' \in Seq(SUBSET Orders)
    BY <2>2, <2>4, Zenon
  <2>11. order \in Orders /\ 1 \in DOMAIN batches
    BY <1>1
  <2> QED BY <1>1, <2>8, <2>9, <2>10, <2>11
<1> QED BY <1>4, <1>5

-----------------------------------------------------------------------------
LEMMA MarketKept ==
    ASSUME MarketInv, UNCHANGED marketVars
    PROVE  MarketInv'
BY Zenon DEF MarketInv, marketVars, OnSide

LEMMA FlightKept ==
    ASSUME FlightInv, UNCHANGED flightVars, UNCHANGED side
    PROVE  FlightInv'
BY Zenon DEF FlightInv, flightVars, SafeOrder

LEMMA TickKept ==
    ASSUME TickTypes, UNCHANGED tickVars, UNCHANGED side
    PROVE  TickTypes'
BY Zenon DEF TickTypes, tickVars, OnSide

\* A tick that ends forgets its reading.
LEMMA TickEnds ==
    ASSUME side \in Sides, UNCHANGED side, NEW ok \in BOOLEAN, Finish(ok)
    PROVE  TickTypes'
<1>1. pc' = "asleep" /\ cleared' = ok /\ held' = Flat /\ tries' = 0
  BY DEF Finish
<1>2. 0 \in 0 .. MaxRetries - 1
  BY BookAssumption
<1>3. Flat \in Positions /\ OnSide(Flat)
  BY FlatReading
<1> QED BY <1>1, <1>2, <1>3, Zenon DEF TickTypes, OnSide

\* The plan of a tick keeps its type, whether it is kept or given up.
LEMMA PlanGivenUp ==
    ASSUME AuxTypes, UNCHANGED calm, UNCHANGED <<alone, plan>> \/ Disturb
    PROVE  AuxTypes'
BY Zenon DEF AuxTypes, Disturb

LEMMA TickStepKeeps ==
    ASSUME BookInv, TickStep
    PROVE  BookInv'
<1>1. MarketInv /\ FlightInv /\ TickTypes /\ AuxTypes
  BY DEF BookInv
<1>2. BookTypeOK /\ OnSide(position) /\ OnSide(held) /\ side \in Sides
  BY <1>1, BookInvImplies DEF MarketInv, TickTypes
<1>3. MarketInv' /\ UNCHANGED side
  <2>1. UNCHANGED marketVars
    BY Zenon DEF TickStep, StartTick, Fail, ReadPositions, StandStill, SendBatch, Verify
  <2> QED BY <1>1, <2>1, MarketKept, Zenon DEF marketVars
<1>4. CASE StartTick
  <2>1. FlightInv'
    BY <1>1, <1>3, <1>4, FlightKept, Zenon DEF StartTick
  <2>2. TickTypes'
    <3>1. pc' = "positions" /\ UNCHANGED <<held, tries, cleared, side>>
      BY <1>3, <1>4 DEF StartTick
    <3>2. pc' \in {"asleep", "positions", "prices", "verify", "reprices"}
      BY <3>1
    <3> QED BY <1>1, <3>1, <3>2, Zenon DEF TickTypes, OnSide
  <2>3. AuxTypes'
    BY <1>1, <1>4, Zenon DEF StartTick, NothingInFlight, AuxTypes
  <2> QED BY <1>3, <2>1, <2>2, <2>3 DEF BookInv
<1>5. CASE Fail
  <2>1. FlightInv' /\ AuxTypes'
    <3>1. UNCHANGED <<flightVars, alone, plan, calm>>
      BY <1>5 DEF Fail
    <3> QED BY <1>1, <1>3, <3>1, FlightKept, PlanGivenUp, Zenon
  <2>2. TickTypes'
    BY <1>2, <1>3, <1>5, TickEnds, Zenon DEF Fail
  <2> QED BY <1>3, <2>1, <2>2 DEF BookInv
<1>6. CASE ReadPositions
  <2>1. UNCHANGED <<flightVars, tries, cleared, plan, calm, side>> /\ held' = position
    BY <1>3, <1>6 DEF ReadPositions
  <2>2. FlightInv'
    BY <1>1, <2>1, FlightKept, Zenon
  <2>3. TickTypes'
    <3>1. pc' \in {"asleep", "positions", "prices", "verify", "reprices"}
      BY <1>6 DEF ReadPositions
    <3>2. position \in Positions
      BY <1>1 DEF MarketInv
    <3> QED BY <1>1, <1>2, <2>1, <3>1, <3>2, Zenon DEF TickTypes, OnSide
  <2>4. AuxTypes'
    <3>1. UNCHANGED alone \/ alone' = (plan # NoPlan /\ NothingInFlight)
      BY <1>6, Zenon DEF ReadPositions
    <3>2. alone' \in BOOLEAN
      BY <1>1, <3>1, Zenon DEF AuxTypes, NothingInFlight
    <3> QED BY <1>1, <2>1, <3>2, Zenon DEF AuxTypes
  <2> QED BY <1>3, <2>2, <2>3, <2>4 DEF BookInv
<1>7. CASE StandStill
  <2>1. FlightInv' /\ AuxTypes'
    <3>1. UNCHANGED <<flightVars, alone, plan, calm>>
      BY <1>7 DEF StandStill
    <3> QED BY <1>1, <1>3, <3>1, FlightKept, PlanGivenUp, Zenon
  <2>2. TickTypes'
    BY <1>2, <1>3, <1>7, TickEnds, Zenon DEF StandStill
  <2> QED BY <1>3, <2>1, <2>2 DEF BookInv
<1>8. CASE SendBatch
  <2>1. /\ mempool' = Rebalance(held, price) /\ UNCHANGED <<batches, alone, calm, tries, cleared, side>>
        /\ pc' = "verify" /\ held' = Flat
        /\ plan' = IF alone THEN [held |-> held, px |-> price] ELSE NoPlan
    BY <1>3, <1>8 DEF SendBatch
  <2>2. price \in Prices /\ held \in Positions
    BY <1>1 DEF MarketInv, TickTypes
  <2>3. FlightInv'
    <3>1. Rebalance(held, price) \in SUBSET Orders /\ \A order \in Rebalance(held, price) : SafeOrder(order)
      BY <1>2, <2>2, PlansAreSafe
    <3> QED BY <1>1, <2>1, <3>1, Zenon DEF FlightInv, SafeOrder
  <2>4. TickTypes'
    <3>1. pc' \in {"asleep", "positions", "prices", "verify", "reprices"}
      BY <2>1
    <3>2. Flat \in Positions /\ OnSide(Flat)
      BY <1>2, FlatReading
    <3> QED BY <1>1, <2>1, <3>1, <3>2, Zenon DEF TickTypes, OnSide
  <2>5. AuxTypes'
    <3>1. [held |-> held, px |-> price] \in [held : Positions, px : Prices]
      BY <2>2
    <3> QED BY <1>1, <2>1, <3>1, Zenon DEF AuxTypes
  <2> QED BY <1>3, <2>3, <2>4, <2>5 DEF BookInv
<1>9. CASE Verify
  <2>1. FlightInv' /\ AuxTypes'
    <3>1. UNCHANGED <<flightVars, alone, plan, calm>>
      BY <1>9 DEF Verify
    <3> QED BY <1>1, <1>3, <3>1, FlightKept, PlanGivenUp, Zenon
  <2>2. TickTypes'
    <3>1. CASE Drifted(held, price) /\ tries + 1 < MaxRetries
      <4>1. pc' = "verify" /\ held' = Flat /\ tries' = tries + 1 /\ UNCHANGED cleared
        BY <1>9, <3>1, Zenon DEF Verify
      <4>2. tries + 1 \in 0 .. MaxRetries - 1
        BY <1>1, <3>1, BookAssumption DEF TickTypes
      <4>3. Flat \in Positions /\ OnSide(Flat)
        BY <1>2, FlatReading
      <4>4. pc' \in {"asleep", "positions", "prices", "verify", "reprices"}
        BY <4>1
      <4> QED BY <1>1, <1>3, <4>1, <4>2, <4>3, <4>4, Zenon DEF TickTypes, OnSide
    <3>2. CASE ~(Drifted(held, price) /\ tries + 1 < MaxRetries)
      <4>1. Finish(~Drifted(held, price))
        BY <1>9, <3>2, Zenon DEF Verify
      <4>2. (~Drifted(held, price)) \in BOOLEAN
        BY Zenon
      <4> QED BY <1>2, <1>3, <4>1, <4>2, TickEnds, Zenon
    <3> QED BY <3>1, <3>2
  <2> QED BY <1>3, <2>1, <2>2 DEF BookInv
<1> QED BY <1>4, <1>5, <1>6, <1>7, <1>8, <1>9 DEF TickStep

LEMMA MineKeeps ==
    ASSUME BookInv, Mine
    PROVE  BookInv'
<1>1. MarketInv /\ FlightInv /\ TickTypes /\ AuxTypes
  BY DEF BookInv
<1>2. UNCHANGED <<marketVars, tickVars, calm, side>> /\ mempool' = {}
  BY Zenon DEF Mine, marketVars, None
<1>3. MarketInv' /\ TickTypes'
  BY <1>1, <1>2, MarketKept, TickKept, Zenon
<1>4. FlightInv'
  <2>1. CASE batches' = Append(batches, mempool)
    <3>1. PICK longer : longer = Append(batches, mempool)
      OBVIOUS
    <3>2. batches \in Seq(SUBSET Orders) /\ mempool \in SUBSET Orders
      BY <1>1 DEF FlightInv
    <3>3. /\ longer \in Seq(SUBSET Orders)
          /\ \A i \in DOMAIN longer :
                longer[i] = mempool \/ (i \in DOMAIN batches /\ longer[i] = batches[i])
      BY <3>1, <3>2
    <3>4. \A i \in DOMAIN longer : \A order \in longer[i] : SafeOrder(order)
      BY <1>1, <3>3 DEF FlightInv
    <3>5. batches' = longer /\ \A order \in {} : SafeOrder(order)
      BY <2>1, <3>1
    <3>6. mempool' \in SUBSET Orders
      BY <1>2
    <3> QED BY <1>2, <3>3, <3>4, <3>5, <3>6, Zenon DEF FlightInv, SafeOrder
  <2>2. CASE UNCHANGED batches
    <3>1. mempool' \in SUBSET Orders
      BY <1>2
    <3> QED BY <1>1, <1>2, <2>2, <3>1, Zenon DEF FlightInv, SafeOrder
  <2> QED BY <2>1, <2>2, Zenon DEF Mine
<1>5. AuxTypes'
  BY <1>1, <1>2, PlanGivenUp, Zenon DEF Mine
<1> QED BY <1>3, <1>4, <1>5 DEF BookInv

LEMMA RunLegKeeps ==
    ASSUME BookInv, RunLeg
    PROVE  BookInv'
<1>1. MarketInv /\ FlightInv /\ TickTypes /\ AuxTypes /\ BookTypeOK /\ NeverFlips
  BY BookInvImplies DEF BookInv
<1>2. UNCHANGED <<side, price, windDown, stray, mempool, tickVars, calm>> /\ batches # << >>
  BY Zenon DEF RunLeg
<1>3. PICK order \in Head(batches) : \E lots \in 0 .. Executable(order) :
        /\ position' = [position EXCEPT ![order.coin] = @ + Signed(order, lots)]
        /\ IF lots = Executable(order) THEN UNCHANGED <<alone, plan>> ELSE Disturb
        /\ batches' = IF Head(batches) = {order} THEN Tail(batches)
                      ELSE <<Head(batches) \ {order}>> \o Tail(batches)
  BY Zenon DEF RunLeg
<1>4. PICK lots \in 0 .. Executable(order) :
        /\ position' = [position EXCEPT ![order.coin] = @ + Signed(order, lots)]
        /\ IF lots = Executable(order) THEN UNCHANGED <<alone, plan>> ELSE Disturb
        /\ batches' = IF Head(batches) = {order} THEN Tail(batches)
                      ELSE <<Head(batches) \ {order}>> \o Tail(batches)
  BY <1>3, Zenon
<1>5. /\ batches' \in Seq(SUBSET Orders)
      /\ \A i \in DOMAIN batches' : \E j \in DOMAIN batches : batches'[i] \subseteq batches[j]
      /\ order \in Orders /\ 1 \in DOMAIN batches /\ Head(batches) = batches[1]
  <2>1. batches \in Seq(SUBSET Orders)
    BY <1>1 DEF FlightInv
  <2> QED BY <1>2, <1>4, <2>1, RunKeepsBatches, Zenon
<1>6. FlightInv'
  <2>1. \A i \in DOMAIN batches' : \A o \in batches'[i] : SafeOrder(o)
    BY <1>1, <1>5, Zenon DEF FlightInv
  <2> QED BY <1>1, <1>2, <1>5, <2>1, Zenon DEF FlightInv, SafeOrder
<1>7. MarketInv'
  <2>1. SafeOrder(order)
    BY <1>1, <1>5, Zenon DEF FlightInv
  <2>2. position' \in Positions /\ \A coin \in Coins : side * position'[coin] >= 0
    BY <1>1, <1>4, <1>5, <2>1, FillKeepsSide
  <2> QED BY <1>1, <1>2, <2>2, Zenon DEF MarketInv, OnSide
<1>8. TickTypes' /\ AuxTypes'
  BY <1>1, <1>2, <1>4, TickKept, PlanGivenUp, Zenon
<1> QED BY <1>6, <1>7, <1>8 DEF BookInv

LEMMA OthersKeep ==
    ASSUME BookInv, Others \/ BecomeCalm \/ UNCHANGED bookVars
    PROVE  BookInv'
<1>1. MarketInv /\ FlightInv /\ TickTypes /\ AuxTypes
  BY DEF BookInv
<1>2. UNCHANGED <<side, flightVars, tickVars>>
  BY Zenon DEF Others, BecomeCalm, bookVars, marketVars
<1>3. FlightInv' /\ TickTypes'
  BY <1>1, <1>2, FlightKept, TickKept, Zenon
<1>4. AuxTypes'
  <2>1. CASE Others
    BY <1>1, <2>1, PlanGivenUp, Zenon DEF Others
  <2>2. CASE BecomeCalm
    BY <1>1, <2>2, Zenon DEF BecomeCalm, AuxTypes
  <2>3. CASE UNCHANGED bookVars
    BY <1>1, <2>3, Zenon DEF bookVars, AuxTypes
  <2> QED BY <2>1, <2>2, <2>3
<1>5. MarketInv'
  <2>1. CASE UNCHANGED marketVars
    BY <1>1, <2>1, MarketKept
  <2>2. ASSUME NEW coin \in Coins, NEW p \in LotPrices[coin],
               price' = [price EXCEPT ![coin] = p], UNCHANGED <<position, windDown, stray>>
        PROVE  MarketInv'
    <3>1. PICK px : px = [price EXCEPT ![coin] = p]
      OBVIOUS
    <3>2. px \in Prices
      <4>1. price \in [Coins -> UNION {LotPrices[c] : c \in Coins}]
            /\ \A c \in Coins : price[c] \in LotPrices[c]
        BY <1>1 DEF MarketInv, Prices
      <4>2. p \in UNION {LotPrices[c] : c \in Coins}
        BY <2>2
      <4> QED BY <2>2, <3>1, <4>1, <4>2 DEF Prices
    <3>3. price' = px
      BY <2>2, <3>1
    <3> QED BY <1>1, <1>2, <2>2, <3>2, <3>3, Zenon DEF MarketInv, OnSide
  <2>3. ASSUME NEW coin \in Coins, NEW lots \in {1, -1},
               side * (position[coin] + lots) \in 0 .. SeedLots,
               position' = [position EXCEPT ![coin] = @ + lots],
               UNCHANGED <<price, windDown, stray>>
        PROVE  MarketInv'
    <3>1. PICK pos : pos = [position EXCEPT ![coin] = @ + lots]
      OBVIOUS
    <3>2. position \in [Coins -> Int] /\ \A c \in Coins : side * position[c] >= 0
      BY <1>1 DEF MarketInv, Positions, OnSide
    <3>3. position[coin] + lots \in Int /\ side * (position[coin] + lots) >= 0
      BY <2>3, <3>2, BookAssumption
    <3>4. pos \in Positions /\ OnSide(pos)
      BY <3>1, <3>2, <3>3 DEF Positions, OnSide
    <3>5. position' = pos
      BY <2>3, <3>1
    <3> QED BY <1>1, <1>2, <2>3, <3>4, <3>5, Zenon DEF MarketInv, OnSide
  <2>4. ASSUME stray' = ~stray, UNCHANGED <<position, price, windDown>> PROVE MarketInv'
    BY <1>1, <1>2, <2>4, Zenon DEF MarketInv, OnSide
  <2>5. ASSUME windDown' = ~windDown, UNCHANGED <<position, price, stray>> PROVE MarketInv'
    BY <1>1, <1>2, <2>5, Zenon DEF MarketInv, OnSide
  <2> QED BY <2>1, <2>2, <2>3, <2>4, <2>5, Zenon DEF Others, BecomeCalm, bookVars
<1> QED BY <1>3, <1>4, <1>5 DEF BookInv

LEMMA BookStep == BookInv /\ [BookNext]_bookVars => BookInv'
BY TickStepKeeps, MineKeeps, RunLegKeeps, OthersKeep, Zenon DEF BookNext

\* The variables of the keeper's second job stay within their types.
THEOREM BookTyped == BookSpec => []BookTypeOK
<1>1. BookInit => BookInv
  BY BookInitInv
<1>2. BookInv /\ [BookNext]_bookVars => BookInv'
  BY BookStep
<1>3. BookInv => BookTypeOK
  BY BookInvImplies
<1> QED BY <1>1, <1>2, <1>3, PTL DEF BookSpec

\* Whatever the interleaving of ticks, fills, partial fills and humans, no batch of
\* compute_rebalance turns a long book into a short one, or the reverse.
THEOREM BookNeverFlips == BookSpec => []NeverFlips
<1>1. BookInit => BookInv
  BY BookInitInv
<1>2. BookInv /\ [BookNext]_bookVars => BookInv'
  BY BookStep
<1>3. BookInv => NeverFlips
  BY BookInvImplies
<1> QED BY <1>1, <1>2, <1>3, PTL DEF BookSpec

-----------------------------------------------------------------------------
(* What a tick that nothing disturbed may claim.                            *)

\* A plan, and whether the book is balanced, depend on nothing else.
LEMMA PlanKept ==
    ASSUME NEW CONSTANT pos, NEW CONSTANT px, UNCHANGED side
    PROVE  UNCHANGED <<Targets(pos, px), Rebalance(pos, px)>>
BY Zenon DEF Targets, Rebalance

LEMMA BalancedKept ==
    ASSUME UNCHANGED <<side, position, price>>
    PROVE  UNCHANGED Balanced
<1> DEFINE Seen(pos, px) == ~Drifted(pos, px) \/ Rebalance(pos, px) = None
<1>1. \A pos, px : pos = position /\ px = price => Balanced = Seen(pos, px)
  BY Zenon DEF Balanced
<1>2. (\A pos, px : pos = position /\ px = price => Balanced = Seen(pos, px))'
  BY Zenon DEF Balanced
<1>3. ASSUME NEW CONSTANT pos, NEW CONSTANT px PROVE Seen(pos, px)' = Seen(pos, px)
  BY PlanKept, Zenon DEF None
<1>4. PICK pos, px : pos = position /\ px = price
  OBVIOUS
<1>5. Balanced = Seen(pos, px)
  BY <1>1, <1>4, Zenon
<1>6. Balanced' = Seen(pos, px)'
  BY <1>2, <1>4, Zenon
<1> QED BY <1>3, <1>5, <1>6, Zenon

\* A tick that is alone reads the positions of a settled book, they still are what
\* it read, and a book that it called balanced has not moved since.
TickInv ==
    /\ pc \in {"positions", "prices"} => plan = NoPlan
    /\ alone =>
        /\ pc \in {"positions", "prices", "reprices"} => NothingInFlight
        /\ pc \in {"prices", "reprices"} => held = position
        /\ pc = "asleep" /\ cleared => NothingInFlight /\ Balanced

LEMMA TickStepKeepsTick ==
    ASSUME TickInv, TickStep
    PROVE  TickInv'
<1>1. UNCHANGED marketVars
  BY Zenon DEF TickStep, StartTick, Fail, ReadPositions, StandStill, SendBatch, Verify
<1>2. UNCHANGED flightVars => NothingInFlight' = NothingInFlight
  BY Zenon DEF flightVars, NothingInFlight
<1>3. UNCHANGED Balanced
  BY <1>1, BalancedKept, Zenon DEF marketVars
<1>4. CASE StartTick
  <2>1. pc' = "positions" /\ plan' = NoPlan /\ alone' = NothingInFlight /\ UNCHANGED flightVars
    BY <1>4 DEF StartTick
  <2> QED BY <1>2, <2>1 DEF TickInv
<1>5. CASE Fail
  <2>1. pc' = "asleep" /\ cleared' = FALSE
    BY <1>5 DEF Fail, Finish
  <2> QED BY <2>1 DEF TickInv
<1>6. CASE ReadPositions
  <2>1. UNCHANGED <<flightVars, position, plan>> /\ held' = position
    BY <1>1, <1>6 DEF ReadPositions, marketVars
  <2>2. \/ pc = "positions" /\ pc' = "prices" /\ UNCHANGED alone
        \/ pc = "verify" /\ pc' = "reprices" /\ alone' = (plan # NoPlan /\ NothingInFlight)
    BY <1>6, Zenon DEF ReadPositions
  <2>3. CASE pc = "positions" /\ pc' = "prices" /\ UNCHANGED alone
    BY <1>2, <2>1, <2>3 DEF TickInv
  <2>4. CASE pc = "verify" /\ pc' = "reprices" /\ alone' = (plan # NoPlan /\ NothingInFlight)
    BY <1>2, <2>1, <2>4 DEF TickInv
  <2> QED BY <2>2, <2>3, <2>4
<1>7. CASE StandStill
  <2>1. pc = "prices" /\ pc' = "asleep" /\ UNCHANGED <<flightVars, alone>>
    BY <1>7 DEF StandStill, Finish
  <2>2. held = position => Balanced
    BY <1>7 DEF StandStill, Balanced
  <2> QED BY <1>2, <1>3, <2>1, <2>2 DEF TickInv
<1>8. CASE SendBatch
  <2>1. pc' = "verify"
    BY <1>8 DEF SendBatch
  <2> QED BY <2>1 DEF TickInv
<1>9. CASE Verify
  <2>1. pc = "reprices" /\ UNCHANGED <<flightVars, alone>>
    BY <1>9 DEF Verify
  <2>2. pc' = "verify" \/ (pc' = "asleep" /\ cleared' = ~Drifted(held, price))
    BY <1>9 DEF Verify, Finish
  <2>3. held = position /\ ~Drifted(held, price) => Balanced
    BY DEF Balanced
  <2> QED BY <1>2, <1>3, <2>1, <2>2, <2>3 DEF TickInv
<1> QED BY <1>4, <1>5, <1>6, <1>7, <1>8, <1>9 DEF TickStep

LEMMA WorldKeepsTick ==
    ASSUME BookInv, TickInv, Mine \/ RunLeg \/ Others \/ BecomeCalm \/ UNCHANGED bookVars
    PROVE  TickInv'
<1>1. UNCHANGED tickVars
  BY Zenon DEF Mine, RunLeg, Others, BecomeCalm, bookVars
<1>2. UNCHANGED plan \/ plan' = NoPlan
  BY Zenon DEF Mine, RunLeg, Others, BecomeCalm, bookVars, Disturb
<1>3. (pc \in {"positions", "prices"} => plan = NoPlan)'
  BY <1>1, <1>2, Zenon DEF TickInv, tickVars
<1>4. CASE alone' = FALSE
  BY <1>3, <1>4, Zenon DEF TickInv
<1>5. CASE NothingInFlight /\ alone' # FALSE
  <2>1. ~Mine /\ ~RunLeg
    BY <1>5 DEF NothingInFlight, Mine, RunLeg
  <2>2. ~Others
    BY <1>5 DEF Others, Disturb
  <2>3. UNCHANGED <<marketVars, flightVars, alone>>
    BY <2>1, <2>2, Zenon DEF BecomeCalm, bookVars
  <2>4. UNCHANGED Balanced
    BY <2>3, BalancedKept, Zenon DEF marketVars
  <2>5. UNCHANGED <<NothingInFlight, position>>
    BY <2>3, Zenon DEF marketVars, flightVars, NothingInFlight
  <2> QED BY <1>1, <1>3, <2>3, <2>4, <2>5, Zenon DEF TickInv, tickVars
<1>6. CASE ~NothingInFlight /\ alone' # FALSE
  <2>1. UNCHANGED alone
    BY <1>6, Zenon DEF Mine, RunLeg, Others, BecomeCalm, bookVars, Disturb
  <2>2. alone => pc = "verify" \/ (pc = "asleep" /\ ~cleared)
    <3>1. pc \in {"asleep", "positions", "prices", "verify", "reprices"}
      BY DEF BookInv, TickTypes
    <3> QED BY <1>6, <3>1 DEF TickInv
  <2> QED BY <1>1, <1>3, <2>1, <2>2 DEF TickInv, tickVars
<1> QED BY <1>4, <1>5, <1>6

LEMMA TickInvStep == BookInv /\ TickInv /\ [BookNext]_bookVars => TickInv'
BY TickStepKeepsTick, WorldKeepsTick, Zenon DEF BookNext

LEMMA TickInvInit == BookInit => TickInv
BY DEF BookInit, TickInv

\* RebalanceResult.verified: a tick that began on a settled book, that nobody
\* disturbed and whose last reading met no order on its way tells the truth, and
\* goes on telling it until somebody acts.
THEOREM ClearedTicksBalance == BookSpec => []ClearedMeansBalanced
<1>1. BookInit => BookInv /\ TickInv
  BY BookInitInv, TickInvInit
<1>2. BookInv /\ TickInv /\ [BookNext]_bookVars => (BookInv /\ TickInv)'
  BY BookStep, TickInvStep
<1>3. BookInv /\ TickInv => ClearedMeansBalanced
  BY DEF TickInv, ClearedMeansBalanced
<1> QED BY <1>1, <1>2, <1>3, PTL DEF BookSpec

-----------------------------------------------------------------------------
(* What a batch that filled has achieved.                                   *)

\* n lots of a coin are less than a lot from the plan's target
Near(pos, px, coin, n) ==
    Abs(Targets(pos, px)[coin] - n * LotScale(px, coin)) < LotScale(px, coin)

\* The orders still on their way
Flying == mempool \cup (IF batches = << >> THEN {} ELSE Head(batches))

\* Halfway through an undisturbed batch, when the orders f are yet to fill and the
\* positions are p, a coin either waits for its order, and its position is the one
\* that the tick read, or is as near its target as lots allow.
OnPlan(pos, px, p, f) ==
    /\ OnSide(pos)
    /\ f \subseteq Rebalance(pos, px)
    /\ \A coin \in Coins : IF \E order \in f : order.coin = coin
                           THEN p[coin] = pos[coin] ELSE Near(pos, px, coin, p[coin])

PlanInv ==
    plan # NoPlan =>
        /\ Len(batches) <= 1
        /\ mempool # None => batches = << >>
        /\ OnPlan(plan.held, plan.px, position, Flying)

\* A coin that gets no order is near its target already.
LEMMA NoOrderIsNear ==
    ASSUME BookTypeOK, NEW pos \in Positions, NEW px \in Prices, NEW coin \in Coins,
           Size(Delta(pos, px, coin), LotScale(px, coin)) = 0
    PROVE  Near(pos, px, coin, pos[coin])
<1> DEFINE d == Delta(pos, px, coin)
           lot == LotScale(px, coin)
<1>1. d \in Int /\ lot \in Nat \ {0}
  BY TargetTypes, PriceTypes
<1> HIDE DEF d, lot
<1>2. Abs(d) < 0 * lot + lot
  BY <1>1, SizeFloor DEF d, lot
<1>3. Abs(d) < lot
  BY <1>1, <1>2 DEF Abs
<1> QED BY <1>3 DEF d, lot, Near, Delta

\* HyperCore can execute a planned order in full on the position that it was planned
\* for, reduce-only or not, and that brings the coin near its target.
LEMMA FillIsNear ==
    ASSUME BookTypeOK, NEW pos \in Positions, OnSide(pos), NEW px \in Prices,
           NEW order \in Rebalance(pos, px), position[order.coin] = pos[order.coin]
    PROVE  /\ order.coin \in Coins
           /\ Executable(order) = order.size
           /\ Near(pos, px, order.coin, position[order.coin] + Signed(order, order.size))
<1>1. PICK coin \in Coins : /\ Size(Delta(pos, px, coin), LotScale(px, coin)) # 0
                            /\ order = OrderOf(pos, px, coin)
  BY RebalanceOrders
<1> DEFINE d == Delta(pos, px, coin)
           lot == LotScale(px, coin)
           t == Targets(pos, px)[coin]
           n == pos[coin]
           m == Size(d, lot)
           k == n + Signed(order, m)
<1>2. /\ order.coin = coin /\ order.isBuy = (d > 0) /\ order.size = m /\ order \in Orders
      /\ order.reduceOnly => order.size <= Open(order, n)
  BY <1>1, OrderFacts DEF OrderOf
<1>3. Executable(order) = order.size
  BY <1>2, ExecutableTypes
<1>4. d \in Int /\ lot \in Nat \ {0} /\ t \in Int /\ n \in Int /\ d = t - n * lot
  BY TargetTypes, PriceTypes DEF Positions, Delta
<1>5. Signed(order, m) = (IF d > 0 THEN m ELSE -m)
  BY <1>2 DEF Signed
<1> HIDE DEF d, lot, t, n, m
<1>6. m \in Nat /\ m * lot <= Abs(d) /\ Abs(d) < m * lot + lot
  BY <1>4, SizeFloor DEF m
<1>7. m * lot \in Int /\ n * lot \in Int
  BY <1>4, <1>6, TimesInt
<1>8. Abs(t - k * lot) < lot
  <2>1. CASE d > 0
    <3>1. k = n + m /\ k * lot = n * lot + m * lot
      BY <1>4, <1>5, <1>6, <2>1, TimesSum
    <3> QED BY <1>4, <1>6, <1>7, <2>1, <3>1 DEF Abs
  <2>2. CASE ~(d > 0)
    <3>1. k = n - m /\ k * lot = n * lot - m * lot
      BY <1>4, <1>5, <1>6, <2>2, TimesSum
    <3> QED BY <1>4, <1>6, <1>7, <2>2, <3>1 DEF Abs
  <2> QED BY <2>1, <2>2
<1>9. Near(pos, px, coin, position[coin] + Signed(order, m))
  BY <1>2, <1>8 DEF Near, t, lot, n
<1> QED BY <1>2, <1>3, <1>9

\* To show the invariant of a new state it suffices to know what it says of it.
LEMMA PlanFrom ==
    ASSUME NEW CONSTANT pos, NEW CONSTANT px, NEW CONSTANT p, NEW CONSTANT f, UNCHANGED side,
           plan' = [held |-> pos, px |-> px], position' = p, Flying' = f,
           Len(batches') <= 1, mempool' # None => batches' = << >>, OnPlan(pos, px, p, f)
    PROVE  PlanInv'
<1>1. ASSUME NEW CONSTANT coin, NEW CONSTANT n
      PROVE  UNCHANGED Near(pos, px, coin, n)
  <2>1. UNCHANGED Targets(pos, px)
    BY PlanKept
  <2> QED BY <2>1, Zenon DEF Near
<1>2. UNCHANGED <<OnSide(pos), Rebalance(pos, px)>>
  BY PlanKept, Zenon DEF OnSide
<1>3. OnPlan(pos, px, p, f)'
  BY <1>1, <1>2, Zenon DEF OnPlan
<1>4. (\A a, b, q, g : a = plan.held /\ b = plan.px /\ q = position /\ g = Flying =>
         (PlanInv <=> (plan # NoPlan => /\ Len(batches) <= 1
                                        /\ mempool # None => batches = << >>
                                        /\ OnPlan(a, b, q, g))))'
  BY Zenon DEF PlanInv
<1>5. plan'.held = pos /\ plan'.px = px
  OBVIOUS
<1>6. (mempool # None => batches = << >>)' /\ (Len(batches) <= 1)'
  BY Zenon DEF None
<1> QED BY <1>3, <1>4, <1>5, <1>6, Zenon

LEMMA PlanStarts ==
    ASSUME BookInv, TickInv, SendBatch, plan' # NoPlan
    PROVE  PlanInv'
<1>1. /\ BookTypeOK /\ position \in Positions /\ OnSide(position) /\ price \in Prices
      /\ UNCHANGED <<side, position>>
  BY BookInvImplies DEF BookInv, MarketInv, SendBatch, marketVars
<1>2. NothingInFlight /\ held = position /\ plan' = [held |-> held, px |-> price]
  BY DEF SendBatch, TickInv
<1>3. mempool' = Rebalance(held, price) /\ UNCHANGED batches /\ batches = << >>
  BY <1>2 DEF SendBatch, NothingInFlight
<1>4. PICK pos, px, f : pos = position /\ px = price /\ f = Rebalance(pos, px)
  OBVIOUS
<1>5. Flying' = f
  BY <1>2, <1>3, <1>4, Zenon DEF Flying
<1>6. ASSUME NEW coin \in Coins
      PROVE  IF \E order \in f : order.coin = coin
             THEN pos[coin] = pos[coin] ELSE Near(pos, px, coin, pos[coin])
  <2>1. CASE Size(Delta(pos, px, coin), LotScale(px, coin)) = 0
    BY <1>1, <1>4, <2>1, NoOrderIsNear
  <2>2. CASE Size(Delta(pos, px, coin), LotScale(px, coin)) # 0
    <3>1. OrderOf(pos, px, coin) \in f /\ OrderOf(pos, px, coin).coin = coin
      BY <1>4, <2>2, RebalanceOrders DEF OrderOf
    <3> QED BY <3>1
  <2> QED BY <2>1, <2>2
<1>7. Len(batches') <= 1
  BY <1>3
<1>8. plan' = [held |-> pos, px |-> px] /\ position' = pos /\ batches' = << >>
  BY <1>1, <1>2, <1>3, <1>4
<1>9. OnPlan(pos, px, pos, f)
  BY <1>1, <1>4, <1>6, Zenon DEF OnPlan
<1> QED BY <1>1, <1>5, <1>7, <1>8, <1>9, PlanFrom, Zenon

\* What the invariant says when a plan is on its way
LEMMA PlanNow ==
    ASSUME BookInv, PlanInv, plan # NoPlan
    PROVE  \E pos \in Positions, px \in Prices :
             /\ plan = [held |-> pos, px |-> px]
             /\ Len(batches) <= 1
             /\ mempool # None => batches = << >>
             /\ OnPlan(pos, px, position, Flying)
<1>1. plan \in [held : Positions, px : Prices]
  BY DEF BookInv, AuxTypes
<1>2. /\ plan.held \in Positions /\ plan.px \in Prices
      /\ plan = [held |-> plan.held, px |-> plan.px]
  BY <1>1
<1> QED BY <1>2, Zenon DEF PlanInv

LEMMA PlanMines ==
    ASSUME BookInv, PlanInv, Mine, plan' # NoPlan
    PROVE  PlanInv'
<1>1. UNCHANGED <<side, position, plan>> /\ mempool # None /\ mempool' = None
      /\ batches' = Append(batches, mempool)
  BY Zenon DEF Mine, Disturb, marketVars
<1>2. PICK pos \in Positions, px \in Prices :
        /\ plan = [held |-> pos, px |-> px]
        /\ Len(batches) <= 1
        /\ mempool # None => batches = << >>
        /\ OnPlan(pos, px, position, Flying)
  BY <1>1, PlanNow, Zenon
<1>3. PICK mined : mined = Append(batches, mempool)
  OBVIOUS
<1>4. Len(mined) <= 1 /\ mined # << >> /\ Head(mined) = mempool
  BY <1>1, <1>2, <1>3
<1>5. batches' = mined
  BY <1>1, <1>3
<1>6. Flying' = Flying
  <2>1. Flying = mempool
    BY <1>1, <1>2, Zenon DEF Flying
  <2>2. Flying' = mempool
    BY <1>1, <1>4, <1>5, Zenon DEF Flying, None
  <2> QED BY <2>1, <2>2
<1>7. Len(batches') <= 1
  BY <1>4, <1>5
<1>8. PICK p, f : p = position /\ f = Flying
  OBVIOUS
<1> QED BY <1>1, <1>2, <1>6, <1>7, <1>8, PlanFrom, Zenon

LEMMA PlanFills ==
    ASSUME BookInv, PlanInv, RunLeg, plan' # NoPlan
    PROVE  PlanInv'
<1>1. BookTypeOK /\ FlightInv /\ position \in [Coins -> Int]
  BY BookInvImplies DEF BookInv, MarketInv, Positions
<1>2. UNCHANGED <<side, mempool>> /\ batches # << >>
  BY Zenon DEF RunLeg
<1>3. PICK order \in Head(batches) : \E lots \in 0 .. Executable(order) :
        /\ position' = [position EXCEPT ![order.coin] = @ + Signed(order, lots)]
        /\ IF lots = Executable(order) THEN UNCHANGED <<alone, plan>> ELSE Disturb
        /\ batches' = IF Head(batches) = {order} THEN Tail(batches)
                      ELSE <<Head(batches) \ {order}>> \o Tail(batches)
  BY Zenon DEF RunLeg
<1>4. /\ position' = [position EXCEPT ![order.coin] = @ + Signed(order, Executable(order))]
      /\ UNCHANGED plan
      /\ batches' = IF Head(batches) = {order} THEN Tail(batches)
                    ELSE <<Head(batches) \ {order}>> \o Tail(batches)
  BY <1>3, Zenon DEF Disturb
<1>5. PICK pos \in Positions, px \in Prices :
        /\ plan = [held |-> pos, px |-> px]
        /\ Len(batches) <= 1
        /\ mempool # None => batches = << >>
        /\ OnPlan(pos, px, position, Flying)
  BY <1>4, PlanNow, Zenon
<1>6. mempool = {} /\ Flying = Head(batches)
  BY <1>2, <1>5, Zenon DEF Flying, None
<1>7. batches' = IF Head(batches) = {order} THEN << >> ELSE <<Head(batches) \ {order}>>
  <2>1. batches \in Seq(SUBSET Orders)
    BY <1>1 DEF FlightInv
  <2> QED BY <1>2, <1>4, <1>5, <2>1, RunKeepsBatches, Zenon
<1> DEFINE f == Flying \ {order}
           p == [position EXCEPT ![order.coin] = @ + Signed(order, Executable(order))]
<1>8. Flying' = f /\ Len(batches') <= 1
  <2>1. CASE Head(batches) = {order}
    <3>1. batches' = << >>
      BY <1>7, <2>1
    <3>2. Flying' = mempool'
      BY <3>1, Zenon DEF Flying
    <3> QED BY <1>2, <1>6, <2>1, <3>1, <3>2
  <2>2. CASE Head(batches) # {order}
    <3>1. PICK less : less = Head(batches) \ {order}
      OBVIOUS
    <3>2. PICK left : left = <<less>>
      OBVIOUS
    <3>3. Len(left) <= 1 /\ left # << >> /\ Head(left) = less
      BY <3>2
    <3>4. batches' = left
      BY <1>7, <2>2, <3>1, <3>2, Zenon
    <3>5. Flying' = mempool' \cup less
      BY <3>3, <3>4, Zenon DEF Flying
    <3>6. Flying' = f
      BY <1>2, <1>6, <3>1, <3>5
    <3>7. Len(batches') <= 1
      BY <3>3, <3>4, Zenon
    <3> QED BY <3>6, <3>7
  <2> QED BY <2>1, <2>2
<1>9. order \in Flying /\ order \in Rebalance(pos, px) /\ OnSide(pos)
  BY <1>3, <1>5, <1>6 DEF OnPlan
<1>10. OnPlan(pos, px, p, f)
  <2>1. \A coin \in Coins : IF \E o \in Flying : o.coin = coin
                            THEN position[coin] = pos[coin]
                            ELSE Near(pos, px, coin, position[coin])
    BY <1>5, Zenon DEF OnPlan
  <2>2. order.coin \in Coins
    BY <1>9, RebalanceOrders DEF OrderOf
  <2>3. position[order.coin] = pos[order.coin]
    BY <1>9, <2>1, <2>2
  <2>4. /\ Executable(order) = order.size
        /\ Near(pos, px, order.coin, position[order.coin] + Signed(order, order.size))
    BY <1>1, <1>9, <2>3, FillIsNear
  <2>5. p[order.coin] = position[order.coin] + Signed(order, order.size)
    BY <1>1, <2>2, <2>4
  <2>6. \A coin \in Coins : coin # order.coin => p[coin] = position[coin]
    BY <1>1, <2>2
  <2>7. \A o \in Flying : o.coin = order.coin => o = order
    <3>1. \A o \in Rebalance(pos, px) : o = OrderOf(pos, px, o.coin)
      BY RebalanceOrders DEF OrderOf
    <3>2. Flying \subseteq Rebalance(pos, px)
      BY <1>5 DEF OnPlan
    <3> QED BY <1>9, <3>1, <3>2
  <2> HIDE DEF p
  <2>8. ASSUME NEW coin \in Coins
        PROVE  IF \E o \in f : o.coin = coin
               THEN p[coin] = pos[coin] ELSE Near(pos, px, coin, p[coin])
    <3>1. CASE coin = order.coin
      <4>1. ~ \E o \in f : o.coin = coin
        BY <2>7, <3>1
      <4> QED BY <2>4, <2>5, <3>1, <4>1
    <3>2. CASE coin # order.coin
      <4>1. (\E o \in f : o.coin = coin) <=> (\E o \in Flying : o.coin = coin)
        BY <3>2
      <4>2. p[coin] = position[coin]
        BY <2>6, <3>2
      <4> QED BY <2>1, <4>1, <4>2, Zenon
    <3> QED BY <3>1, <3>2
  <2>9. f \subseteq Rebalance(pos, px)
    BY <1>5 DEF OnPlan
  <2> QED BY <1>9, <2>8, <2>9, Zenon DEF OnPlan
<1>11. PICK q, g : q = p /\ g = f
  OBVIOUS
<1>12. position' = p /\ UNCHANGED plan
  BY <1>4
<1> HIDE DEF p, f
<1>13. mempool' = None
  BY <1>2, <1>6, Zenon DEF None
<1> QED BY <1>2, <1>5, <1>8, <1>10, <1>11, <1>12, <1>13, PlanFrom, Zenon

LEMMA PlanRests ==
    ASSUME BookInv, PlanInv, plan' # NoPlan, UNCHANGED <<side, position, flightVars, plan>>
    PROVE  PlanInv'
<1>1. PICK pos \in Positions, px \in Prices :
        /\ plan = [held |-> pos, px |-> px]
        /\ Len(batches) <= 1
        /\ mempool # None => batches = << >>
        /\ OnPlan(pos, px, position, Flying)
  BY PlanNow, Zenon
<1>2. PICK p, f : p = position /\ f = Flying
  OBVIOUS
<1>3. Flying' = Flying /\ Len(batches') <= 1 /\ (mempool # None => batches = << >>)'
  BY <1>1, Zenon DEF Flying, flightVars, None
<1> QED BY <1>1, <1>2, <1>3, PlanFrom, Zenon DEF None

LEMMA PlanInvStep == BookInv /\ TickInv /\ PlanInv /\ [BookNext]_bookVars => PlanInv'
<1> SUFFICES ASSUME BookInv, TickInv, PlanInv, [BookNext]_bookVars, plan' # NoPlan
             PROVE  PlanInv'
  BY Zenon DEF PlanInv
<1>1. CASE StartTick \/ Others
  BY <1>1, Zenon DEF StartTick, Others, Disturb
<1>2. CASE Fail \/ ReadPositions \/ StandStill \/ Verify \/ BecomeCalm \/ UNCHANGED bookVars
  <2>1. UNCHANGED <<side, position, flightVars, plan>>
    BY <1>2, Zenon DEF Fail, ReadPositions, StandStill, Verify, BecomeCalm, bookVars, marketVars
  <2> QED BY <2>1, PlanRests, Zenon
<1>3. CASE SendBatch
  BY <1>3, PlanStarts
<1>4. CASE Mine
  BY <1>4, PlanMines
<1>5. CASE RunLeg
  BY <1>5, PlanFills
<1> QED BY <1>1, <1>2, <1>3, <1>4, <1>5, Zenon DEF BookNext, TickStep

\* compute_rebalance: a batch that nothing disturbed and that filled leaves every coin
\* less than one lot from its share of the gross notional that the tick saw.
THEOREM FilledBatchesHitTargets == BookSpec => []FilledBatchHitsTarget
<1>1. BookInit => BookInv /\ TickInv /\ PlanInv
  <2>1. BookInit => PlanInv
    BY Zenon DEF BookInit, PlanInv
  <2> QED BY <2>1, BookInitInv, TickInvInit
<1>2. BookInv /\ TickInv /\ PlanInv /\ [BookNext]_bookVars => (BookInv /\ TickInv /\ PlanInv)'
  BY BookStep, TickInvStep, PlanInvStep
<1>3. BookInv /\ TickInv /\ PlanInv => FilledBatchHitsTarget
  <2>1. NothingInFlight => Flying = {}
    BY Zenon DEF NothingInFlight, Flying, None
  <2> QED BY <2>1 DEF PlanInv, OnPlan, Near, FilledBatchHitsTarget
<1> QED BY <1>1, <1>2, <1>3, PTL DEF BookSpec
=============================================================================
