---------------------------- MODULE ToolsProofs ----------------------------
(***************************************************************************)
(* Proofs about the command lines, for all baskets, prices, command lines  *)
(* and any number of markets: a keeper's asset ids stay those of its       *)
(* basket, a plan uses its capital, an exit code of 0 means that every leg *)
(* was taken, and a run spends no more than its limit allows.              *)
(***************************************************************************)
EXTENDS Execution, FixedPointProofs, SequenceTheorems, WellFoundedInduction

-----------------------------------------------------------------------------
(* The k-th smallest element of a finite set of numbers.                   *)

UpTo(S, i) == {j \in S : j <= i}

LEMMA RankTypes ==
    ASSUME NEW S \in SUBSET Nat, IsFiniteSet(S), NEW i \in S
    PROVE  Cardinality(UpTo(S, i)) \in 1 .. Cardinality(S)
<1>1. UpTo(S, i) \in SUBSET S /\ i \in UpTo(S, i)
  BY DEF UpTo
<1>2. IsFiniteSet(UpTo(S, i)) /\ Cardinality(UpTo(S, i)) <= Cardinality(S)
  BY <1>1, FS_Subset
<1>3. Cardinality(UpTo(S, i)) \in Nat /\ Cardinality(S) \in Nat
  BY <1>2, FS_CardinalityType
<1>4. Cardinality(UpTo(S, i)) # 0
  BY <1>1, <1>2, FS_EmptySet
<1> QED BY <1>2, <1>3, <1>4

LEMMA RankOrder ==
    ASSUME NEW S \in SUBSET Nat, IsFiniteSet(S), NEW i \in S, NEW j \in S, i < j
    PROVE  Cardinality(UpTo(S, i)) # Cardinality(UpTo(S, j))
<1>0. i \in Nat /\ j \in Nat /\ \A x \in S : x \in Nat
  OBVIOUS
<1>1. UpTo(S, i) \in SUBSET UpTo(S, j) /\ j \in UpTo(S, j) /\ j \notin UpTo(S, i)
  <2>1. \A x \in S : x <= i => x <= j
    BY <1>0
  <2>2. j <= j /\ ~(j <= i)
    BY <1>0
  <2> QED BY <2>1, <2>2 DEF UpTo
<1>2. IsFiniteSet(UpTo(S, j))
  <2>1. UpTo(S, j) \in SUBSET S
    BY DEF UpTo
  <2> QED BY <2>1, FS_Subset
<1>3. Cardinality(UpTo(S, j)) = Cardinality(UpTo(S, i)) => UpTo(S, j) = UpTo(S, i)
  BY <1>1, <1>2, FS_Subset
<1> QED BY <1>1, <1>3

\* Every rank up to the size of the set is taken, once.
LEMMA RankOnto ==
    ASSUME NEW S \in SUBSET Nat, IsFiniteSet(S)
    PROVE  /\ \A k \in 1 .. Cardinality(S) : \E i \in S : Cardinality(UpTo(S, i)) = k
           /\ \A i, j \in S : Cardinality(UpTo(S, i)) = Cardinality(UpTo(S, j)) => i = j
<1> DEFINE N == 1 .. Cardinality(S)
           r == [i \in S |-> Cardinality(UpTo(S, i))]
<1>1. r \in [S -> N]
  BY RankTypes
<1>2. \A i, j \in S : r[i] = r[j] => i = j
  <2> SUFFICES ASSUME NEW i \in S, NEW j \in S, r[i] = r[j] PROVE i = j
    OBVIOUS
  <2>1. i \in Nat /\ j \in Nat
    OBVIOUS
  <2>2. ~(i < j) /\ ~(j < i)
    BY RankOrder
  <2> QED BY <2>1, <2>2
<1>3. Cardinality(S) \in Nat
  BY FS_CardinalityType
<1>4. IsFiniteSet(N) /\ Cardinality(N) = Cardinality(S)
  <2>1. 1 \in Int /\ Cardinality(S) \in Int
    BY <1>3
  <2> QED BY <2>1, <1>3, FS_Interval, SMTT(30)
<1>5. r \in Surjection(S, N)
  <2> HIDE DEF r
  <2>1. r \in Injection(S, N)
    BY <1>1, <1>2 DEF Injection, IsInjective
  <2> QED BY <2>1, <1>4, FS_Injection
<1>6. \A k \in N : \E i \in S : r[i] = k
  <2> HIDE DEF r
  <2> QED BY <1>5 DEF Surjection
<1> QED BY <1>2, <1>6

-----------------------------------------------------------------------------
(* The legs of a run, in the order they are sent.                          *)

Orders == Cardinality(Intents(lots))
LotsOK == lots \in [DOMAIN lots -> Nat] /\ DOMAIN lots \in SUBSET Nat /\ IsFiniteSet(DOMAIN lots)

LEMMA IntentsFinite ==
    ASSUME LotsOK
    PROVE  /\ Intents(lots) \in SUBSET Nat /\ Intents(lots) \subseteq DOMAIN lots
           /\ IsFiniteSet(Intents(lots)) /\ Orders \in Nat
<1>1. Intents(lots) \in SUBSET DOMAIN lots
  BY DEF Intents
<1>2. IsFiniteSet(Intents(lots))
  BY <1>1, FS_Subset DEF LotsOK
<1> QED BY <1>1, <1>2, FS_CardinalityType DEF LotsOK, Orders

\* Each intent is sent once, and what is sent is an intent.
LEMMA LegsInOrder ==
    ASSUME LotsOK
    PROVE  /\ \A k \in 1 .. Orders : LegOf(k) \in Intents(lots)
           /\ \A k, l \in 1 .. Orders : LegOf(k) = LegOf(l) => k = l
           /\ \A i \in Intents(lots) : \E k \in 1 .. Orders : LegOf(k) = i
<1> DEFINE S == Intents(lots)
<1>1. S \in SUBSET Nat /\ IsFiniteSet(S)
  BY IntentsFinite
<1>2. /\ \A k \in 1 .. Orders : \E i \in S : Cardinality(UpTo(S, i)) = k
      /\ \A i, j \in S : Cardinality(UpTo(S, i)) = Cardinality(UpTo(S, j)) => i = j
  <2> HIDE DEF S
  <2>1. Orders = Cardinality(S)
    BY DEF Orders, S
  <2> QED BY <1>1, <2>1, RankOnto
<1>3. \A k \in 1 .. Orders : LegOf(k) \in S /\ Cardinality(UpTo(S, LegOf(k))) = k
  BY <1>2 DEF LegOf, UpTo
<1>4. \A i \in S : LegOf(Cardinality(UpTo(S, i))) = i
  <2> SUFFICES ASSUME NEW i \in S PROVE LegOf(Cardinality(UpTo(S, i))) = i
    OBVIOUS
  <2>1. Cardinality(UpTo(S, i)) \in 1 .. Orders
    <3> HIDE DEF S
    <3>1. Orders = Cardinality(S)
      BY DEF Orders, S
    <3> QED BY <3>1, <1>1, RankTypes
  <2> QED BY <2>1, <1>2, <1>3
<1>5. \A i \in S : Cardinality(UpTo(S, i)) \in 1 .. Orders
  <2> HIDE DEF S
  <2>1. Orders = Cardinality(S)
    BY DEF Orders, S
  <2> QED BY <2>1, <1>1, RankTypes
<1> HIDE DEF S
<1>6. /\ \A k \in 1 .. Orders : LegOf(k) \in S
      /\ \A k, l \in 1 .. Orders : LegOf(k) = LegOf(l) => k = l
      /\ \A i \in S : \E k \in 1 .. Orders : LegOf(k) = i
  BY <1>3, <1>4, <1>5
<1> QED BY <1>6 DEF S

-----------------------------------------------------------------------------
(* Sizing.                                                                 *)

\* What build_plan has checked once it divides
Sized(b, px, capital, default) ==
    /\ IsBasket(b) /\ Resolves(b) /\ Sizable(b, capital, default)
    /\ px \in Prices /\ capital \in Int /\ default \in Int

LEMMA BasketLegs ==
    ASSUME NEW b, IsBasket(b)
    PROVE  Legs(b) \in SUBSET Nat /\ IsFiniteSet(Legs(b))
<1>1. Legs(b) = 1 .. Len(b.assets) /\ Len(b.assets) \in Int /\ 1 \in Int
  BY DEF IsBasket
<1>2. IsFiniteSet(Legs(b))
  BY <1>1, FS_Interval
<1>3. Legs(b) \in SUBSET Nat
  BY <1>1
<1> QED BY <1>2, <1>3

LEMMA PricesPositive ==
    ASSUME NEW px \in Prices, NEW coin \in Coins
    PROVE  px[coin] \in Nat \ {0}
<1>1. px[coin] \in LotPrices[coin]
  BY DEF Prices
<1>2. LotPrices[coin] \in SUBSET (Nat \ {0})
  BY ExecutionAssumption DEF ExecutionAssumption
<1> QED BY <1>1, <1>2

LEMMA ShareTypes ==
    ASSUME NEW b, IsBasket(b), Resolves(b), NEW i \in Legs(b)
    PROVE  Share(b)[i] \in Nat
<1>1. CASE Grouped(b)
  <2> DEFINE group == b.assets[i].group
             n == Cardinality(Members(b, group))
  <2>1. b.groups[group] \in Nat
    <3>1. group \in DOMAIN b.groups /\ b.groups[group] >= 0
      BY <1>1 DEF Resolves, GroupsResolve
    <3>2. b.groups[group] \in Int
      BY <1>1, <3>1 DEF IsBasket
    <3> QED BY <3>1, <3>2
  <2>2. n \in Nat \ {0}
    <3>1. Members(b, group) \in SUBSET Legs(b) /\ i \in Members(b, group)
      BY DEF Members
    <3>2. IsFiniteSet(Members(b, group))
      BY <3>1, BasketLegs, FS_Subset
    <3> QED BY <3>1, <3>2, FS_CardinalityType, FS_EmptySet
  <2>3. MemberMultiple \div n \in Nat
    <3>1. MemberMultiple \in Nat
      BY AllocationAssumption DEF AllocationAssumption
    <3> HIDE DEF n
    <3> QED BY <3>1, <2>2, DivBounds
  <2>4. Share(b)[i] = b.groups[group] * (MemberMultiple \div n)
    BY <1>1 DEF Share
  <2> HIDE DEF group, n
  <2> QED BY <2>1, <2>3, <2>4, TimesNat
<1>2. CASE ~Grouped(b) /\ Explicit(b)
  <2>1. b.assets[i].weight # Unset /\ b.assets[i].weight >= 0
    BY <1>2 DEF Resolves, WeightsResolve
  <2>2. b.assets[i].weight \in Int \cup {Unset}
    BY DEF IsBasket
  <2>3. Share(b)[i] = b.assets[i].weight
    BY <1>2 DEF Share
  <2> QED BY <2>1, <2>2, <2>3
<1>3. CASE ~Grouped(b) /\ ~Explicit(b)
  BY <1>3 DEF Share
<1> QED BY <1>1, <1>2, <1>3

LEMMA RateTypes ==
    ASSUME NEW b, IsBasket(b), NEW default \in Int, LeverageAllowed(b, default), NEW i \in Legs(b)
    PROVE  MarginRate(b, default)[i] \in Nat
<1>1. Leverage(b, default)[i] > 0
  BY DEF LeverageAllowed
<1>2. Leverage(b, default)[i] \in Int
  BY DEF Leverage, IsBasket
<1>3. Leverage(b, default)[i] \in Nat \ {0}
  BY <1>1, <1>2
<1>4. LevMultiple \in Nat
  BY AllocationAssumption DEF AllocationAssumption
<1>5. LevMultiple \div Leverage(b, default)[i] \in Nat
  BY <1>3, <1>4, DivBounds
<1> QED BY <1>5 DEF MarginRate

Terms(b, default) == [i \in Legs(b) |-> Share(b)[i] * MarginRate(b, default)[i]]

\* The sum of weight over leverage is not zero, and so one of its terms is not.
LEMMA Denominators ==
    ASSUME NEW b, NEW px, NEW capital, NEW default, Sized(b, px, capital, default)
    PROVE  /\ Denominator(b, default) \in Nat \ {0}
           /\ Denominator(b, default) = Total(Terms(b, default), Legs(b))
           /\ \A i \in Legs(b) : Terms(b, default)[i] \in Nat
           /\ \E i \in Legs(b) : Terms(b, default)[i] # 0
<1> DEFINE D == Denominator(b, default)
           f == Terms(b, default)
<1>1. D > 0
  BY DEF Sized, Sizable
<1>2. \A i \in Legs(b) : f[i] \in Nat
  BY ShareTypes, RateTypes, TimesNat DEF Sized, Sizable, Terms
<1>3. IsFiniteSet(Legs(b))
  BY BasketLegs DEF Sized
<1>4. D = Total(f, Legs(b))
  BY DEF Denominator, SumOver, Terms
<1>5. D \in Nat
  BY <1>2, <1>3, <1>4, TokensFinite
<1>6. \E i \in Legs(b) : f[i] # 0
  <2> SUFFICES ASSUME \A i \in Legs(b) : f[i] = 0 PROVE FALSE
    OBVIOUS
  <2> DEFINE z == [i \in Legs(b) |-> 0]
  <2>1. Total(z, Legs(b)) = 0
    BY TotalZero
  <2>2. \A i \in Legs(b) : f[i] = z[i]
    OBVIOUS
  <2> HIDE DEF z
  <2>3. Total(f, Legs(b)) = Total(z, Legs(b))
    BY <2>2, TotalCongruence
  <2> QED BY <1>1, <1>4, <2>1, <2>3
<1> QED BY <1>1, <1>2, <1>4, <1>5, <1>6

\* Each lot count is the floor of the share's notional over the price.
LEMMA LotBounds ==
    ASSUME NEW b, NEW px, NEW capital, NEW default, Sized(b, px, capital, default),
           NEW i \in Legs(b)
    PROVE  LET unit == LevUnit * Denominator(b, default) * px[b.assets[i].coin]
               n == Lots(b, px, capital, default)[i]
               worth == Share(b)[i] * capital * LevMultiple
           IN  /\ n \in Nat
               /\ n * unit <= worth
               /\ worth < n * unit + unit
<1> DEFINE D == Denominator(b, default)
           p == px[b.assets[i].coin]
           unit == LevUnit * D * p
           worth == Share(b)[i] * capital * LevMultiple
<1>1. D \in Nat \ {0}
  BY Denominators
<1>2. p \in Nat \ {0}
  BY PricesPositive DEF Sized, IsBasket
<1>3. LevUnit \in Nat \ {0} /\ LevMultiple \in Nat
  BY AllocationAssumption DEF AllocationAssumption
<1>4. Share(b)[i] \in Nat /\ capital \in Nat
  BY ShareTypes DEF Sized, Sizable
<1>5. Lots(b, px, capital, default)[i] = worth \div unit
  BY DEF Lots
<1> HIDE DEF D, p
<1>6. unit \in Nat \ {0}
  BY <1>1, <1>2, <1>3
<1>7. worth \in Nat
  BY <1>3, <1>4, TimesNat
<1> HIDE DEF unit, worth
<1>8. /\ worth \div unit \in Nat
      /\ (worth \div unit) * unit <= worth
      /\ worth < (worth \div unit) * unit + unit
  BY <1>6, <1>7, DivBounds
<1> QED BY <1>5, <1>8 DEF unit, worth, D, p

LEMMA Reorder ==
    ASSUME NEW n \in Nat, NEW u \in Nat, NEW d \in Nat, NEW p \in Nat, NEW m \in Nat,
           NEW s \in Nat, NEW c \in Nat, NEW l \in Nat
    PROVE  /\ (n * p * u * m) * d = (n * (u * d * p)) * m
           /\ (s * m) * (c * l) = (s * c * l) * m
           /\ (n * p * u * m + 1 * p * u * m) * d = (n * (u * d * p) + u * d * p) * m
OBVIOUS

\* The margins of the planned sizes add up to the capital, short of it by less than
\* one lot of every leg.
LEMMA PlanFills ==
    ASSUME NEW b, NEW px, NEW capital, NEW default, Sized(b, px, capital, default)
    PROVE  LET n == Lots(b, px, capital, default)
           IN  /\ Deployed(b, px, n, default) <= capital * LevMultiple
               /\ capital * LevMultiple
                      < Deployed(b, px, n, default) + OneLotEach(b, px, default)
<1> DEFINE S == Legs(b)
           n == Lots(b, px, capital, default)
           D == Denominator(b, default)
           U == capital * LevMultiple
           s == Share(b)
           m == MarginRate(b, default)
           p == [i \in S |-> px[b.assets[i].coin]]
           h == Terms(b, default)
           f == [i \in S |-> n[i] * p[i] * LevUnit * m[i]]
           one == [i \in S |-> 1 * p[i] * LevUnit * m[i]]
           both == [i \in S |-> f[i] + one[i]]
           fD == [i \in S |-> f[i] * D]
           bothD == [i \in S |-> both[i] * D]
           hU == [i \in S |-> h[i] * U]
<1>1. IsFiniteSet(S)
  BY BasketLegs DEF Sized
<1>2. /\ D \in Nat \ {0} /\ D = Total(h, S)
      /\ \A i \in S : h[i] \in Nat
      /\ \E i \in S : h[i] # 0
  BY Denominators
<1>3. Deployed(b, px, n, default) = Total(f, S)
  BY DEF Deployed, LegMargin, SumOver
<1>4. OneLotEach(b, px, default) = Total(one, S)
  <2> DEFINE g == [i \in S |-> [j \in S |-> 1][i] * px[b.assets[i].coin] * LevUnit * m[i]]
  <2>1. OneLotEach(b, px, default) = Total(g, S)
    BY DEF OneLotEach, Deployed, LegMargin, SumOver
  <2>2. \A i \in S : g[i] = one[i]
    OBVIOUS
  <2> HIDE DEF g, one
  <2> QED BY <2>1, <2>2, TotalCongruence
<1>5. LevUnit \in Nat \ {0} /\ LevMultiple \in Nat \ {0} /\ capital \in Nat \ {0}
  BY AllocationAssumption DEF AllocationAssumption, Sized, Sizable
<1>6. \A i \in S : s[i] \in Nat /\ m[i] \in Nat /\ p[i] \in Nat \ {0}
  BY ShareTypes, RateTypes, PricesPositive DEF Sized, Sizable, IsBasket
<1>7. \A i \in S : /\ n[i] \in Nat
                   /\ n[i] * (LevUnit * D * p[i]) <= s[i] * capital * LevMultiple
                   /\ s[i] * capital * LevMultiple
                          < n[i] * (LevUnit * D * p[i]) + LevUnit * D * p[i]
  BY LotBounds
<1>8. \A i \in S : h[i] = s[i] * m[i] /\ f[i] = n[i] * p[i] * LevUnit * m[i]
                   /\ one[i] = 1 * p[i] * LevUnit * m[i] /\ both[i] = f[i] + one[i]
                   /\ fD[i] = f[i] * D /\ bothD[i] = both[i] * D /\ hU[i] = h[i] * U
  BY DEF Terms
<1>9. U \in Nat \ {0}
  BY <1>5
<1>10. \A i \in S : f[i] \in Nat /\ one[i] \in Nat /\ both[i] \in Nat
  <2> SUFFICES ASSUME NEW i \in S PROVE f[i] \in Nat /\ one[i] \in Nat /\ both[i] \in Nat
    OBVIOUS
  <2> HIDE DEF n, m, p, f, one, both
  <2>1. f[i] \in Nat
    <3>1. n[i] * p[i] \in Nat
      BY <1>6, <1>7, TimesNat
    <3>2. n[i] * p[i] * LevUnit \in Nat
      BY <3>1, <1>5, TimesNat
    <3>3. n[i] * p[i] * LevUnit * m[i] \in Nat
      BY <3>2, <1>6, TimesNat
    <3> QED BY <3>3, <1>8
  <2>2. one[i] \in Nat
    <3>1. 1 * p[i] * LevUnit \in Nat
      BY <1>5, <1>6, TimesNat
    <3>2. 1 * p[i] * LevUnit * m[i] \in Nat
      BY <3>1, <1>6, TimesNat
    <3> QED BY <3>2, <1>8
  <2> QED BY <2>1, <2>2, <1>8
<1> HIDE DEF S, n, D, U, s, m, p, h, f, one, both, fD, bothD, hU
<1>11. \A i \in S : /\ fD[i] \in Nat /\ hU[i] \in Nat /\ bothD[i] \in Nat
                    /\ fD[i] <= hU[i] /\ hU[i] <= bothD[i]
                    /\ h[i] # 0 => hU[i] < bothD[i]
  <2> SUFFICES ASSUME NEW i \in S
               PROVE /\ fD[i] \in Nat /\ hU[i] \in Nat /\ bothD[i] \in Nat
                     /\ fD[i] <= hU[i] /\ hU[i] <= bothD[i]
                     /\ h[i] # 0 => hU[i] < bothD[i]
    OBVIOUS
  <2> DEFINE u == LevUnit * D * p[i]
             x == n[i] * u
             w == s[i] * capital * LevMultiple
  <2>1. /\ fD[i] = x * m[i]
        /\ hU[i] = w * m[i]
        /\ bothD[i] = (x + u) * m[i]
    <3>1. /\ n[i] \in Nat /\ LevUnit \in Nat /\ D \in Nat /\ p[i] \in Nat /\ m[i] \in Nat
          /\ s[i] \in Nat /\ capital \in Nat /\ LevMultiple \in Nat
      BY <1>2, <1>5, <1>6, <1>7
    <3>2. /\ (n[i] * p[i] * LevUnit * m[i]) * D = x * m[i]
          /\ (s[i] * m[i]) * (capital * LevMultiple) = w * m[i]
          /\ (n[i] * p[i] * LevUnit * m[i] + 1 * p[i] * LevUnit * m[i]) * D = (x + u) * m[i]
      BY <3>1, Reorder
    <3> QED BY <3>2, <1>8 DEF U
  <2>2. u \in Nat /\ x \in Nat /\ w \in Nat /\ x + u \in Nat /\ m[i] \in Nat
    <3>1. LevUnit * D \in Nat
      BY <1>2, <1>5, TimesNat
    <3>2. u \in Nat
      BY <3>1, <1>6, TimesNat
    <3>3. x \in Nat
      <4> HIDE DEF u
      <4> QED BY <3>2, <1>7, TimesNat
    <3>4. s[i] * capital \in Nat
      BY <1>5, <1>6, TimesNat
    <3>5. w \in Nat
      BY <3>4, <1>5, TimesNat
    <3> HIDE DEF u, x, w
    <3> QED BY <3>2, <3>3, <3>5, <1>6
  <2>3. x <= w /\ w < x + u
    BY <1>7
  <2>4. h[i] # 0 => m[i] # 0
    <3>1. s[i] * 0 = 0
      BY <1>6
    <3> QED BY <3>1, <1>8
  <2> HIDE DEF u, x, w
  <2>5. x * m[i] \in Nat /\ w * m[i] \in Nat /\ (x + u) * m[i] \in Nat
    BY <2>2, TimesNat
  <2>6. x * m[i] <= w * m[i] /\ w * m[i] <= (x + u) * m[i]
    BY <2>2, <2>3, MulDivMonotone
  <2>7. m[i] # 0 => ~((x + u) * m[i] <= w * m[i])
    BY <2>2, <2>3, MulDivMonotone
  <2> QED BY <2>1, <2>4, <2>5, <2>6, <2>7
<1>12. /\ Total(f, S) \in Nat /\ Total(fD, S) = Total(f, S) * D
       /\ Total(both, S) \in Nat /\ Total(bothD, S) = Total(both, S) * D
       /\ Total(hU, S) = D * U
  <2>1. Total(f, S) \in Nat /\ Total(fD, S) = Total(f, S) * D
    <3>1. D \in Nat /\ \A i \in S : f[i] \in Nat /\ fD[i] = f[i] * D
      BY <1>2, <1>8, <1>10
    <3> QED BY <3>1, <1>1, TotalScale
  <2>2. Total(both, S) \in Nat /\ Total(bothD, S) = Total(both, S) * D
    <3>1. D \in Nat /\ \A i \in S : both[i] \in Nat /\ bothD[i] = both[i] * D
      BY <1>2, <1>8, <1>10
    <3> QED BY <3>1, <1>1, TotalScale
  <2>3. Total(hU, S) = Total(h, S) * U
    <3>1. U \in Nat /\ \A i \in S : h[i] \in Nat /\ hU[i] = h[i] * U
      BY <1>2, <1>8, <1>9
    <3> QED BY <3>1, <1>1, TotalScale
  <2> QED BY <2>1, <2>2, <2>3, <1>2
<1>13. Total(both, S) = Total(f, S) + Total(one, S)
  BY <1>1, <1>8, <1>10, TotalSum
<1>14. Total(fD, S) <= Total(hU, S)
  BY <1>1, <1>11, TotalPointwise
<1>15. Total(hU, S) < Total(bothD, S)
  <2>1. \E i \in S : hU[i] < bothD[i]
    BY <1>2, <1>11
  <2> QED BY <2>1, <1>1, <1>11, TotalPointwise
<1>16. D * U = U * D
  BY <1>2, <1>9
<1>17. Total(f, S) <= U
  BY <1>2, <1>9, <1>12, <1>14, <1>16, MulDivMonotone
<1>18. U < Total(both, S)
  <2> SUFFICES ASSUME Total(both, S) <= U PROVE FALSE
    BY <1>9, <1>12
  <2>1. Total(both, S) * D <= U * D
    BY <1>2, <1>9, <1>12, MulDivMonotone
  <2>2. Total(both, S) * D \in Nat /\ U * D \in Nat
    BY <1>2, <1>9, <1>12, TimesNat
  <2> QED BY <2>1, <2>2, <1>12, <1>15, <1>16
<1> QED BY <1>3, <1>4, <1>13, <1>17, <1>18 DEF U, n

-----------------------------------------------------------------------------
(* What holds between the steps of the exchange, the files and the keeper. *)

\* What an asset id stands for while dexs and markets are listed
StandsFor(dexs, markets, id, dex, coin) ==
    LET dexIndex == (id - AssetIdBase) \div DexBlock
        index == (id - AssetIdBase) % DexBlock
    IN  /\ dexIndex \in DOMAIN dexs /\ dexs[dexIndex] = dex
        /\ index + 1 \in DOMAIN markets[dex] /\ markets[dex][index + 1].coin = coin

\* A config whose ids stand for its coins, if it was made for its basket's own dex
ConfigOK(config) ==
    /\ config.network \in Networks
    /\ config.named = {Unset} =>
           \A coin \in DOMAIN config.ids :
               StandsFor(perpDexs[config.network], universe[config.network],
                         config.ids[coin], config.dex, coin)

KeeperLoaded ==
    /\ DOMAIN keeper.ids \subseteq Coins \cap DOMAIN keeper.deploy.ids
    /\ \A coin \in DOMAIN keeper.ids : keeper.ids[coin] = keeper.deploy.ids[coin]
    /\ ConfigOK(keeper.deploy)

Markets == [coin : Coins, isDelisted : BOOLEAN]

ExchangeTypes ==
    /\ perpDexs \in [Networks -> Seq(Dexes)]
    /\ universe \in [Networks -> [AllDexes -> Seq(Markets)]]

FilesInv ==
    /\ ExchangeTypes
    /\ basketFile # Unset => IsBasket(basketFile)
    /\ deployFile # Unset => ConfigOK(deployFile)
    /\ keeper # Unset => KeeperLoaded

LEMMA Place ==
    ASSUME NEW d \in Nat \ {0}, NEW q \in Nat, NEW r \in 0 .. (d - 1)
    PROVE  (q * d + r) \div d = q /\ (q * d + r) % d = r
<1> DEFINE x == q * d + r
<1>1. q * d \in Nat /\ x \in Nat
  BY TimesNat
<1> HIDE DEF x
<1>2. /\ x \div d \in Nat /\ x % d \in 0 .. (d - 1)
      /\ x = d * (x \div d) + (x % d)
  <2>1. x \div d \in Nat
    BY <1>1, DivBounds
  <2>2. x % d \in 0 .. (d - 1) /\ x = d * (x \div d) + (x % d)
    BY <1>1
  <2> QED BY <2>1, <2>2
<1>3. PICK y, z : y = x \div d /\ z = x % d
  OBVIOUS
<1>4. y \in Nat /\ z \in 0 .. (d - 1) /\ x = d * y + z
  BY <1>2, <1>3
<1>5. y * d + (z + 1) = q * d + (r + 1)
  <2>1. d * y = y * d /\ d * y \in Nat /\ q * d \in Nat
    BY <1>4, TimesNat
  <2> QED BY <1>4, <2>1 DEF x
<1>6. z + 1 \in 1 .. d /\ r + 1 \in 1 .. d
  BY <1>4
<1>7. y = q /\ z + 1 = r + 1
  BY <1>4, <1>5, <1>6, Digits
<1>8. y = q /\ z = r
  BY <1>4, <1>7
<1> QED BY <1>3, <1>8 DEF x

LEMMA SmallestOf ==
    ASSUME NEW S \in SUBSET Nat, S # {}
    PROVE  \E i \in S : \A j \in S : i <= j
<1> DEFINE R == {ss \in Nat \X Nat : ss[1] < ss[2]}
<1>1. IsWellFoundedOn(R, Nat)
  BY NatLessThanWellFounded DEF OpToRel
<1>2. PICK i \in S : \A j \in S : ~ (<<j, i>> \in R)
  <2> HIDE DEF R
  <2> QED BY <1>1, WFMin
<1>3. \A j \in S : j < i => <<j, i>> \in R
  OBVIOUS
<1>4. \A j \in S : ~(j < i) /\ j \in Nat /\ i \in Nat
  <2> HIDE DEF R
  <2> QED BY <1>2, <1>3
<1> QED BY <1>4

\* hip3_asset_id is undone by the exchange.
LEMMA IdPlace ==
    ASSUME NEW dexIndex \in Nat, NEW index \in 0 .. (DexBlock - 1)
    PROVE  /\ (AssetId(dexIndex, index) - AssetIdBase) \div DexBlock = dexIndex
           /\ (AssetId(dexIndex, index) - AssetIdBase) % DexBlock = index
<1>1. AssetIdBase \in Nat /\ DexBlock \in Nat \ {0}
  BY ListingAssumption DEF ListingAssumption
<1>2. AssetId(dexIndex, index) - AssetIdBase = dexIndex * DexBlock + index
  <2>1. dexIndex * DexBlock \in Nat
    BY <1>1, TimesNat
  <2> QED BY <1>1, <2>1 DEF AssetId
<1> QED BY <1>1, <1>2, Place

LEMMA MarketOf ==
    ASSUME NEW net, NEW id, NEW dex, NEW coin,
           StandsFor(perpDexs[net], universe[net], id, dex, coin)
    PROVE  Market(net, id) = [dex |-> dex, coin |-> coin]
BY DEF StandsFor, Market, Names

\* The exchange appends dexes and markets, and marks markets as delisted in place.
Grown(dexs, dexs2, markets, markets2) ==
    /\ \A i \in DOMAIN dexs : i \in DOMAIN dexs2 /\ dexs2[i] = dexs[i]
    /\ \A dex \in AllDexes : \A i \in DOMAIN markets[dex] :
           i \in DOMAIN markets2[dex] /\ markets2[dex][i].coin = markets[dex][i].coin

LEMMA StandsStill ==
    ASSUME NEW dexs \in Seq(Dexes), NEW dexs2, NEW markets, NEW markets2,
           Grown(dexs, dexs2, markets, markets2),
           NEW id, NEW dex, NEW coin, StandsFor(dexs, markets, id, dex, coin)
    PROVE  StandsFor(dexs2, markets2, id, dex, coin)
<1> DEFINE i == (id - AssetIdBase) \div DexBlock
           j == ((id - AssetIdBase) % DexBlock) + 1
<1>1. i \in DOMAIN dexs /\ dexs[i] = dex /\ j \in DOMAIN markets[dex] /\ markets[dex][j].coin = coin
  BY DEF StandsFor
<1>2. dex \in AllDexes
  <2>1. dex \in Dexes
    BY <1>1, ElementOfSeq
  <2> QED BY <2>1 DEF AllDexes
<1>3. i \in DOMAIN dexs2 /\ dexs2[i] = dex /\ j \in DOMAIN markets2[dex] /\ markets2[dex][j].coin = coin
  BY <1>1, <1>2 DEF Grown
<1> QED BY <1>3 DEF StandsFor

LEMMA ExchangeGrows ==
    ASSUME ExchangeTypes, ExchangeStep
    PROVE  /\ ExchangeTypes'
           /\ \A net \in Networks :
                  Grown(perpDexs[net], perpDexs'[net], universe[net], universe'[net])
<1>1. ASSUME NEW net \in Networks, NEW dex \in Dexes, DeployDex(net, dex)
      PROVE  /\ ExchangeTypes'
             /\ \A n \in Networks :
                    Grown(perpDexs[n], perpDexs'[n], universe[n], universe'[n])
  <2>1. perpDexs' = [perpDexs EXCEPT ![net] = Append(@, dex)] /\ universe' = universe
    BY <1>1 DEF DeployDex
  <2>2. PICK s \in Seq(Dexes) : s = perpDexs[net]
    BY DEF ExchangeTypes
  <2>3. /\ Append(s, dex) \in Seq(Dexes)
        /\ \A i \in DOMAIN s : i \in DOMAIN Append(s, dex) /\ Append(s, dex)[i] = s[i]
    BY AppendProperties
  <2>4. ExchangeTypes'
    BY <2>1, <2>2, <2>3 DEF ExchangeTypes
  <2>5. \A n \in Networks : \A i \in DOMAIN perpDexs[n] :
            i \in DOMAIN perpDexs'[n] /\ perpDexs'[n][i] = perpDexs[n][i]
    BY <2>1, <2>2, <2>3 DEF ExchangeTypes
  <2> QED BY <2>1, <2>4, <2>5 DEF Grown
<1>2. ASSUME NEW net \in Networks, NEW dex \in AllDexes, NEW s,
             s \in Seq(Markets),
             \A i \in DOMAIN universe[net][dex] :
                 i \in DOMAIN s /\ s[i].coin = universe[net][dex][i].coin,
             universe' = [universe EXCEPT ![net][dex] = s], perpDexs' = perpDexs
      PROVE  /\ ExchangeTypes'
             /\ \A n \in Networks :
                    Grown(perpDexs[n], perpDexs'[n], universe[n], universe'[n])
  <2>1. ExchangeTypes'
    BY <1>2 DEF ExchangeTypes
  <2>2. \A n \in Networks, d \in AllDexes : \A i \in DOMAIN universe[n][d] :
            i \in DOMAIN universe'[n][d] /\ universe'[n][d][i].coin = universe[n][d][i].coin
    BY <1>2 DEF ExchangeTypes
  <2> QED BY <1>2, <2>1, <2>2 DEF Grown
<1>3. ASSUME NEW net \in Networks, NEW dex \in AllDexes, NEW coin \in Coins, ListCoin(net, dex, coin)
      PROVE  /\ ExchangeTypes'
             /\ \A n \in Networks :
                    Grown(perpDexs[n], perpDexs'[n], universe[n], universe'[n])
  <2>1. PICK u \in Seq(Markets) : u = universe[net][dex]
    BY DEF ExchangeTypes
  <2> DEFINE s == Append(u, [coin |-> coin, isDelisted |-> FALSE])
  <2>2. [coin |-> coin, isDelisted |-> FALSE] \in Markets
    BY DEF Markets
  <2>3. s \in Seq(Markets) /\ \A i \in DOMAIN u : i \in DOMAIN s /\ s[i] = u[i]
    BY <2>2, AppendProperties
  <2>4. universe' = [universe EXCEPT ![net][dex] = s] /\ perpDexs' = perpDexs
    BY <1>3, <2>1 DEF ListCoin
  <2> HIDE DEF s
  <2> QED BY <1>2, <2>1, <2>3, <2>4
<1>4. ASSUME NEW net \in Networks, NEW dex \in AllDexes,
             NEW k \in DOMAIN universe[net][dex], Delist(net, dex, k)
      PROVE  /\ ExchangeTypes'
             /\ \A n \in Networks :
                    Grown(perpDexs[n], perpDexs'[n], universe[n], universe'[n])
  <2>1. PICK u \in Seq(Markets) : u = universe[net][dex]
    BY DEF ExchangeTypes
  <2> DEFINE s == [u EXCEPT ![k].isDelisted = TRUE]
  <2>2. u[k] \in Markets
    BY <2>1, ElementOfSeq
  <2>3. /\ [u[k] EXCEPT !.isDelisted = TRUE] \in Markets
        /\ [u[k] EXCEPT !.isDelisted = TRUE].coin = u[k].coin
    BY <2>2 DEF Markets
  <2>4. s = [u EXCEPT ![k] = [u[k] EXCEPT !.isDelisted = TRUE]]
    OBVIOUS
  <2>5. s \in Seq(Markets)
    BY <2>1, <2>3, <2>4, ExceptSeq
  <2>6. \A i \in DOMAIN u : i \in DOMAIN s /\ s[i].coin = u[i].coin
    BY <2>3, <2>4
  <2>7. universe' = [universe EXCEPT ![net][dex] = s] /\ perpDexs' = perpDexs
    BY <1>4, <2>1 DEF Delist, ExchangeTypes
  <2> HIDE DEF s
  <2> QED BY <1>2, <2>1, <2>5, <2>6, <2>7
<1> QED BY <1>1, <1>3, <1>4 DEF ExchangeStep

\* What the ids of a config stand for outlasts every listing.
LEMMA ConfigStill ==
    ASSUME ExchangeTypes, NEW config, ConfigOK(config),
           \A net \in Networks :
               Grown(perpDexs[net], perpDexs'[net], universe[net], universe'[net])
    PROVE  ConfigOK(config)'
<1> DEFINE net == config.network
<1>1. net \in Networks
  BY DEF ConfigOK
<1>2. perpDexs[net] \in Seq(Dexes)
  BY <1>1 DEF ExchangeTypes
<1>3. ASSUME config.named = {Unset}, NEW coin \in DOMAIN config.ids
      PROVE  StandsFor(perpDexs'[net], universe'[net], config.ids[coin], config.dex, coin)
  <2>1. StandsFor(perpDexs[net], universe[net], config.ids[coin], config.dex, coin)
    BY <1>3 DEF ConfigOK
  <2>2. Grown(perpDexs[net], perpDexs'[net], universe[net], universe'[net])
    BY <1>1
  <2> QED BY <1>2, <2>1, <2>2, StandsStill
<1>4. config.named = {Unset} =>
          \A coin \in DOMAIN config.ids :
              StandsFor(perpDexs'[net], universe'[net], config.ids[coin], config.dex, coin)
  BY <1>3
<1> QED BY <1>1, <1>4 DEF ConfigOK

LEMMA GrownOrSame ==
    ASSUME ExchangeTypes, ExchangeStep \/ UNCHANGED exchangeVars
    PROVE  /\ ExchangeTypes'
           /\ \A net \in Networks :
                  Grown(perpDexs[net], perpDexs'[net], universe[net], universe'[net])
<1>1. CASE ExchangeStep
  BY <1>1, ExchangeGrows
<1>2. CASE UNCHANGED exchangeVars
  <2>1. perpDexs' = perpDexs /\ universe' = universe
    BY <1>2 DEF exchangeVars
  <2>2. ExchangeTypes'
    BY <2>1 DEF ExchangeTypes
  <2>3. \A net : Grown(perpDexs[net], perpDexs[net], universe[net], universe[net])
    BY DEF Grown
  <2> QED BY <2>1, <2>2, <2>3
<1> QED BY <1>1, <1>2

\* The config that is written, with no dex named, stands for the basket.
LEMMA ConfigWritten ==
    ASSUME FilesInv, NEW net \in Networks,
           NEW dexName \in Dexes \cup {Unset}, NEW named \in Dexes \cup {Unset},
           BuildDeployConfig(net, dexName, IF named = Unset THEN Unset ELSE DeployerOf[named])
    PROVE  ConfigOK(deployFile')
<1> DEFINE deployer == IF named = Unset THEN Unset ELSE DeployerOf[named]
           dex == basketFile.dex
           name == IF dexName # Unset THEN dexName ELSE dex
           dexIndex == FirstOf(DexIndexes(net, name, deployer))
           coins == {basketFile.assets[i].coin : i \in Legs(basketFile)}
           ids == [coin \in coins |-> AssetId(dexIndex, IndexOf(net, dex, coin))]
<1>1. /\ DexIndexes(net, name, deployer) # {}
      /\ coins \subseteq Listed(net, dex)
      /\ \A coin \in coins : IndexOf(net, dex, coin) < DexBlock
      /\ deployFile' = [network |-> net, dex |-> dex, named |-> {dexName, deployer}, ids |-> ids]
  BY DEF BuildDeployConfig
<1>2. SUFFICES ASSUME {dexName, deployer} = {Unset}, NEW coin \in coins
               PROVE  StandsFor(perpDexs[net], universe[net], ids[coin], dex, coin)
  <2>1. deployFile'.network = net /\ deployFile'.dex = dex /\ deployFile'.ids = ids
        /\ deployFile'.named = {dexName, deployer} /\ DOMAIN ids = coins
    BY <1>1
  <2> HIDE DEF deployer, dex, name, dexIndex, coins, ids
  <2> QED BY <2>1, <1>2 DEF ConfigOK
<1>3. dexName = Unset /\ deployer = Unset /\ name = dex
  BY <1>2
<1>4. PICK dexs \in Seq(Dexes) : dexs = perpDexs[net]
  BY DEF FilesInv, ExchangeTypes
<1>5. \A i \in DOMAIN dexs : dexs[i] \in Dexes /\ DeployerOf[dexs[i]] # Unset /\ i \in Nat
  <2> SUFFICES ASSUME NEW i \in DOMAIN dexs
               PROVE  dexs[i] \in Dexes /\ DeployerOf[dexs[i]] # Unset /\ i \in Nat
    OBVIOUS
  <2>1. i \in 1 .. Len(dexs) /\ Len(dexs) \in Nat
    BY LenProperties
  <2>2. dexs[i] \in Dexes
    BY <2>1, ElementOfSeq
  <2> QED BY <2>1, <2>2, ListingAssumption DEF ListingAssumption
<1>6. DexIndexes(net, name, deployer) = {i \in DOMAIN dexs : dexs[i] = dex}
  <2>1. DexIndexes(net, name, deployer)
            = {i \in DOMAIN dexs : dexs[i] = name \/ DeployerOf[dexs[i]] = deployer}
    BY <1>4 DEF DexIndexes
  <2> HIDE DEF deployer, name, dex
  <2> QED BY <2>1, <1>3, <1>5
<1>7. dexIndex \in DOMAIN dexs /\ dexs[dexIndex] = dex
  <2> DEFINE S == DexIndexes(net, name, deployer)
  <2>1. S \in SUBSET Nat /\ S # {}
    BY <1>1, <1>5, <1>6
  <2>2. \E i \in S : \A j \in S : i <= j
    <3> HIDE DEF S
    <3> QED BY <2>1, SmallestOf
  <2>3. dexIndex \in S
    <3> HIDE DEF S
    <3>1. FirstOf(S) \in S
      BY <2>2 DEF FirstOf
    <3> QED BY <3>1 DEF S
  <2> QED BY <2>3, <1>6
<1>8. PICK u \in Seq(Markets) : u = universe[net][dex]
  <2>1. dex \in AllDexes
    BY <1>5, <1>7 DEF AllDexes
  <2> QED BY <2>1 DEF FilesInv, ExchangeTypes
<1>9. Position(net, dex, coin) \in DOMAIN u /\ u[Position(net, dex, coin)].coin = coin
  <2>1. coin \in Listed(net, dex)
    BY <1>1
  <2>2. \E i \in DOMAIN u : u[i].coin = coin
    BY <2>1, <1>8 DEF Listed, Names
  <2> HIDE DEF dex
  <2> QED BY <2>2, <1>8 DEF Position
<1>10. PICK k : k = Position(net, dex, coin)
  OBVIOUS
<1>11. k \in Nat \ {0} /\ IndexOf(net, dex, coin) = k - 1 /\ k - 1 \in 0 .. (DexBlock - 1)
  <2>1. k \in 1 .. Len(u) /\ Len(u) \in Nat
    BY <1>9, <1>10, LenProperties
  <2>2. IndexOf(net, dex, coin) = k - 1
    BY <1>10 DEF IndexOf
  <2>3. IndexOf(net, dex, coin) < DexBlock
    BY <1>1
  <2>4. DexBlock \in Nat
    BY ListingAssumption DEF ListingAssumption
  <2> QED BY <2>1, <2>2, <2>3, <2>4
<1>12. ids[coin] = AssetId(dexIndex, k - 1)
  BY <1>11
<1>13. dexIndex \in Nat
  BY <1>5, <1>7
<1> HIDE DEF deployer, dex, name, dexIndex, coins, ids
<1>14. /\ (ids[coin] - AssetIdBase) \div DexBlock = dexIndex
       /\ (ids[coin] - AssetIdBase) % DexBlock = k - 1
  BY <1>11, <1>12, <1>13, IdPlace
<1>15. (k - 1) + 1 = k
  BY <1>11
<1> QED BY <1>4, <1>7, <1>8, <1>9, <1>10, <1>14, <1>15 DEF StandsFor

LEMMA FilesStep ==
    ASSUME FilesInv, [ToolsNext]_toolVars
    PROVE  FilesInv'
<1>1. ExchangeTypes
  BY DEF FilesInv
<1>2. ASSUME ExchangeStep \/ UNCHANGED exchangeVars,
             basketFile' # Unset => IsBasket(basketFile'),
             deployFile' = deployFile \/ ConfigOK(deployFile'),
             \/ keeper' = keeper \/ keeper' = Unset
             \/ DOMAIN keeper'.ids \subseteq Coins \cap DOMAIN keeper'.deploy.ids
                /\ (\A coin \in DOMAIN keeper'.ids : keeper'.ids[coin] = keeper'.deploy.ids[coin])
                /\ ConfigOK(keeper'.deploy)
      PROVE  FilesInv'
  <2>1. ExchangeTypes' /\ \A config : ConfigOK(config) => ConfigOK(config)'
    BY <1>1, <1>2, GrownOrSame, ConfigStill
  <2>2. PICK b, d, k : b = basketFile' /\ d = deployFile' /\ k = keeper'
    OBVIOUS
  <2>3. b # Unset => IsBasket(b)
    BY <1>2, <2>2
  <2>4. d # Unset => ConfigOK(d)
    BY <1>2, <2>2 DEF FilesInv
  <2>5. k # Unset => /\ DOMAIN k.ids \subseteq Coins \cap DOMAIN k.deploy.ids
                     /\ \A coin \in DOMAIN k.ids : k.ids[coin] = k.deploy.ids[coin]
                     /\ ConfigOK(k.deploy)
    BY <1>2, <2>2 DEF FilesInv, KeeperLoaded
  <2>6. d # Unset => ConfigOK(d)'
    BY <2>1, <2>4
  <2>7. k # Unset => /\ DOMAIN k.ids \subseteq Coins \cap DOMAIN k.deploy.ids
                     /\ \A coin \in DOMAIN k.ids : k.ids[coin] = k.deploy.ids[coin]
                     /\ ConfigOK(k.deploy)'
    BY <2>1, <2>5
  <2>8. (basketFile # Unset => IsBasket(basketFile))'
    BY <2>2, <2>3
  <2>9. (deployFile # Unset => ConfigOK(deployFile))'
    BY <2>2, <2>6, Zenon
  <2>10. (keeper # Unset => KeeperLoaded)'
    BY <2>2, <2>7, Zenon DEF KeeperLoaded
  <2> QED BY <2>1, <2>8, <2>9, <2>10 DEF FilesInv
<1>3. CASE UNCHANGED listingVars
  <2>1. UNCHANGED exchangeVars /\ basketFile' = basketFile /\ deployFile' = deployFile
        /\ keeper' = keeper
    BY <1>3 DEF listingVars, fileVars
  <2> QED BY <2>1, <1>2 DEF FilesInv
<1>4. CASE ExchangeStep
  <2>1. basketFile' = basketFile /\ deployFile' = deployFile /\ keeper' = keeper
    BY <1>4 DEF ExchangeStep, DeployDex, ListCoin, Delist, fileVars
  <2> QED BY <1>4, <2>1, <1>2 DEF FilesInv
<1>5. CASE AdminStep
  <2>1. ASSUME NEW net \in Networks, Discover(net) PROVE FilesInv'
    <3>1. UNCHANGED exchangeVars /\ basketFile' = basketFile /\ deployFile' = deployFile
          /\ keeper' = keeper
      BY <2>1 DEF Discover
    <3> QED BY <3>1, <1>2 DEF FilesInv
  <2>2. ASSUME NEW net \in Networks,
               NEW dexName \in Dexes \cup {Unset}, NEW deployer \in Dexes \cup {Unset},
               BuildDeployConfig(net, dexName,
                                 IF deployer = Unset THEN Unset ELSE DeployerOf[deployer])
        PROVE  FilesInv'
    <3>1. UNCHANGED exchangeVars /\ basketFile' = basketFile /\ keeper' = keeper
      BY <2>2 DEF BuildDeployConfig
    <3>2. ConfigOK(deployFile')
      BY <2>2, ConfigWritten
    <3> QED BY <3>1, <3>2, <1>2 DEF FilesInv
  <2>3. ASSUME NEW net \in Networks, StartKeeper(net) PROVE FilesInv'
    <3> DEFINE coins == {basketFile.assets[i].coin : i \in Legs(basketFile)}
               loaded == [network |-> net, dex |-> basketFile.dex, deploy |-> deployFile,
                          ids |-> [coin \in coins |-> deployFile.ids[coin]]]
    <3>1. /\ UNCHANGED exchangeVars /\ basketFile' = basketFile /\ deployFile' = deployFile
          /\ basketFile # Unset /\ deployFile # Unset
          /\ coins \subseteq DOMAIN deployFile.ids /\ keeper' = loaded
      BY <2>3 DEF StartKeeper, fileVars
    <3>2. coins \subseteq Coins
      BY <3>1 DEF FilesInv, IsBasket
    <3>3. ConfigOK(deployFile)
      BY <3>1 DEF FilesInv
    <3> HIDE DEF coins
    <3>4. /\ DOMAIN loaded.ids \subseteq Coins \cap DOMAIN loaded.deploy.ids
          /\ \A coin \in DOMAIN loaded.ids : loaded.ids[coin] = loaded.deploy.ids[coin]
          /\ ConfigOK(loaded.deploy)
      BY <3>1, <3>2, <3>3
    <3> HIDE DEF loaded
    <3> QED BY <3>1, <3>4, <1>2 DEF FilesInv
  <2>4. ASSUME NEW selection \in Selections, NEW dexHint \in AllDexes, NEW weighting \in Weightings,
               NEW assets, BuildBasket(assets, selection, dexHint, weighting)
        PROVE  FilesInv'
    <3>1. /\ UNCHANGED exchangeVars /\ deployFile' = deployFile /\ keeper' = keeper
          /\ basketFile' = Assembled(selection, dexHint, weighting)
      BY <2>4 DEF BuildBasket
    <3>2. IsBasket(basketFile')
      BY <3>1, BasketAssumption DEF BasketAssumption
    <3> QED BY <3>1, <3>2, <1>2
  <2>5. ASSUME NEW hand \in HandBaskets, EditBasket(hand) PROVE FilesInv'
    <3>1. /\ UNCHANGED exchangeVars /\ deployFile' = deployFile /\ keeper' = keeper
          /\ basketFile' = hand
      BY <2>5 DEF EditBasket
    <3>2. IsBasket(basketFile')
      BY <3>1, BasketAssumption DEF BasketAssumption
    <3> QED BY <3>1, <3>2, <1>2
  <2>6. ASSUME StopKeeper PROVE FilesInv'
    <3>1. UNCHANGED exchangeVars /\ basketFile' = basketFile /\ deployFile' = deployFile
          /\ keeper' = Unset
      BY <2>6 DEF StopKeeper, fileVars
    <3> QED BY <3>1, <1>2 DEF FilesInv
  <2> QED BY <1>5, <2>1, <2>2, <2>3, <2>4, <2>5, <2>6 DEF AdminStep
<1>6. RunStep => UNCHANGED listingVars
  BY DEF RunStep, StartRun, PlanRun, PlanFails, Submit, SendLeg, LegRaises, FinishRun, Confirm
<1>7. (\E coin \in Coins : \E p \in LotPrices[coin] : MovePrice(coin, p)) => UNCHANGED listingVars
  BY DEF MovePrice
<1>8. UNCHANGED toolVars => UNCHANGED listingVars
  BY DEF toolVars
<1> QED BY <1>3, <1>4, <1>5, <1>6, <1>7, <1>8 DEF ToolsNext

LEMMA FilesInit ==
    ASSUME ToolsInit
    PROVE  FilesInv
<1>1. ExchangeTypes
  <2>1. <<>> \in Seq(Dexes) /\ <<>> \in Seq(Markets)
    BY EmptySeq
  <2> QED BY <2>1 DEF ToolsInit, ExchangeTypes
<1> QED BY <1>1 DEF ToolsInit, FilesInv

LEMMA FilesAlways == ToolsSpec => []FilesInv
<1> QED BY FilesInit, FilesStep, PTL DEF ToolsSpec

\* Whatever the exchange lists and the admin writes, in any order, a keeper whose config was
\* made for its network and dex trades the coins of its basket.
THEOREM IdsAlwaysDenote == ToolsSpec => []IdsDenoteBasket
<1>1. ASSUME FilesInv PROVE IdsDenoteBasket
  <2> SUFFICES ASSUME keeper # Unset,
                      keeper.deploy.network = keeper.network,
                      keeper.deploy.dex = keeper.dex,
                      keeper.deploy.named = {Unset},
                      NEW coin \in DOMAIN keeper.ids
               PROVE  Market(keeper.network, keeper.ids[coin])
                          = [dex |-> keeper.dex, coin |-> coin]
    BY DEF IdsDenoteBasket
  <2>1. coin \in DOMAIN keeper.deploy.ids /\ keeper.ids[coin] = keeper.deploy.ids[coin]
        /\ ConfigOK(keeper.deploy)
    BY <1>1 DEF FilesInv, KeeperLoaded
  <2>2. StandsFor(perpDexs[keeper.network], universe[keeper.network],
                  keeper.ids[coin], keeper.dex, coin)
    BY <2>1 DEF ConfigOK
  <2> QED BY <2>2, MarketOf
<1> QED BY <1>1, FilesAlways, PTL

-----------------------------------------------------------------------------
(* What holds between the steps of a run.                                  *)

PlanMade ==
    /\ args \in RunArgs
    /\ Sized(basket, marks, args.capital, args.leverage)
    /\ lots = Planned(marks)
    /\ Safe(basket, marks, lots, args.maxNotional)

\* The most that each leg may cost, twice SlipDen times
Worth ==
    [i \in Legs(basket) |->
        lots[i] * (2 * marks[basket.assets[i].coin] * (SlipDen + SlipNum) + SlipDen)]

RunTypes ==
    /\ price \in Prices
    /\ pc \in {"none", "prices", "confirm", "submit", "legs"}
    /\ exitCode \in {Unset, 0, 1, 2}
    /\ LotsOK
    /\ pc # "none" => args \in RunArgs /\ IsBasket(basket) /\ Loads(basket)
    /\ results \in Seq(Outcomes) /\ Len(results) <= Orders
    /\ accepted \subseteq DOMAIN lots
    /\ spent \in Nat

PlanKept == pc \in {"confirm", "submit", "legs"} \/ accepted # {} => PlanMade

NothingSent == pc \in {"prices", "confirm", "submit"} => results = <<>> /\ accepted = {}

\* The exchange has what it said it has, and nothing that was not sent.
SentInOrder ==
    pc = "legs" => /\ accepted \subseteq {LegOf(k) : k \in 1 .. Len(results)}
                   /\ \A k \in 1 .. Len(results) : results[k].accepted => LegOf(k) \in accepted

PaidWithin == 2 * SlipDen * spent <= Total(Worth, accepted)

RunInv ==
    /\ RunTypes /\ PlanKept /\ NothingSent /\ SentInOrder /\ PaidWithin
    /\ CleanExitMeansAccepted

LEMMA EmptyLots ==
    /\ <<>> \in [DOMAIN <<>> -> Nat] /\ DOMAIN <<>> = {}
    /\ Intents(<<>>) = {} /\ Cardinality(Intents(<<>>)) = 0
<1>1. DOMAIN <<>> = {}
  OBVIOUS
<1>2. Intents(<<>>) = {}
  BY <1>1 DEF Intents
<1>3. <<>> \in [DOMAIN <<>> -> Nat]
  BY <1>1
<1> QED BY <1>1, <1>2, <1>3, FS_EmptySet

LEMMA TotalEmpty ==
    ASSUME NEW f
    PROVE  Total(f, {}) = 0
<1>1. Tokens(f, {}) = {}
  BY DEF Tokens
<1> QED BY <1>1, FS_EmptySet DEF Total

LEMMA Slippage ==
    /\ SlipNum \in Nat /\ SlipDen \in Nat \ {0} /\ SlipDen + SlipNum \in Nat
    /\ 2 * SlipDen \in Nat \ {0} /\ 2 * (SlipDen + SlipNum) \in Nat
BY ExecutionAssumption DEF ExecutionAssumption

\* A plan has a size for each leg, and prices for their coins.
LEMMA PlanTypes ==
    ASSUME PlanMade
    PROVE  /\ LotsOK /\ DOMAIN lots = Legs(basket)
           /\ \A i \in Legs(basket) : /\ lots[i] \in Nat
                                      /\ basket.assets[i].coin \in Coins
                                      /\ marks[basket.assets[i].coin] \in Nat \ {0}
                                      /\ Worth[i] \in Nat
<1>1. DOMAIN lots = Legs(basket) /\ \A i \in Legs(basket) : lots[i] \in Nat
  <2>1. lots = Lots(basket, marks, args.capital, args.leverage)
    BY DEF PlanMade, Planned
  <2>2. Sized(basket, marks, args.capital, args.leverage)
    BY DEF PlanMade
  <2>3. DOMAIN lots = Legs(basket)
    BY <2>1 DEF Lots
  <2>4. \A i \in Legs(basket) : Lots(basket, marks, args.capital, args.leverage)[i] \in Nat
    BY <2>2, LotBounds
  <2> QED BY <2>1, <2>3, <2>4
<1>2. lots \in [DOMAIN lots -> Nat]
  <2>1. lots = [i \in DOMAIN lots |-> lots[i]]
    BY DEF PlanMade, Planned, Lots
  <2> QED BY <1>1, <2>1
<1>3. LotsOK
  BY <1>1, <1>2, BasketLegs DEF LotsOK, PlanMade, Sized
<1>4. \A i \in Legs(basket) : /\ basket.assets[i].coin \in Coins
                              /\ marks[basket.assets[i].coin] \in Nat \ {0}
  BY PricesPositive DEF PlanMade, Sized, IsBasket
<1>5. ASSUME NEW i \in Legs(basket) PROVE Worth[i] \in Nat
  <2> DEFINE m == marks[basket.assets[i].coin]
  <2>1. m \in Nat /\ lots[i] \in Nat
    BY <1>1, <1>4
  <2> HIDE DEF m
  <2>2. 2 * m * (SlipDen + SlipNum) + SlipDen \in Nat
    <3>1. 2 * m \in Nat
      BY <2>1
    <3>2. 2 * m * (SlipDen + SlipNum) \in Nat
      BY <3>1, Slippage, TimesNat
    <3> QED BY <3>2, Slippage
  <2>3. lots[i] * (2 * m * (SlipDen + SlipNum) + SlipDen) \in Nat
    BY <2>1, <2>2, TimesNat
  <2> QED BY <2>3 DEF Worth, m
<1> QED BY <1>1, <1>3, <1>4, <1>5

\* At their limits all legs together cost the plan's notional and the slippage on it, and
\* half a tick on each lot.
LEMMA WorthOfPlan ==
    ASSUME PlanMade
    PROVE  /\ Gross(basket, marks, lots) \in Nat
           /\ Total(lots, DOMAIN lots) \in Nat
           /\ Total(Worth, DOMAIN lots)
                  = Gross(basket, marks, lots) * (2 * (SlipDen + SlipNum))
                        + Total(lots, DOMAIN lots) * SlipDen
<1> DEFINE S == Legs(basket)
           value == [i \in S |-> lots[i] * marks[basket.assets[i].coin]]
           slipped == [i \in S |-> value[i] * (2 * (SlipDen + SlipNum))]
           ticks == [i \in S |-> lots[i] * SlipDen]
<1>1. IsFiniteSet(S) /\ DOMAIN lots = S
  BY PlanTypes DEF LotsOK
<1>2. \A i \in S : lots[i] \in Nat /\ marks[basket.assets[i].coin] \in Nat
  BY PlanTypes
<1>3. Gross(basket, marks, lots) = Total(value, S)
  BY DEF Gross, SumOver
<1>4. \A i \in S : value[i] \in Nat /\ slipped[i] \in Nat /\ ticks[i] \in Nat
  <2>1. \A i \in S : value[i] \in Nat
    BY <1>2, TimesNat
  <2> HIDE DEF value
  <2> QED BY <1>2, <2>1, Slippage, TimesNat
<1>5. \A i \in S : Worth[i] = slipped[i] + ticks[i]
  <2> SUFFICES ASSUME NEW i \in S PROVE Worth[i] = slipped[i] + ticks[i]
    OBVIOUS
  <2>1. PICK n \in Nat, m \in Nat, u \in Nat, d \in Nat :
            n = lots[i] /\ m = marks[basket.assets[i].coin] /\ u = SlipDen + SlipNum /\ d = SlipDen
    BY <1>2, Slippage
  <2>2. n * (2 * m * u + d) = n * m * (2 * u) + n * d
    OBVIOUS
  <2> QED BY <2>1, <2>2 DEF Worth
<1>6. \A i \in S : slipped[i] = value[i] * (2 * (SlipDen + SlipNum)) /\ ticks[i] = lots[i] * SlipDen
  OBVIOUS
<1> HIDE DEF S, value, slipped, ticks
<1>7. Total(Worth, S) = Total(slipped, S) + Total(ticks, S)
  BY <1>1, <1>4, <1>5, TotalSum
<1>8. Total(value, S) \in Nat /\ Total(slipped, S) = Total(value, S) * (2 * (SlipDen + SlipNum))
  <2>1. 2 * (SlipDen + SlipNum) \in Nat
    BY Slippage
  <2> QED BY <1>1, <1>4, <1>6, <2>1, TotalScale
<1>9. Total(lots, S) \in Nat /\ Total(ticks, S) = Total(lots, S) * SlipDen
  <2>1. PICK d \in Nat : d = SlipDen
    BY Slippage
  <2>2. \A i \in S : lots[i] \in Nat /\ ticks[i] = lots[i] * d
    BY <1>2, <1>6, <2>1
  <2> QED BY <1>1, <2>1, <2>2, TotalScale
<1> QED BY <1>1, <1>3, <1>7, <1>8, <1>9

\* No fill of a leg costs more than the leg at its limit.
LEMMA FillWithinWorth ==
    ASSUME PlanMade, NEW i \in Legs(basket), NEW filled \in 0 .. lots[i],
           price[basket.assets[i].coin] \in Nat,
           filled > 0 => price[basket.assets[i].coin] <= Limit(basket.assets[i].coin)
    PROVE  /\ filled * price[basket.assets[i].coin] \in Nat
           /\ 2 * SlipDen * (filled * price[basket.assets[i].coin]) <= Worth[i]
<1>1. PICK n \in Nat, m \in Nat, p \in Nat :
          n = lots[i] /\ m = marks[basket.assets[i].coin] /\ p = price[basket.assets[i].coin]
  BY PlanTypes
<1>2. PICK w \in Nat, d \in Nat \ {0} : w = 2 * m * (SlipDen + SlipNum) + SlipDen /\ d = 2 * SlipDen
  <2>1. 2 * m \in Nat
    OBVIOUS
  <2>2. 2 * m * (SlipDen + SlipNum) \in Nat
    BY <2>1, Slippage, TimesNat
  <2> QED BY <2>2, Slippage
<1>3. Worth[i] = n * w
  BY <1>1, <1>2 DEF Worth
<1>4. filled \in Nat /\ filled <= n
  BY <1>1
<1>5. filled > 0 => p * d <= w
  <2>1. filled > 0 => p <= w \div d
    BY <1>1, <1>2 DEF Limit
  <2>2. w \div d \in Nat /\ (w \div d) * d <= w
    BY <1>2, DivBounds
  <2>3. PICK q : q = w \div d
    OBVIOUS
  <2>4. q \in Nat /\ q * d <= w /\ (filled > 0 => p <= q)
    BY <2>1, <2>2, <2>3
  <2>5. p <= q => p * d <= q * d
    BY <2>4, MulDivMonotone
  <2>6. p * d \in Nat /\ q * d \in Nat
    BY <2>4, TimesNat
  <2> QED BY <2>4, <2>5, <2>6
<1>6. filled * p \in Nat /\ d * (filled * p) = (p * d) * filled /\ n * w = w * n
  BY <1>4, TimesNat
<1>7. (p * d) * filled <= w * n
  <2>1. CASE filled = 0
    <3>1. (p * d) * 0 = 0 /\ w * n \in Nat
      BY TimesNat
    <3> QED BY <2>1, <3>1
  <2>2. CASE filled > 0
    <3>1. p * d \in Nat /\ p * d <= w
      BY <2>2, <1>5, TimesNat
    <3>2. (p * d) * filled <= w * filled
      BY <3>1, <1>4, MulDivMonotone
    <3>3. filled * w <= n * w
      BY <1>4, MulDivMonotone
    <3>4. filled * w = w * filled /\ n * w = w * n /\ w * filled \in Nat /\ w * n \in Nat
          /\ (p * d) * filled \in Nat
      BY <3>1, <1>4, TimesNat
    <3> QED BY <3>2, <3>3, <3>4
  <2> QED BY <2>1, <2>2, <1>4
<1> QED BY <1>1, <1>2, <1>3, <1>6, <1>7

-----------------------------------------------------------------------------
(* The steps of a run.                                                     *)

LEMMA SizedLots ==
    ASSUME NEW b, NEW px, NEW capital, NEW default, Sized(b, px, capital, default)
    PROVE  /\ Lots(b, px, capital, default) \in [Legs(b) -> Nat]
           /\ Legs(b) \in SUBSET Nat /\ IsFiniteSet(Legs(b))
<1>1. \A i \in Legs(b) : Lots(b, px, capital, default)[i] \in Nat
  BY LotBounds
<1>2. Lots(b, px, capital, default) = [i \in Legs(b) |-> Lots(b, px, capital, default)[i]]
  BY DEF Lots
<1> QED BY <1>1, <1>2, BasketLegs DEF Sized

LEMMA PlanStill ==
    ASSUME UNCHANGED planVars
    PROVE  /\ (PlanMade' <=> PlanMade) /\ Worth' = Worth /\ Orders' = Orders
           /\ (LotsOK' <=> LotsOK)
           /\ \A k : LegOf(k)' = LegOf(k)
<1>1. args' = args /\ basket' = basket /\ marks' = marks /\ lots' = lots
  BY DEF planVars
<1>2. PlanMade' <=> PlanMade
  BY <1>1 DEF PlanMade, Planned
<1>3. Worth' = Worth
  BY <1>1 DEF Worth
<1>4. Orders' = Orders /\ (LotsOK' <=> LotsOK)
  BY <1>1 DEF Orders, LotsOK
<1>5. \A k : LegOf(k)' = LegOf(k)
  BY <1>1 DEF LegOf
<1> QED BY <1>2, <1>3, <1>4, <1>5

\* A run that rests keeps everything, whatever prices do.
LEMMA RunRests ==
    ASSUME RunInv, UNCHANGED runVars, price' \in Prices
    PROVE  RunInv'
<1>1. /\ UNCHANGED planVars /\ pc' = pc /\ exitCode' = exitCode /\ results' = results
      /\ accepted' = accepted /\ spent' = spent
  BY DEF runVars, outcomeVars
<1>2. args' = args /\ basket' = basket /\ lots' = lots
  BY <1>1 DEF planVars
<1>3. RunTypes'
  BY <1>1, <1>2, PlanStill DEF RunInv, RunTypes
<1>4. PlanKept' /\ NothingSent' /\ CleanExitMeansAccepted'
  BY <1>1, <1>2, PlanStill DEF RunInv, PlanKept, NothingSent, CleanExitMeansAccepted
<1>5. SentInOrder'
  BY <1>1, <1>2, PlanStill DEF RunInv, SentInOrder
<1>6. PaidWithin'
  BY <1>1, PlanStill DEF RunInv, PaidWithin
<1> QED BY <1>3, <1>4, <1>5, <1>6 DEF RunInv

\* Before the first order nothing has been paid.
LEMMA UnpaidYet ==
    ASSUME RunInv, accepted = {}
    PROVE  spent = 0
<1>1. 2 * SlipDen * spent <= 0 /\ spent \in Nat
  BY TotalEmpty DEF RunInv, PaidWithin, RunTypes
<1>2. PICK d \in Nat \ {0} : d = 2 * SlipDen
  BY Slippage
<1>3. d * spent <= 0
  BY <1>1, <1>2
<1> QED BY <1>1, <1>2, <1>3

\* Nothing paid is within any limit.
LEMMA NothingPaid ==
    ASSUME accepted' = {}, spent' = 0
    PROVE  PaidWithin'
<1>1. Total(Worth', {}) = 0
  BY TotalEmpty
<1>2. 2 * SlipDen * 0 = 0
  BY Slippage
<1> QED BY <1>1, <1>2 DEF PaidWithin

LEMMA StartKeeps ==
    ASSUME FilesInv, RunInv, NEW runArgs \in RunArgs, StartRun(runArgs)
    PROVE  RunInv'
<1>1. /\ pc' = "prices" /\ args' = runArgs /\ basket' = basketFile /\ lots' = <<>>
      /\ results' = <<>> /\ accepted' = {} /\ spent' = 0 /\ exitCode' = Unset /\ price' = price
      /\ basketFile # Unset /\ Loads(basketFile)
  BY DEF StartRun
<1>2. RunTypes'
  <2>1. LotsOK' /\ Orders' = 0
    BY <1>1, EmptyLots, FS_EmptySet DEF LotsOK, Orders
  <2>2. <<>> \in Seq(Outcomes) /\ Len(<<>>) = 0
    BY EmptySeq
  <2>3. IsBasket(basketFile)
    BY <1>1 DEF FilesInv
  <2> QED BY <1>1, <2>1, <2>2, <2>3 DEF RunTypes, RunInv
<1>3. PaidWithin'
  BY <1>1, NothingPaid
<1>4. PlanKept' /\ NothingSent' /\ SentInOrder' /\ CleanExitMeansAccepted'
  BY <1>1 DEF PlanKept, NothingSent, SentInOrder, CleanExitMeansAccepted
<1> QED BY <1>2, <1>3, <1>4 DEF RunInv

LEMMA PlanKeeps ==
    ASSUME RunInv, PlanRun
    PROVE  RunInv'
<1>1. /\ pc = "prices" /\ args' = args /\ basket' = basket /\ results' = results
      /\ accepted' = accepted /\ spent' = spent /\ price' = price
  BY DEF PlanRun, outcomeVars
<1>2. PICK px \in Quotes : Plannable(px) /\ marks' = px /\ lots' = Planned(px)
  BY DEF PlanRun
<1>3. results = <<>> /\ accepted = {} /\ args \in RunArgs /\ IsBasket(basket) /\ price \in Prices
  BY <1>1 DEF RunInv, NothingSent, RunTypes
<1>4. spent = 0
  BY <1>3, UnpaidYet
<1>5. Sized(basket, px, args.capital, args.leverage)
  <2>1. px \in Prices
    BY <1>3 DEF Quotes
  <2>2. args.capital \in Int /\ args.leverage \in Int
    BY <1>3, ExecutionAssumption DEF ExecutionAssumption
  <2> QED BY <1>2, <1>3, <2>1, <2>2 DEF Plannable, Sized
<1>6. PlanMade'
  BY <1>1, <1>2, <1>3, <1>5 DEF PlanMade, Planned, Plannable
<1>7. LotsOK'
  <2>1. Planned(px) \in [Legs(basket) -> Nat] /\ Legs(basket) \in SUBSET Nat
        /\ IsFiniteSet(Legs(basket))
    BY <1>5, SizedLots DEF Planned
  <2>2. DOMAIN lots' = Legs(basket)
    BY <1>2, <2>1
  <2> QED BY <1>2, <2>1, <2>2 DEF LotsOK
<1>8. Orders' \in Nat
  <2>1. Intents(lots') \in SUBSET DOMAIN lots'
    BY DEF Intents
  <2> QED BY <2>1, <1>7, FS_Subset, FS_CardinalityType DEF LotsOK, Orders
<1>9. \/ pc' \in {"submit", "confirm"} /\ exitCode' = exitCode
      \/ ~args.execute /\ pc' = "none" /\ exitCode' = 0
  BY DEF PlanRun, Exit
<1>10. RunTypes'
  <2>1. <<>> \in Seq(Outcomes) /\ Len(<<>>) = 0
    BY EmptySeq
  <2>2. Loads(basket) /\ exitCode \in {Unset, 0, 1, 2}
    BY <1>1 DEF RunInv, RunTypes
  <2> QED BY <1>1, <1>3, <1>4, <1>7, <1>8, <1>9, <2>1, <2>2 DEF RunTypes
<1>11. PaidWithin'
  BY <1>1, <1>3, <1>4, NothingPaid
<1>12. PlanKept' /\ NothingSent'
  BY <1>1, <1>3, <1>6 DEF PlanKept, NothingSent
<1>13. SentInOrder' /\ CleanExitMeansAccepted'
  BY <1>1, <1>9 DEF SentInOrder, CleanExitMeansAccepted
<1> QED BY <1>10, <1>11, <1>12, <1>13 DEF RunInv

\* Steps that only move on, or end the run before an order
LEMMA MovesKeep ==
    ASSUME RunInv, PlanFails \/ Submit \/ \E reply \in {"yes", "no"} : Confirm(reply)
    PROVE  RunInv'
<1>1. /\ UNCHANGED planVars /\ results' = results /\ accepted' = accepted /\ spent' = spent
      /\ price' = price
  BY DEF PlanFails, Submit, Confirm, outcomeVars
<1>2. args' = args /\ basket' = basket /\ lots' = lots
  BY <1>1 DEF planVars
<1>3. pc \in {"prices", "confirm", "submit"}
  BY DEF PlanFails, Submit, Confirm
<1>4. \/ pc' = "none" /\ exitCode' \in {1, 2}
      \/ pc \in {"confirm", "submit"} /\ pc' \in {"submit", "legs"} /\ exitCode' = exitCode
  BY DEF PlanFails, Submit, Confirm, Exit
<1>5. results = <<>> /\ accepted = {}
  BY <1>3 DEF RunInv, NothingSent
<1>6. RunTypes'
  <2>1. RunTypes
    BY DEF RunInv
  <2>2. exitCode' \in {Unset, 0, 1, 2} /\ pc' \in {"none", "prices", "confirm", "submit", "legs"}
        /\ pc # "none"
    BY <1>3, <1>4, <2>1 DEF RunTypes
  <2> QED BY <1>1, <1>2, <2>1, <2>2, PlanStill DEF RunTypes
<1>7. PlanKept' /\ NothingSent'
  BY <1>1, <1>4, <1>5, PlanStill DEF RunInv, PlanKept, NothingSent
<1>8. SentInOrder'
  <2>1. Len(results') = 0
    BY <1>1, <1>5, EmptySeq
  <2> QED BY <1>1, <1>5, <2>1 DEF SentInOrder
<1>9. PaidWithin'
  BY <1>1, PlanStill DEF RunInv, PaidWithin
<1>10. CleanExitMeansAccepted'
  BY <1>4 DEF CleanExitMeansAccepted
<1> QED BY <1>6, <1>7, <1>8, <1>9, <1>10 DEF RunInv

\* The next leg is one of the plan, which the exchange has not had yet.
LEMMA NextLeg ==
    ASSUME RunInv, pc = "legs", Len(results) < Orders
    PROVE  /\ PlanMade /\ Len(results) \in Nat /\ Len(results) + 1 \in 1 .. Orders
           /\ LegOf(Len(results) + 1) \in Intents(lots)
           /\ LegOf(Len(results) + 1) \in Legs(basket)
           /\ LegOf(Len(results) + 1) \in DOMAIN lots
           /\ LegOf(Len(results) + 1) \notin accepted
<1>1. PlanMade
  BY DEF RunInv, PlanKept
<1>2. LotsOK /\ DOMAIN lots = Legs(basket)
  BY <1>1, PlanTypes
<1>3. results \in Seq(Outcomes)
  BY DEF RunInv, RunTypes
<1>4. Len(results) \in Nat /\ Orders \in Nat
  BY <1>2, <1>3, IntentsFinite, LenProperties
<1>5. PICK n \in Nat : n = Len(results)
  BY <1>4
<1>6. n + 1 \in 1 .. Orders /\ \A k \in 1 .. n : k \in 1 .. Orders /\ k # n + 1
  BY <1>4, <1>5
<1>7. LegOf(n + 1) \in Intents(lots) /\ Intents(lots) \subseteq DOMAIN lots
  BY <1>2, <1>6, LegsInOrder, IntentsFinite
<1>8. \A k \in 1 .. n : LegOf(k) # LegOf(n + 1)
  BY <1>2, <1>6, LegsInOrder
<1>9. accepted \subseteq {LegOf(k) : k \in 1 .. n}
  BY <1>5 DEF RunInv, SentInOrder
<1> QED BY <1>1, <1>2, <1>5, <1>6, <1>7, <1>8, <1>9

\* An order that the exchange takes costs no more than its leg at the limit.
LEMMA TakePays ==
    ASSUME RunInv, pc = "legs", Len(results) < Orders, UNCHANGED planVars,
           NEW leg, leg = LegOf(Len(results) + 1),
           NEW answer \in Answers, NEW took \in BOOLEAN, NEW filled \in 0 .. lots[leg],
           MayAnswer(answer, took, filled, basket.assets[leg].coin, lots[leg]),
           Take(leg, took, filled)
    PROVE  /\ accepted' = IF took THEN accepted \cup {leg} ELSE accepted
           /\ accepted' \subseteq DOMAIN lots
           /\ spent' \in Nat
           /\ PaidWithin'
<1>1. /\ PlanMade /\ leg \in Legs(basket) /\ leg \in DOMAIN lots /\ leg \notin accepted
  BY NextLeg
<1>2. /\ lots[leg] \in Nat /\ basket.assets[leg].coin \in Coins
      /\ IsFiniteSet(Legs(basket)) /\ DOMAIN lots = Legs(basket)
      /\ \A i \in Legs(basket) : Worth[i] \in Nat
  BY <1>1, PlanTypes DEF LotsOK
<1>3. price[basket.assets[leg].coin] \in Nat
  BY <1>2, PricesPositive DEF RunInv, RunTypes
<1>4. filled > 0 => took /\ price[basket.assets[leg].coin] <= Limit(basket.assets[leg].coin)
  BY DEF MayAnswer
<1>5. PICK cost : cost = filled * price[basket.assets[leg].coin]
  OBVIOUS
<1>6. cost \in Nat /\ 2 * SlipDen * cost <= Worth[leg]
  BY <1>1, <1>3, <1>4, <1>5, FillWithinWorth
<1>7. /\ accepted' = IF took THEN accepted \cup {leg} ELSE accepted
      /\ spent' = spent + cost
  BY <1>5 DEF Take
<1>8. /\ accepted \subseteq DOMAIN lots /\ spent \in Nat
      /\ 2 * SlipDen * spent <= Total(Worth, accepted)
  BY DEF RunInv, RunTypes, PaidWithin
<1>9. PICK d \in Nat : d = 2 * SlipDen
  BY Slippage
<1>10. d * (spent + cost) = d * spent + d * cost /\ d * spent \in Nat /\ d * cost \in Nat
  BY <1>6, <1>8, TimesNat
<1>11. IsFiniteSet(accepted)
  BY <1>2, <1>8, FS_Subset
<1>12. d * spent' <= Total(Worth, accepted')
  <2>1. CASE took
    <3>1. IsFiniteSet({leg}) /\ accepted \cap {leg} = {} /\ accepted' = accepted \cup {leg}
      BY <1>1, <1>7, <2>1, FS_Singleton
    <3>2. \A i \in accepted \cup {leg} : Worth[i] \in Nat
      BY <1>1, <1>2, <1>8
    <3>3. /\ Total(Worth, accepted) \in Nat
          /\ Total(Worth, accepted \cup {leg}) = Total(Worth, accepted) + Total(Worth, {leg})
      BY <1>11, <3>1, <3>2, TotalUnion
    <3>4. Total(Worth, {leg}) = Worth[leg]
      <4>1. Total(Worth, {leg} \ {leg}) = 0
        <5>1. {leg} \ {leg} = {}
          OBVIOUS
        <5> QED BY <5>1, TotalEmpty
      <4>2. Total(Worth, {leg}) = Total(Worth, {leg} \ {leg}) + Worth[leg]
        BY <3>1, <3>2, TotalSplit
      <4> QED BY <4>1, <4>2, <3>2
    <3>5. Worth[leg] \in Nat
      BY <1>1, <1>2
    <3>6. PICK t \in Nat, w \in Nat : t = Total(Worth, accepted) /\ w = Worth[leg]
      BY <3>3, <3>5
    <3>7. Total(Worth, accepted') = t + w
      BY <3>1, <3>3, <3>4, <3>6
    <3>8. d * spent <= t /\ d * cost <= w
      BY <1>6, <1>8, <1>9, <3>6
    <3>9. d * spent' = d * spent + d * cost
      BY <1>7, <1>10
    <3> QED BY <1>10, <3>7, <3>8, <3>9
  <2>2. CASE ~took
    <3>1. filled = 0
      BY <1>2, <1>4, <2>2
    <3>2. cost = 0
      BY <1>3, <1>5, <3>1
    <3>3. spent' = spent /\ accepted' = accepted
      BY <1>7, <1>8, <2>2, <3>2
    <3> QED BY <1>8, <1>9, <3>3
  <2> QED BY <2>1, <2>2
<1>13. PaidWithin'
  BY <1>9, <1>12, PlanStill DEF PaidWithin
<1>14. accepted' \subseteq DOMAIN lots
  BY <1>1, <1>7, <1>8
<1>15. spent' \in Nat
  BY <1>6, <1>7, <1>8
<1> QED BY <1>7, <1>13, <1>14, <1>15

LEMMA AnswerKinds ==
    ASSUME NEW answer \in Answers
    PROVE  /\ Interpret(answer) \in Outcomes
           /\ Interpret(answer).accepted => answer \in {"filled", "resting"}
<1> DEFINE state == CASE answer \in {"filled", "resting"} -> answer
                 [] answer = "error" -> "rejected"
                 [] answer = "err" -> "error"
                 [] answer = "malformed" -> "unknown"
<1>1. state \in {"filled", "resting", "rejected", "error", "unknown"}
  BY DEF Answers
<1>2. (answer \in {"filled", "resting"}) \in BOOLEAN
  BY DEF Answers
<1>3. Interpret(answer) = [accepted |-> answer \in {"filled", "resting"}, state |-> state]
  BY Zenon DEF Interpret
<1> HIDE DEF state
<1>4. PICK b \in BOOLEAN, s \in {"filled", "resting", "rejected", "error", "unknown"} :
       Interpret(answer) = [accepted |-> b, state |-> s] /\ (b => answer \in {"filled", "resting"})
  BY <1>1, <1>2, <1>3, Zenon
<1>5. [accepted |-> b, state |-> s] \in Outcomes
  BY DEF Outcomes
<1>6. [accepted |-> b, state |-> s].accepted = b
  BY Zenon
<1>7. Interpret(answer).accepted = b
  BY <1>4, <1>6, Zenon
<1> QED BY <1>4, <1>5, <1>7, Zenon

LEMMA SendKeeps ==
    ASSUME RunInv, SendLeg
    PROVE  RunInv'
<1>1. /\ pc = "legs" /\ Len(results) < Orders /\ UNCHANGED planVars
      /\ pc' = pc /\ exitCode' = exitCode /\ price' = price
  BY DEF SendLeg, Orders
<1>2. args' = args /\ basket' = basket /\ lots' = lots
  BY <1>1 DEF planVars
<1>3. PICK leg : leg = LegOf(Len(results) + 1)
  OBVIOUS
<1>4. PICK answer \in Answers, took \in BOOLEAN, filled \in 0 .. lots[leg] :
          /\ MayAnswer(answer, took, filled, basket.assets[leg].coin, lots[leg])
          /\ Take(leg, took, filled)
          /\ results' = Append(results, Interpret(answer))
  BY <1>3 DEF SendLeg
<1>5. /\ accepted' = IF took THEN accepted \cup {leg} ELSE accepted
      /\ accepted' \subseteq DOMAIN lots
      /\ spent' \in Nat
      /\ PaidWithin'
  BY <1>1, <1>3, <1>4, TakePays
<1>6. Interpret(answer) \in Outcomes /\ (Interpret(answer).accepted => took)
  <2>1. answer \in {"filled", "resting"} => took
    BY <1>4 DEF MayAnswer
  <2> QED BY <1>4, <2>1, AnswerKinds
<1>7. results \in Seq(Outcomes)
  BY DEF RunInv, RunTypes
<1>8. PICK n \in Nat : n = Len(results) /\ n + 1 \in 1 .. Orders /\ leg = LegOf(n + 1)
  BY <1>1, <1>3, NextLeg
<1>9. /\ results' \in Seq(Outcomes) /\ Len(results') = n + 1
      /\ \A k \in 1 .. n : results'[k] = results[k]
      /\ results'[n + 1] = Interpret(answer)
  BY <1>4, <1>6, <1>7, <1>8, AppendProperties
<1>10. RunTypes'
  <2>1. RunTypes
    BY DEF RunInv
  <2>2. Len(results') <= Orders
    BY <1>8, <1>9
  <2> QED BY <1>1, <1>2, <1>5, <1>9, <2>1, <2>2, PlanStill DEF RunTypes
<1>11. PlanKept' /\ NothingSent' /\ CleanExitMeansAccepted'
  <2>1. PlanMade'
    BY <1>1, PlanStill, NextLeg
  <2> QED BY <1>1, <2>1 DEF PlanKept, NothingSent, CleanExitMeansAccepted
<1>12. SentInOrder'
  <2>1. /\ accepted \subseteq {LegOf(k) : k \in 1 .. n}
        /\ \A k \in 1 .. n : results[k].accepted => LegOf(k) \in accepted
    BY <1>1, <1>8 DEF RunInv, SentInOrder
  <2>2. \A k \in 1 .. n + 1 : k \in 1 .. n \/ k = n + 1
    OBVIOUS
  <2>3. \A k \in 1 .. n : k \in 1 .. n + 1
    OBVIOUS
  <2>4. n + 1 \in 1 .. n + 1
    OBVIOUS
  <2>5. accepted' \subseteq {LegOf(k) : k \in 1 .. n + 1}
    BY <1>5, <1>8, <2>1, <2>3, <2>4
  <2>6. \A k \in 1 .. n + 1 : results'[k].accepted => LegOf(k) \in accepted'
    <3> SUFFICES ASSUME NEW k \in 1 .. n + 1, results'[k].accepted PROVE LegOf(k) \in accepted'
      OBVIOUS
    <3>1. CASE k \in 1 .. n
      BY <1>5, <1>9, <2>1, <3>1
    <3>2. CASE k = n + 1
      BY <1>5, <1>6, <1>8, <1>9, <3>2
    <3> QED BY <2>2, <3>1, <3>2
  <2>7. \A k : LegOf(k)' = LegOf(k)
    BY <1>1, PlanStill
  <2> QED BY <1>9, <2>5, <2>6, <2>7 DEF SentInOrder
<1> QED BY <1>5, <1>10, <1>11, <1>12 DEF RunInv

LEMMA RaiseKeeps ==
    ASSUME RunInv, LegRaises
    PROVE  RunInv'
<1>1. /\ pc = "legs" /\ Len(results) < Orders /\ UNCHANGED planVars
      /\ pc' = "none" /\ exitCode' = 2 /\ price' = price /\ results' = results
  BY DEF LegRaises, Orders, Exit
<1>2. args' = args /\ basket' = basket /\ lots' = lots
  BY <1>1 DEF planVars
<1>3. PICK leg : leg = LegOf(Len(results) + 1)
  OBVIOUS
<1>4. PICK took \in BOOLEAN, filled \in 0 .. lots[leg] :
          /\ MayAnswer("malformed", took, filled, basket.assets[leg].coin, lots[leg])
          /\ Take(leg, took, filled)
  BY <1>3 DEF LegRaises
<1>5. accepted' \subseteq DOMAIN lots /\ spent' \in Nat /\ PaidWithin'
  <2>1. "malformed" \in Answers
    BY DEF Answers
  <2> QED BY <1>1, <1>3, <1>4, <2>1, TakePays
<1>6. RunTypes'
  <2>1. RunTypes
    BY DEF RunInv
  <2> QED BY <1>1, <1>2, <1>5, <2>1, PlanStill DEF RunTypes
<1>7. PlanKept' /\ NothingSent' /\ SentInOrder' /\ CleanExitMeansAccepted'
  <2>1. PlanMade'
    BY <1>1, PlanStill, NextLeg
  <2> QED BY <1>1, <2>1 DEF PlanKept, NothingSent, SentInOrder, CleanExitMeansAccepted
<1> QED BY <1>5, <1>6, <1>7 DEF RunInv

\* A run that ends well has sent every leg, and each was taken.
LEMMA FinishKeeps ==
    ASSUME RunInv, FinishRun
    PROVE  RunInv'
<1>1. /\ pc = "legs" /\ Len(results) = Orders /\ UNCHANGED planVars
      /\ pc' = "none" /\ price' = price /\ results' = results
      /\ accepted' = accepted /\ spent' = spent
      /\ exitCode' = IF \A k \in DOMAIN results : results[k].accepted THEN 0 ELSE 1
  BY DEF FinishRun, Orders, Exit, outcomeVars
<1>2. args' = args /\ basket' = basket /\ lots' = lots
  BY <1>1 DEF planVars
<1>3. PlanMade /\ LotsOK
  BY <1>1, PlanTypes DEF RunInv, PlanKept
<1>4. ASSUME \A k \in DOMAIN results : results[k].accepted PROVE accepted = Intents(lots)
  <2>1. DOMAIN results = 1 .. Orders
    BY <1>1, LenProperties DEF RunInv, RunTypes
  <2>2. /\ accepted \subseteq {LegOf(k) : k \in 1 .. Orders}
        /\ \A k \in 1 .. Orders : LegOf(k) \in accepted
    BY <1>1, <1>4, <2>1 DEF RunInv, SentInOrder
  <2> QED BY <1>3, <2>2, LegsInOrder
<1>5. RunTypes'
  <2>1. RunTypes
    BY DEF RunInv
  <2> QED BY <1>1, <1>2, <2>1, PlanStill DEF RunTypes
<1>6. PlanKept' /\ NothingSent' /\ SentInOrder'
  BY <1>1, <1>3, PlanStill DEF PlanKept, NothingSent, SentInOrder
<1>7. CleanExitMeansAccepted'
  BY <1>1, <1>2, <1>4 DEF CleanExitMeansAccepted
<1>8. PaidWithin'
  BY <1>1, PlanStill DEF RunInv, PaidWithin
<1> QED BY <1>5, <1>6, <1>7, <1>8 DEF RunInv

LEMMA RunStepKeeps ==
    ASSUME FilesInv, RunInv, [ToolsNext]_toolVars
    PROVE  RunInv'
<1>1. price \in Prices
  BY DEF RunInv, RunTypes
<1>2. CASE (ExchangeStep \/ AdminStep) /\ UNCHANGED <<price, runVars>>
  BY <1>1, <1>2, RunRests
<1>3. CASE RunStep
  BY <1>3, StartKeeps, PlanKeeps, MovesKeep, SendKeeps, RaiseKeeps, FinishKeeps DEF RunStep
<1>4. ASSUME NEW coin \in Coins, NEW p \in LotPrices[coin], MovePrice(coin, p) PROVE RunInv'
  <2>1. price' = [price EXCEPT ![coin] = p] /\ UNCHANGED runVars
    BY <1>4 DEF MovePrice
  <2>2. price' \in Prices
    BY <1>1, <2>1 DEF Prices
  <2> QED BY <2>1, <2>2, RunRests
<1>5. CASE UNCHANGED toolVars
  <2>1. UNCHANGED runVars /\ price' = price
    BY <1>5 DEF toolVars
  <2> QED BY <1>1, <2>1, RunRests
<1> QED BY <1>2, <1>3, <1>4, <1>5 DEF ToolsNext

LEMMA RunInit ==
    ASSUME ToolsInit
    PROVE  RunInv
<1>1. /\ price \in Prices /\ pc = "none" /\ lots = <<>> /\ results = <<>>
      /\ accepted = {} /\ spent = 0 /\ exitCode = Unset
  BY DEF ToolsInit
<1>2. LotsOK /\ Orders = 0
  BY <1>1, EmptyLots, FS_EmptySet DEF LotsOK, Orders
<1>3. <<>> \in Seq(Outcomes) /\ Len(<<>>) = 0
  BY EmptySeq
<1>4. RunTypes
  BY <1>1, <1>2, <1>3 DEF RunTypes
<1>5. exitCode # 0
  BY <1>1, ExecutionAssumption DEF ExecutionAssumption
<1>6. PaidWithin
  <2>1. Total(Worth, {}) = 0 /\ 2 * SlipDen * 0 = 0
    BY TotalEmpty, Slippage
  <2> QED BY <1>1, <2>1 DEF PaidWithin
<1> QED BY <1>1, <1>4, <1>5, <1>6
        DEF RunInv, PlanKept, NothingSent, SentInOrder, CleanExitMeansAccepted

\* Between any two steps the files, the keeper and the run are consistent: ids stand for
\* their coins, what is sent is a plan's, and what was paid is within its worth.
THEOREM ToolsInvariance == ToolsSpec => [](FilesInv /\ RunInv)
<1>1. ToolsInit => FilesInv /\ RunInv
  BY FilesInit, RunInit
<1>2. FilesInv /\ RunInv /\ [ToolsNext]_toolVars => (FilesInv /\ RunInv)'
  BY FilesStep, RunStepKeeps
<1> QED BY <1>1, <1>2, PTL DEF ToolsSpec

\* Every variable of the command lines keeps its type.
THEOREM ToolsTyped == ToolsSpec => []ToolsTypeOK
<1>1. ASSUME FilesInv, RunInv PROVE ToolsTypeOK
  <2>1. pc \in {"confirm", "submit", "legs"} => DOMAIN lots = Legs(basket)
    BY <1>1, PlanTypes DEF RunInv, PlanKept
  <2>2. keeper # Unset => DOMAIN keeper.ids \subseteq Coins
    BY <1>1 DEF FilesInv, KeeperLoaded
  <2> QED BY <1>1, <2>1, <2>2 DEF RunInv, RunTypes, LotsOK, Orders, ToolsTypeOK
<1> QED BY <1>1, ToolsInvariance, PTL

\* Every plan deploys the capital it was given, less what the lots of its legs round off.
THEOREM PlansUseCapital == ToolsSpec => []PlanUsesCapital
<1>1. ASSUME RunInv PROVE PlanUsesCapital
  <2> SUFFICES ASSUME pc \in {"confirm", "submit", "legs"}
               PROVE  /\ Deployed(basket, marks, lots, args.leverage) <= args.capital * LevMultiple
                      /\ args.capital * LevMultiple
                             < Deployed(basket, marks, lots, args.leverage)
                                   + OneLotEach(basket, marks, args.leverage)
    BY DEF PlanUsesCapital
  <2>1. /\ Sized(basket, marks, args.capital, args.leverage)
        /\ lots = Lots(basket, marks, args.capital, args.leverage)
    BY <1>1 DEF RunInv, PlanKept, PlanMade, Planned
  <2> QED BY <2>1, PlanFills
<1> QED BY <1>1, ToolsInvariance, PTL

\* No failure reads as success: an exit code of 0 after sending means that every leg was taken.
THEOREM CleanExitsAccepted == ToolsSpec => []CleanExitMeansAccepted
<1>1. RunInv => CleanExitMeansAccepted
  BY DEF RunInv
<1> QED BY <1>1, ToolsInvariance, PTL

\* Whatever the market does between the confirmation and the last leg, a run spends no more
\* than its limit, the slippage on it and half a tick on each lot.
THEOREM SpendingLimited == ToolsSpec => []SpendWithinLimit
<1>1. ASSUME RunInv PROVE SpendWithinLimit
  <2> SUFFICES ASSUME spent > 0, args.maxNotional # Unset
               PROVE  2 * SlipDen * spent <= 2 * (SlipDen + SlipNum) * args.maxNotional
                                                 + SlipDen * Total(lots, DOMAIN lots)
    BY DEF SpendWithinLimit
  <2>1. spent \in Nat /\ accepted \subseteq DOMAIN lots
    BY <1>1 DEF RunInv, RunTypes
  <2>2. accepted # {}
    BY <1>1, <2>1, UnpaidYet
  <2>3. PlanMade
    BY <1>1, <2>2 DEF RunInv, PlanKept
  <2>4. Gross(basket, marks, lots) <= args.maxNotional /\ args.maxNotional \in Int
    BY <2>3, ExecutionAssumption DEF PlanMade, Safe, ExecutionAssumption
  <2>5. /\ Gross(basket, marks, lots) \in Nat
        /\ Total(lots, DOMAIN lots) \in Nat
        /\ Total(Worth, DOMAIN lots)
               = Gross(basket, marks, lots) * (2 * (SlipDen + SlipNum))
                     + Total(lots, DOMAIN lots) * SlipDen
    BY <2>3, WorthOfPlan
  <2>6. Total(Worth, accepted) \in Nat /\ Total(Worth, accepted) <= Total(Worth, DOMAIN lots)
    <3>1. IsFiniteSet(DOMAIN lots) /\ \A i \in DOMAIN lots : Worth[i] \in Nat
      BY <2>3, PlanTypes DEF LotsOK
    <3> QED BY <2>1, <3>1, TotalMonotone
  <2>7. PICK g \in Nat, l \in Nat, m \in Nat, u \in Nat, d \in Nat :
            /\ g = Gross(basket, marks, lots) /\ l = args.maxNotional
            /\ m = Total(lots, DOMAIN lots) /\ u = 2 * (SlipDen + SlipNum) /\ d = SlipDen
    BY <2>4, <2>5, Slippage
  <2>8. g * u <= l * u /\ l * u = u * l /\ m * d = d * m /\ g * u \in Nat /\ l * u \in Nat
        /\ m * d \in Nat
    BY <2>4, <2>7, MulDivMonotone, TimesNat
  <2>9. 2 * SlipDen * spent <= g * u + m * d
    <3>1. 2 * SlipDen * spent <= Total(Worth, accepted)
      BY <1>1 DEF RunInv, PaidWithin
    <3>2. Total(Worth, DOMAIN lots) = g * u + m * d
      BY <2>5, <2>7
    <3>3. 2 * SlipDen * spent \in Nat
      BY <2>1, Slippage, TimesNat
    <3> QED BY <2>6, <2>8, <3>1, <3>2, <3>3
  <2>10. 2 * SlipDen * spent \in Nat
    BY <2>1, Slippage, TimesNat
  <2> QED BY <2>7, <2>8, <2>9, <2>10
<1> QED BY <1>1, ToolsInvariance, PTL
=============================================================================
