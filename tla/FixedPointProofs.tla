-------------------------- MODULE FixedPointProofs --------------------------
(***************************************************************************)
(* The laws of FixedPoint.tla: what the two divisions round to, that the   *)
(* exit fee never exceeds what it is taken from, and how a total over      *)
(* accounts changes when one account does.                                 *)
(***************************************************************************)
EXTENDS FixedPoint, Integers, FiniteSetTheorems, FunctionTheorems, TLAPS

-----------------------------------------------------------------------------
\* A multiple of d is at most x exactly when the floor of x/d allows it.
LEMMA DivBounds ==
    ASSUME NEW x \in Nat, NEW d \in Nat \ {0}
    PROVE  /\ x \div d \in Nat
           /\ (x \div d) * d <= x
           /\ x < (x \div d) * d + d
<1>1. /\ x \div d \in Int /\ x % d \in 0 .. (d - 1)
      /\ x = d * (x \div d) + (x % d)
  OBVIOUS
<1>2. x \div d >= 0
  <2>1. SUFFICES ASSUME x \div d <= -1 PROVE FALSE
    BY <1>1
  <2> QED BY <1>1, <2>1
<1> QED BY <1>1, <1>2

LEMMA TimesNat ==
    ASSUME NEW a \in Nat, NEW b \in Nat
    PROVE  a * b \in Nat
OBVIOUS

\* mulDiv rounds down: the result is a natural number and never claims more
\* than a*b/d.
LEMMA MulDivFloor ==
    ASSUME NEW a \in Nat, NEW b \in Nat, NEW d \in Nat \ {0}
    PROVE  /\ MulDiv(a, b, d) \in Nat
           /\ MulDiv(a, b, d) * d <= a * b
<1>1. a * b \in Nat
  BY TimesNat
<1> QED BY <1>1, DivBounds DEF MulDiv

LEMMA MulDivZero ==
    ASSUME NEW a \in Nat, NEW d \in Nat \ {0}
    PROVE  MulDiv(a, 0, d) = 0
<1>1. a * 0 = 0
  OBVIOUS
<1>2. 0 \div d = 0
  OBVIOUS
<1> QED BY <1>1, <1>2 DEF MulDiv

LEMMA MulDivMonotone ==
    ASSUME NEW a \in Nat, NEW b \in Nat, NEW d \in Nat
    PROVE  /\ a <= b => a * d <= b * d
           /\ d # 0 /\ a * d <= b * d => a <= b
OBVIOUS

\* mulDiv gives the greatest natural number whose product does not exceed a*b.
LEMMA MulDivGreatest ==
    ASSUME NEW a \in Nat, NEW b \in Nat, NEW d \in Nat \ {0}, NEW x \in Nat, x * d <= a * b
    PROVE  x <= MulDiv(a, b, d)
<1> DEFINE q == MulDiv(a, b, d)
<1>1. q \in Nat /\ a * b < q * d + d
  <2>1. a * b \in Nat
    BY TimesNat
  <2> QED BY <2>1, DivBounds DEF MulDiv
<1> HIDE DEF q
<1>2. q * d + d = (q + 1) * d /\ q * d \in Nat /\ x * d \in Nat /\ a * b \in Nat
  BY <1>1, TimesNat
<1>3. x < q + 1
  <2>1. SUFFICES ASSUME q + 1 <= x PROVE FALSE
    BY <1>1
  <2>2. (q + 1) * d <= x * d
    BY <1>1, <2>1, MulDivMonotone
  <2> QED BY <1>1, <1>2, <2>2
<1> QED BY <1>1, <1>3 DEF q

\* There and back: what i buys at s per t, sold again at t per s, gives at most i.
LEMMA RoundTrip ==
    ASSUME NEW n \in Nat, NEW i \in Nat, NEW s \in Nat \ {0}, NEW t \in Nat \ {0},
           n <= MulDiv(i, s, t)
    PROVE  MulDiv(n, t, s) <= i
<1> DEFINE q == MulDiv(n, t, s)
           p == MulDiv(i, s, t)
<1>1. q \in Nat /\ q * s <= n * t /\ p \in Nat /\ p * t <= i * s
  BY MulDivFloor
<1> HIDE DEF q, p
<1>2. n * t <= p * t
  BY <1>1, MulDivMonotone DEF p
<1>3. q * s \in Nat /\ n * t \in Nat /\ p * t \in Nat /\ i * s \in Nat
  BY <1>1, TimesNat
<1>4. q * s <= i * s
  BY <1>1, <1>2, <1>3
<1> QED BY <1>1, <1>4, MulDivMonotone DEF q

\* mulDiv with Ceil: the result covers a*b/d, and is the least that does.
LEMMA MulDivCeil ==
    ASSUME NEW a \in Nat, NEW b \in Nat, NEW d \in Nat \ {0}
    PROVE  /\ MulDivUp(a, b, d) \in Nat
           /\ a * b <= MulDivUp(a, b, d) * d
           /\ MulDivUp(a, b, d) * d <= a * b + (d - 1)
<1> DEFINE x == a * b + (d - 1)
<1>1. x \in Nat
  BY TimesNat
<1>2. /\ x \div d \in Nat /\ (x \div d) * d <= x /\ x < (x \div d) * d + d
  BY <1>1, DivBounds
<1>3. MulDivUp(a, b, d) = x \div d
  BY DEF MulDivUp
<1> HIDE DEF x
<1>4. a * b \in Nat /\ (x \div d) * d \in Nat
  BY <1>2, TimesNat
<1> QED BY <1>1, <1>2, <1>3, <1>4 DEF x

\* A share p/d of m, with p at most d, is at most m.
LEMMA MulDivShare ==
    ASSUME NEW m \in Nat, NEW p \in Nat, NEW d \in Nat \ {0}, p <= d
    PROVE  /\ MulDiv(m, p, d) \in Nat
           /\ MulDiv(m, p, d) <= m
<1> DEFINE q == MulDiv(m, p, d)
<1>1. q \in Nat /\ q * d <= m * p
  BY MulDivFloor
<1> HIDE DEF q
<1>2. m * p <= m * d /\ m * p \in Nat /\ m * d \in Nat
  BY TimesNat
<1>3. SUFFICES ASSUME q >= m + 1 PROVE FALSE
  BY <1>1 DEF q
<1>4. q * d >= (m + 1) * d /\ (m + 1) * d = m * d + d /\ q * d \in Nat
  BY <1>1, <1>3, TimesNat
<1> QED BY <1>1, <1>2, <1>4

\* The exit fee contained in a gross amount is at most that amount, so the
\* subtraction in previewRedeem and fulfillRedeem cannot underflow.
LEMMA FeeOnTotalBound ==
    ASSUME NEW a \in Nat, NEW f \in Nat, NEW bps \in Nat \ {0}
    PROVE  FeeOnTotal(a, f, bps) \in 0 .. a
<1> DEFINE d == f + bps
           q == MulDivUp(a, f, d)
<1>1. d \in Nat \ {0}
  OBVIOUS
<1>2. q \in Nat /\ q * d <= a * f + (d - 1)
  BY <1>1, MulDivCeil
<1>3. a * f + (d - 1) < (a + 1) * d
  <2>1. (a + 1) * d = a * f + a * bps + d
    OBVIOUS
  <2>2. a * bps \in Nat /\ a * f \in Nat
    BY TimesNat
  <2> QED BY <2>1, <2>2, <1>1
<1>4. q <= a
  <2> HIDE DEF q, d
  <2>1. SUFFICES ASSUME q >= a + 1 PROVE FALSE
    BY <1>2
  <2>2. q * d >= (a + 1) * d
    BY <1>1, <1>2, <2>1
  <2> QED BY <1>1, <1>2, <1>3, <2>2, TimesNat
<1> QED BY <1>2, <1>4 DEF FeeOnTotal

LEMMA FeeOnRawType ==
    ASSUME NEW a \in Nat, NEW f \in Nat, NEW bps \in Nat \ {0}
    PROVE  FeeOnRaw(a, f, bps) \in Nat
BY MulDivCeil DEF FeeOnRaw

-----------------------------------------------------------------------------
LEMMA TokensFinite ==
    ASSUME NEW S, IsFiniteSet(S), NEW f, \A x \in S : f[x] \in Nat
    PROVE  IsFiniteSet(Tokens(f, S)) /\ Total(f, S) \in Nat
<1> DEFINE g == [x \in S |-> {x} \X (1 .. f[x])]
           T == {{x} \X (1 .. f[x]) : x \in S}
<1>1. g \in Surjection(S, T)
  BY DEF Surjection
<1>2. IsFiniteSet(T)
  BY <1>1, FS_Surjection
<1>3. \A t \in T : IsFiniteSet(t)
  <2>1. SUFFICES ASSUME NEW x \in S PROVE IsFiniteSet({x} \X (1 .. f[x]))
    OBVIOUS
  <2>2. IsFiniteSet({x}) /\ IsFiniteSet(1 .. f[x])
    <3>1. 1 \in Int /\ f[x] \in Int
      OBVIOUS
    <3> QED BY <3>1, FS_Singleton, FS_Interval
  <2> QED BY <2>2, FS_Product
<1>4. IsFiniteSet(UNION T)
  BY <1>2, <1>3, FS_UNION
<1> QED BY <1>4, FS_CardinalityType DEF Tokens, Total

\* Taking one account out of a total takes its entry out.
LEMMA TotalSplit ==
    ASSUME NEW S, IsFiniteSet(S), NEW f, \A x \in S : f[x] \in Nat, NEW a \in S
    PROVE  /\ Total(f, S \ {a}) \in Nat
           /\ Total(f, S) = Total(f, S \ {a}) + f[a]
<1> DEFINE A == {a} \X (1 .. f[a])
           R == Tokens(f, S \ {a})
<1>1. IsFiniteSet(S \ {a})
  BY FS_RemoveElement
<1>2. IsFiniteSet(R) /\ Total(f, S \ {a}) \in Nat
  BY <1>1, TokensFinite
<1>3. IsFiniteSet(A) /\ Cardinality(A) = f[a]
  <2>1. f[a] \in Nat /\ 1 \in Int /\ f[a] \in Int
    OBVIOUS
  <2>2. IsFiniteSet(1 .. f[a]) /\ Cardinality(1 .. f[a]) = f[a]
    BY <2>1, FS_Interval, SMTT(30)
  <2>3. IsFiniteSet({a}) /\ Cardinality({a}) = 1
    BY FS_Singleton
  <2>4. IsFiniteSet(A) /\ Cardinality(A) = Cardinality({a}) * Cardinality(1 .. f[a])
    BY <2>2, <2>3, FS_Product
  <2> QED BY <2>1, <2>2, <2>3, <2>4
<1>4. Tokens(f, S) = R \cup A
  BY DEF Tokens
<1>5. R \cap A = {}
  BY DEF Tokens
<1>6. Cardinality(R \cup A) = Cardinality(R) + Cardinality(A) - Cardinality(R \cap A)
  BY <1>2, <1>3, FS_Union
<1>7. Cardinality(R \cap A) = 0
  BY <1>5, FS_EmptySet
<1> QED BY <1>2, <1>3, <1>4, <1>6, <1>7 DEF Total

\* Totals of disjoint parts add up.
LEMMA TotalUnion ==
    ASSUME NEW A, NEW B, IsFiniteSet(A), IsFiniteSet(B), A \cap B = {},
           NEW f, \A x \in A \cup B : f[x] \in Nat
    PROVE  /\ Total(f, A) \in Nat /\ Total(f, B) \in Nat
           /\ Total(f, A \cup B) = Total(f, A) + Total(f, B)
<1>1. /\ IsFiniteSet(Tokens(f, A)) /\ Total(f, A) \in Nat
      /\ IsFiniteSet(Tokens(f, B)) /\ Total(f, B) \in Nat
  BY TokensFinite
<1>2. Tokens(f, A \cup B) = Tokens(f, A) \cup Tokens(f, B)
  BY DEF Tokens
<1>3. Tokens(f, A) \cap Tokens(f, B) = {}
  BY DEF Tokens
<1>4. Cardinality(Tokens(f, A) \cap Tokens(f, B)) = 0
  BY <1>3, FS_EmptySet
<1>5. Cardinality(Tokens(f, A) \cup Tokens(f, B))
          = Cardinality(Tokens(f, A)) + Cardinality(Tokens(f, B))
                - Cardinality(Tokens(f, A) \cap Tokens(f, B))
  BY <1>1, FS_Union
<1>6. Total(f, A \cup B) = Total(f, A) + Total(f, B)
                                - Cardinality(Tokens(f, A) \cap Tokens(f, B))
  BY <1>2, <1>5 DEF Total
<1>7. Total(f, A) \in Nat /\ Total(f, B) \in Nat
  BY <1>1
<1> QED BY <1>4, <1>6, <1>7

\* A total does not depend on where its entries are numbered from.
LEMMA TotalShift ==
    ASSUME NEW m \in Nat, NEW n \in Nat, NEW f, NEW g,
           \A j \in 1 .. n : f[j] \in Nat /\ g[m + j] = f[j]
    PROVE  Total(g, (m + 1) .. (m + n)) = Total(f, 1 .. n)
<1> DEFINE S == Tokens(f, 1 .. n)
           T == Tokens(g, (m + 1) .. (m + n))
           h == [t \in S |-> <<m + t[1], t[2]>>]
<1>1. \A t : t \in S <=> \E j \in 1 .. n : \E k \in 1 .. f[j] : t = <<j, k>>
  BY DEF Tokens
<1>2. \A t : t \in T <=> \E i \in (m + 1) .. (m + n) : \E k \in 1 .. g[i] : t = <<i, k>>
  BY DEF Tokens
<1>3. \A i \in (m + 1) .. (m + n) : i - m \in 1 .. n /\ i = m + (i - m)
  OBVIOUS
<1>4. \A j \in 1 .. n : m + j \in (m + 1) .. (m + n)
  OBVIOUS
<1> HIDE DEF S, T
<1>5. h \in [S -> T]
  <2> SUFFICES ASSUME NEW t \in S PROVE <<m + t[1], t[2]>> \in T
    OBVIOUS
  <2>1. PICK j \in 1 .. n : \E k \in 1 .. f[j] : t = <<j, k>>
    BY <1>1
  <2>a. PICK k \in 1 .. f[j] : t = <<j, k>>
    BY <2>1
  <2>2. m + j \in (m + 1) .. (m + n) /\ k \in 1 .. g[m + j]
    BY <1>4
  <2>3. <<m + t[1], t[2]>> = <<m + j, k>>
    BY <2>a
  <2> QED BY <1>2, <2>2, <2>3
<1>6. \A t, u \in S : h[t] = h[u] => t = u
  <2> SUFFICES ASSUME NEW t \in S, NEW u \in S, h[t] = h[u] PROVE t = u
    OBVIOUS
  <2>1. PICK j \in 1 .. n : \E k \in 1 .. f[j] : t = <<j, k>>
    BY <1>1
  <2>a. PICK k \in 1 .. f[j] : t = <<j, k>>
    BY <2>1
  <2>2. PICK i \in 1 .. n : \E l \in 1 .. f[i] : u = <<i, l>>
    BY <1>1
  <2>b. PICK l \in 1 .. f[i] : u = <<i, l>>
    BY <2>2
  <2>3. <<m + j, k>> = <<m + i, l>>
    BY <2>a, <2>b
  <2>4. m + j = m + i /\ k = l
    BY <2>3
  <2>5. j = i
    BY <2>4
  <2> QED BY <2>a, <2>b, <2>4, <2>5
<1>7. \A u \in T : \E t \in S : h[t] = u
  <2> SUFFICES ASSUME NEW u \in T PROVE \E t \in S : h[t] = u
    OBVIOUS
  <2>1. PICK i \in (m + 1) .. (m + n) : \E k \in 1 .. g[i] : u = <<i, k>>
    BY <1>2
  <2>a. PICK k \in 1 .. g[i] : u = <<i, k>>
    BY <2>1
  <2>2. i - m \in 1 .. n /\ i = m + (i - m)
    BY <1>3
  <2>3. k \in 1 .. f[i - m]
    BY <2>2
  <2>4. <<i - m, k>> \in S
    BY <1>1, <2>2, <2>3
  <2>5. h[<<i - m, k>>] = u
    BY <2>a, <2>2, <2>4
  <2> QED BY <2>4, <2>5
<1>8. ExistsBijection(S, T)
  <2>1. h \in Bijection(S, T)
    <3> HIDE DEF h
    <3> QED BY <1>5, <1>6, <1>7, Fun_IsBij
  <2> QED BY <2>1, Fun_ExistsBij
<1>9. IsFiniteSet(S)
  <2>1. IsFiniteSet(1 .. n)
    <3>1. 1 \in Int /\ n \in Int
      OBVIOUS
    <3> QED BY <3>1, FS_Interval
  <2> QED BY <2>1, TokensFinite DEF S
<1>10. Cardinality(T) = Cardinality(S)
  BY <1>8, <1>9, FS_Bijection
<1> QED BY <1>10 DEF Total, S, T

\* A total depends only on the entries it adds up.
LEMMA TotalCongruence ==
    ASSUME NEW S, NEW f, NEW g, \A x \in S : f[x] = g[x]
    PROVE  Total(f, S) = Total(g, S)
<1>1. Tokens(f, S) = Tokens(g, S)
  BY DEF Tokens
<1> QED BY <1>1 DEF Total

\* More entries, no smaller a total
LEMMA TotalMonotone ==
    ASSUME NEW A, NEW B, A \subseteq B, IsFiniteSet(B), NEW f, \A x \in B : f[x] \in Nat
    PROVE  Total(f, A) \in Nat /\ Total(f, B) \in Nat /\ Total(f, A) <= Total(f, B)
<1>1. IsFiniteSet(A) /\ IsFiniteSet(B \ A)
  BY FS_Subset
<1>2. /\ Total(f, A) \in Nat /\ Total(f, B \ A) \in Nat
      /\ Total(f, A \cup (B \ A)) = Total(f, A) + Total(f, B \ A)
  BY <1>1, TotalUnion
<1>3. A \cup (B \ A) = B
  OBVIOUS
<1>4. PICK m, n : m = Total(f, A) /\ n = Total(f, B \ A)
  OBVIOUS
<1>5. m \in Nat /\ n \in Nat /\ Total(f, B) = m + n
  BY <1>2, <1>3, <1>4, Zenon
<1>6. m + n \in Nat /\ m <= m + n
  BY <1>5
<1> QED BY <1>4, <1>5, <1>6, Zenon

\* No entry exceeds the total.
LEMMA TotalBoundsEntry ==
    ASSUME NEW S, IsFiniteSet(S), NEW f \in [S -> Nat], NEW a \in S
    PROVE  Total(f, S) \in Nat /\ f[a] <= Total(f, S)
<1>1. \A x \in S : f[x] \in Nat
  OBVIOUS
<1>2. Total(f, S \ {a}) \in Nat /\ Total(f, S) = Total(f, S \ {a}) + f[a]
  BY <1>1, TotalSplit
<1> QED BY <1>1, <1>2

\* A total of zeros is zero.
LEMMA TotalZero ==
    ASSUME NEW S
    PROVE  Total([x \in S |-> 0], S) = 0
<1>1. Tokens([x \in S |-> 0], S) = {}
  BY DEF Tokens
<1> QED BY <1>1, FS_EmptySet DEF Total

\* Replacing one entry changes the total by the difference.
LEMMA TotalReplace ==
    ASSUME NEW S, IsFiniteSet(S), NEW f \in [S -> Nat], NEW g \in [S -> Nat],
           NEW a \in S, \A x \in S \ {a} : g[x] = f[x]
    PROVE  Total(g, S) = Total(f, S) - f[a] + g[a]
<1>1. Total(g, S) = Total(g, S \ {a}) + g[a]
  BY TotalSplit
<1>2. Total(f, S) = Total(f, S \ {a}) + f[a] /\ Total(f, S \ {a}) \in Nat
  BY TotalSplit
<1>3. Total(g, S \ {a}) = Total(f, S \ {a})
  BY TotalCongruence
<1> QED BY <1>1, <1>2, <1>3

LEMMA TotalCredit ==
    ASSUME NEW S, IsFiniteSet(S), NEW f \in [S -> Nat], NEW a \in S, NEW n \in Nat
    PROVE  /\ Credit(f, a, n) \in [S -> Nat]
           /\ Total(Credit(f, a, n), S) = Total(f, S) + n
<1> DEFINE g == Credit(f, a, n)
<1>1. g \in [S -> Nat] /\ g[a] = f[a] + n /\ \A x \in S \ {a} : g[x] = f[x]
  BY DEF Credit
<1>2. f[a] \in Nat /\ Total(f, S) \in Nat
  BY TotalBoundsEntry
<1> HIDE DEF g
<1>3. Total(g, S) = Total(f, S) - f[a] + g[a]
  BY <1>1, TotalReplace
<1> QED BY <1>1, <1>2, <1>3 DEF g

\* Crediting one account lowers none.
LEMMA CreditGrows ==
    ASSUME NEW S, NEW f \in [S -> Nat], NEW a \in S, NEW n \in Nat, NEW x \in S
    PROVE  f[x] <= Credit(f, a, n)[x]
BY DEF Credit

LEMMA TotalDebit ==
    ASSUME NEW S, IsFiniteSet(S), NEW f \in [S -> Nat], NEW a \in S,
           NEW n \in Nat, n <= f[a]
    PROVE  /\ Debit(f, a, n) \in [S -> Nat]
           /\ Total(Debit(f, a, n), S) = Total(f, S) - n
<1> DEFINE g == Debit(f, a, n)
<1>1. g \in [S -> Nat] /\ g[a] = f[a] - n /\ \A x \in S \ {a} : g[x] = f[x]
  BY DEF Debit
<1>2. f[a] \in Nat /\ Total(f, S) \in Nat
  BY TotalBoundsEntry
<1> HIDE DEF g
<1>3. Total(g, S) = Total(f, S) - f[a] + g[a]
  BY <1>1, TotalReplace
<1> QED BY <1>1, <1>2, <1>3 DEF g

-----------------------------------------------------------------------------
(* Totals of functions that are related entry by entry.                    *)

LEMMA TokenIs ==
    ASSUME NEW S, NEW f
    PROVE  \A t : t \in Tokens(f, S) <=> \E x \in S : \E k \in 1 .. f[x] : t = <<x, k>>
BY DEF Tokens

\* A total grows with its entries, and strictly if one of them does.
LEMMA TotalPointwise ==
    ASSUME NEW S, IsFiniteSet(S), NEW f, NEW g,
           \A x \in S : f[x] \in Nat /\ g[x] \in Nat /\ f[x] <= g[x]
    PROVE  /\ Total(f, S) \in Nat /\ Total(g, S) \in Nat
           /\ Total(f, S) <= Total(g, S)
           /\ (\E a \in S : f[a] < g[a]) => Total(f, S) < Total(g, S)
<1>1. /\ IsFiniteSet(Tokens(f, S)) /\ Total(f, S) \in Nat
      /\ IsFiniteSet(Tokens(g, S)) /\ Total(g, S) \in Nat
  BY TokensFinite
<1>2. Tokens(f, S) \in SUBSET Tokens(g, S)
  <2> SUFFICES ASSUME NEW t \in Tokens(f, S) PROVE t \in Tokens(g, S)
    OBVIOUS
  <2>1. PICK x \in S : \E k \in 1 .. f[x] : t = <<x, k>>
    BY TokenIs
  <2>2. PICK k \in 1 .. f[x] : t = <<x, k>>
    BY <2>1
  <2>3. k \in 1 .. g[x]
    OBVIOUS
  <2> QED BY <2>2, <2>3, TokenIs
<1>3. /\ Cardinality(Tokens(f, S)) <= Cardinality(Tokens(g, S))
      /\ Cardinality(Tokens(g, S)) = Cardinality(Tokens(f, S)) => Tokens(g, S) = Tokens(f, S)
  BY <1>1, <1>2, FS_Subset
<1>4. ASSUME NEW a \in S, f[a] < g[a] PROVE Tokens(g, S) # Tokens(f, S)
  <2>1. <<a, g[a]>> \in Tokens(g, S)
    <3>1. g[a] \in 1 .. g[a]
      BY <1>4
    <3> QED BY <3>1, TokenIs
  <2>2. <<a, g[a]>> \notin Tokens(f, S)
    <3> SUFFICES ASSUME <<a, g[a]>> \in Tokens(f, S) PROVE FALSE
      OBVIOUS
    <3>1. PICK x \in S : \E k \in 1 .. f[x] : <<a, g[a]>> = <<x, k>>
      BY TokenIs
    <3>2. x = a /\ g[a] \in 1 .. f[a]
      BY <3>1
    <3> QED BY <3>2, <1>4
  <2> QED BY <2>1, <2>2
<1>5. Total(f, S) <= Total(g, S) /\ (Total(f, S) = Total(g, S) => Tokens(g, S) = Tokens(f, S))
  BY <1>3 DEF Total
<1> QED BY <1>1, <1>4, <1>5

\* The total of sums is the sum of the totals.
LEMMA TotalSum ==
    ASSUME NEW S, IsFiniteSet(S), NEW f, NEW g, NEW h,
           \A x \in S : f[x] \in Nat /\ g[x] \in Nat /\ h[x] = f[x] + g[x]
    PROVE  /\ Total(f, S) \in Nat /\ Total(g, S) \in Nat
           /\ Total(h, S) = Total(f, S) + Total(g, S)
<1> DEFINE G == Tokens(g, S)
           e == [t \in G |-> <<t[1], f[t[1]] + t[2]>>]
           R == {e[t] : t \in G}
<1>1. /\ IsFiniteSet(Tokens(f, S)) /\ Total(f, S) \in Nat
      /\ IsFiniteSet(G) /\ Total(g, S) \in Nat
  BY TokensFinite
<1>2. \A t \in G : \E x \in S : \E k \in 1 .. g[x] : t = <<x, k>> /\ e[t] = <<x, f[x] + k>>
  <2> SUFFICES ASSUME NEW t \in G
               PROVE \E x \in S : \E k \in 1 .. g[x] : t = <<x, k>> /\ e[t] = <<x, f[x] + k>>
    OBVIOUS
  <2>1. PICK x \in S : \E k \in 1 .. g[x] : t = <<x, k>>
    BY TokenIs
  <2>2. PICK k \in 1 .. g[x] : t = <<x, k>>
    BY <2>1
  <2>3. e[t] = <<x, f[x] + k>>
    BY <2>2
  <2> QED BY <2>2, <2>3
<1>3. \A x \in S : \A k \in 1 .. g[x] : <<x, k>> \in G /\ e[<<x, k>>] = <<x, f[x] + k>>
  <2> SUFFICES ASSUME NEW x \in S, NEW k \in 1 .. g[x]
               PROVE <<x, k>> \in G /\ e[<<x, k>>] = <<x, f[x] + k>>
    OBVIOUS
  <2>1. <<x, k>> \in G
    BY TokenIs
  <2> QED BY <2>1
<1>4. e \in [G -> R]
  BY DEF R
<1> HIDE DEF e, G
<1>5. \A t, u \in G : e[t] = e[u] => t = u
  <2> SUFFICES ASSUME NEW t \in G, NEW u \in G, e[t] = e[u] PROVE t = u
    OBVIOUS
  <2>1. PICK x \in S : \E k \in 1 .. g[x] : t = <<x, k>> /\ e[t] = <<x, f[x] + k>>
    BY <1>2
  <2>2. PICK k \in 1 .. g[x] : t = <<x, k>> /\ e[t] = <<x, f[x] + k>>
    BY <2>1
  <2>3. PICK y \in S : \E l \in 1 .. g[y] : u = <<y, l>> /\ e[u] = <<y, f[y] + l>>
    BY <1>2
  <2>4. PICK l \in 1 .. g[y] : u = <<y, l>> /\ e[u] = <<y, f[y] + l>>
    BY <2>3
  <2>5. x = y /\ f[x] + k = f[y] + l
    BY <2>2, <2>4
  <2>6. k = l
    BY <2>5
  <2> QED BY <2>2, <2>4, <2>5, <2>6
<1>6. IsFiniteSet(R) /\ Cardinality(R) = Total(g, S)
  <2>1. e \in Bijection(G, R)
    BY <1>4, <1>5, Fun_IsBij DEF R
  <2>2. ExistsBijection(G, R)
    BY <2>1, Fun_ExistsBij
  <2> QED BY <2>2, <1>1, FS_Bijection DEF Total, G
<1>7. Tokens(h, S) = Tokens(f, S) \cup R
  <2>1. ASSUME NEW t \in Tokens(h, S) PROVE t \in Tokens(f, S) \cup R
    <3>1. PICK x \in S : \E k \in 1 .. h[x] : t = <<x, k>>
      BY <2>1, TokenIs
    <3>2. PICK k \in 1 .. h[x] : t = <<x, k>>
      BY <3>1
    <3>3. CASE k <= f[x]
      <4>1. k \in 1 .. f[x]
        BY <3>3
      <4> QED BY <4>1, <3>2, TokenIs
    <3>4. CASE k > f[x]
      <4>1. k - f[x] \in 1 .. g[x] /\ f[x] + (k - f[x]) = k
        BY <3>4
      <4>2. <<x, k - f[x]>> \in G /\ e[<<x, k - f[x]>>] = t
        BY <4>1, <1>3, <3>2
      <4> QED BY <4>2 DEF R
    <3>5. k \in Nat /\ f[x] \in Nat
      OBVIOUS
    <3> QED BY <3>3, <3>4, <3>5
  <2>2. ASSUME NEW t \in Tokens(f, S) PROVE t \in Tokens(h, S)
    <3>1. PICK x \in S : \E k \in 1 .. f[x] : t = <<x, k>>
      BY <2>2, TokenIs
    <3>2. PICK k \in 1 .. f[x] : t = <<x, k>>
      BY <3>1
    <3>3. k \in 1 .. h[x]
      OBVIOUS
    <3> QED BY <3>2, <3>3, TokenIs
  <2>3. ASSUME NEW t \in R PROVE t \in Tokens(h, S)
    <3>1. PICK u \in G : t = e[u]
      BY <2>3 DEF R
    <3>2. PICK x \in S : \E k \in 1 .. g[x] : u = <<x, k>> /\ e[u] = <<x, f[x] + k>>
      BY <1>2
    <3>3. PICK k \in 1 .. g[x] : u = <<x, k>> /\ e[u] = <<x, f[x] + k>>
      BY <3>2
    <3>4. f[x] + k \in 1 .. h[x]
      OBVIOUS
    <3> QED BY <3>1, <3>3, <3>4, TokenIs
  <2> QED BY <2>1, <2>2, <2>3
<1>8. Tokens(f, S) \cap R = {}
  <2> SUFFICES ASSUME NEW t \in Tokens(f, S), t \in R PROVE FALSE
    OBVIOUS
  <2>1. PICK u \in G : t = e[u]
    BY DEF R
  <2>2. PICK x \in S : \E k \in 1 .. g[x] : u = <<x, k>> /\ e[u] = <<x, f[x] + k>>
    BY <1>2
  <2>3. PICK k \in 1 .. g[x] : t = <<x, f[x] + k>>
    BY <2>1, <2>2
  <2>4. PICK y \in S : \E l \in 1 .. f[y] : t = <<y, l>>
    BY TokenIs
  <2>5. x = y /\ f[x] + k \in 1 .. f[x]
    BY <2>3, <2>4
  <2> QED BY <2>5
<1>9. Cardinality(Tokens(f, S) \cup R) = Total(f, S) + Total(g, S)
  <2>1. Cardinality(Tokens(f, S) \cup R)
            = Cardinality(Tokens(f, S)) + Cardinality(R) - Cardinality(Tokens(f, S) \cap R)
    BY <1>1, <1>6, FS_Union
  <2>2. Cardinality(Tokens(f, S) \cap R) = 0
    BY <1>8, FS_EmptySet
  <2>3. Total(f, S) = Cardinality(Tokens(f, S))
    BY DEF Total
  <2> QED BY <2>1, <2>2, <2>3, <1>1, <1>6
<1> QED BY <1>1, <1>7, <1>9 DEF Total

LEMMA DigitsOrder ==
    ASSUME NEW c \in Nat, NEW k \in Nat, NEW l \in Nat, NEW a \in 1 .. c, NEW b \in 1 .. c,
           k * c + a = l * c + b
    PROVE  ~(k < l)
<1> SUFFICES ASSUME k < l PROVE FALSE
  OBVIOUS
<1>1. (k + 1) * c <= l * c
  BY MulDivMonotone
<1>2. (k + 1) * c = k * c + c
  OBVIOUS
<1>3. k * c \in Nat /\ l * c \in Nat
  BY TimesNat
<1> QED BY <1>1, <1>2, <1>3

LEMMA Digits ==
    ASSUME NEW c \in Nat, NEW k \in Nat, NEW l \in Nat, NEW a \in 1 .. c, NEW b \in 1 .. c,
           k * c + a = l * c + b
    PROVE  k = l /\ a = b
<1>1. ~(k < l) /\ ~(l < k)
  BY DigitsOrder
<1>2. k = l
  BY <1>1
<1>3. k * c \in Nat
  BY TimesNat
<1> QED BY <1>2, <1>3

\* The total of multiples is the multiple of the total.
LEMMA TotalScale ==
    ASSUME NEW S, IsFiniteSet(S), NEW f, NEW g, NEW c \in Nat,
           \A x \in S : f[x] \in Nat /\ g[x] = f[x] * c
    PROVE  Total(f, S) \in Nat /\ Total(g, S) = Total(f, S) * c
<1> DEFINE P == Tokens(f, S) \X (1 .. c)
           e == [p \in P |-> <<p[1][1], (p[1][2] - 1) * c + p[2]>>]
<1>1. IsFiniteSet(Tokens(f, S)) /\ Total(f, S) \in Nat
  BY TokensFinite
<1>2. IsFiniteSet(P) /\ Cardinality(P) = Total(f, S) * c
  <2>1. IsFiniteSet(1 .. c) /\ Cardinality(1 .. c) = c
    <3>1. 1 \in Int /\ c \in Int
      OBVIOUS
    <3> QED BY <3>1, FS_Interval, SMTT(30)
  <2> QED BY <1>1, <2>1, FS_Product DEF Total
<1>3. \A p \in P : \E x \in S : \E k \in 1 .. f[x] : \E a \in 1 .. c :
          p = <<<<x, k>>, a>> /\ e[p] = <<x, (k - 1) * c + a>>
  <2> SUFFICES ASSUME NEW p \in P
               PROVE \E x \in S : \E k \in 1 .. f[x] : \E a \in 1 .. c :
                         p = <<<<x, k>>, a>> /\ e[p] = <<x, (k - 1) * c + a>>
    OBVIOUS
  <2>1. PICK t \in Tokens(f, S), a \in 1 .. c : p = <<t, a>>
    OBVIOUS
  <2>2. PICK x \in S : \E k \in 1 .. f[x] : t = <<x, k>>
    BY TokenIs
  <2>3. PICK k \in 1 .. f[x] : t = <<x, k>>
    BY <2>2
  <2>4. e[p] = <<x, (k - 1) * c + a>>
    BY <2>1, <2>3
  <2> QED BY <2>1, <2>3, <2>4
<1>4. \A x \in S : \A k \in 1 .. f[x] : \A a \in 1 .. c :
          <<<<x, k>>, a>> \in P /\ e[<<<<x, k>>, a>>] = <<x, (k - 1) * c + a>>
  <2> SUFFICES ASSUME NEW x \in S, NEW k \in 1 .. f[x], NEW a \in 1 .. c
               PROVE <<<<x, k>>, a>> \in P /\ e[<<<<x, k>>, a>>] = <<x, (k - 1) * c + a>>
    OBVIOUS
  <2>1. <<x, k>> \in Tokens(f, S)
    BY TokenIs
  <2> QED BY <2>1
<1>5. \A k \in Nat \ {0}, a \in 1 .. c, n \in Nat :
          k <= n => (k - 1) * c + a \in 1 .. n * c
  <2> SUFFICES ASSUME NEW k \in Nat \ {0}, NEW a \in 1 .. c, NEW n \in Nat, k <= n
               PROVE (k - 1) * c + a \in 1 .. n * c
    OBVIOUS
  <2>1. k * c <= n * c
    BY MulDivMonotone
  <2>2. (k - 1) * c = k * c - c
    OBVIOUS
  <2>3. k - 1 \in Nat /\ (k - 1) * c \in Nat /\ k * c \in Nat /\ n * c \in Nat
    BY TimesNat
  <2> QED BY <2>1, <2>2, <2>3
<1>6. \A n \in Nat, m \in Nat \ {0} :
          m <= n * c => \E k \in 1 .. n : \E a \in 1 .. c : m = (k - 1) * c + a
  <2> SUFFICES ASSUME NEW n \in Nat, NEW m \in Nat \ {0}, m <= n * c
               PROVE \E k \in 1 .. n : \E a \in 1 .. c : m = (k - 1) * c + a
    OBVIOUS
  <2>1. c # 0
    <3>1. n * 0 = 0
      OBVIOUS
    <3> QED BY <3>1
  <2> DEFINE q == (m - 1) \div c
  <2>2. q \in Nat /\ q * c <= m - 1 /\ m - 1 < q * c + c
    <3>1. m - 1 \in Nat /\ c \in Nat \ {0}
      BY <2>1
    <3> QED BY <3>1, DivBounds
  <2> HIDE DEF q
  <2>3. q < n
    <3> SUFFICES ASSUME n <= q PROVE FALSE
      BY <2>2
    <3>1. n * c <= q * c
      BY <2>2, MulDivMonotone
    <3>2. n * c \in Nat /\ q * c \in Nat
      BY <2>2, TimesNat
    <3> QED BY <2>2, <3>1, <3>2
  <2>4. q + 1 \in 1 .. n /\ (q + 1) - 1 = q
    BY <2>2, <2>3
  <2>5. m - q * c \in 1 .. c /\ m = q * c + (m - q * c)
    <3>1. q * c \in Nat
      BY <2>2, TimesNat
    <3> QED BY <2>2, <3>1
  <2> QED BY <2>4, <2>5
<1> HIDE DEF e, P
<1>7. e \in [P -> Tokens(g, S)]
  <2>1. \A p \in P : e[p] \in Tokens(g, S)
    <3> SUFFICES ASSUME NEW p \in P PROVE e[p] \in Tokens(g, S)
      OBVIOUS
    <3>0. PICK x \in S : \E k \in 1 .. f[x] : \E a \in 1 .. c : e[p] = <<x, (k - 1) * c + a>>
      BY <1>3
    <3>1. PICK k \in 1 .. f[x], a \in 1 .. c : e[p] = <<x, (k - 1) * c + a>>
      BY <3>0
    <3>2. k \in Nat \ {0} /\ k <= f[x] /\ f[x] \in Nat /\ g[x] = f[x] * c
      OBVIOUS
    <3>3. (k - 1) * c + a \in 1 .. g[x]
      BY <3>2, <1>5
    <3> QED BY <3>1, <3>3, TokenIs
  <2>2. e = [p \in P |-> e[p]]
    BY DEF e
  <2> QED BY <2>1, <2>2
<1>8. \A p, r \in P : e[p] = e[r] => p = r
  <2> SUFFICES ASSUME NEW p \in P, NEW r \in P, e[p] = e[r] PROVE p = r
    OBVIOUS
  <2>a. PICK x \in S : \E k \in 1 .. f[x] : \E a \in 1 .. c :
            p = <<<<x, k>>, a>> /\ e[p] = <<x, (k - 1) * c + a>>
    BY <1>3
  <2>b. PICK y \in S : \E l \in 1 .. f[y] : \E b \in 1 .. c :
            r = <<<<y, l>>, b>> /\ e[r] = <<y, (l - 1) * c + b>>
    BY <1>3
  <2>1. PICK k \in 1 .. f[x], a \in 1 .. c :
            p = <<<<x, k>>, a>> /\ e[p] = <<x, (k - 1) * c + a>>
    BY <2>a
  <2>2. PICK l \in 1 .. f[y], b \in 1 .. c :
            r = <<<<y, l>>, b>> /\ e[r] = <<y, (l - 1) * c + b>>
    BY <2>b
  <2>3. x = y /\ (k - 1) * c + a = (l - 1) * c + b
    BY <2>1, <2>2
  <2>4. k - 1 \in Nat /\ l - 1 \in Nat
    OBVIOUS
  <2>5. k - 1 = l - 1 /\ a = b
    BY <2>3, <2>4, Digits
  <2>6. k = l
    BY <2>5
  <2> QED BY <2>1, <2>2, <2>3, <2>5, <2>6
<1>9. \A t \in Tokens(g, S) : \E p \in P : e[p] = t
  <2> SUFFICES ASSUME NEW t \in Tokens(g, S) PROVE \E p \in P : e[p] = t
    OBVIOUS
  <2>1. PICK x \in S : \E m \in 1 .. g[x] : t = <<x, m>>
    BY TokenIs
  <2>2. PICK m \in 1 .. g[x] : t = <<x, m>>
    BY <2>1
  <2>3. f[x] \in Nat /\ m \in Nat \ {0} /\ m <= f[x] * c
    <3>1. g[x] = f[x] * c /\ f[x] \in Nat /\ f[x] * c \in Nat
      BY TimesNat
    <3> QED BY <3>1
  <2>4. PICK k \in 1 .. f[x], a \in 1 .. c : m = (k - 1) * c + a
    BY <2>3, <1>6
  <2> QED BY <2>2, <2>4, <1>4
<1>10. Cardinality(Tokens(g, S)) = Cardinality(P)
  <2>1. e \in Bijection(P, Tokens(g, S))
    BY <1>7, <1>8, <1>9, Fun_IsBij
  <2>2. ExistsBijection(P, Tokens(g, S))
    BY <2>1, Fun_ExistsBij
  <2> QED BY <2>2, <1>2, FS_Bijection
<1> QED BY <1>1, <1>2, <1>10 DEF Total
=============================================================================
