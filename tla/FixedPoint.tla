----------------------------- MODULE FixedPoint -----------------------------
(***************************************************************************)
(* Integer arithmetic of the vault: OpenZeppelin's Math.mulDiv with its    *)
(* two roundings, and the exit-fee formulas of BasketVaultBase.sol.        *)
(* Totals over accounts are cardinalities of disjoint unions, so that the  *)
(* laws of sums follow from the laws of finite sets.                       *)
(***************************************************************************)
EXTENDS Naturals, FiniteSets

\* Math.mulDiv(a, b, d): floor of a*b/d
MulDiv(a, b, d) == (a * b) \div d

\* Math.mulDiv(a, b, d, Rounding.Ceil)
MulDivUp(a, b, d) == (a * b + (d - 1)) \div d

\* The fee on top of a net amount, and the fee contained in a gross amount,
\* for a fee of f basis points out of bps.
FeeOnRaw(a, f, bps) == MulDivUp(a, f, bps)
FeeOnTotal(a, f, bps) == MulDivUp(a, f, f + bps)

\* Total(f, S): the sum of f[x] over the x in S
Tokens(f, S) == UNION {{x} \X (1 .. f[x]) : x \in S}
Total(f, S) == Cardinality(Tokens(f, S))

\* f with n more, or n less, at x
Credit(f, x, n) == [f EXCEPT ![x] = @ + n]
Debit(f, x, n) == [f EXCEPT ![x] = @ - n]
=============================================================================
