----------------------------- MODULE Allocation -----------------------------
(***************************************************************************)
(* Position sizing: what a basket file means, which files are refused, and *)
(* how capital is split over its assets.  Everything is exact: leverages   *)
(* are whole numbers of 1/LevUnit, a size is a number of lots, a price is  *)
(* that of one lot, and fractions are brought to common multiples.         *)
(*                                                                         *)
(* A basket is [dex, assets, groups], an asset [coin, weight, group,       *)
(* leverage, maxLeverage], and a field that is missing is Unset.           *)
(***************************************************************************)
EXTENDS FixedPoint, Integers, Sequences

CONSTANTS
    Unset,
    MemberMultiple,   \* common multiple of the sizes a group may have
    LevUnit,          \* leverage 1x
    LevMultiple       \* common multiple of the leverages in use

ASSUME AllocationAssumption == {MemberMultiple, LevUnit, LevMultiple} \subseteq Nat \ {0}

Legs(basket) == DOMAIN basket.assets
SumOver(basket, f) == Total(f, Legs(basket))

\* Basket.__post_init__
Loads(basket) ==
    /\ basket.assets # <<>>
    /\ \A i, j \in Legs(basket) :
           basket.assets[i].coin = basket.assets[j].coin => i = j

-----------------------------------------------------------------------------
(***************************************************************************)
(* resolve_weights.                                                        *)
(***************************************************************************)
Grouped(basket) == basket.groups # Unset
Explicit(basket) == \E i \in Legs(basket) : basket.assets[i].weight # Unset
Members(basket, group) == {i \in Legs(basket) : basket.assets[i].group = group}

GroupsResolve(basket) ==
    /\ \A i \in Legs(basket) : basket.assets[i].group \in DOMAIN basket.groups
    /\ \A group \in DOMAIN basket.groups : basket.groups[group] >= 0
    /\ Total(basket.groups, DOMAIN basket.groups) > 0

WeightsResolve(basket) ==
    /\ \A i \in Legs(basket) : basket.assets[i].weight # Unset /\ basket.assets[i].weight >= 0
    /\ \E i \in Legs(basket) : basket.assets[i].weight > 0

\* Files that resolve_weights raises on do not resolve.
Resolves(basket) ==
    IF Grouped(basket) THEN GroupsResolve(basket)
    ELSE Explicit(basket) => WeightsResolve(basket)

\* Relative weight of a leg.  An equal share of a group's weight goes to each of
\* its members; the allocator's formula cancels the common denominator.
Share(basket) ==
    [i \in Legs(basket) |->
        IF Grouped(basket)
        THEN LET group == basket.assets[i].group
             IN  basket.groups[group]
                     * (MemberMultiple \div Cardinality(Members(basket, group)))
        ELSE IF Explicit(basket) THEN basket.assets[i].weight ELSE 1]

-----------------------------------------------------------------------------
(***************************************************************************)
(* build_plan.                                                             *)
(***************************************************************************)
\* lev_for
Leverage(basket, default) ==
    [i \in Legs(basket) |->
        IF basket.assets[i].leverage # Unset THEN basket.assets[i].leverage ELSE default]

LeverageAllowed(basket, default) ==
    \A i \in Legs(basket) :
        /\ Leverage(basket, default)[i] > 0
        /\ basket.assets[i].maxLeverage # Unset =>
               Leverage(basket, default)[i] <= LevUnit * basket.assets[i].maxLeverage

\* 1/leverage, times LevMultiple
MarginRate(basket, default) ==
    [i \in Legs(basket) |-> LevMultiple \div Leverage(basket, default)[i]]

\* Mutant: the gross notional of one leverage for all
DenominatorAtDefault(basket, default) ==
    SumOver(basket, [i \in Legs(basket) |-> Share(basket)[i] * (LevMultiple \div default)])

\* denom: the sum of weight over leverage
Denominator(basket, default) ==
    SumOver(basket, [i \in Legs(basket) |->
                        Share(basket)[i] * MarginRate(basket, default)[i]])

\* What build_plan raises on is not sizable: it divides by the denominator, which is
\* zero when all the weight is that of a group without members.
Sizable(basket, capital, default) ==
    /\ capital > 0 /\ default > 0
    /\ LeverageAllowed(basket, default)
    /\ Denominator(basket, default) > 0

\* round_size of the target notional over the price
Lots(basket, px, capital, default) ==
    LET denominator == Denominator(basket, default)
    IN  [i \in Legs(basket) |->
            (Share(basket)[i] * capital * LevMultiple)
                \div (LevUnit * denominator * px[basket.assets[i].coin])]

\* deployed_margin, times LevMultiple
LegMargin(basket, px, lots, default) ==
    [i \in Legs(basket) |->
        lots[i] * px[basket.assets[i].coin] * LevUnit * MarginRate(basket, default)[i]]
Deployed(basket, px, lots, default) == SumOver(basket, LegMargin(basket, px, lots, default))

\* The margin of one lot of every leg
OneLotEach(basket, px, default) ==
    Deployed(basket, px, [i \in Legs(basket) |-> 1], default)

\* gross_notional of the plan
Gross(basket, px, lots) ==
    SumOver(basket, [i \in Legs(basket) |-> lots[i] * px[basket.assets[i].coin]])

\* plan_to_intents drops the legs that round to nothing; check_safety refuses a plan
\* without legs and one over the limit.
Intents(lots) == {i \in DOMAIN lots : lots[i] > 0}

Safe(basket, px, lots, maxNotional) ==
    /\ Intents(lots) # {}
    /\ maxNotional # Unset => Gross(basket, px, lots) <= maxNotional
=============================================================================
