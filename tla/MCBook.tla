------------------------------- MODULE MCBook -------------------------------
EXTENDS RebalanceBook

CONSTANTS btc, eth

TwoCoins == {btc, eth}
Even == [coin \in TwoCoins |-> 1]
LongOnly == {1}
BothSides == {1, -1}
OneMoves == [coin \in TwoCoins |-> IF coin = btc THEN {1, 2} ELSE {1}]

\* Action constraint: a position outside the basket or a wind-down comes alone and
\* stays, and prices stand still from then on and while a batch waits to be mined;
\* and calm comes between two ticks
FewDisturbances ==
    /\ ~(stray' /\ windDown')
    /\ stray => stray'
    /\ stray \/ windDown \/ mempool # None => UNCHANGED price
    /\ windDown => windDown'
    /\ calm' # calm => pc = "asleep"
=============================================================================
