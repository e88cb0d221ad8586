------------------------------ MODULE MCKeeper ------------------------------
EXTENDS MCVault, Keeper

AnyBridge == 0 .. 8
BothModes == {"preview", "execute"}
Execute == {"execute"}
OpenOne == {<<[asset |-> perp1, notional |-> 1, reduceOnly |-> FALSE]>>}

\* Action constraint: one deposit fills the empty vault, and nobody gives shares
\* away to it; the human bridges while Core is empty; while a tick runs holders and
\* the human act once at most; the owner lists the asset before the deposit and then
\* leaves it listed; and calm comes between two ticks
FewDisturbances ==
    /\ shares'[vault] = totalPendingRedeemShares'
    /\ IF supply = 0 THEN supply' \in {0, 4} ELSE supply' <= supply
    /\ toCore' > toCore => perp + spot + toCore + toEvm = 0 /\ coreQueue = <<>>
    /\ ~alone /\ pc # "asleep"
        => UNCHANGED <<outside, shares, queueVars>> /\ toCore' <= toCore
    /\ \A a \in Assets : allowedAsset[a] => allowedAsset'[a]
    /\ supply' # 0 => \A a \in Assets : allowedAsset'[a]
    /\ calm' # calm => pc = "asleep"
=============================================================================
