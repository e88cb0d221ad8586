------------------------------- MODULE MCTools -------------------------------
EXTENDS Execution

CONSTANTS testnet, mainnet, core, xyz, abc, sndk, arm, anna

TwoNetworks == {testnet, mainnet}
TwoDexes == {xyz, abc}
TwoCoins == {sndk, arm}
MCDeployerOf == [dex \in TwoDexes |-> anna]

Item(dex, coin) == [dex |-> dex, coin |-> coin]
NoWeights == <<>>
OneSelection == {<<Item(Unset, sndk)>>, <<Item(Unset, sndk), Item(xyz, arm)>>}
JustEqual == {[weights |-> NoWeights, group |-> NoWeights, groups |-> Unset]}

Asset(coin, weight, group, leverage) ==
    [coin |-> coin, weight |-> weight, group |-> group, leverage |-> leverage, maxLeverage |-> 3]
Hand(assets, groups) == [dex |-> xyz, assets |-> assets, groups |-> groups]
\* By weight; by group, one without members; then four that are refused: a coin
\* twice, a weight missing, a leverage above the coin's maximum, no weight at all
MCHandBaskets ==
    {Hand(<<Asset(sndk, 1, Unset, Unset), Asset(arm, 2, Unset, 4)>>, Unset),
     Hand(<<Asset(sndk, Unset, "a", 3), Asset(arm, Unset, "b", Unset)>>,
          [g \in {"a", "b", "c"} |-> IF g = "a" THEN 2 ELSE 1]),
     Hand(<<Asset(sndk, 1, Unset, Unset), Asset(sndk, 2, Unset, Unset)>>, Unset),
     Hand(<<Asset(sndk, 1, Unset, Unset), Asset(arm, Unset, Unset, Unset)>>, Unset),
     Hand(<<Asset(sndk, 1, Unset, 8)>>, Unset),
     Hand(<<Asset(sndk, Unset, "a", Unset)>>, [g \in {"a", "b"} |-> IF g = "a" THEN 0 ELSE 1])}

Args(execute, yes, live, allow, limit) ==
    [network |-> testnet, execute |-> execute, yes |-> yes, live |-> live,
     allowLiveTx |-> allow, capital |-> 5, leverage |-> 2, maxNotional |-> limit]
\* With a live quote and a confirmation, or from a file without one; a preview
MCRunArgs ==
    {Args(TRUE, FALSE, TRUE, TRUE, 7), Args(TRUE, TRUE, FALSE, TRUE, 7),
     Args(FALSE, FALSE, FALSE, FALSE, Unset)}
OneMoves == [coin \in TwoCoins |-> IF coin = sndk THEN {1, 4} ELSE {1}]

\* Action constraint.  Dexes are deployed before there are markets; abc has none and
\* core one; nothing is listed on mainnet, and one market is delisted at most.  The
\* admin discovers once.  Baskets are written by hand, and dexes named on the command
\* line, only where nothing was discovered.  While a keeper runs, only the exchange
\* changes.  A run starts before there is a deploy config, while xyz is the only dex
\* and before anything is delisted; prices move while it is under way, and it is the
\* last command.
Delisted ==
    {di \in AllDexes \X (1 .. MaxListings) :
        di[2] \in DOMAIN universe[testnet][di[1]] /\ universe[testnet][di[1]][di[2]].isDelisted}

FewListings ==
    /\ perpDexs'[mainnet] = <<>>
    /\ universe'[mainnet][core] = <<>>
    /\ universe'[testnet][abc] = <<>>
    /\ Len(universe'[testnet][core]) <= 1
    /\ perpDexs' # perpDexs => Listings = 0
    /\ Cardinality(Delisted') <= 1

FewCommands ==
    /\ FewListings
    /\ catalog' # catalog => catalog = {} /\ basketFile = Unset
    /\ deployFile' # deployFile => deployFile'.named = {Unset} \/ catalog = {}
    /\ basketFile' \in HandBaskets => catalog = {}
    /\ keeper # Unset => UNCHANGED fileVars
    /\ pc' # "none" => catalog = {} /\ deployFile = Unset /\ perpDexs[testnet] = <<xyz>>
                       /\ universe[testnet][core] = <<>> /\ Delisted = {}
    /\ pc # "none" \/ exitCode # Unset => UNCHANGED listingVars
    /\ pc = "none" => UNCHANGED price
    /\ price[sndk] # 1 /\ pc = "none" => UNCHANGED <<catalog, deployFile>>
=============================================================================
