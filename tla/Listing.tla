------------------------------- MODULE Listing -------------------------------
(***************************************************************************)
(* From the exchange's markets to the asset ids that the keeper trades.    *)
(* The admin takes a snapshot of the catalog, assembles a basket file from *)
(* it, derives the deploy config from the basket and live data, and starts *)
(* the keeper on both files.  Each command runs whenever the admin wants,  *)
(* against either network, on files that earlier commands left behind,     *)
(* while the exchange lists and delists markets.                           *)
(***************************************************************************)
EXTENDS Allocation

CONSTANTS
    Networks,         \* testnet and mainnet
    Core, Dexes,      \* the core perp dex, "" in the code, and the builder dexes
    Coins,
    DeployerOf,       \* the address that deployed each builder dex
    AssetIdBase, DexBlock,    \* HIP3_BASE, HIP3_DEX_BLOCK
    Selections,       \* what the admin may pass as --select
    Weightings,       \* --weights, --group and --group-weights
    HandBaskets,      \* baskets written by hand
    MaxLeverage,      \* the exchange's limit on every market
    MaxListings       \* bound on what the exchange lists

AllDexes == Dexes \cup {Core}

ASSUME ListingAssumption ==
    /\ Core \notin Dexes
    /\ Unset \notin AllDexes
    /\ \A dex \in Dexes : DeployerOf[dex] # Unset
    /\ {AssetIdBase, DexBlock} \subseteq Nat \ {0}
    /\ MaxListings \in Nat

VARIABLES
    perpDexs,     \* builder dexes of each network, in order of deployment
    universe,     \* markets of each dex, in order of listing
    catalog,      \* the snapshot file, a set of markets
    basketFile,   \* config/sandick.basket.json
    deployFile,   \* config/deploy.json
                  \* (`named`, auxiliary: what its command line named)
    keeper        \* what the running keeper loaded

exchangeVars == <<perpDexs, universe>>
fileVars == <<catalog, basketFile, deployFile>>
listingVars == <<exchangeVars, fileVars, keeper>>

-----------------------------------------------------------------------------
(***************************************************************************)
(* The exchange.  It only ever appends, and a delisted market keeps its    *)
(* place.                                                                  *)
(***************************************************************************)
Names(net, dex) == [i \in DOMAIN universe[net][dex] |-> universe[net][dex][i].coin]
Listed(net, dex) == {Names(net, dex)[i] : i \in DOMAIN universe[net][dex]}
Listings == Total([nd \in Networks \X AllDexes |-> Len(universe[nd[1]][nd[2]])],
                  Networks \X AllDexes)

DeployDex(net, dex) ==
    /\ \A i \in DOMAIN perpDexs[net] : perpDexs[net][i] # dex
    /\ perpDexs' = [perpDexs EXCEPT ![net] = Append(@, dex)]
    /\ UNCHANGED <<universe, fileVars, keeper>>

ListCoin(net, dex, coin) ==
    /\ dex = Core \/ \E i \in DOMAIN perpDexs[net] : perpDexs[net][i] = dex
    /\ coin \notin Listed(net, dex)
    /\ Listings < MaxListings    \* bound
    /\ universe' =
           [universe EXCEPT ![net][dex] = Append(@, [coin |-> coin, isDelisted |-> FALSE])]
    /\ UNCHANGED <<perpDexs, fileVars, keeper>>

Delist(net, dex, i) ==
    /\ ~universe[net][dex][i].isDelisted
    /\ universe' = [universe EXCEPT ![net][dex][i].isDelisted = TRUE]
    /\ UNCHANGED <<perpDexs, fileVars, keeper>>

\* The market that an asset id stands for
Market(net, id) ==
    LET dexIndex == (id - AssetIdBase) \div DexBlock
        index == (id - AssetIdBase) % DexBlock
    IN  IF dexIndex \in DOMAIN perpDexs[net]
           /\ index + 1 \in DOMAIN universe[net][perpDexs[net][dexIndex]]
        THEN [dex |-> perpDexs[net][dexIndex],
              coin |-> Names(net, perpDexs[net][dexIndex])[index + 1]]
        ELSE [dex |-> Unset, coin |-> Unset]

-----------------------------------------------------------------------------
(***************************************************************************)
(* Discovery and baskets.                                                  *)
(***************************************************************************)
\* parse_meta_universe skips delisted markets.
Alive(net, dex) ==
    {universe[net][dex][i].coin :
        i \in {j \in DOMAIN universe[net][dex] : ~universe[net][dex][j].isDelisted}}

\* discover_assets
Discovered(net) ==
    UNION {{[dex |-> dex, coin |-> coin] : coin \in Alive(net, dex)} : dex \in AllDexes}

Discover(net) ==
    /\ catalog' = Discovered(net)
    /\ UNCHANGED <<exchangeVars, basketFile, deployFile, keeper>>

\* resolve_selection: an item is a coin, or a coin with its dex.  Of several dexes
\* the hint decides, and the command always passes one.
Matches(assets, item, dexHint) ==
    LET named == {a \in assets : a.coin = item.coin}
    IN  IF item.dex # Unset THEN {a \in named : a.dex = item.dex}
        ELSE IF Cardinality(named) > 1 THEN {a \in named : a.dex = dexHint}
        ELSE named

\* basket_dict_from_assets: the basket trades on the hint's dex, wherever the
\* selected assets were found.
Assembled(selection, dexHint, weighting) ==
    [dex |-> dexHint,
     assets |->
        [i \in DOMAIN selection |->
            LET coin == selection[i].coin
            IN  [coin |-> coin,
                 weight |-> IF coin \in DOMAIN weighting.weights
                            THEN weighting.weights[coin] ELSE Unset,
                 group |-> IF coin \in DOMAIN weighting.group
                           THEN weighting.group[coin] ELSE Unset,
                 leverage |-> Unset,
                 maxLeverage |-> MaxLeverage]],
     groups |-> weighting.groups]

\* Basket.from_dict makes numbers of the file's weights and leverages.
IsBasket(basket) ==
    /\ Len(basket.assets) \in Nat /\ Legs(basket) = 1 .. Len(basket.assets)
    /\ \A i \in Legs(basket) :
           LET asset == basket.assets[i]
           IN  /\ asset.coin \in Coins
               /\ {asset.weight, asset.leverage, asset.maxLeverage} \subseteq Int \cup {Unset}
    /\ Grouped(basket) =>
           /\ IsFiniteSet(DOMAIN basket.groups)
           /\ \A group \in DOMAIN basket.groups : basket.groups[group] \in Int

ASSUME BasketAssumption ==
    /\ \A hand \in HandBaskets : IsBasket(hand)
    /\ \A selection \in Selections, dexHint \in AllDexes, weighting \in Weightings :
           IsBasket(Assembled(selection, dexHint, weighting))

\* build-basket, from the snapshot or from live data
BuildBasket(assets, selection, dexHint, weighting) ==
    /\ \A i \in DOMAIN selection : Matches(assets, selection[i], dexHint) # {}
    /\ basketFile' = Assembled(selection, dexHint, weighting)
    /\ UNCHANGED <<exchangeVars, catalog, deployFile, keeper>>

EditBasket(basket) ==
    /\ basketFile' = basket
    /\ UNCHANGED <<exchangeVars, catalog, deployFile, keeper>>

-----------------------------------------------------------------------------
(***************************************************************************)
(* The deploy config.                                                      *)
(***************************************************************************)
\* find_perp_dex_index: the first dex that has the name or the deployer asked for
DexIndexes(net, name, deployer) ==
    {i \in DOMAIN perpDexs[net] :
        perpDexs[net][i] = name \/ DeployerOf[perpDexs[net][i]] = deployer}
FirstOf(S) == CHOOSE i \in S : \A j \in S : i <= j

Position(net, dex, coin) ==
    CHOOSE i \in DOMAIN universe[net][dex] : universe[net][dex][i].coin = coin

\* Mutant: positions are counted over live markets only
IndexAmongAlive(net, dex, coin) ==
    Cardinality({i \in 1 .. Position(net, dex, coin) - 1 : ~universe[net][dex][i].isDelisted})

\* asset_ids_for: position in the universe, from 0, delisted markets included
IndexOf(net, dex, coin) == Position(net, dex, coin) - 1

\* hip3_asset_id
AssetId(dexIndex, index) == AssetIdBase + dexIndex * DexBlock + index

\* The dex's position is that of the name or deployer given on the command line; the
\* coins' positions are those on the basket's dex.
BuildDeployConfig(net, dexName, deployer) ==
    LET basket == basketFile
        name == IF dexName # Unset THEN dexName ELSE basket.dex
        dexIndex == FirstOf(DexIndexes(net, name, deployer))
        coins == {basket.assets[i].coin : i \in Legs(basket)}
    IN  /\ basketFile # Unset
        /\ Loads(basket)
        /\ DexIndexes(net, name, deployer) # {}
        /\ coins \subseteq Listed(net, basket.dex)
        /\ \A coin \in coins : IndexOf(net, basket.dex, coin) < DexBlock
        /\ deployFile' =
               [network |-> net, dex |-> basket.dex, named |-> {dexName, deployer},
                ids |-> [coin \in coins |-> AssetId(dexIndex, IndexOf(net, basket.dex, coin))]]
        /\ UNCHANGED <<exchangeVars, catalog, basketFile, keeper>>

\* keeper_cli: both files load and every coin has an id, or the command exits with 2.
\* Neither the config's network nor its dex is looked at.
StartKeeper(net) ==
    LET coins == {basketFile.assets[i].coin : i \in Legs(basketFile)}
    IN  /\ basketFile # Unset /\ deployFile # Unset
        /\ Loads(basketFile) /\ Resolves(basketFile)
        /\ coins \subseteq DOMAIN deployFile.ids
        /\ keeper' =
               [network |-> net, dex |-> basketFile.dex, deploy |-> deployFile,
                ids |-> [coin \in coins |-> deployFile.ids[coin]]]
        /\ UNCHANGED <<exchangeVars, fileVars>>

StopKeeper ==
    /\ keeper # Unset
    /\ keeper' = Unset
    /\ UNCHANGED <<exchangeVars, fileVars>>
=============================================================================
