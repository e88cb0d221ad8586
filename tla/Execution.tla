------------------------------ MODULE Execution ------------------------------
(***************************************************************************)
(* `exec_cli run`, beside the other commands: one process loads the basket *)
(* file, prices it, plans and checks the orders, asks a human, and sends   *)
(* one order per leg to the exchange; meanwhile prices move.  Any call to  *)
(* the exchange may raise, before or after the exchange has acted on it.   *)
(***************************************************************************)
EXTENDS Listing

CONSTANTS
    RunArgs,            \* command lines, with the environment they run in
    LotPrices,          \* prices that a lot of each coin may have
    SlipNum, SlipDen    \* --slippage

ASSUME ExecutionAssumption ==
    /\ SlipNum \in Nat /\ SlipDen \in Nat \ {0}
    /\ LotPrices \in [Coins -> SUBSET (Nat \ {0})]
    /\ Unset \notin Nat
    /\ \A runArgs \in RunArgs :
           /\ {runArgs.capital, runArgs.leverage} \subseteq Int
           /\ runArgs.maxNotional \in Int \cup {Unset}

Prices == {px \in [Coins -> UNION {LotPrices[coin] : coin \in Coins}] :
               \A coin \in Coins : px[coin] \in LotPrices[coin]}

VARIABLES
    price,       \* of one lot of a coin
    pc,          \* where the run stands, "none" when there is none
    args,
    basket,      \* the basket file as loaded
    marks,       \* prices the run planned with
    lots,        \* planned size of each leg
    results,     \* what the exchange said of each leg sent so far
    exitCode,    \* of the last run
    accepted,    \* auxiliary: legs of the last run that the exchange took
    spent        \* auxiliary: what it paid for them

planVars == <<args, basket, marks, lots>>
outcomeVars == <<results, accepted, spent>>
runVars == <<pc, planVars, outcomeVars, exitCode>>
toolVars == <<listingVars, price, runVars>>

\* A response of the exchange to one order, or one that cannot be read
Answers == {"filled", "resting", "error", "err", "malformed"}
Outcomes == [accepted : BOOLEAN, state : {"filled", "resting", "rejected", "error", "unknown"}]

ToolsTypeOK ==
    /\ price \in Prices
    /\ pc \in {"none", "prices", "confirm", "submit", "legs"}
    /\ exitCode \in {Unset, 0, 1, 2}
    /\ lots \in [DOMAIN lots -> Nat]
    /\ pc # "none" => Loads(basket)
    /\ pc \in {"confirm", "submit", "legs"} => DOMAIN lots = Legs(basket)
    /\ results \in Seq(Outcomes)
    /\ Len(results) <= Cardinality(Intents(lots))
    /\ accepted \subseteq DOMAIN lots
    /\ spent \in Nat
    /\ keeper # Unset => DOMAIN keeper.ids \subseteq Coins

ToolsInit ==
    /\ perpDexs = [net \in Networks |-> <<>>]
    /\ universe = [net \in Networks |-> [dex \in AllDexes |-> <<>>]]
    /\ catalog = {}
    /\ basketFile = Unset
    /\ deployFile = Unset
    /\ keeper = Unset
    /\ price \in Prices
    /\ pc = "none"
    /\ args = Unset
    /\ basket = Unset
    /\ marks = Unset
    /\ lots = <<>>
    /\ results = <<>>
    /\ accepted = {}
    /\ spent = 0
    /\ exitCode = Unset

-----------------------------------------------------------------------------
(***************************************************************************)
(* Planning.                                                               *)
(***************************************************************************)
Exit(code) ==
    /\ pc' = "none"
    /\ exitCode' = code

\* A basket that does not load ends the command before it starts.
StartRun(runArgs) ==
    /\ pc = "none"
    /\ basketFile # Unset
    /\ Loads(basketFile)
    /\ pc' = "prices"
    /\ args' = runArgs
    /\ basket' = basketFile
    /\ marks' = Unset
    /\ lots' = <<>>
    /\ results' = <<>> /\ accepted' = {} /\ spent' = 0
    /\ exitCode' = Unset
    /\ UNCHANGED <<listingVars, price>>

BasketCoins == {basket.assets[i].coin : i \in Legs(basket)}

\* fetch_live_prices gives the market's prices, of the coins of the basket's dex; a
\* prices file may hold any.
PricesKnown == args.live => BasketCoins \subseteq Listed(args.network, basket.dex)
Quotes == IF args.live THEN {price} ELSE Prices

Planned(px) == Lots(basket, px, args.capital, args.leverage)

Plannable(px) ==
    /\ PricesKnown
    /\ Resolves(basket)
    /\ Sizable(basket, args.capital, args.leverage)
    /\ Safe(basket, px, Planned(px), args.maxNotional)

\* cmd_run up to the rendering of the intents
PlanRun ==
    /\ pc = "prices"
    /\ \E px \in Quotes :
        /\ Plannable(px)
        /\ marks' = px
        /\ lots' = Planned(px)
    /\ IF args.execute
       THEN pc' = (IF args.yes THEN "submit" ELSE "confirm") /\ UNCHANGED exitCode
       ELSE Exit(0)
    /\ UNCHANGED <<listingVars, price, args, basket, outcomeVars>>

\* Prices cannot be had, or planning or check_safety raises.
PlanFails ==
    /\ pc = "prices"
    /\ args.live \/ \E px \in Quotes : ~Plannable(px)
    /\ Exit(2)
    /\ UNCHANGED <<listingVars, price, planVars, outcomeVars>>

Confirm(reply) ==
    /\ pc = "confirm"
    /\ IF reply = "yes" THEN pc' = "submit" /\ UNCHANGED exitCode ELSE Exit(1)
    /\ UNCHANGED <<listingVars, price, planVars, outcomeVars>>

\* require_tx_allowed: the kill switch in the environment
TxAllowed == args.allowLiveTx

\* submit: the safety check again, then the kill switch, the credentials and the SDK
Submit ==
    /\ pc = "submit"
    /\ \/ TxAllowed /\ pc' = "legs" /\ UNCHANGED exitCode
       \/ Exit(2)
    /\ UNCHANGED <<listingVars, price, planVars, outcomeVars>>

-----------------------------------------------------------------------------
(***************************************************************************)
(* Sending, one leg after another.                                         *)
(***************************************************************************)
\* Mutant: only an explicit error is a failure
AcceptedUnlessError(answer) ==
    [accepted |-> answer \notin {"error", "err"},
     state |-> IF answer \in {"filled", "resting"} THEN answer ELSE "unknown"]

\* Mutant: the state is taken over as answered
StateAsAnswered(answer) ==
    [accepted |-> answer \in {"filled", "resting"}, state |-> answer]

\* interpret_order_result
Interpret(answer) ==
    [accepted |-> answer \in {"filled", "resting"},
     state |-> CASE answer \in {"filled", "resting"} -> answer
                 [] answer = "error" -> "rejected"
                 [] answer = "err" -> "error"
                 [] answer = "malformed" -> "unknown"]

\* Leg of the k-th order sent: the k-th in basket order of those with a size
LegOf(k) ==
    CHOOSE i \in Intents(lots) : Cardinality({j \in Intents(lots) : j <= i}) = k

\* Mutant: the limit follows the market
LimitAtMarket(coin) == (price[coin] * (SlipDen + SlipNum)) \div SlipDen

\* marketable_limit of a buy, at the price the run planned with; ticks are whole, and
\* rounding is to the nearest
Limit(coin) == (2 * marks[coin] * (SlipDen + SlipNum) + SlipDen) \div (2 * SlipDen)

\* The exchange takes an order in full, in part, without a fill, or not at all, and
\* answers so; an answer that cannot be read says nothing.  It fills at the market
\* if the limit allows.
MayAnswer(answer, took, filled, coin, size) ==
    /\ filled > 0 => took /\ price[coin] <= Limit(coin)
    /\ CASE answer = "filled" -> filled > 0
         [] answer = "resting" -> took /\ filled = 0
         [] answer \in {"error", "err"} -> ~took
         [] answer = "malformed" -> TRUE

Take(leg, took, filled) ==
    /\ accepted' = IF took THEN accepted \cup {leg} ELSE accepted
    /\ spent' = spent + filled * price[basket.assets[leg].coin]

SendLeg ==
    /\ pc = "legs"
    /\ Len(results) < Cardinality(Intents(lots))
    /\ LET leg == LegOf(Len(results) + 1)
       IN  \E answer \in Answers, took \in BOOLEAN, filled \in 0 .. lots[leg] :
               /\ MayAnswer(answer, took, filled, basket.assets[leg].coin, lots[leg])
               /\ Take(leg, took, filled)
               /\ results' = Append(results, Interpret(answer))
    /\ UNCHANGED <<listingVars, price, pc, planVars, exitCode>>

\* update_leverage or order raises: the results so far are lost.  The exchange may
\* have the order all the same.
LegRaises ==
    /\ pc = "legs"
    /\ Len(results) < Cardinality(Intents(lots))
    /\ LET leg == LegOf(Len(results) + 1)
       IN  \E took \in BOOLEAN, filled \in 0 .. lots[leg] :
               /\ MayAnswer("malformed", took, filled, basket.assets[leg].coin, lots[leg])
               /\ Take(leg, took, filled)
    /\ Exit(2)
    /\ UNCHANGED <<listingVars, price, planVars, results>>

\* The summary: one leg that is not accepted fails the run.
FinishRun ==
    /\ pc = "legs"
    /\ Len(results) = Cardinality(Intents(lots))
    /\ Exit(IF \A k \in DOMAIN results : results[k].accepted THEN 0 ELSE 1)
    /\ UNCHANGED <<listingVars, price, planVars, outcomeVars>>

-----------------------------------------------------------------------------
MovePrice(coin, p) ==
    /\ price' = [price EXCEPT ![coin] = p]
    /\ UNCHANGED <<listingVars, runVars>>

ExchangeStep ==
    \E net \in Networks :
        \/ \E dex \in Dexes : DeployDex(net, dex)
        \/ \E dex \in AllDexes, coin \in Coins : ListCoin(net, dex, coin)
        \/ \E dex \in AllDexes : \E i \in DOMAIN universe[net][dex] : Delist(net, dex, i)

AdminStep ==
    \/ \E net \in Networks :
        \/ Discover(net)
        \/ \E dexName, deployer \in Dexes \cup {Unset} :
            BuildDeployConfig(net, dexName,
                              IF deployer = Unset THEN Unset ELSE DeployerOf[deployer])
        \/ StartKeeper(net)
    \/ \E selection \in Selections, dexHint \in AllDexes, weighting \in Weightings :
        \/ BuildBasket(catalog, selection, dexHint, weighting)
        \/ \E net \in Networks : BuildBasket(Discovered(net), selection, dexHint, weighting)
    \/ \E hand \in HandBaskets : EditBasket(hand)
    \/ StopKeeper

RunStep ==
    \/ \E runArgs \in RunArgs : StartRun(runArgs)
    \/ PlanRun \/ PlanFails \/ Submit \/ SendLeg \/ LegRaises \/ FinishRun
    \/ \E reply \in {"yes", "no"} : Confirm(reply)

ToolsNext ==
    \/ (ExchangeStep \/ AdminStep) /\ UNCHANGED <<price, runVars>>
    \/ RunStep
    \/ \E coin \in Coins : \E p \in LotPrices[coin] : MovePrice(coin, p)

ToolsSpec == ToolsInit /\ [][ToolsNext]_toolVars

-----------------------------------------------------------------------------
(***************************************************************************)
(* Properties.                                                             *)
(***************************************************************************)
\* The keeper's asset ids stand for the coins of its basket, on its dex, however many
\* markets were listed, delisted or deployed since the config was written and however
\* often the basket was rebuilt: provided the config was made for the same network
\* and dex, and no other dex was named on its command line.  (Nothing checks that.)
IdsDenoteBasket ==
    /\ keeper # Unset
    /\ keeper.deploy.network = keeper.network
    /\ keeper.deploy.dex = keeper.dex
    /\ keeper.deploy.named = {Unset}
    => \A coin \in DOMAIN keeper.ids :
           Market(keeper.network, keeper.ids[coin]) = [dex |-> keeper.dex, coin |-> coin]

\* allocator.py: the margins of a plan add up to the capital, short of it by less than
\* one lot of each leg, whatever mix of weights, groups and leverages the file has.
PlanUsesCapital ==
    pc \in {"confirm", "submit", "legs"} =>
        LET deployed == Deployed(basket, marks, lots, args.leverage)
        IN  /\ deployed <= args.capital * LevMultiple
            /\ args.capital * LevMultiple
                   < deployed + OneLotEach(basket, marks, args.leverage)

\* execute.py: a silent failure can never read as success.  A run that sends orders
\* and exits with 0 has had every leg of its plan accepted by the exchange.
CleanExitMeansAccepted ==
    pc = "none" /\ exitCode = 0 /\ args.execute => accepted = Intents(lots)

\* What a run pays for a long basket is no more than its notional limit and the slippage
\* on it, up to the rounding of ticks, although prices move while a human is asked and
\* between legs.  (A sell has no highest price, so that no such bound holds of it.)
SpendWithinLimit ==
    spent > 0 /\ args.maxNotional # Unset =>
        2 * SlipDen * spent <= 2 * (SlipDen + SlipNum) * args.maxNotional
                                   + SlipDen * Total(lots, DOMAIN lots)
=============================================================================
