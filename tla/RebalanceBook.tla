---------------------------- MODULE RebalanceBook ----------------------------
(***************************************************************************)
(* The keeper's second job: hold the basket's weights.  A tick reads the   *)
(* vault's positions and then, by another call, the mark prices; when the  *)
(* weights have drifted it sends one batch of delta orders, and re-reads   *)
(* to see whether the drift has gone.  The batch is mined later, HyperCore *)
(* runs its legs later still, and fills each in full, in part or not at    *)
(* all; meanwhile prices move, humans trade and the next tick may start.   *)
(*                                                                         *)
(* Sizes are whole lots of a coin (round_size's unit) and a price is that  *)
(* of one lot, so that the code's rounding is integer division.            *)
(***************************************************************************)
EXTENDS FixedPoint, Integers, Sequences

CONSTANTS
    Coins,              \* coins of the keeper's basket
    Weight,             \* target weight of each coin, in 1/WeightBase
    WeightBase,
    DriftNum, DriftDen, \* KeeperConfig.drift_threshold
    MaxRetries,         \* verification re-readings
    Sides,              \* subset of {1, -1}: --side long or short
    LotPrices,          \* prices that a lot of each coin may have
    SeedLots,           \* lots of a coin that humans buy
    MaxLots, MaxBatches \* bounds: on a position, on batches mined and not run

Abs(i) == IF i < 0 THEN -i ELSE i

ASSUME BookAssumption ==
    /\ IsFiniteSet(Coins)
    /\ Weight \in [Coins -> Nat]
    /\ {WeightBase, DriftDen, MaxRetries} \subseteq Nat \ {0}
    /\ {DriftNum, SeedLots, MaxLots, MaxBatches} \subseteq Nat
    /\ Sides \subseteq {1, -1}
    /\ LotPrices \in [Coins -> SUBSET (Nat \ {0})]

VARIABLES
    side,         \* the basket's direction
    position,     \* signed lots
    price,
    windDown,     \* the vault takes reduce-only orders only
    stray,        \* the vault also holds a coin that has no price in the basket
    mempool,      \* the key's batch not yet mined, or none
    batches,      \* batches mined whose legs HyperCore has yet to run
    pc,           \* where the tick stands
    held,         \* positions as the tick has just read them
    tries,        \* re-readings that still showed drift
    cleared,      \* RebalanceResult.verified of the last finished tick
    alone,        \* auxiliary: the tick began with nothing in flight, since then
                  \* all orders filled and nobody else acted, and its last
                  \* reading met no order still on its way
    plan,         \* auxiliary: what the tick sent its batch from, while nothing
                  \* disturbs the batch
    calm          \* auxiliary: faults and other actors have ceased for good

marketVars == <<side, position, price, windDown, stray>>
flightVars == <<mempool, batches>>
tickVars == <<pc, held, tries, cleared>>
bookVars == <<marketVars, flightVars, tickVars, alone, plan, calm>>

None == {}
Orders == [coin : Coins, isBuy : BOOLEAN, size : Nat \ {0}, reduceOnly : BOOLEAN]
Positions == [Coins -> Int]
Prices == {px \in [Coins -> UNION {LotPrices[coin] : coin \in Coins}] :
               \A coin \in Coins : px[coin] \in LotPrices[coin]}
Flat == [coin \in Coins |-> 0]
NoPlan == [none |-> TRUE]

BookTypeOK ==
    /\ side \in Sides
    /\ position \in Positions
    /\ price \in Prices
    /\ {windDown, stray, cleared, alone, calm} \subseteq BOOLEAN
    /\ mempool \in SUBSET Orders
    /\ batches \in Seq(SUBSET Orders)
    /\ pc \in {"asleep", "positions", "prices", "verify", "reprices"}
    /\ held \in Positions
    /\ tries \in 0 .. MaxRetries - 1
    /\ plan = NoPlan \/ plan \in [held : Positions, px : Prices]

BookInit ==
    /\ side \in Sides
    /\ position \in [Coins -> {side * n : n \in 0 .. SeedLots}]
    /\ price \in Prices
    /\ windDown = FALSE
    /\ stray = FALSE
    /\ mempool = None
    /\ batches = <<>>
    /\ pc = "asleep"
    /\ held = Flat
    /\ tries = 0
    /\ cleared = TRUE
    /\ alone = FALSE
    /\ plan = NoPlan
    /\ calm = FALSE

-----------------------------------------------------------------------------
(***************************************************************************)
(* What the tick computes from one reading of positions and prices.        *)
(***************************************************************************)
Notional(pos, px, coin) == Abs(pos[coin]) * px[coin]
Gross(pos, px) == Total([coin \in Coins |-> Notional(pos, px, coin)], Coins)

\* weights_from_positions and needs_rebalance: some weight is off by more than
\* the threshold.  An empty book has weight zero everywhere.
Drifted(pos, px) ==
    LET gross == Gross(pos, px)
        off(coin) == Abs(Notional(pos, px, coin) * WeightBase - Weight[coin] * gross)
    IN  \E coin \in Coins :
            IF gross = 0 THEN Weight[coin] * DriftDen > DriftNum * WeightBase
            ELSE off(coin) * DriftDen > DriftNum * gross * WeightBase

\* target_sizes_from_weights: the same gross notional at the target weights.  Here
\* and below a quantity of a coin is lots times LotScale.
LotScale(px, coin) == WeightBase * px[coin]
Targets(pos, px) ==
    LET gross == Gross(pos, px)
    IN  [coin \in Coins |-> side * gross * Weight[coin]]

\* Mutant: deltas are rounded up
SizeUp(delta, lot) == MulDivUp(Abs(delta), 1, lot)

\* round_size: down to whole lots
Size(delta, lot) == Abs(delta) \div lot

\* Mutant: reductions lose their flag
NoFlag(now, delta, target) == FALSE

\* Mutant: every order on an open position is reduce-only
OnOpenPosition(now, delta, target) == now # 0

Shrinks(now, delta, target) ==
    \/ now > 0 /\ delta <= 0 /\ target >= 0
    \/ now < 0 /\ delta > 0 /\ target <= 0

\* compute_rebalance: one order for each coin that is a lot or more off
Rebalance(pos, px) ==
    LET target == Targets(pos, px)
        delta == [coin \in Coins |-> target[coin] - pos[coin] * LotScale(px, coin)]
        size == [coin \in Coins |-> Size(delta[coin], LotScale(px, coin))]
    IN  {[coin |-> coin, isBuy |-> delta[coin] > 0, size |-> size[coin],
          reduceOnly |-> Shrinks(pos[coin], delta[coin], target[coin])] :
            coin \in {c \in Coins : size[c] # 0}}

-----------------------------------------------------------------------------
(***************************************************************************)
(* The tick.                                                               *)
(***************************************************************************)
NothingInFlight == mempool = None /\ batches = <<>>

\* The interval between ticks is long against settlement once the chain is calm.
StartTick ==
    /\ pc = "asleep"
    /\ calm => NothingInFlight
    /\ pc' = "positions"
    /\ alone' = NothingInFlight
    /\ plan' = NoPlan
    /\ UNCHANGED <<marketVars, flightVars, held, tries, cleared, calm>>

Finish(ok) ==
    /\ pc' = "asleep"
    /\ cleared' = ok
    /\ held' = Flat
    /\ tries' = 0

\* The gate blocks on a position without a price, or a call raises: no order of
\* this tick is sent any more.
Fail ==
    /\ pc # "asleep"
    /\ \/ ~calm
       \/ pc \in {"positions", "verify"} /\ stray
       \/ pc = "prices" /\ mempool # None
    /\ Finish(FALSE)
    /\ UNCHANGED <<marketVars, flightVars, alone, plan, calm>>

\* positions(), of the job or of its verification.  The latter may come while some
\* orders of the batch have filled and others have not.
ReadPositions ==
    /\ ~stray
    /\ \/ pc = "positions" /\ pc' = "prices" /\ UNCHANGED alone
       \/ pc = "verify" /\ pc' = "reprices" /\ alone' = (plan # NoPlan /\ NothingInFlight)
    /\ held' = position
    /\ UNCHANGED <<marketVars, flightVars, tries, cleared, plan, calm>>

\* prices(): within the threshold, or no coin is a whole lot off
StandStill ==
    /\ pc = "prices"
    /\ ~Drifted(held, price) \/ Rebalance(held, price) = None
    /\ Finish(TRUE)
    /\ UNCHANGED <<marketVars, flightVars, alone, plan, calm>>

\* submit_basket: the batch may take the place of one with the same nonce.
SendBatch ==
    /\ pc = "prices"
    /\ Drifted(held, price)
    /\ Rebalance(held, price) # None
    /\ mempool # None => ~calm
    /\ mempool' = Rebalance(held, price)
    /\ plan' = IF alone THEN [held |-> held, px |-> price] ELSE NoPlan
    /\ pc' = "verify"
    /\ held' = Flat
    /\ UNCHANGED <<marketVars, batches, tries, cleared, alone, calm>>

\* Mutant: the receipt is the verification
VerifySent ==
    /\ pc = "reprices"
    /\ Finish(TRUE)
    /\ UNCHANGED <<marketVars, flightVars, alone, plan, calm>>

\* Mutant: one re-reading too many
VerifyOnceMore ==
    /\ pc = "reprices"
    /\ IF Drifted(held, price) /\ tries < MaxRetries
       THEN pc' = "verify" /\ held' = Flat /\ tries' = tries + 1 /\ UNCHANGED cleared
       ELSE Finish(~Drifted(held, price))
    /\ UNCHANGED <<marketVars, flightVars, alone, plan, calm>>

\* _verify_drift_cleared
Verify ==
    /\ pc = "reprices"
    /\ IF Drifted(held, price) /\ tries + 1 < MaxRetries
       THEN pc' = "verify" /\ held' = Flat /\ tries' = tries + 1 /\ UNCHANGED cleared
       ELSE Finish(~Drifted(held, price))
    /\ UNCHANGED <<marketVars, flightVars, alone, plan, calm>>

TickStep ==
    StartTick \/ Fail \/ ReadPositions \/ StandStill \/ SendBatch \/ Verify

-----------------------------------------------------------------------------
(***************************************************************************)
(* The vault, HyperCore, the market and humans.                            *)
(***************************************************************************)
\* The tick is no longer alone.
Disturb == alone' = FALSE /\ plan' = NoPlan

\* submitBasket: one leg that is not reduce-only reverts a batch in wind-down.
Accepted(batch) == windDown => \A order \in batch : order.reduceOnly

Mine ==
    /\ mempool # None
    /\ mempool' = None
    /\ \/ Accepted(mempool)
          /\ Len(batches) < MaxBatches
          /\ batches' = Append(batches, mempool)
          /\ UNCHANGED <<alone, plan>>
       \/ (~calm \/ ~Accepted(mempool))
          /\ UNCHANGED batches
          /\ Disturb
    /\ UNCHANGED <<marketVars, tickVars, calm>>

\* HyperCore clips a reduce-only order to the position it reduces.
Executable(order) ==
    LET lots == position[order.coin]
        open == IF order.isBuy THEN -lots ELSE lots
    IN  IF ~order.reduceOnly THEN order.size
        ELSE IF open <= 0 THEN 0
        ELSE IF open < order.size THEN open ELSE order.size

Signed(order, lots) == IF order.isBuy THEN lots ELSE -lots

\* An IOC leg runs: it fills in full, in part or not at all.
RunLeg ==
    /\ batches # <<>>
    /\ \E order \in Head(batches) : \E lots \in 0 .. Executable(order) :
        /\ calm => lots = Executable(order)
        /\ position' = [position EXCEPT ![order.coin] = @ + Signed(order, lots)]
        /\ calm \/ Abs(position'[order.coin]) <= MaxLots    \* bound
        /\ IF lots = Executable(order) THEN UNCHANGED <<alone, plan>> ELSE Disturb
        /\ batches' = IF Head(batches) = {order} THEN Tail(batches)
                      ELSE <<Head(batches) \ {order}>> \o Tail(batches)
    /\ UNCHANGED <<side, price, windDown, stray, mempool, tickVars, calm>>

\* Prices move; a human trades a lot, on the basket's side or in a coin of no
\* basket; the guardian starts or ends wind-down.
Others ==
    /\ ~calm
    /\ \/ \E coin \in Coins : \E p \in LotPrices[coin] : price' = [price EXCEPT ![coin] = p]
          /\ UNCHANGED <<position, windDown, stray>>
       \/ \E coin \in Coins, lots \in {1, -1} :
              /\ side * (position[coin] + lots) \in 0 .. SeedLots
              /\ position' = [position EXCEPT ![coin] = @ + lots]
              /\ UNCHANGED <<price, windDown, stray>>
       \/ stray' = ~stray /\ UNCHANGED <<position, price, windDown>>
       \/ windDown' = ~windDown /\ UNCHANGED <<position, price, stray>>
    /\ Disturb
    /\ UNCHANGED <<side, flightVars, tickVars, calm>>

BecomeCalm ==
    /\ ~calm
    /\ calm' = TRUE
    /\ UNCHANGED <<marketVars, flightVars, tickVars, alone, plan>>

BookNext == TickStep \/ Mine \/ RunLeg \/ Others \/ BecomeCalm

\* The loop goes on ticking, nodes mine and HyperCore runs what it is given.
BookSpec ==
    /\ BookInit
    /\ [][BookNext]_bookVars
    /\ WF_bookVars(TickStep)
    /\ WF_bookVars(Mine)
    /\ WF_bookVars(RunLeg)

-----------------------------------------------------------------------------
(***************************************************************************)
(* Properties.                                                             *)
(***************************************************************************)
\* rebalance.py: reductions cannot flip a position.  Not even when a tick plans
\* again from positions that the last batch has not changed yet, when a human sold
\* in between, or when a leg fills in part: a long book never holds a short.
NeverFlips == \A coin \in Coins : side * position[coin] >= 0

\* A batch that nothing disturbed and that filled leaves every coin less than one
\* lot from its share of the gross notional that the tick saw.
FilledBatchHitsTarget ==
    plan # NoPlan /\ NothingInFlight =>
        \A coin \in Coins :
            Abs(Targets(plan.held, plan.px)[coin] - position[coin] * LotScale(plan.px, coin))
                < LotScale(plan.px, coin)

Balanced == ~Drifted(position, price) \/ Rebalance(position, price) = None

\* A tick that nothing disturbed and that reports its drift cleared leaves weights
\* within the threshold, or so close that no whole lot can be traded.  (Not if its
\* last reading came between two fills of its batch: with three coins the weights
\* may be within the threshold there and beyond it once the batch is through.)
ClearedMeansBalanced == pc = "asleep" /\ alone /\ cleared => Balanced

\* Once faults and other actors cease, the book comes to rest: rounding to lots
\* never makes the keeper trade back and forth.  A wind-down or a position outside
\* the basket stops it altogether.
AtRest == windDown \/ stray \/ (NothingInFlight /\ Balanced)
BookSettles == <>calm => <>[]AtRest
=============================================================================
