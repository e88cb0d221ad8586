------------------------------ MODULE HyperCore ------------------------------
(***************************************************************************)
(* The vault's account on HyperCore, as the vault uses it.  A CoreWriter   *)
(* call only queues an action: HyperCore runs it later, in order, and      *)
(* drops it without a trace when the account cannot cover it.  USDC sent   *)
(* to the system address is credited to the spot account later, and USDC   *)
(* spot-sent out of Core is credited on HyperEVM later.                    *)
(***************************************************************************)
EXTENDS Integers, Sequences

CONSTANTS
    MaxCoreAmount,   \* the largest amount whose scaled value fits in a uint64
    MaxQueue,        \* bound on queued CoreWriter actions
    PnlMoves,        \* changes of account value a market move may bring
    MarginLevels,    \* margin that open positions may lock
    PerpRange        \* bound on the perp account value

ASSUME CoreAssumption ==
    /\ MaxCoreAmount \in Nat
    /\ MaxQueue \in Nat
    /\ PnlMoves \subseteq Int
    /\ MarginLevels \subseteq Nat
    /\ PerpRange \subseteq Int

VARIABLES
    perp,        \* account value: margin and unrealized PnL, may be negative
    margin,      \* part of perp that open positions lock
    spot,        \* USDC in the spot account
    toCore,      \* USDC sent to the system address and not yet credited to spot
    toEvm,       \* USDC spot-sent out of Core and not yet credited on HyperEVM
    coreQueue    \* CoreWriter actions not yet run

coreVars == <<perp, margin, spot, toCore, toEvm, coreQueue>>

ActionKinds == {"spotToPerp", "perpToSpot", "spotSend"}
CoreActions == [kind : ActionKinds, amount : Nat]

CoreTypeOK ==
    /\ perp \in Int
    /\ margin \in Nat
    /\ spot \in Nat
    /\ toCore \in Nat
    /\ toEvm \in Nat
    /\ coreQueue \in Seq(CoreActions)

CoreInit ==
    /\ perp = 0
    /\ margin = 0
    /\ spot = 0
    /\ toCore = 0
    /\ toEvm = 0
    /\ coreQueue = <<>>

\* What HyperCoreReader reports: a negative account value reads as zero.
CoreEquityUsd == IF perp <= 0 THEN 0 ELSE perp
CoreSpotUsd == spot

-----------------------------------------------------------------------------
\* HyperCoreActions: the vault's calls append to the queue.
Queued(kind, amount) == [kind |-> kind, amount |-> amount]

Enqueue(actions) ==
    /\ Len(coreQueue) + Len(actions) <= MaxQueue
    /\ coreQueue' = coreQueue \o actions

\* Mutant: the USDC is not sent to the system address
SendNothing(amount) ==
    /\ amount <= MaxCoreAmount
    /\ Enqueue(<<Queued("spotToPerp", amount)>>)
    /\ UNCHANGED <<perp, margin, spot, toCore, toEvm>>

\* ERC20 to the system address, then spot -> perp
SendToCore(amount) ==
    /\ amount <= MaxCoreAmount
    /\ toCore' = toCore + amount
    /\ Enqueue(<<Queued("spotToPerp", amount)>>)
    /\ UNCHANGED <<perp, margin, spot, toEvm>>

\* perp -> spot, then spotSend to the system address
CallFromCore(amount) ==
    /\ amount <= MaxCoreAmount
    /\ Enqueue(<<Queued("perpToSpot", amount), Queued("spotSend", amount)>>)
    /\ UNCHANGED <<perp, margin, spot, toCore, toEvm>>

-----------------------------------------------------------------------------
\* HyperCore's own steps
Covered(action) ==
    IF action.kind = "perpToSpot"
    THEN action.amount + margin <= perp
    ELSE action.amount <= spot

Effect(action) ==
    \/ /\ action.kind = "spotToPerp"
       /\ spot' = spot - action.amount
       /\ perp' = perp + action.amount
       /\ UNCHANGED toEvm
    \/ /\ action.kind = "perpToSpot"
       /\ perp' = perp - action.amount
       /\ spot' = spot + action.amount
       /\ UNCHANGED toEvm
    \/ /\ action.kind = "spotSend"
       /\ spot' = spot - action.amount
       /\ toEvm' = toEvm + action.amount
       /\ UNCHANGED perp

RunAction ==
    /\ coreQueue # <<>>
    /\ coreQueue' = Tail(coreQueue)
    /\ \/ Covered(Head(coreQueue)) /\ Effect(Head(coreQueue))
       \/ ~Covered(Head(coreQueue)) /\ UNCHANGED <<perp, spot, toEvm>>
    /\ UNCHANGED <<margin, toCore>>

CreditSpot ==
    /\ toCore # 0
    /\ spot' = spot + toCore
    /\ toCore' = 0
    /\ UNCHANGED <<perp, margin, toEvm, coreQueue>>

\* The account side of the credit on HyperEVM
LeaveCore ==
    /\ toEvm # 0
    /\ toEvm' = 0
    /\ UNCHANGED <<perp, margin, spot, toCore, coreQueue>>

\* Orders fill and prices move: the account value and the locked margin change.
MarketMove(delta, locked) ==
    /\ margin # 0 \/ delta = 0
    /\ locked <= CoreEquityUsd
    /\ perp + delta \in PerpRange
    /\ perp' = perp + delta
    /\ margin' = locked
    /\ UNCHANGED <<spot, toCore, toEvm, coreQueue>>

CoreStep ==
    \/ RunAction
    \/ CreditSpot
    \/ \E delta \in PnlMoves, locked \in MarginLevels : MarketMove(delta, locked)
=============================================================================
