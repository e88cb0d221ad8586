------------------------------- MODULE Keeper -------------------------------
(***************************************************************************)
(* The keeper bot beside the live vault.  Its process reads the chain one  *)
(* call at a time, judges the readings, reads again, sends a bridge,       *)
(* re-reads to verify, then runs its rebalance job and reports; holders,   *)
(* HyperCore and a human with the same key act between any two of these    *)
(* steps.  A call may raise, and the process may be killed, anywhere.      *)
(*                                                                         *)
(* A transaction takes the nonce of the last mined one, so the node holds  *)
(* at most one transaction of the key.  The book of positions is in        *)
(* RebalanceBook; here the rebalance job sends some batch or none.         *)
(***************************************************************************)
EXTENDS VaultProperties, KeeperPlan

CONSTANTS
    Modes,            \* subset of {"preview", "execute"}: --execute or not
    MaxRetries,       \* verification re-reads
    ManualAmounts     \* what a human with the manager key bridges to Core by hand

ASSUME KeeperAssumption ==
    /\ Modes \subseteq {"preview", "execute"}
    /\ MaxRetries \in Nat \ {0}
    /\ ManualAmounts \subseteq BridgeAmounts

VARIABLES
    mode,
    pc,          \* where the tick stands, "asleep" between ticks
    reads,       \* what the calls of the job have returned so far
    tries,       \* verification re-reads that found too little
    liquidity,   \* LiquidityResult of this tick
    report,      \* health of the last finished tick, and what this one said it sent
    mempool,     \* the key's transaction not yet mined, if any
    bridged,     \* auxiliary: a bridge of this tick was accepted by the node
    alone,       \* auxiliary: the tick began with nothing on its way, and nobody
                 \* else acted since
    calm         \* auxiliary: faults and other actors have ceased for good

botVars == <<mode, pc, reads, tries, liquidity, report>>
keeperVars == <<botVars, mempool, bridged, alone, calm>>
allVars == <<vars, keeperVars>>

NoTx == [kind |-> "none"]
BridgeTx(a) == [kind |-> "bridge", amount |-> a]
BasketTx(orders) == [kind |-> "basket", orders |-> orders]
Results == [submitted : BOOLEAN, verified : BOOLEAN, short : BOOLEAN]
NoResult == [submitted |-> FALSE, verified |-> FALSE, short |-> FALSE]

KeeperTypeOK ==
    /\ TypeOK
    /\ mode \in Modes
    /\ pc \in {"asleep", "gate", "plan", "send", "verify", "rebalance"}
    /\ reads \in Seq(Nat) /\ Len(reads) <= AllCalls
    /\ tries \in 0 .. MaxRetries
    /\ liquidity \in Results
    /\ report \in [healthy : BOOLEAN, submitted : BOOLEAN]
    /\ mempool \in {NoTx} \cup {BridgeTx(a) : a \in BridgeAmounts}
                          \cup {BasketTx(orders) : orders \in Batches}
    /\ {bridged, alone, calm} \subseteq BOOLEAN

KeeperInit ==
    /\ Init
    /\ mode \in Modes
    /\ pc = "asleep"
    /\ reads = <<>>
    /\ tries = 0
    /\ liquidity = NoResult
    /\ report = [healthy |-> TRUE, submitted |-> FALSE]
    /\ mempool = NoTx
    /\ bridged = FALSE
    /\ alone = FALSE
    /\ calm = FALSE

-----------------------------------------------------------------------------
(***************************************************************************)
(* What the adapter reads.                                                 *)
(***************************************************************************)
\* Free margin: what backs open positions cannot be pulled
CoreAvailable == IF perp > margin THEN perp - margin ELSE 0

\* What a call returns, after those of the same job that returned `earlier`
Answer(call, earlier) ==
    CASE call = "balanceOf" -> usdc
      [] call = "reservedAssets" -> reservedAssets
      [] call = "totalPendingRedeemShares" -> totalPendingRedeemShares
      [] call = "convertToAssets" -> ToAssets(earlier[Len(earlier)], supply)
      [] call = "totalAssets" -> TotalAssets
      [] call = "accountMarginSummary" -> CoreAvailable

\* A round of calls answered at once
Readings ==
    [i \in 1 .. PlanCalls |->
        IF Calls[i] = "convertToAssets" THEN ToAssets(totalPendingRedeemShares, supply)
        ELSE Answer(Calls[i], <<>>)]

-----------------------------------------------------------------------------
(***************************************************************************)
(* The tick.                                                               *)
(***************************************************************************)
\* Nothing of an earlier tick, or of a human, is on its way.
NothingInFlight == mempool = NoTx /\ coreQueue = <<>> /\ toEvm = 0 /\ toCore = 0

StartTick ==
    /\ pc = "asleep"
    /\ pc' = "gate"
    /\ reads' = <<>>
    /\ tries' = 0
    /\ liquidity' = NoResult
    /\ bridged' = FALSE
    /\ alone' = NothingInFlight
    /\ report' = [report EXCEPT !.submitted = FALSE]
    /\ UNCHANGED <<vars, mode, mempool, calm>>

CallsOf(job) == IF job = "verify" THEN AllCalls ELSE PlanCalls

\* One call.  The precompile may be unreadable, which reads as nothing free; a
\* NAV that underflows reverts, and the call raises instead.
Read ==
    /\ pc \in {"gate", "plan", "verify"}
    /\ Len(reads) < CallsOf(pc)
    /\ LET call == Calls[Len(reads) + 1]
       IN  /\ call \in {"convertToAssets", "totalAssets"} => NavReadable
           /\ \/ reads' = Append(reads, Answer(call, reads))
              \/ call = "accountMarginSummary" /\ ~calm /\ reads' = Append(reads, 0)
    /\ UNCHANGED <<vars, mode, pc, tries, liquidity, report, mempool, bridged, alone, calm>>

\* Mutant: an unmet need is not an alarm
HealthyIfVerified(blocked, liq, rebalanced) ==
    /\ ~blocked
    /\ liq.submitted => liq.verified
    /\ rebalanced

\* format_report_json: what alerting keys off
Healthy(blocked, liq, rebalanced) ==
    /\ ~blocked
    /\ liq.submitted => liq.verified
    /\ rebalanced
    /\ ~liq.short

Finish(blocked, liq, rebalanced) ==
    /\ pc' = "asleep"
    /\ report' = [healthy |-> Healthy(blocked, liq, rebalanced), submitted |-> liq.submitted]
    /\ reads' = <<>>
    /\ tries' = 0
    /\ liquidity' = NoResult
    /\ UNCHANGED <<mode, alone, calm>>

\* The gate's own readings are dropped: the jobs read everything again.
PassGate ==
    /\ pc = "gate"
    /\ Len(reads) = PlanCalls
    /\ GateAllows(reads, TRUE)
    /\ pc' = "plan"
    /\ reads' = <<>>
    /\ UNCHANGED <<vars, mode, tries, liquidity, report, mempool, bridged, alone, calm>>

Blocked ==
    /\ pc = "gate"
    /\ Len(reads) = PlanCalls
    /\ \/ ~GateAllows(reads, TRUE)
       \/ ~calm /\ ~GateAllows(reads, FALSE)
    /\ Finish(TRUE, NoResult, TRUE)
    /\ UNCHANGED <<vars, mempool, bridged>>

Plan ==
    /\ pc = "plan"
    /\ Len(reads) = PlanCalls
    /\ LET toSend == Bridge(reads) > 0
       IN  /\ pc' = IF toSend /\ mode = "execute" THEN "send" ELSE "rebalance"
           /\ liquidity' = [submitted |-> FALSE, verified |-> ~toSend,
                            short |-> Shortfall(reads) > 0]
    /\ UNCHANGED <<vars, mode, reads, tries, report, mempool, bridged, alone, calm>>

\* _send: the node takes the transaction, or lets it replace the one that holds
\* the same nonce; it may also refuse it, and then the call raises (Raise).
Accept(tx) ==
    /\ mempool # NoTx => ~calm
    /\ mempool' = tx

SendBridge ==
    /\ pc = "send"
    /\ Requested(reads) \in BridgeAmounts    \* bound
    /\ Accept(BridgeTx(Requested(reads)))
    /\ bridged' = TRUE
    /\ liquidity' = [liquidity EXCEPT !.submitted = TRUE]
    /\ pc' = "verify"
    /\ UNCHANGED <<vars, mode, reads, tries, report, alone, calm>>

\* Mutant: re-reads for ever
VerifyForever ==
    /\ pc = "verify"
    /\ Len(reads) = AllCalls
    /\ tries' = tries + 1
    /\ reads' = SubSeq(reads, 1, PlanCalls)
    /\ liquidity' = [liquidity EXCEPT !.verified = IdleRose(reads)]
    /\ pc' = IF IdleRose(reads) THEN "rebalance" ELSE "verify"
    /\ UNCHANGED <<vars, mode, report, mempool, bridged, alone, calm>>

\* One re-reading of the idle USDC
Verify ==
    /\ pc = "verify"
    /\ Len(reads) = AllCalls
    /\ tries' = tries + 1
    /\ reads' = SubSeq(reads, 1, PlanCalls)
    /\ liquidity' = [liquidity EXCEPT !.verified = IdleRose(reads)]
    /\ pc' = IF IdleRose(reads) \/ tries' = MaxRetries THEN "rebalance" ELSE "verify"
    /\ UNCHANGED <<vars, mode, report, mempool, bridged, alone, calm>>

\* Within the threshold, rounded to nothing, or planned only
RebalanceNothing ==
    /\ pc = "rebalance"
    /\ Finish(FALSE, liquidity, TRUE)
    /\ UNCHANGED <<vars, mempool, bridged>>

RebalanceSend ==
    /\ pc = "rebalance"
    /\ mode = "execute"
    /\ \E orders \in Batches, cleared \in BOOLEAN :
        /\ Accept(BasketTx(orders))
        /\ Finish(FALSE, liquidity, cleared)
    /\ UNCHANGED <<vars, bridged>>

\* A call fails: the node refuses a second transaction with the same nonce, or,
\* while faults last, for any reason.
CallFails ==
    \/ ~calm
    \/ pc \in {"send", "rebalance"} /\ mempool # NoTx
    \/ Len(reads) < PlanCalls /\ ~NavReadable

\* run_loop: whatever a call of the tick raises becomes a blocked report.
Raise ==
    /\ pc # "asleep"
    /\ CallFails
    /\ Finish(TRUE, NoResult, TRUE)
    /\ UNCHANGED <<vars, mempool, bridged>>

\* The process is killed; the next one starts with a tick of its own.
Crash ==
    /\ pc # "asleep"
    /\ ~calm
    /\ pc' = "asleep"
    /\ reads' = <<>>
    /\ tries' = 0
    /\ liquidity' = NoResult
    /\ alone' = FALSE
    /\ UNCHANGED <<vars, mode, report, mempool, bridged, calm>>

BotStep ==
    \/ StartTick \/ Read \/ PassGate \/ Blocked \/ Plan \/ SendBridge \/ Verify
    \/ RebalanceNothing \/ RebalanceSend \/ Raise

-----------------------------------------------------------------------------
(***************************************************************************)
(* The chain and its other users.                                          *)
(***************************************************************************)
\* The key's transaction is mined: the vault runs the call, or it reverts.
Mine ==
    /\ mempool # NoTx
    /\ mempool' = NoTx
    /\ \/ mempool.kind = "bridge" /\ BridgeFromCore(manager, mempool.amount)
       \/ mempool.kind = "basket" /\ SubmitBasket(manager, mempool.orders)
                                  /\ UNCHANGED <<vaultVars, coreVars>>
       \/ mempool.kind = "basket" /\ UNCHANGED vars
    /\ UNCHANGED <<botVars, bridged, alone, calm>>

\* A human bridges idle USDC to Core with the same key; the transaction the
\* keeper has pending keeps its nonce or loses it.
ManualBridge ==
    /\ ~calm
    /\ \E a \in ManualAmounts :
        a + reservedAssets <= usdc /\ BridgeToCore(manager, a)
    /\ mempool' \in {mempool, NoTx}
    /\ alone' = FALSE
    /\ UNCHANGED <<botVars, bridged, calm>>

\* The owner puts an asset on the desk's list or takes it off.
OwnerAllows ==
    /\ \E asset \in Assets, ok \in BOOLEAN : SetAllowedAsset(owner, asset, ok)
    /\ UNCHANGED <<vaultVars, coreVars>>

Others ==
    /\ ~calm
    /\ \/ UserStep
       \/ MarketStep /\ UNCHANGED <<vaultVars, controlVars, deskVars>>
       \/ OwnerAllows
    /\ alone' = FALSE
    /\ UNCHANGED <<botVars, mempool, bridged, calm>>

CoreRuns == RunAction /\ UNCHANGED <<vaultVars, controlVars, deskVars>>
CoreCredits == CreditSpot /\ UNCHANGED <<vaultVars, controlVars, deskVars>>
Settle == (CoreRuns \/ CoreCredits \/ CreditEvm) /\ UNCHANGED keeperVars

BecomeCalm ==
    /\ ~calm
    /\ calm' = TRUE
    /\ UNCHANGED <<vars, botVars, mempool, bridged, alone>>

KeeperNext ==
    \/ BotStep \/ Crash \/ Mine \/ ManualBridge \/ Others \/ Settle \/ BecomeCalm

\* The loop never stops ticking, nodes mine, and HyperCore settles.
KeeperFairness ==
    /\ WF_allVars(BotStep)
    /\ WF_allVars(Mine)
    /\ WF_allVars(CoreRuns /\ UNCHANGED keeperVars)
    /\ WF_allVars(CoreCredits /\ UNCHANGED keeperVars)
    /\ WF_allVars(CreditEvm /\ UNCHANGED keeperVars)

KeeperSafety == KeeperInit /\ [][KeeperNext]_allVars
KeeperSpec == KeeperSafety /\ KeeperFairness

-----------------------------------------------------------------------------
(***************************************************************************)
(* Properties.                                                             *)
(***************************************************************************)
\* A report that says healthy, at the end of a tick that began with nothing on its
\* way and that nobody else disturbed, means that the queued redemptions are covered
\* by idle USDC, although the tick reads one value at a time and its bridge settles
\* in four later steps.  (It does not hold of every tick: one that begins while USDC
\* is in transit sees a NAV without that USDC, and its verification may take the
\* arrival of an earlier bridge for its own.)
HealthyMeansCovered ==
    /\ pc = "asleep"
    /\ alone
    /\ mode = "execute"
    /\ report.healthy
    => RedemptionDeficit = 0

\* A tick that starts with nothing on its way and is left alone never takes more
\* from the trading account than the queue and the buffer need.
LoneTickNeverOverdraws ==
    alone /\ bridged /\ NothingInFlight
        => BufferDen * IdleAssets <= Need(Readings)

\* Once faults and other actors cease, the queue comes to be covered by idle
\* USDC, or nothing is left to withdraw on Core and every report says unhealthy.
KeeperServes ==
    <>calm /\ mode = "execute"
        => <>[](\/ RedemptionDeficit = 0
                \/ CoreAvailable = 0 /\ ~report.healthy)

\* keeper_bot.py: `submitted` says that a bridge was actually sent.
ReportedAsSent ==
    pc = "asleep" /\ alone /\ bridged => report.submitted
=============================================================================
