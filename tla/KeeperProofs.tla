---------------------------- MODULE KeeperProofs ----------------------------
(***************************************************************************)
(* Proofs about the keeper beside the live vault, with any readings,       *)
(* faults, restarts, replaced transactions and other callers.              *)
(*                                                                         *)
(* First, it is a prudent manager: the vault beside it takes only steps of *)
(* PrudentSpec, so that whatever was proved of that holds of the whole.    *)
(* Then types, what a plan asks for, and what a tick that nobody disturbs  *)
(* achieves.  The sums that carry the last part count what is on its way:  *)
(* they do not change while a bridge is mined, leaves the trading account, *)
(* waits in the spot account and arrives.                                  *)
(***************************************************************************)
EXTENDS Keeper, QueueProofs, SequenceTheorems

\* The roles never change hands here, and what waits to be mined was built by the
\* keeper.
KeeperInv ==
    /\ owner = Deployer
    /\ manager = FirstManager
    /\ mempool \in {NoTx} \cup {BridgeTx(a) : a \in BridgeAmounts}
                          \cup {BasketTx(orders) : orders \in Batches}

LEMMA KeeperInitInv == KeeperInit => Init /\ KeeperInv
BY DEF KeeperInit, Init, ControlInit, KeeperInv

\* The keeper's process reads the chain and hands it a transaction.
LEMMA BotIsRemote ==
    ASSUME BotStep \/ Crash \/ BecomeCalm
    PROVE  UNCHANGED vars
BY DEF BotStep, Crash, BecomeCalm, StartTick, Read, PassGate, Blocked, Plan, SendBridge,
       Verify, RebalanceNothing, RebalanceSend, Raise

\* No step of the composition changes who owns or manages the vault.
LEMMA RolesRest ==
    ASSUME KeeperNext
    PROVE  UNCHANGED <<owner, manager>>
<1>1. UNCHANGED controlVars => UNCHANGED <<owner, manager>>
  BY DEF controlVars, roleVars
<1>2. TouchManager => UNCHANGED <<owner, manager>>
  BY DEF TouchManager, roleVars
<1>3. UNCHANGED vars => UNCHANGED <<owner, manager>>
  BY <1>1 DEF vars
<1>4. UserStep => UNCHANGED <<owner, manager>>
  BY <1>1 DEF UserStep, Deposit, Mint, Deposits, Withdraw, Redeem, Withdraws, RequestRedeem,
         CancelRedeemRequest, FulfillRedeem, Claim, Donate, Transfer, AccrueFees,
         BridgeFromCoreForRedemptions
<1>5. CASE BotStep \/ Crash \/ BecomeCalm
  BY <1>3, <1>5, BotIsRemote
<1>6. CASE Mine
  BY <1>2, <1>3, <1>6 DEF Mine, BridgeFromCore, SubmitBasket
<1>7. CASE ManualBridge
  BY <1>2, <1>7 DEF ManualBridge, BridgeToCore
<1>8. CASE Others
  BY <1>1, <1>4, <1>8 DEF Others, OwnerAllows, SetAllowedAsset
<1>9. CASE Settle
  BY <1>1, <1>9 DEF Settle, CoreRuns, CoreCredits, CreditEvm
<1> QED BY <1>5, <1>6, <1>7, <1>8, <1>9 DEF KeeperNext

\* The node holds what the keeper sent, or nothing.
LEMMA MempoolKept ==
    ASSUME KeeperInv, KeeperNext
    PROVE  mempool' \in {NoTx} \cup {BridgeTx(a) : a \in BridgeAmounts}
                           \cup {BasketTx(orders) : orders \in Batches}
<1>1. CASE UNCHANGED mempool
  BY <1>1 DEF KeeperInv
<1>2. CASE mempool' = NoTx
  BY <1>2
<1>3. CASE SendBridge
  BY <1>3 DEF SendBridge, Accept
<1>4. CASE RebalanceSend
  BY <1>4 DEF RebalanceSend, Accept
<1>5. CASE BotStep
  BY <1>1, <1>3, <1>4, <1>5 DEF BotStep, StartTick, Read, PassGate, Blocked, Plan, Verify,
         RebalanceNothing, Raise
<1>6. CASE Crash \/ Others \/ BecomeCalm
  BY <1>1, <1>6 DEF Crash, Others, BecomeCalm
<1>7. CASE Settle
  BY <1>1, <1>7 DEF Settle, keeperVars
<1>8. CASE Mine \/ ManualBridge
  BY <1>1, <1>2, <1>8 DEF Mine, ManualBridge
<1> QED BY <1>5, <1>6, <1>7, <1>8 DEF KeeperNext

LEMMA KeeperInvKept == KeeperInv /\ [KeeperNext]_allVars => KeeperInv'
<1>1. ASSUME KeeperInv, KeeperNext PROVE KeeperInv'
  <2>1. UNCHANGED <<owner, manager>>
    BY <1>1, RolesRest
  <2> QED BY <1>1, <2>1, MempoolKept DEF KeeperInv
<1>2. ASSUME KeeperInv, UNCHANGED allVars PROVE KeeperInv'
  BY <1>2 DEF KeeperInv, allVars, vars, controlVars, roleVars, keeperVars
<1> QED BY <1>1, <1>2

\* Each step of the composition is a step of the vault under a prudent manager, or
\* leaves the vault alone.
LEMMA KeeperStepPrudent ==
    KeeperInv /\ [KeeperNext]_allVars => [PrudentNext]_vars
<1> SUFFICES ASSUME KeeperInv, [KeeperNext]_allVars PROVE [PrudentNext]_vars
  OBVIOUS
<1>1. owner \in Accounts /\ manager \in Accounts
  BY ControlAssumption DEF KeeperInv
<1>2. CASE UNCHANGED vars
  BY <1>2
<1>3. CASE OtherStep
  BY <1>3 DEF PrudentNext
<1>4. CASE BotStep \/ Crash \/ BecomeCalm
  BY <1>2, <1>4, BotIsRemote
<1>5. CASE Mine
  <2>1. CASE mempool.kind = "bridge" /\ BridgeFromCore(manager, mempool.amount)
    <3>1. mempool.amount \in BridgeAmounts
      BY <2>1 DEF KeeperInv, NoTx, BridgeTx, BasketTx
    <3> QED BY <1>1, <1>3, <2>1, <3>1 DEF OtherStep
  <2>2. CASE /\ mempool.kind = "basket" /\ SubmitBasket(manager, mempool.orders)
             /\ UNCHANGED <<vaultVars, coreVars>>
    <3>1. mempool.orders \in Batches
      BY <2>2 DEF KeeperInv, NoTx, BridgeTx, BasketTx
    <3> QED BY <1>1, <1>3, <2>2, <3>1 DEF OtherStep, DeskNext
  <2> QED BY <1>2, <1>5, <2>1, <2>2 DEF Mine
<1>6. CASE ManualBridge
  BY <1>1, <1>6, KeeperAssumption DEF ManualBridge, PrudentNext
<1>7. CASE Others
  <2>1. CASE UserStep
    BY <1>3, <2>1 DEF OtherStep
  <2>2. CASE MarketStep /\ UNCHANGED <<vaultVars, controlVars, deskVars>>
    BY <1>3, <2>2 DEF OtherStep, CoreStep, MarketStep
  <2>3. CASE OwnerAllows
    BY <1>1, <1>3, <2>3 DEF OwnerAllows, OtherStep, DeskNext
  <2> QED BY <1>7, <2>1, <2>2, <2>3 DEF Others
<1>8. CASE Settle
  BY <1>3, <1>8 DEF Settle, CoreRuns, CoreCredits, OtherStep, CoreStep
<1>9. CASE UNCHANGED allVars
  BY <1>2, <1>9 DEF allVars
<1> QED BY <1>4, <1>5, <1>6, <1>7, <1>8, <1>9 DEF KeeperNext

\* The vault beside the keeper behaves as under a prudent manager, whatever the
\* keeper reads, whenever it or one of its calls fails, and whoever acts in between.
THEOREM KeeperIsPrudent == KeeperSafety => PrudentSpec
<1>1. KeeperInit => Init /\ KeeperInv
  BY KeeperInitInv
<1>2. KeeperInv /\ [KeeperNext]_allVars => KeeperInv'
  BY KeeperInvKept
<1>3. KeeperInv /\ [KeeperNext]_allVars => [PrudentNext]_vars
  BY KeeperStepPrudent
<1> QED BY <1>1, <1>2, <1>3, PTL DEF KeeperSafety, PrudentSpec

\* So the keeper never leaves a claim without its USDC, and the promises of the
\* redemption queue hold while it runs.
THEOREM KeeperKeepsPromises == KeeperSafety => []ClaimsBacked /\ ImplementsQueue
BY KeeperIsPrudent, ClaimsAlwaysBacked, QueueImplemented, PTL

-----------------------------------------------------------------------------
(***************************************************************************)
(* Types of the whole.  What the chain answers is a natural number because *)
(* claims are backed; the counters of a tick need to know where it stands. *)
(***************************************************************************)
Stages == {"asleep", "gate", "plan", "send", "verify", "rebalance"}

BotTypes ==
    /\ mode \in Modes
    /\ pc \in Stages
    /\ reads \in Seq(Nat) /\ Len(reads) <= AllCalls
    /\ tries \in 0 .. MaxRetries
    /\ pc \in {"gate", "plan", "send"} => tries = 0
    /\ pc = "verify" => tries < MaxRetries
    /\ liquidity \in Results
    /\ report \in [healthy : BOOLEAN, submitted : BOOLEAN]
    /\ bridged \in BOOLEAN /\ alone \in BOOLEAN /\ calm \in BOOLEAN

LEMMA BotTypesInit == KeeperInit => BotTypes
<1> SUFFICES ASSUME KeeperInit PROVE BotTypes
  OBVIOUS
<1>1. reads \in Seq(Nat) /\ Len(reads) = 0
  BY DEF KeeperInit
<1>2. liquidity \in Results /\ report \in [healthy : BOOLEAN, submitted : BOOLEAN]
  BY Zenon DEF KeeperInit, NoResult, Results
<1>3. bridged \in BOOLEAN /\ alone \in BOOLEAN /\ calm \in BOOLEAN
  BY Zenon DEF KeeperInit
<1>4. tries \in 0 .. MaxRetries /\ pc = "asleep" /\ mode \in Modes
  BY KeeperAssumption DEF KeeperInit
<1> QED BY <1>1, <1>2, <1>3, <1>4 DEF BotTypes, Stages, AllCalls

\* What call k of a job returns
Answers(k, v) ==
    /\ k \in {1, 7} => v = usdc
    /\ k \in {2, 8} => v = reservedAssets
    /\ k = 3 => v = totalPendingRedeemShares
    /\ k = 4 => v = ToAssets(reads[3], supply)
    /\ k = 5 => v = TotalAssets
    /\ k = 6 => v \in {CoreAvailable, 0}

LEMMA AnswerValue ==
    ASSUME BotTypes, Read
    PROVE  /\ Len(reads) + 1 \in 1 .. AllCalls
           /\ \E v : reads' = Append(reads, v) /\ Answers(Len(reads) + 1, v)
<1> DEFINE k == Len(reads) + 1
           call == Calls[k]
<1>1. k \in 1 .. 8 /\ Len(reads) = k - 1
  <2>1. Len(reads) \in Nat
    BY DEF BotTypes
  <2>2. Len(reads) < 8
    BY <2>1 DEF Read, CallsOf, AllCalls, PlanCalls
  <2> QED BY <2>1, <2>2
<1>2. \/ reads' = Append(reads, Answer(call, reads))
      \/ call = "accountMarginSummary" /\ reads' = Append(reads, 0)
  BY DEF Read
<1> HIDE DEF k
<1>3. call = "accountMarginSummary" <=> k = 6
  BY <1>1 DEF Calls
<1>4. Answers(k, Answer(call, reads))
  <2>1. CASE k \in {1, 7}
    BY <2>1 DEF Calls, Answer, Answers
  <2>2. CASE k \in {2, 8}
    BY <2>2 DEF Calls, Answer, Answers
  <2>3. CASE k = 3
    BY <2>3 DEF Calls, Answer, Answers
  <2>4. CASE k = 4
    BY <1>1, <2>4 DEF Calls, Answer, Answers
  <2>5. CASE k = 5
    BY <2>5 DEF Calls, Answer, Answers
  <2>6. CASE k = 6
    BY <2>6 DEF Calls, Answer, Answers
  <2> QED BY <1>1, <2>1, <2>2, <2>3, <2>4, <2>5, <2>6
<1>5. k = 6 => Answers(k, 0)
  BY DEF Answers
<1>6. \E v : reads' = Append(reads, v) /\ Answers(k, v)
  <2> HIDE DEF call
  <2> QED BY <1>2, <1>3, <1>4, <1>5
<1> QED BY <1>1, <1>6 DEF AllCalls, k

\* A call returns a natural number.
LEMMA AnswerType ==
    ASSUME TypeOK, ClaimsBacked, BotTypes, Read
    PROVE  \E v \in Nat : reads' = Append(reads, v) /\ Answers(Len(reads) + 1, v)
<1>1. /\ usdc \in Nat /\ reservedAssets \in Nat /\ totalPendingRedeemShares \in Nat
      /\ supply + VirtualShares \in Nat \ {0} /\ perp \in Int /\ margin \in Nat
  BY ConstantTypes DEF TypeOK, CoreTypeOK
<1>2. TotalAssets \in Nat /\ TotalAssets + 1 \in Nat
  BY NavTypes DEF ClaimsBacked, NavReadable
<1>3. CoreAvailable \in Nat
  BY <1>1 DEF CoreAvailable
<1>4. Len(reads) + 1 \in 1 .. 8
  BY AnswerValue DEF AllCalls
<1>5. PICK v : reads' = Append(reads, v) /\ Answers(Len(reads) + 1, v)
  BY AnswerValue
<1>6. CASE Len(reads) + 1 = 4
  <2>1. reads[3] \in Nat
    BY <1>6, ElementOfSeq DEF BotTypes
  <2> QED BY <1>1, <1>2, <1>5, <1>6, <2>1, MulDivFloor DEF ToAssets, Answers
<1>7. CASE Len(reads) + 1 # 4
  BY <1>1, <1>2, <1>3, <1>4, <1>5, <1>7 DEF Answers
<1> QED BY <1>6, <1>7

LEMMA FirstRound ==
    ASSUME NEW r \in Seq(Nat), Len(r) = AllCalls
    PROVE  /\ SubSeq(r, 1, PlanCalls) \in Seq(Nat)
           /\ Len(SubSeq(r, 1, PlanCalls)) = PlanCalls
           /\ \A i \in 1 .. PlanCalls : SubSeq(r, 1, PlanCalls)[i] = r[i]
<1>1. /\ SubSeq(r, 1, 6) \in Seq(Nat)
      /\ Len(SubSeq(r, 1, 6)) = 6 - 1 + 1
      /\ \A i \in 1 .. (6 - 1 + 1) : SubSeq(r, 1, 6)[i] = r[1 + i - 1]
  <2>1. Len(r) = 8
    BY DEF AllCalls
  <2>2. \A i \in 1 .. 8 : r[i] \in Nat
    BY <2>1, ElementOfSeq
  <2> QED BY <2>2, SubSeqProperties
<1> QED BY <1>1 DEF PlanCalls

\* Every step but Read keeps the readings, forgets them, or keeps the first round.
LEMMA ReadsKept ==
    ASSUME TypeOK, ClaimsBacked, BotTypes, [KeeperNext]_allVars
    PROVE  reads' \in Seq(Nat) /\ Len(reads') <= AllCalls
<1> USE DEF BotTypes
<1>1. CASE UNCHANGED reads
  BY <1>1
<1>2. CASE reads' = <<>>
  BY <1>2 DEF AllCalls
<1>3. CASE Read
  <2>1. PICK v \in Nat : reads' = Append(reads, v)
    BY <1>3, AnswerType
  <2>2. Len(reads) < AllCalls
    BY <1>3 DEF Read, CallsOf, AllCalls, PlanCalls
  <2> QED BY <2>1, <2>2 DEF AllCalls
<1>4. CASE Verify
  <2>1. reads' = SubSeq(reads, 1, PlanCalls) /\ Len(reads) = AllCalls
    BY <1>4 DEF Verify
  <2> QED BY <2>1, FirstRound DEF AllCalls, PlanCalls
<1>5. CASE BotStep
  BY <1>1, <1>2, <1>3, <1>4, <1>5 DEF BotStep, StartTick, PassGate, Blocked, Plan,
         SendBridge, RebalanceNothing, RebalanceSend, Raise, Finish
<1>6. CASE Crash \/ Mine \/ ManualBridge \/ Others \/ BecomeCalm
  BY <1>1, <1>2, <1>6 DEF Crash, Mine, ManualBridge, Others, BecomeCalm, botVars
<1>7. CASE Settle \/ UNCHANGED allVars
  BY <1>1, <1>7 DEF Settle, allVars, keeperVars, botVars
<1> QED BY <1>5, <1>6, <1>7 DEF KeeperNext

\* What a tick counts and concludes keeps its type.
LEMMA BotTypesKept ==
    ASSUME TypeOK, ClaimsBacked, BotTypes, [KeeperNext]_allVars
    PROVE  BotTypes'
<1>1. reads' \in Seq(Nat) /\ Len(reads') <= AllCalls
  BY ReadsKept
<1>2. /\ NoResult \in Results
      /\ \A h, b \in BOOLEAN : [healthy |-> h, submitted |-> b]
                                    \in [healthy : BOOLEAN, submitted : BOOLEAN]
      /\ \A b, v, c \in BOOLEAN : [submitted |-> b, verified |-> v, short |-> c] \in Results
      /\ \A liq \in Results, b, c \in BOOLEAN :
            liq.submitted \in BOOLEAN /\ Healthy(c, liq, b) \in BOOLEAN
  BY Zenon DEF NoResult, Results, Healthy
<1> DEFINE Where(p, t) == /\ p \in Stages
                          /\ t \in 0 .. MaxRetries
                          /\ p \in {"gate", "plan", "send"} => t = 0
                          /\ p = "verify" => t < MaxRetries
           Said == /\ liquidity' \in Results
                   /\ report' \in [healthy : BOOLEAN, submitted : BOOLEAN]
           Flags == bridged' \in BOOLEAN /\ alone' \in BOOLEAN /\ calm' \in BOOLEAN
<1>3. /\ mode \in Modes /\ liquidity \in Results
      /\ report \in [healthy : BOOLEAN, submitted : BOOLEAN]
      /\ bridged \in BOOLEAN /\ alone \in BOOLEAN /\ calm \in BOOLEAN
      /\ Where(pc, tries) /\ MaxRetries \in Nat \ {0}
  BY KeeperAssumption DEF BotTypes
<1>4. SUFFICES mode' \in Modes /\ Where(pc', tries') /\ Said /\ Flags
  BY <1>1 DEF BotTypes
<1>5. ASSUME NEW c \in BOOLEAN, NEW liq \in Results, NEW b \in BOOLEAN, Finish(c, liq, b),
             UNCHANGED bridged
      PROVE  mode' \in Modes /\ Where(pc', tries') /\ Said /\ Flags
  <2>1. pc' = "asleep" /\ tries' = 0 /\ mode' = mode
    BY <1>5 DEF Finish
  <2>2. Where(pc', tries')
    BY <2>1, <1>3 DEF Stages
  <2>3. report' = [healthy |-> Healthy(c, liq, b), submitted |-> liq.submitted]
    BY <1>5 DEF Finish
  <2>4. report' \in [healthy : BOOLEAN, submitted : BOOLEAN]
    BY Zenon, <1>2, <2>3
  <2>5. liquidity' \in Results
    BY Zenon, <1>2, <1>5 DEF Finish
  <2>6. Flags
    BY Zenon, <1>3, <1>5 DEF Finish
  <2> QED BY <1>3, <2>1, <2>2, <2>4, <2>5, <2>6
<1>6. CASE StartTick
  <2>1. pc' = "gate" /\ tries' = 0 /\ mode' = mode
    BY <1>6 DEF StartTick
  <2>2. Where(pc', tries')
    BY <2>1, <1>3 DEF Stages
  <2>3. Flags
    BY Zenon, <1>3, <1>6 DEF StartTick, NothingInFlight
  <2>4. liquidity' \in Results
    BY Zenon, <1>2, <1>6 DEF StartTick
  <2>5. report' \in [healthy : BOOLEAN, submitted : BOOLEAN]
    BY <1>3, <1>6 DEF StartTick
  <2> QED BY <1>3, <2>1, <2>2, <2>3, <2>4, <2>5
<1>7. CASE Read \/ PassGate
  <2>1. UNCHANGED <<mode, tries, liquidity, report, bridged, alone, calm>>
    BY <1>7 DEF Read, PassGate
  <2>2. pc' = pc \/ (pc' = "plan" /\ pc = "gate")
    BY <1>7 DEF Read, PassGate
  <2>3. Where(pc', tries')
    BY <1>3, <2>1, <2>2 DEF Stages
  <2>4. Said /\ Flags
    BY Zenon, <1>3, <2>1
  <2> QED BY <1>3, <2>1, <2>3, <2>4
<1>8. CASE Plan
  <2>1. /\ pc' \in {"send", "rebalance"} /\ tries' = 0 /\ mode' = mode
        /\ UNCHANGED <<report, bridged, alone, calm>>
    BY <1>3, <1>8 DEF Plan
  <2> DEFINE sends == Bridge(reads) > 0
             lacks == Shortfall(reads) > 0
  <2>2. (~sends) \in BOOLEAN /\ lacks \in BOOLEAN
    OBVIOUS
  <2>3. liquidity' = [submitted |-> FALSE, verified |-> ~sends, short |-> lacks]
    BY Zenon, <1>8 DEF Plan
  <2> HIDE DEF sends, lacks
  <2>4. liquidity' \in Results
    BY <1>2, <2>2, <2>3
  <2> QED BY <1>3, <2>1, <2>4 DEF Stages
<1>9. CASE SendBridge
  <2>1. /\ pc' = "verify" /\ tries' = tries /\ tries = 0 /\ mode' = mode
        /\ UNCHANGED <<report, alone, calm>> /\ bridged' = TRUE
    BY <1>3, <1>9 DEF SendBridge
  <2>2. liquidity' \in Results
    BY <1>3, <1>9 DEF SendBridge, Results
  <2> QED BY <1>3, <2>1, <2>2 DEF Stages
<1>10. CASE Verify
  <2>1. /\ pc = "verify" /\ tries' = tries + 1 /\ mode' = mode
        /\ pc' \in {"rebalance", "verify"} /\ (pc' = "verify" => tries' # MaxRetries)
        /\ UNCHANGED <<report, bridged, alone, calm>>
    BY <1>10 DEF Verify
  <2>2. IdleRose(reads) \in BOOLEAN
    BY DEF IdleRose
  <2>3. liquidity' = [liquidity EXCEPT !.verified = IdleRose(reads)]
    BY <1>10 DEF Verify
  <2>4. liquidity' \in Results
    BY <1>3, <2>2, <2>3 DEF Results
  <2> QED BY <1>3, <2>1, <2>4 DEF Stages
<1>11. CASE Blocked \/ Raise
  <2>1. Finish(TRUE, NoResult, TRUE) /\ UNCHANGED bridged
    BY <1>11 DEF Blocked, Raise
  <2> QED BY <1>2, <1>5, <2>1
<1>12. CASE RebalanceNothing \/ RebalanceSend
  <2>1. /\ \E b \in BOOLEAN : Finish(FALSE, liquidity, b)
        /\ UNCHANGED bridged
    BY Zenon, <1>12 DEF RebalanceNothing, RebalanceSend
  <2> QED BY <1>3, <1>5, <2>1
<1>13. CASE Crash
  <2>1. /\ pc' = "asleep" /\ tries' = 0 /\ mode' = mode
        /\ UNCHANGED <<report, bridged, calm>> /\ alone' = FALSE /\ liquidity' = NoResult
    BY <1>13 DEF Crash
  <2>2. Where(pc', tries')
    BY <1>3, <2>1 DEF Stages
  <2>3. Said /\ Flags
    BY Zenon, <1>2, <1>3, <2>1
  <2> QED BY <1>3, <2>1, <2>2, <2>3
<1>14. CASE Mine \/ ManualBridge \/ Others \/ BecomeCalm \/ Settle \/ UNCHANGED allVars
  <2>1. UNCHANGED <<mode, pc, tries, liquidity, report, bridged>>
    BY <1>14 DEF Mine, ManualBridge, Others, BecomeCalm, Settle, allVars, keeperVars, botVars
  <2>2. Flags
    BY Zenon, <1>3, <1>14 DEF Mine, ManualBridge, Others, BecomeCalm, Settle, allVars,
       keeperVars, botVars
  <2> QED BY <1>3, <2>1, <2>2
<1> QED BY <1>6, <1>7, <1>8, <1>9, <1>10, <1>11, <1>12, <1>13, <1>14 DEF KeeperNext, BotStep

\* What holds beside the vault's own invariant.
KeeperKnows == Inv /\ ClaimsBacked /\ KeeperInv /\ BotTypes

LEMMA KeeperKnowsInit == KeeperInit => KeeperKnows
BY KeeperInitInv, InitIsBacked, BotTypesInit DEF KeeperKnows

LEMMA KeeperKnowsKept == KeeperKnows /\ [KeeperNext]_allVars => KeeperKnows'
<1> SUFFICES ASSUME KeeperKnows, [KeeperNext]_allVars PROVE KeeperKnows'
  OBVIOUS
<1>1. KeeperInv' /\ [PrudentNext]_vars
  BY KeeperInvKept, KeeperStepPrudent DEF KeeperKnows
<1>2. Inv' /\ ClaimsBacked'
  BY <1>1, PrudentKeepsBacked DEF KeeperKnows
<1>3. BotTypes'
  BY BotTypesKept DEF KeeperKnows, Inv
<1> QED BY <1>1, <1>2, <1>3 DEF KeeperKnows

\* Whatever it reads, a tick keeps its counters in bounds and its conclusions typed.
THEOREM KeeperTyped == KeeperSafety => []KeeperTypeOK
<1>1. KeeperInit => KeeperKnows
  BY KeeperKnowsInit
<1>2. KeeperKnows /\ [KeeperNext]_allVars => KeeperKnows'
  BY KeeperKnowsKept
<1>3. KeeperKnows => KeeperTypeOK
  BY Zenon DEF KeeperKnows, Inv, BotTypes, Stages, KeeperInv, KeeperTypeOK
<1> QED BY <1>1, <1>2, <1>3, PTL DEF KeeperSafety

-----------------------------------------------------------------------------
(***************************************************************************)
(* What a plan asks for, as arithmetic on one round of readings.           *)
(***************************************************************************)
LEMMA PlanBounds ==
    ASSUME NEW r \in Seq(Nat), Len(r) >= PlanCalls
    PROVE  /\ Idle(r) \in Nat /\ Pending(r) \in Nat /\ Need(r) \in Nat
           /\ BufferDen * Pending(r) <= Need(r)
           /\ Deficit(r) \in Nat /\ Bridge(r) \in Nat /\ Requested(r) \in Nat
           /\ BufferDen * Idle(r) + Deficit(r) >= Need(r)
           /\ Deficit(r) > 0 => BufferDen * Idle(r) + Deficit(r) = Need(r)
           /\ Bridge(r) <= Deficit(r)
           /\ BufferDen * Requested(r) <= Bridge(r)
           /\ Bridge(r) < BufferDen * Requested(r) + BufferDen
           /\ Requested(r) <= CoreFree(r)
<1>1. Len(r) \in Nat /\ Len(r) >= 6
  BY DEF PlanCalls
<1>2. \A i \in 1 .. 6 : r[i] \in Nat
  BY <1>1, ElementOfSeq
<1>3. r[1] \in Nat /\ r[2] \in Nat /\ r[4] \in Nat /\ r[5] \in Nat /\ r[6] \in Nat
  BY <1>2
<1>4. /\ Idle(r) \in Nat /\ Pending(r) \in Nat /\ Nav(r) \in Nat /\ CoreFree(r) \in Nat
      /\ BufferDen \in Nat \ {0} /\ BufferNum \in Nat
  <2>1. Idle(r) \in Nat
    BY <1>3 DEF Idle, Unreserved
  <2>2. BufferDen \in Nat \ {0} /\ BufferNum \in Nat
    BY PlanAssumption
  <2> QED BY <1>3, <2>1, <2>2 DEF Pending, Nav, CoreFree
<1> DEFINE i == Idle(r)
           p == Pending(r)
           c == CoreFree(r)
<1>5. /\ BufferDen * i \in Nat /\ BufferDen * p \in Nat /\ BufferNum * Nav(r) \in Nat
      /\ BufferDen * c \in Nat
  BY <1>4, TimesNat
<1>6. Need(r) \in Nat /\ BufferDen * p <= Need(r)
  BY <1>5 DEF Need
<1>7. /\ Deficit(r) \in Nat /\ BufferDen * i + Deficit(r) >= Need(r)
      /\ Deficit(r) > 0 => BufferDen * i + Deficit(r) = Need(r)
  BY <1>5, <1>6 DEF Deficit
<1>8. Bridge(r) \in Nat /\ Bridge(r) <= Deficit(r) /\ Bridge(r) <= BufferDen * c
  BY <1>5, <1>7 DEF Bridge
<1>9. /\ Requested(r) \in Nat /\ Requested(r) * BufferDen <= Bridge(r)
      /\ Bridge(r) < Requested(r) * BufferDen + BufferDen
  BY <1>4, <1>8, DivBounds DEF Requested
<1> DEFINE q == Requested(r)
           b == Bridge(r)
<1>10. BufferDen * q <= b /\ b < BufferDen * q + BufferDen
  BY <1>4, <1>9
<1>11. q <= c
  <2> HIDE DEF q, c, b
  <2>1. q \in Nat /\ c \in Nat /\ BufferDen \in Nat \ {0}
    BY <1>4, <1>9 DEF q, c
  <2>2. BufferDen * q <= BufferDen * c
    <3>1. /\ b \in Nat /\ BufferDen * q \in Nat /\ BufferDen * c \in Nat
          /\ b <= BufferDen * c
      BY <1>8, <2>1, TimesNat DEF b, c
    <3>2. BufferDen * q <= b
      BY <1>10
    <3> QED BY <3>1, <3>2
  <2>3. q * BufferDen <= c * BufferDen
    BY <2>1, <2>2
  <2> QED BY <2>1, <2>3, MulDivMonotone
<1> QED BY <1>4, <1>6, <1>7, <1>8, <1>9, <1>10, <1>11

\* What is asked of Core, added to the idle USDC, is within the need...
LEMMA BridgeWithinNeed ==
    ASSUME NEW r \in Seq(Nat), Len(r) >= PlanCalls, Bridge(r) > 0
    PROVE  BufferDen * (Idle(r) + Requested(r)) <= Need(r)
<1> DEFINE i == Idle(r)
           q == Requested(r)
<1>1. /\ i \in Nat /\ q \in Nat /\ Need(r) \in Nat /\ Deficit(r) \in Nat /\ Bridge(r) \in Nat
      /\ BufferDen * i + Deficit(r) = Need(r) /\ BufferDen * q <= Deficit(r)
      /\ BufferDen \in Nat
  <2>1. BufferDen \in Nat
    BY PlanAssumption
  <2>2. /\ i \in Nat /\ q \in Nat /\ Need(r) \in Nat /\ Deficit(r) \in Nat
        /\ Bridge(r) \in Nat /\ Bridge(r) <= Deficit(r) /\ BufferDen * q <= Bridge(r)
        /\ Deficit(r) > 0 => BufferDen * i + Deficit(r) = Need(r)
    BY PlanBounds
  <2> HIDE DEF i, q
  <2>3. BufferDen * q \in Nat
    BY <2>1, <2>2, TimesNat
  <2> DEFINE bq == BufferDen * q
  <2> HIDE DEF bq
  <2>4. bq \in Nat /\ bq <= Bridge(r)
    BY <2>2, <2>3 DEF bq
  <2>5. Deficit(r) > 0 /\ bq <= Deficit(r)
    BY <2>2, <2>4
  <2> QED BY <2>1, <2>2, <2>5 DEF bq
<1> HIDE DEF i, q
<1>2. BufferDen * (i + q) = BufferDen * i + BufferDen * q
  BY <1>1
<1>3. BufferDen * i \in Nat /\ BufferDen * q \in Nat
  BY <1>1, TimesNat
<1> QED BY <1>1, <1>2, <1>3 DEF i, q

\* ...and without a shortfall it covers what is pending, although the request is
\* rounded down.
LEMMA BridgeCoversQueue ==
    ASSUME NEW r \in Seq(Nat), Len(r) >= PlanCalls, ~(Shortfall(r) > 0)
    PROVE  Pending(r) <= Idle(r) + Requested(r)
<1> DEFINE i == Idle(r)
           q == Requested(r)
           p == Pending(r)
<1>1. /\ i \in Nat /\ q \in Nat /\ p \in Nat /\ Need(r) \in Nat
      /\ Deficit(r) \in Nat /\ Bridge(r) \in Nat
      /\ BufferDen * p <= Need(r) /\ BufferDen * i + Deficit(r) >= Need(r)
      /\ Bridge(r) <= Deficit(r) /\ Bridge(r) < BufferDen * q + BufferDen
      /\ BufferDen \in Nat \ {0}
  BY PlanBounds, PlanAssumption
<1>2. Deficit(r) = Bridge(r)
  BY <1>1 DEF Shortfall
<1> HIDE DEF i, q, p
<1> DEFINE s == i + q + 1
<1>3. /\ s \in Nat /\ s = i + q + 1
      /\ BufferDen * s = BufferDen * i + BufferDen * q + BufferDen
  BY <1>1
<1> HIDE DEF s
<1>4. BufferDen * i \in Nat /\ BufferDen * q \in Nat /\ BufferDen * p \in Nat
  BY <1>1, TimesNat
<1>5. BufferDen * p < BufferDen * s
  <2> DEFINE bi == BufferDen * i
             bq == BufferDen * q
             bp == BufferDen * p
             bs == BufferDen * s
  <2>1. /\ bi \in Nat /\ bq \in Nat /\ bp \in Nat /\ BufferDen \in Nat
        /\ Need(r) \in Nat /\ Deficit(r) \in Nat
        /\ bp <= Need(r) /\ bi + Deficit(r) >= Need(r) /\ Deficit(r) < bq + BufferDen
        /\ bs = bi + bq + BufferDen
    BY <1>1, <1>2, <1>3, <1>4
  <2> HIDE DEF bi, bq, bp, bs
  <2>2. bp < bs
    BY <2>1
  <2> QED BY <2>2 DEF bp, bs
<1>6. ~(s <= p)
  <2>1. s <= p => BufferDen * s <= BufferDen * p
    BY <1>1, <1>3
  <2> QED BY <1>1, <1>3, <1>4, <1>5, <2>1, TimesNat
<1>7. p <= i + q
  BY <1>1, <1>3, <1>6
<1> QED BY <1>7 DEF i, q, p

\* A plan depends on five of the six readings only.
LEMMA SamePlan ==
    ASSUME NEW r, NEW s, r[1] = s[1], r[2] = s[2], r[4] = s[4], r[5] = s[5], r[6] = s[6]
    PROVE  /\ Idle(r) = Idle(s) /\ Pending(r) = Pending(s) /\ Nav(r) = Nav(s)
           /\ Bridge(r) = Bridge(s) /\ Requested(r) = Requested(s)
           /\ Shortfall(r) = Shortfall(s)
<1>1. Idle(r) = Idle(s) /\ Pending(r) = Pending(s) /\ Nav(r) = Nav(s)
      /\ CoreFree(r) = CoreFree(s)
  BY DEF Idle, Pending, Nav, CoreFree
<1>2. Need(r) = Need(s)
  BY <1>1 DEF Need
<1>3. Deficit(r) = Deficit(s)
  BY <1>1, <1>2 DEF Deficit
<1>4. Bridge(r) = Bridge(s)
  BY <1>1, <1>3 DEF Bridge
<1> QED BY <1>1, <1>3, <1>4 DEF Requested, Shortfall

\* A bridge that verification saw arrive has raised the idle USDC.
LEMMA RoseMeansMore ==
    ASSUME NEW r \in Seq(Nat), Len(r) = AllCalls, Bridge(r) > 0, IdleRose(r)
    PROVE  IdleAgain(r) \in Nat /\ Idle(r) < IdleAgain(r)
<1>1. Len(r) = 8
  BY DEF AllCalls
<1>2. \A k \in 1 .. 8 : r[k] \in Nat
  BY <1>1, ElementOfSeq
<1>3. r[7] \in Nat /\ r[8] \in Nat
  BY <1>2
<1>4. IdleAgain(r) \in Nat
  BY <1>3 DEF IdleAgain, Unreserved
<1>5. Idle(r) \in Nat /\ Bridge(r) \in Nat
  <2>1. Len(r) >= PlanCalls
    BY <1>1 DEF PlanCalls
  <2> QED BY <2>1, PlanBounds
<1> DEFINE d == IdleAgain(r) - Idle(r)
           b == Bridge(r)
           t == ToleranceDen * BufferDen
<1>6. /\ d \in Int /\ b \in Nat \ {0} /\ t \in Nat /\ ToleranceNum \in Nat \ {0}
      /\ t * d >= ToleranceNum * b
  <2>1. /\ ToleranceDen \in Nat /\ BufferDen \in Nat /\ ToleranceNum \in Nat \ {0}
    BY PlanAssumption
  <2>2. t \in Nat
    BY <2>1, TimesNat
  <2>3. t * d >= ToleranceNum * b
    BY Zenon DEF IdleRose
  <2> HIDE DEF t
  <2> QED BY <1>4, <1>5, <2>1, <2>2, <2>3
<1> HIDE DEF d, b, t
<1>7. ToleranceNum * b > 0
  BY <1>6
<1>8. d <= 0 => t * d <= 0
  BY <1>6
<1>9. d > 0
  BY <1>6, <1>7, <1>8
<1> QED BY <1>4, <1>5, <1>9 DEF d

-----------------------------------------------------------------------------
(***************************************************************************)
(* A lone tick: one that began with nothing on its way and that nobody     *)
(* else disturbed.  All that can be on its way then is its own bridge, in  *)
(* one of four places; a bridge of 0 stands for none.                      *)
(***************************************************************************)
NoBridge == mempool.kind # "bridge"
Coverable(a) == a = 0 \/ a + margin <= perp

Waiting(a) == mempool = BridgeTx(a) /\ coreQueue = <<>> /\ toEvm = 0 /\ Coverable(a)
Leaving(a) == /\ NoBridge /\ toEvm = 0 /\ Coverable(a)
              /\ coreQueue = <<Queued("perpToSpot", a), Queued("spotSend", a)>>
InSpot(a) == /\ NoBridge /\ toEvm = 0 /\ a <= spot
             /\ coreQueue = <<Queued("spotSend", a)>>
Arriving(a) == NoBridge /\ coreQueue = <<>> /\ toEvm = a

OnWay(a) == toCore = 0 /\ (Waiting(a) \/ Leaving(a) \/ InSpot(a) \/ Arriving(a))

\* The NAV once all has arrived, and what the queue is worth at a NAV
Settled == TotalAssets + toEvm
Owed(nav) == MulDiv(totalPendingRedeemShares, nav + 1, supply + VirtualShares)

LEMMA KeepValue ==
    ASSUME UNCHANGED <<usdc, reservedAssets, perp, spot>>
    PROVE  IdleAssets' = IdleAssets /\ TotalAssets' = TotalAssets
BY DEF IdleAssets, TotalAssets, CoreEquityUsd, CoreSpotUsd

\* On its way the bridge changes nothing but where its amount is.
LEMMA WayMined ==
    ASSUME TypeOK, KeeperInv, NEW a \in Nat, OnWay(a), Mine
    PROVE  /\ UNCHANGED <<usdc, reservedAssets, totalPendingRedeemShares, supply, perp, spot, toEvm>>
           /\ OnWay(a)'
<1>1. CASE mempool.kind = "bridge"
  <2>1. BridgeFromCore(manager, mempool.amount) /\ mempool' = NoTx
    BY <1>1 DEF Mine
  <2>2. mempool = BridgeTx(a) /\ coreQueue = <<>> /\ toEvm = 0 /\ Coverable(a) /\ toCore = 0
    BY <1>1 DEF OnWay, Waiting, Leaving, InSpot, Arriving, NoBridge
  <2>3. mempool.amount = a
    BY <2>2 DEF BridgeTx
  <2>4. /\ UNCHANGED <<vaultVars, perp, margin, spot, toCore, toEvm>>
        /\ coreQueue' = coreQueue \o <<Queued("perpToSpot", a), Queued("spotSend", a)>>
    BY <2>1, <2>3 DEF BridgeFromCore, CallFromCore, Enqueue
  <2>5. coreQueue' = <<Queued("perpToSpot", a), Queued("spotSend", a)>>
    BY <2>2, <2>4
  <2>6. UNCHANGED <<usdc, reservedAssets, totalPendingRedeemShares, supply>>
    BY <2>4 DEF vaultVars, tokenVars, queueVars, requestVars, claimVars
  <2>7. Leaving(a)' /\ toCore' = 0
    BY <2>1, <2>2, <2>4, <2>5 DEF Leaving, NoBridge, NoTx, Coverable
  <2> QED BY <2>4, <2>6, <2>7 DEF OnWay
<1>2. CASE mempool.kind # "bridge"
  <2>1. mempool' = NoTx /\ UNCHANGED <<vaultVars, coreVars>>
    BY <1>2 DEF Mine, vars
  <2>2. /\ UNCHANGED <<usdc, reservedAssets, totalPendingRedeemShares, supply>>
        /\ UNCHANGED <<perp, margin, spot, toCore, toEvm, coreQueue>>
    BY <2>1 DEF vaultVars, tokenVars, queueVars, requestVars, claimVars, coreVars
  <2>3. ~Waiting(a)
    BY <1>2 DEF Waiting, BridgeTx
  <2>4. Leaving(a)' \/ InSpot(a)' \/ Arriving(a)'
    BY <2>1, <2>2, <2>3 DEF OnWay, Leaving, InSpot, Arriving, NoBridge, NoTx, Coverable
  <2> QED BY <2>2, <2>4 DEF OnWay
<1> QED BY <1>1, <1>2

LEMMA WaySettles ==
    ASSUME TypeOK, NEW a \in Nat, OnWay(a), Settle
    PROVE  /\ UNCHANGED <<reservedAssets, totalPendingRedeemShares, supply>>
           /\ usdc' >= usdc
           /\ \E b \in {0, a} : /\ OnWay(b)'
                                /\ IdleAssets' + b = IdleAssets + a
                                /\ Settled' = Settled
<1>1. /\ usdc \in Nat /\ reservedAssets \in Nat /\ perp \in Int /\ margin \in Nat
      /\ spot \in Nat /\ mempool' = mempool
  BY DEF TypeOK, CoreTypeOK, Settle, keeperVars
<1>2. CASE CreditEvm
  <2>1. /\ toEvm # 0 /\ toEvm' = 0 /\ usdc' = usdc + toEvm
        /\ UNCHANGED <<perp, margin, spot, toCore, coreQueue>>
        /\ UNCHANGED <<reservedAssets, totalPendingRedeemShares, supply>>
    BY <1>2 DEF CreditEvm, LeaveCore, queueVars, requestVars, claimVars
  <2>2. toEvm = a /\ NoBridge /\ coreQueue = <<>> /\ toCore = 0
    BY <2>1 DEF OnWay, Waiting, Leaving, InSpot, Arriving
  <2>3. OnWay(0)'
    BY <1>1, <2>1, <2>2 DEF OnWay, Arriving, NoBridge
  <2>4. IdleAssets' + 0 = IdleAssets + a /\ Settled' = Settled
    BY <1>1, <2>1, <2>2 DEF IdleAssets, Settled, TotalAssets, CoreEquityUsd, CoreSpotUsd
  <2> QED BY <1>1, <2>1, <2>2, <2>3, <2>4
<1>3. CASE CoreCredits
  BY <1>3 DEF CoreCredits, CreditSpot, OnWay
<1>4. CASE CoreRuns
  <2>1. /\ UNCHANGED <<usdc, reservedAssets, totalPendingRedeemShares, supply>>
        /\ coreQueue # <<>> /\ coreQueue' = Tail(coreQueue)
        /\ UNCHANGED <<margin, toCore>>
    BY <1>4 DEF CoreRuns, RunAction, vaultVars, tokenVars, queueVars, requestVars, claimVars
  <2> DEFINE h == Head(coreQueue)
  <2>2. \/ Covered(h) /\ Effect(h)
        \/ ~Covered(h) /\ UNCHANGED <<perp, spot, toEvm>>
    BY <1>4 DEF CoreRuns, RunAction
  <2>3. IdleAssets' = IdleAssets
    BY <2>1 DEF IdleAssets
  <2>4. toCore = 0 /\ toCore' = 0
    BY <2>1 DEF OnWay
  <2>5. CASE Leaving(a)
    <3>1. /\ h = Queued("perpToSpot", a) /\ Tail(coreQueue) = <<Queued("spotSend", a)>>
          /\ toEvm = 0 /\ Coverable(a)
      BY <2>5 DEF Leaving
    <3>2. h.kind = "perpToSpot" /\ h.amount = a
      BY <3>1 DEF Queued
    <3>3. \/ perp' = perp - a /\ spot' = spot + a /\ toEvm' = 0 /\ (a = 0 \/ a + margin <= perp)
          \/ a = 0 /\ perp' = perp /\ spot' = spot /\ toEvm' = 0
      <4>1. CASE Covered(h) /\ Effect(h)
        BY <3>1, <3>2, <4>1 DEF Effect, Coverable
      <4>2. CASE ~Covered(h) /\ UNCHANGED <<perp, spot, toEvm>>
        BY <3>1, <3>2, <4>2 DEF Covered, Coverable
      <4> QED BY <2>2, <4>1, <4>2
    <3>4. a <= spot' /\ InSpot(a)'
      BY <1>1, <2>1, <2>5, <3>1, <3>3 DEF InSpot, Leaving, NoBridge
    <3>5. Settled' = Settled
      BY <1>1, <2>1, <3>1, <3>3
         DEF Settled, TotalAssets, IdleAssets, CoreEquityUsd, CoreSpotUsd
    <3> QED BY <1>1, <2>1, <2>3, <2>4, <3>4, <3>5 DEF OnWay
  <2>6. CASE InSpot(a)
    <3>1. /\ h = Queued("spotSend", a) /\ Tail(coreQueue) = <<>>
          /\ toEvm = 0 /\ a <= spot
      BY <2>6 DEF InSpot
    <3>2. h.kind = "spotSend" /\ h.amount = a
      BY <3>1 DEF Queued
    <3>3. perp' = perp /\ spot' = spot - a /\ toEvm' = a
      BY <1>1, <2>2, <3>1, <3>2 DEF Covered, Effect
    <3>4. Arriving(a)'
      BY <1>1, <2>1, <2>6, <3>1, <3>3 DEF Arriving, InSpot, NoBridge
    <3>5. Settled' = Settled
      BY <1>1, <2>1, <3>1, <3>3
         DEF Settled, TotalAssets, IdleAssets, CoreEquityUsd, CoreSpotUsd
    <3> QED BY <1>1, <2>1, <2>3, <2>4, <3>4, <3>5 DEF OnWay
  <2> QED BY <2>1, <2>5, <2>6 DEF OnWay, Waiting, Arriving
<1> QED BY <1>2, <1>3, <1>4 DEF Settle

LEMMA WayMoves ==
    ASSUME TypeOK, KeeperInv, NEW a \in Nat, OnWay(a), Mine \/ Settle
    PROVE  /\ UNCHANGED <<reservedAssets, totalPendingRedeemShares, supply>>
           /\ usdc' >= usdc
           /\ \E b \in {0, a} : /\ OnWay(b)'
                                /\ IdleAssets' + b = IdleAssets + a
                                /\ Settled' = Settled
<1>1. CASE Mine
  <2>1. /\ UNCHANGED <<usdc, reservedAssets, totalPendingRedeemShares, supply, perp, spot, toEvm>>
        /\ OnWay(a)'
    BY <1>1, WayMined
  <2>2. IdleAssets' = IdleAssets /\ Settled' = Settled
    BY <2>1, KeepValue DEF Settled
  <2>3. usdc \in Nat
    BY DEF TypeOK
  <2> QED BY <2>1, <2>2, <2>3
<1> QED BY <1>1, WaySettles

\* With the bridge the idle USDC stays within what the queue and the buffer need.
WithinNeed(a) ==
    BufferDen * (IdleAssets + a) <= BufferDen * Owed(Settled) + BufferNum * Settled

\* The first calls of a job, answered while nothing moves
Told(k, v) ==
    /\ k = 1 => v = usdc
    /\ k = 2 => v = reservedAssets
    /\ k = 3 => v = totalPendingRedeemShares
    /\ k = 4 => v = Owed(TotalAssets)
    /\ k = 5 => v = TotalAssets
    /\ k = 6 => v \in {CoreAvailable, 0}

Fresh(r) == Len(r) <= PlanCalls /\ \A k \in 1 .. Len(r) : Told(k, r[k])

\* What is on its way is what was planned, or all of it has arrived.
PlannedFor(a) ==
    /\ a \in {0, Requested(reads)}
    /\ Len(reads) >= PlanCalls
    /\ Idle(reads) + Requested(reads) = IdleAssets + a
    /\ Pending(reads) = Owed(Settled)
    /\ Bridge(reads) > 0
    /\ Len(reads) >= 7 => reads[7] <= usdc
    /\ Len(reads) >= 8 => reads[8] = reservedAssets
    /\ liquidity.submitted
    /\ liquidity.short <=> Shortfall(reads) > 0

\* The queue is covered, and nothing is on its way that could change that.
Met == Owed(Settled) <= IdleAssets /\ OnWay(0)

LoneWay ==
    \E a \in Nat : /\ OnWay(a)
                   /\ bridged => WithinNeed(a)
                   /\ pc = "verify" => PlannedFor(a)

LonePlan ==
    /\ pc \in {"gate", "plan", "send"} => NothingInFlight /\ ~bridged
    /\ pc \in {"plan", "send"} => Fresh(reads)
    /\ pc = "send" => /\ Len(reads) = PlanCalls
                      /\ Bridge(reads) > 0
                      /\ liquidity.short <=> Shortfall(reads) > 0

LoneEnd ==
    /\ /\ pc = "rebalance" /\ mode = "execute" /\ ~liquidity.short
       /\ liquidity.submitted => liquidity.verified
       => Met
    /\ pc = "asleep" /\ mode = "execute" /\ report.healthy => Met

LoneInv == alone => LoneWay /\ LonePlan /\ LoneEnd

\* Mining and settlement keep all of it: the sums count what is on its way.
LEMMA LoneMoves ==
    ASSUME KeeperKnows, KeeperKnows', LoneInv, Mine \/ Settle
    PROVE  LoneInv'
<1> SUFFICES ASSUME alone, alone' = alone PROVE (LoneWay /\ LonePlan /\ LoneEnd)'
  <2>1. alone' = alone
    BY DEF Mine, Settle, keeperVars
  <2> QED BY Zenon, <2>1 DEF LoneInv
<1>1. LoneWay /\ LonePlan /\ LoneEnd
  BY DEF LoneInv
<1>2. UNCHANGED <<mode, pc, reads, liquidity, report, bridged>>
  BY DEF Mine, Settle, keeperVars, botVars
<1>3. TypeOK /\ KeeperInv
  BY DEF KeeperKnows, Inv
<1>4. pc \notin {"gate", "plan", "send"}
  <2>1. SUFFICES ASSUME NothingInFlight PROVE FALSE
    BY <1>1 DEF LonePlan
  <2>2. ~Mine
    BY <2>1 DEF NothingInFlight, Mine
  <2>3. ~Settle
    BY <2>1 DEF NothingInFlight, Settle, CoreRuns, RunAction, CoreCredits, CreditSpot,
       CreditEvm, LeaveCore
  <2> QED BY <2>2, <2>3
<1>5. LonePlan'
  BY <1>2, <1>4 DEF LonePlan
<1>6. LoneWay'
  <2>1. PICK a \in Nat : /\ OnWay(a)
                         /\ bridged => WithinNeed(a)
                         /\ pc = "verify" => PlannedFor(a)
    BY <1>1 DEF LoneWay
  <2>2. /\ UNCHANGED <<reservedAssets, totalPendingRedeemShares, supply>>
        /\ usdc' >= usdc
    BY <1>3, <2>1, WayMoves
  <2>3. PICK b \in {0, a} : OnWay(b)' /\ IdleAssets' + b = IdleAssets + a /\ Settled' = Settled
    BY <1>3, <2>1, WayMoves
  <2>4. b \in Nat
    BY <2>3
  <2>5. Owed(Settled)' = Owed(Settled)
    BY <2>2, <2>3 DEF Owed
  <2>6. WithinNeed(a) => WithinNeed(b)'
    BY <2>3, <2>5 DEF WithinNeed
  <2>7. ASSUME PlannedFor(a), pc = "verify" PROVE PlannedFor(b)'
    <3>1. b \in {0, Requested(reads)}
      BY <2>3, <2>7 DEF PlannedFor
    <3>2. /\ Idle(reads) + Requested(reads) = IdleAssets' + b
          /\ Pending(reads) = Owed(Settled)'
      BY <2>3, <2>5, <2>7 DEF PlannedFor
    <3>3. Len(reads) >= 7 => reads[7] <= usdc'
      <4>1. SUFFICES ASSUME Len(reads) >= 7 PROVE reads[7] <= usdc'
        OBVIOUS
      <4>2. reads[7] \in Nat /\ usdc \in Nat
        BY <1>3, <4>1, ElementOfSeq DEF KeeperKnows, BotTypes, TypeOK
      <4>3. PICK u \in Nat : usdc' = u
        BY DEF KeeperKnows, Inv, TypeOK
      <4> QED BY <2>2, <2>7, <4>1, <4>2, <4>3 DEF PlannedFor
    <3>4. /\ Len(reads) >= PlanCalls /\ Bridge(reads) > 0
          /\ Len(reads) >= 8 => reads[8] = reservedAssets'
          /\ liquidity.submitted /\ (liquidity.short <=> Shortfall(reads) > 0)
      BY <2>2, <2>7 DEF PlannedFor
    <3>5. \A r, liq : r = reads /\ liq = liquidity =>
             /\ b \in {0, Requested(r)}
             /\ Idle(r) + Requested(r) = IdleAssets' + b
             /\ Pending(r) = Owed(Settled)'
             /\ Len(r) >= PlanCalls /\ Bridge(r) > 0
             /\ Len(r) >= 7 => r[7] <= usdc'
             /\ Len(r) >= 8 => r[8] = reservedAssets'
             /\ liq.submitted /\ (liq.short <=> Shortfall(r) > 0)
      BY Zenon, <3>1, <3>2, <3>3, <3>4
    <3>6. reads' = reads /\ liquidity' = liquidity
      BY <1>2
    <3> QED BY Zenon, <3>5, <3>6 DEF PlannedFor
  <2> QED BY Zenon, <1>2, <2>1, <2>3, <2>4, <2>6, <2>7 DEF LoneWay
<1>7. Met => Met'
  <2>1. SUFFICES ASSUME Owed(Settled) <= IdleAssets, OnWay(0) PROVE Met'
    BY DEF Met
  <2>2. UNCHANGED <<totalPendingRedeemShares, supply>>
    BY <1>3, <2>1, WayMoves
  <2>3. OnWay(0)' /\ IdleAssets' + 0 = IdleAssets + 0 /\ Settled' = Settled
    BY <1>3, <2>1, WayMoves
  <2>4. Owed(Settled)' = Owed(Settled)
    BY <2>2, <2>3 DEF Owed
  <2>5. IdleAssets' = IdleAssets
    <3>1. PICK u \in Nat, v \in Nat : usdc' = u /\ reservedAssets' = v
      BY DEF KeeperKnows, Inv, TypeOK
    <3>2. usdc \in Nat /\ reservedAssets \in Nat
      BY <1>3 DEF TypeOK
    <3> QED BY <2>3, <3>1, <3>2 DEF IdleAssets
  <2> QED BY <2>1, <2>3, <2>4, <2>5 DEF Met
<1>8. LoneEnd'
  BY Zenon, <1>1, <1>2, <1>7 DEF LoneEnd
<1> QED BY <1>5, <1>6, <1>8

\* Steps of the process leave the chain, and so the sums, alone.
LEMMA ChainStill ==
    ASSUME UNCHANGED vars
    PROVE  /\ UNCHANGED <<usdc, reservedAssets, totalPendingRedeemShares, supply>>
           /\ UNCHANGED <<perp, margin, spot, toCore, toEvm, coreQueue>>
           /\ IdleAssets' = IdleAssets /\ TotalAssets' = TotalAssets
           /\ Settled' = Settled /\ CoreAvailable' = CoreAvailable
           /\ Owed(Settled)' = Owed(Settled) /\ Owed(TotalAssets)' = Owed(TotalAssets)
<1>1. /\ UNCHANGED <<usdc, reservedAssets, totalPendingRedeemShares, supply>>
      /\ UNCHANGED <<perp, margin, spot, toCore, toEvm, coreQueue>>
  BY DEF vars, vaultVars, tokenVars, queueVars, requestVars, claimVars, coreVars
<1>2. IdleAssets' = IdleAssets /\ TotalAssets' = TotalAssets
  BY <1>1, KeepValue
<1>3. Settled' = Settled /\ CoreAvailable' = CoreAvailable
  BY <1>1, <1>2 DEF Settled, CoreAvailable
<1> QED BY <1>1, <1>2, <1>3 DEF Owed

LEMMA WayStill ==
    ASSUME UNCHANGED <<vars, mempool>>
    PROVE  /\ \A a : OnWay(a)' <=> OnWay(a)
           /\ \A a : WithinNeed(a)' <=> WithinNeed(a)
           /\ NothingInFlight' <=> NothingInFlight
           /\ Met' <=> Met
<1>1. /\ UNCHANGED <<margin, perp, spot, toCore, toEvm, coreQueue, mempool>>
      /\ IdleAssets' = IdleAssets /\ Settled' = Settled /\ Owed(Settled)' = Owed(Settled)
  BY ChainStill
<1>2. \A a : OnWay(a)' <=> OnWay(a)
  BY <1>1 DEF OnWay, Waiting, Leaving, InSpot, Arriving, NoBridge, Coverable
<1>3. \A a : WithinNeed(a)' <=> WithinNeed(a)
  BY <1>1 DEF WithinNeed
<1>4. NothingInFlight' <=> NothingInFlight
  BY <1>1 DEF NothingInFlight
<1>5. Met' <=> Met
  BY <1>1, <1>2 DEF Met
<1> QED BY <1>2, <1>3, <1>4, <1>5

\* More readings of the same round, or fewer re-readings, do not disturb a plan.
LEMMA PlanKept ==
    ASSUME UNCHANGED vars, NEW a, PlannedFor(a), NEW r, reads' = r,
           Len(r) >= PlanCalls, \A i \in 1 .. PlanCalls : r[i] = reads[i],
           Len(r) >= 7 => r[7] <= usdc, Len(r) >= 8 => r[8] = reservedAssets,
           liquidity'.submitted = liquidity.submitted, liquidity'.short = liquidity.short
    PROVE  PlannedFor(a)'
<1>1. /\ usdc' = usdc /\ reservedAssets' = reservedAssets
      /\ IdleAssets' = IdleAssets /\ Owed(Settled)' = Owed(Settled)
  BY ChainStill
<1>2. /\ r[1] = reads[1] /\ r[2] = reads[2] /\ r[4] = reads[4] /\ r[5] = reads[5]
      /\ r[6] = reads[6]
  BY DEF PlanCalls
<1>3. /\ Idle(r) = Idle(reads) /\ Pending(r) = Pending(reads) /\ Nav(r) = Nav(reads)
      /\ Bridge(r) = Bridge(reads) /\ Requested(r) = Requested(reads)
      /\ Shortfall(r) = Shortfall(reads)
  BY <1>2, SamePlan
<1> DEFINE Says(s, liq) ==
        /\ a \in {0, Requested(s)}
        /\ Len(s) >= PlanCalls
        /\ Idle(s) + Requested(s) = IdleAssets' + a
        /\ Pending(s) = Owed(Settled)'
        /\ Bridge(s) > 0
        /\ Len(s) >= 7 => s[7] <= usdc'
        /\ Len(s) >= 8 => s[8] = reservedAssets'
        /\ liq.submitted
        /\ liq.short <=> Shortfall(s) > 0
<1>4. PICK now2 : liquidity' = now2
  OBVIOUS
<1>5. Says(r, now2)
  BY Zenon, <1>1, <1>3, <1>4 DEF PlannedFor
<1> QED BY Zenon, <1>4, <1>5 DEF PlannedFor

LEMMA LoneStarts ==
    ASSUME StartTick
    PROVE  LoneInv'
<1>1. /\ pc' = "gate" /\ bridged' = FALSE /\ alone' = NothingInFlight
      /\ UNCHANGED <<vars, mempool>>
  BY DEF StartTick
<1>2. NothingInFlight' <=> NothingInFlight
  BY <1>1, WayStill
<1>3. SUFFICES ASSUME NothingInFlight PROVE (LoneWay /\ LonePlan /\ LoneEnd)'
  BY Zenon, <1>1 DEF LoneInv
<1>4. OnWay(0)
  BY <1>3 DEF NothingInFlight, OnWay, Arriving, NoBridge, NoTx
<1>5. OnWay(0)'
  BY <1>1, <1>4, WayStill
<1>6. LoneWay'
  BY <1>1, <1>5 DEF LoneWay
<1>7. LonePlan'
  BY <1>1, <1>2, <1>3 DEF LonePlan
<1>8. LoneEnd'
  BY <1>1 DEF LoneEnd
<1> QED BY <1>6, <1>7, <1>8

LEMMA FreshRead ==
    ASSUME KeeperKnows, NothingInFlight, Fresh(reads), Len(reads) < PlanCalls, Read
    PROVE  Fresh(reads)'
<1> DEFINE n == Len(reads)
<1>1. BotTypes /\ TypeOK /\ ClaimsBacked
  BY DEF KeeperKnows, Inv
<1>2. PICK v \in Nat : reads' = Append(reads, v) /\ Answers(n + 1, v)
  BY <1>1, AnswerType
<1>3. reads \in Seq(Nat) /\ n \in 0 .. 5
  <2>1. reads \in Seq(Nat) /\ n \in Nat
    BY <1>1 DEF BotTypes
  <2>2. n < 6
    BY DEF PlanCalls
  <2> HIDE DEF n
  <2> QED BY <2>1, <2>2
<1>4. PICK r : r = Append(reads, v)
  OBVIOUS
<1>5. Len(r) = n + 1 /\ r[n + 1] = v /\ \A i \in 1 .. n : r[i] = reads[i]
  BY <1>3, <1>4
<1> HIDE DEF n
<1>6. \A k \in 1 .. n : Told(k, r[k])
  BY <1>5 DEF Fresh, n
<1>7. Told(n + 1, v)
  <2>1. n + 1 = 4 => v = Owed(TotalAssets)
    <3>1. n + 1 = 4 => Told(3, reads[3])
      BY <1>3 DEF Fresh, n
    <3> QED BY <1>2, <3>1 DEF Told, Answers, ToAssets, Owed
  <2> QED BY <1>2, <2>1 DEF Told, Answers
<1>8. Len(r) <= 6 /\ \A k \in 1 .. Len(r) : Told(k, r[k])
  BY <1>3, <1>5, <1>6, <1>7
<1>9. \A k, x : Told(k, x)' <=> Told(k, x)
  <2>1. UNCHANGED vars
    BY DEF Read
  <2>2. /\ UNCHANGED <<usdc, reservedAssets, totalPendingRedeemShares>>
        /\ TotalAssets' = TotalAssets /\ CoreAvailable' = CoreAvailable
        /\ Owed(TotalAssets)' = Owed(TotalAssets)
    BY <2>1, ChainStill
  <2> QED BY <2>2 DEF Told
<1> DEFINE Good(s) == Len(s) <= PlanCalls /\ \A k \in 1 .. Len(s) : Told(k, s[k])'
<1>10. \A s : reads' = s /\ Good(s) => Fresh(reads)'
  BY Zenon DEF Fresh
<1>11. Good(r)
  BY <1>8, <1>9 DEF PlanCalls
<1>12. reads' = r
  BY <1>2, <1>4
<1> QED BY <1>10, <1>11, <1>12

LEMMA LoneReads ==
    ASSUME KeeperKnows, LoneInv, Read
    PROVE  LoneInv'
<1>1. /\ UNCHANGED <<vars, mempool>>
      /\ UNCHANGED <<mode, pc, liquidity, report, bridged, alone>>
  BY DEF Read
<1>2. SUFFICES ASSUME alone PROVE (LoneWay /\ LonePlan /\ LoneEnd)'
  BY Zenon, <1>1 DEF LoneInv
<1>3. LoneWay /\ LonePlan /\ LoneEnd
  BY <1>2 DEF LoneInv
<1>4. /\ \A a : OnWay(a)' <=> OnWay(a)
      /\ \A a : WithinNeed(a)' <=> WithinNeed(a)
      /\ NothingInFlight' <=> NothingInFlight
      /\ Met' <=> Met
  BY <1>1, WayStill
<1>5. pc \in {"gate", "plan", "verify"} /\ Len(reads) < CallsOf(pc)
  BY DEF Read
<1>6. LonePlan'
  <2>1. pc' = "plan" => Fresh(reads)'
    BY <1>1, <1>3, <1>5, FreshRead DEF LonePlan, CallsOf
  <2>2. pc' \in {"gate", "plan", "send"} => NothingInFlight' /\ ~bridged'
    BY <1>1, <1>3, <1>4 DEF LonePlan
  <2> QED BY <1>1, <1>5, <2>1, <2>2 DEF LonePlan
<1>7. LoneWay'
  <2>1. PICK a \in Nat : /\ OnWay(a)
                         /\ bridged => WithinNeed(a)
                         /\ pc = "verify" => PlannedFor(a)
    BY <1>3 DEF LoneWay
  <2>2. ASSUME PlannedFor(a) PROVE PlannedFor(a)'
    <3> DEFINE n == Len(reads)
    <3>1. PICK v \in Nat : reads' = Append(reads, v) /\ Answers(n + 1, v)
      BY AnswerType DEF KeeperKnows, Inv
    <3>2. reads \in Seq(Nat) /\ n \in Nat /\ n >= PlanCalls
      BY <2>2 DEF KeeperKnows, BotTypes, PlannedFor
    <3>3. PICK r : r = Append(reads, v)
      OBVIOUS
    <3>4. Len(r) = n + 1 /\ r[n + 1] = v /\ \A i \in 1 .. n : r[i] = reads[i]
      BY <3>2, <3>3
    <3>5. n >= 7 => reads[7] <= usdc
      BY <2>2 DEF PlannedFor
    <3>6. n >= 8 => reads[8] = reservedAssets
      BY <2>2 DEF PlannedFor
    <3> HIDE DEF n
    <3>7. Len(r) >= PlanCalls /\ \A i \in 1 .. PlanCalls : r[i] = reads[i]
      BY <3>2, <3>4 DEF PlanCalls
    <3>8. Len(r) >= 7 => r[7] <= usdc
      <4>1. usdc \in Nat
        BY DEF KeeperKnows, Inv, TypeOK
      <4> QED BY <3>1, <3>2, <3>4, <3>5, <4>1 DEF Answers, PlanCalls
    <3>9. Len(r) >= 8 => r[8] = reservedAssets
      BY <3>1, <3>2, <3>4, <3>6 DEF Answers, PlanCalls
    <3>10. reads' = r
      BY <3>1, <3>3
    <3>11. UNCHANGED vars
      BY <1>1
    <3>12. liquidity'.submitted = liquidity.submitted /\ liquidity'.short = liquidity.short
      BY <1>1
    <3> QED BY <2>2, <3>7, <3>8, <3>9, <3>10, <3>11, <3>12, PlanKept
  <2> QED BY Zenon, <1>1, <1>4, <2>1, <2>2 DEF LoneWay
<1>8. LoneEnd'
  BY Zenon, <1>1, <1>3, <1>4 DEF LoneEnd
<1> QED BY <1>6, <1>7, <1>8

LEMMA LonePasses ==
    ASSUME LoneInv, PassGate
    PROVE  LoneInv'
<1>1. /\ pc = "gate" /\ pc' = "plan" /\ reads' = <<>>
      /\ UNCHANGED <<vars, mempool>> /\ UNCHANGED <<bridged, alone>>
  BY DEF PassGate
<1>2. SUFFICES ASSUME alone PROVE (LoneWay /\ LonePlan /\ LoneEnd)'
  BY Zenon, <1>1 DEF LoneInv
<1>3. LoneWay /\ NothingInFlight /\ ~bridged
  BY <1>1, <1>2 DEF LoneInv, LonePlan
<1>4. /\ \A a : OnWay(a)' <=> OnWay(a)
      /\ NothingInFlight' <=> NothingInFlight
  BY <1>1, WayStill
<1>5. LoneWay'
  BY <1>1, <1>3, <1>4 DEF LoneWay
<1>6. LonePlan'
  <2>1. Fresh(<<>>)'
    BY DEF Fresh, PlanCalls
  <2>2. Fresh(reads)'
    BY <1>1, <2>1 DEF Fresh
  <2> QED BY <1>1, <1>3, <1>4, <2>2 DEF LonePlan
<1>7. LoneEnd'
  BY <1>1 DEF LoneEnd
<1> QED BY <1>5, <1>6, <1>7

\* What a full round of fresh readings says
LEMMA FreshRound ==
    ASSUME KeeperKnows, NothingInFlight, Fresh(reads), Len(reads) = PlanCalls
    PROVE  /\ Idle(reads) = IdleAssets /\ Pending(reads) = Owed(Settled)
           /\ Nav(reads) = Settled /\ CoreFree(reads) \in {CoreAvailable, 0}
           /\ Met <=> Pending(reads) <= Idle(reads)
<1>1. Told(1, reads[1]) /\ Told(2, reads[2]) /\ Told(4, reads[4]) /\ Told(5, reads[5])
      /\ Told(6, reads[6])
  BY DEF Fresh, PlanCalls
<1>2. /\ reads[1] = usdc /\ reads[2] = reservedAssets /\ reads[4] = Owed(TotalAssets)
      /\ reads[5] = TotalAssets /\ reads[6] \in {CoreAvailable, 0}
  BY <1>1 DEF Told
<1>3. usdc \in Nat /\ reservedAssets \in Nat /\ reservedAssets <= usdc
      /\ TotalAssets \in Nat /\ toEvm = 0
  BY NavTypes DEF KeeperKnows, Inv, TypeOK, ClaimsBacked, NavReadable, NothingInFlight
<1>4. Idle(reads) = IdleAssets
  BY <1>2, <1>3 DEF Idle, Unreserved, IdleAssets
<1>5. Settled = TotalAssets
  BY <1>3 DEF Settled
<1>6. OnWay(0)
  BY DEF NothingInFlight, OnWay, Arriving, NoBridge, NoTx
<1> QED BY <1>2, <1>4, <1>5, <1>6 DEF Pending, Nav, CoreFree, Met

LEMMA LonePlans ==
    ASSUME KeeperKnows, LoneInv, Plan
    PROVE  LoneInv'
<1> DEFINE sends == Bridge(reads) > 0
           lacks == Shortfall(reads) > 0
<1>1. /\ pc = "plan" /\ Len(reads) = PlanCalls
      /\ pc' = IF sends /\ mode = "execute" THEN "send" ELSE "rebalance"
      /\ liquidity' = [submitted |-> FALSE, verified |-> ~sends, short |-> lacks]
      /\ UNCHANGED <<vars, mempool>> /\ UNCHANGED <<mode, reads, bridged, alone>>
  BY Zenon DEF Plan
<1>2. SUFFICES ASSUME alone PROVE (LoneWay /\ LonePlan /\ LoneEnd)'
  BY Zenon, <1>1 DEF LoneInv
<1>3. LoneWay /\ NothingInFlight /\ ~bridged /\ Fresh(reads)
  BY <1>1, <1>2 DEF LoneInv, LonePlan
<1>4. /\ \A a : OnWay(a)' <=> OnWay(a)
      /\ NothingInFlight' <=> NothingInFlight
      /\ Met' <=> Met
  BY <1>1, WayStill
<1>5. LoneWay'
  BY <1>1, <1>3, <1>4 DEF LoneWay
<1>6. Fresh(reads)'
  <2>1. /\ UNCHANGED <<usdc, reservedAssets, totalPendingRedeemShares>>
        /\ TotalAssets' = TotalAssets /\ CoreAvailable' = CoreAvailable
        /\ Owed(TotalAssets)' = Owed(TotalAssets)
    BY <1>1, ChainStill
  <2>2. \A k, x : Told(k, x)' <=> Told(k, x)
    BY <2>1 DEF Told
  <2>3. reads' = reads
    BY <1>1
  <2> QED BY Zenon, <1>3, <2>2, <2>3 DEF Fresh
<1>7. ASSUME ~sends, ~lacks PROVE Met
  <2>1. Bridge(reads) \in Nat /\ Deficit(reads) \in Nat /\ Requested(reads) \in Nat
        /\ BufferDen * Requested(reads) <= Bridge(reads) /\ Idle(reads) \in Nat
        /\ Pending(reads) \in Nat
    BY <1>1, PlanBounds DEF KeeperKnows, BotTypes
  <2>2. Bridge(reads) = 0
    BY <1>7, <2>1
  <2>3. Requested(reads) = 0
    BY <2>2, PlanAssumption DEF Requested
  <2>4. Pending(reads) <= Idle(reads) + Requested(reads)
    BY <1>1, <1>7, BridgeCoversQueue DEF KeeperKnows, BotTypes
  <2> QED BY <1>1, <1>3, <2>1, <2>3, <2>4, FreshRound
<1> HIDE DEF sends, lacks
<1>8. LonePlan'
  <2>1. pc' \in {"send", "rebalance"} /\ (pc' = "send" => sends)
    BY <1>1
  <2>2. liquidity'.short <=> lacks
    BY Zenon, <1>1
  <2>3. pc' = "send" => /\ Len(reads') = PlanCalls
                        /\ Bridge(reads') > 0
                        /\ liquidity'.short <=> Shortfall(reads') > 0
    BY Zenon, <1>1, <2>1, <2>2 DEF sends, lacks
  <2> QED BY Zenon, <1>1, <1>3, <1>4, <1>6, <2>3 DEF LonePlan
<1>9. LoneEnd'
  <2>1. /\ pc' = "rebalance" => ~(sends /\ mode' = "execute")
        /\ pc' # "asleep"
    BY <1>1
  <2>2. /\ liquidity'.short <=> lacks
        /\ liquidity'.submitted <=> FALSE
    BY Zenon, <1>1
  <2> QED BY Zenon, <1>4, <1>7, <2>1, <2>2 DEF LoneEnd
<1> QED BY <1>5, <1>8, <1>9

\* What is asked of Core is covered by the free margin.
LEMMA LoneSends ==
    ASSUME KeeperKnows, LoneInv, SendBridge
    PROVE  LoneInv'
<1> PICK q : q = Requested(reads)
  OBVIOUS
<1>1. /\ pc = "send" /\ pc' = "verify" /\ mempool' = BridgeTx(q) /\ bridged' = TRUE
      /\ liquidity' = [liquidity EXCEPT !.submitted = TRUE]
      /\ UNCHANGED <<vars, mode, reads, alone>>
  BY DEF SendBridge, Accept
<1>2. SUFFICES ASSUME alone PROVE (LoneWay /\ LonePlan /\ LoneEnd)'
  BY Zenon, <1>1 DEF LoneInv
<1>3. /\ NothingInFlight /\ Fresh(reads) /\ Len(reads) = PlanCalls /\ Bridge(reads) > 0
      /\ liquidity.short <=> Shortfall(reads) > 0
  BY <1>1, <1>2 DEF LoneInv, LonePlan
<1>4. /\ Idle(reads) = IdleAssets /\ Pending(reads) = Owed(Settled)
      /\ Nav(reads) = Settled /\ CoreFree(reads) \in {CoreAvailable, 0}
  BY <1>3, FreshRound
<1>5. reads \in Seq(Nat) /\ q \in Nat /\ q <= CoreFree(reads)
  BY <1>3, PlanBounds DEF KeeperKnows, BotTypes
<1>6. /\ UNCHANGED <<usdc, reservedAssets, perp, margin, spot, toCore, toEvm, coreQueue>>
      /\ IdleAssets' = IdleAssets /\ Settled' = Settled /\ Owed(Settled)' = Owed(Settled)
  BY <1>1, ChainStill
<1>7. Coverable(q)
  <2>1. perp \in Int /\ margin \in Nat
    BY DEF KeeperKnows, Inv, TypeOK, CoreTypeOK
  <2>2. q = 0 \/ (perp > margin /\ q <= perp - margin)
    BY <1>4, <1>5, <2>1 DEF CoreAvailable
  <2> QED BY <1>5, <2>1, <2>2 DEF Coverable
<1>8. OnWay(q)'
  BY <1>1, <1>3, <1>6, <1>7 DEF OnWay, Waiting, NothingInFlight, Coverable
<1>9. WithinNeed(q)'
  <2>1. BufferDen * (Idle(reads) + q) <= Need(reads)
    BY <1>3, <1>5, BridgeWithinNeed
  <2>2. BufferDen * (IdleAssets + q) <= BufferDen * Owed(Settled) + BufferNum * Settled
    BY <1>4, <2>1 DEF Need
  <2> QED BY <1>6, <2>2 DEF WithinNeed
<1>10. PlannedFor(q)'
  <2>1. liquidity \in Results
    BY DEF KeeperKnows, BotTypes
  <2>2. liquidity'.submitted /\ liquidity'.short = liquidity.short
    BY <1>1, <2>1 DEF Results
  <2>3. Len(reads) = 6
    BY <1>3 DEF PlanCalls
  <2>4. Idle(reads) + q = IdleAssets' + q /\ Pending(reads) = Owed(Settled)'
    BY <1>4, <1>6
  <2>5. ~(Len(reads) >= 7) /\ ~(Len(reads) >= 8) /\ Len(reads) >= PlanCalls
    BY <2>3 DEF PlanCalls
  <2>6. \A r, liq : r = reads /\ liq = liquidity' =>
           /\ q \in {0, Requested(r)}
           /\ Len(r) >= PlanCalls
           /\ Idle(r) + Requested(r) = IdleAssets' + q
           /\ Pending(r) = Owed(Settled)'
           /\ Bridge(r) > 0
           /\ Len(r) >= 7 => r[7] <= usdc'
           /\ Len(r) >= 8 => r[8] = reservedAssets'
           /\ liq.submitted
           /\ liq.short <=> Shortfall(r) > 0
    BY Zenon, <1>3, <2>2, <2>4, <2>5
  <2>7. reads' = reads
    BY <1>1
  <2> QED BY Zenon, <2>6, <2>7 DEF PlannedFor
<1>11. LoneWay'
  BY <1>5, <1>8, <1>9, <1>10 DEF LoneWay
<1>12. LonePlan' /\ LoneEnd'
  BY <1>1 DEF LonePlan, LoneEnd
<1> QED BY <1>11, <1>12

\* A re-reading that rose saw the whole bridge, since it arrives at once, and a
\* bridge without a shortfall covers the queue.
LEMMA RoseMeansMet ==
    ASSUME KeeperKnows, NEW a \in Nat, OnWay(a), PlannedFor(a), Len(reads) = AllCalls,
           IdleRose(reads), ~liquidity.short
    PROVE  Met
<1>1. reads \in Seq(Nat) /\ Len(reads) = 8 /\ usdc \in Nat /\ reservedAssets \in Nat
      /\ reservedAssets <= usdc
  BY DEF KeeperKnows, BotTypes, Inv, TypeOK, ClaimsBacked, AllCalls
<1>2. /\ Idle(reads) + Requested(reads) = IdleAssets + a /\ a \in {0, Requested(reads)}
      /\ reads[7] <= usdc /\ reads[8] = reservedAssets /\ Bridge(reads) > 0
      /\ Pending(reads) = Owed(Settled) /\ ~(Shortfall(reads) > 0)
  BY <1>1 DEF PlannedFor
<1>3. Idle(reads) < IdleAgain(reads) /\ IdleAgain(reads) \in Nat
  BY <1>1, <1>2, RoseMeansMore
<1>4. reads[7] \in Nat
  <2>1. \A k \in 1 .. 8 : reads[k] \in Nat
    BY <1>1, ElementOfSeq
  <2> QED BY <2>1
<1>5. IdleAgain(reads) <= IdleAssets
  BY <1>1, <1>2, <1>4 DEF IdleAgain, Unreserved, IdleAssets
<1>6. /\ Idle(reads) \in Nat /\ Requested(reads) \in Nat /\ IdleAssets \in Nat
      /\ Pending(reads) <= Idle(reads) + Requested(reads)
  <2>1. Len(reads) >= PlanCalls
    BY <1>1 DEF PlanCalls
  <2>2. IdleAssets \in Nat
    BY <1>1 DEF IdleAssets
  <2> QED BY <1>1, <1>2, <2>1, <2>2, PlanBounds, BridgeCoversQueue
<1>7. a # Requested(reads)
  BY <1>2, <1>3, <1>5, <1>6
<1>8. a = 0 /\ Pending(reads) <= IdleAssets
  BY <1>2, <1>6, <1>7
<1> QED BY <1>2, <1>8 DEF Met

LEMMA LoneVerifies ==
    ASSUME KeeperKnows, LoneInv, Verify
    PROVE  LoneInv'
<1> DEFINE rose == IdleRose(reads)
<1>1. /\ pc = "verify" /\ Len(reads) = AllCalls
      /\ reads' = SubSeq(reads, 1, PlanCalls)
      /\ liquidity' = [liquidity EXCEPT !.verified = rose]
      /\ pc' = IF rose \/ tries' = MaxRetries THEN "rebalance" ELSE "verify"
      /\ UNCHANGED <<vars, mempool>> /\ UNCHANGED <<mode, bridged, alone>>
  BY DEF Verify
<1>2. SUFFICES ASSUME alone PROVE (LoneWay /\ LonePlan /\ LoneEnd)'
  BY Zenon, <1>1 DEF LoneInv
<1>3. PICK a \in Nat : OnWay(a) /\ (bridged => WithinNeed(a)) /\ PlannedFor(a)
  BY <1>1, <1>2 DEF LoneInv, LoneWay
<1>4. /\ \A x : OnWay(x)' <=> OnWay(x)
      /\ \A x : WithinNeed(x)' <=> WithinNeed(x)
      /\ Met' <=> Met
  BY <1>1, WayStill
<1>5. /\ liquidity'.submitted = liquidity.submitted /\ liquidity'.short = liquidity.short
      /\ liquidity'.verified = rose
  <2>1. liquidity \in Results
    BY DEF KeeperKnows, BotTypes
  <2> QED BY <1>1, <2>1 DEF Results
<1>6. PlannedFor(a)'
  <2>1. PICK r : r = SubSeq(reads, 1, PlanCalls)
    OBVIOUS
  <2>2. reads \in Seq(Nat)
    BY DEF KeeperKnows, BotTypes
  <2>3. /\ r \in Seq(Nat) /\ Len(r) = PlanCalls
        /\ \A i \in 1 .. PlanCalls : r[i] = reads[i]
    BY <1>1, <2>1, <2>2, FirstRound
  <2>4. /\ Len(r) >= PlanCalls
        /\ Len(r) >= 7 => r[7] <= usdc
        /\ Len(r) >= 8 => r[8] = reservedAssets
    BY <2>3 DEF PlanCalls
  <2>5. reads' = r
    BY <1>1, <2>1
  <2>6. UNCHANGED vars
    BY <1>1
  <2> QED BY <1>3, <1>5, <2>3, <2>4, <2>5, <2>6, PlanKept
<1>7. LoneWay'
  BY Zenon, <1>1, <1>3, <1>4, <1>6 DEF LoneWay
<1>8. rose /\ ~liquidity.short => Met
  BY <1>1, <1>3, RoseMeansMet
<1> HIDE DEF rose
<1>9. pc' \in {"rebalance", "verify"} /\ liquidity.submitted
  BY <1>1, <1>3 DEF PlannedFor
<1>10. LonePlan'
  BY <1>9 DEF LonePlan
<1>11. LoneEnd'
  <2>1. pc' # "asleep"
    BY <1>9
  <2> QED BY Zenon, <1>4, <1>5, <1>8, <1>9, <2>1 DEF LoneEnd
<1> QED BY <1>7, <1>10, <1>11

\* The batch of the rebalance job may take the place of the bridge at the node: the
\* bridge is then never mined, and nothing is on its way.
LEMMA WayReplaced ==
    ASSUME KeeperKnows, UNCHANGED vars, NEW orders, mempool' = BasketTx(orders),
           NEW a \in Nat, OnWay(a)
    PROVE  \E b \in {0, a} : OnWay(b)' /\ (WithinNeed(a) => WithinNeed(b)')
<1>1. /\ UNCHANGED <<margin, perp, spot, toCore, toEvm, coreQueue>>
      /\ IdleAssets' = IdleAssets /\ Settled' = Settled /\ Owed(Settled)' = Owed(Settled)
  BY ChainStill
<1>2. NoBridge'
  BY DEF NoBridge, BasketTx
<1>3. CASE Waiting(a)
  <2>1. OnWay(0)'
    BY <1>1, <1>2, <1>3 DEF OnWay, Waiting, Arriving
  <2>2. ASSUME WithinNeed(a) PROVE WithinNeed(0)'
    <3>1. IdleAssets \in Nat /\ TotalAssets \in Nat
      BY NavTypes DEF KeeperKnows, Inv, ClaimsBacked, NavReadable
    <3> DEFINE i == IdleAssets
               need == BufferDen * Owed(Settled) + BufferNum * Settled
    <3>2. BufferDen * (i + 0) <= BufferDen * (i + a)
      <4>1. i \in Nat /\ BufferDen \in Nat
        BY <3>1, PlanAssumption
      <4> HIDE DEF i
      <4>2. i + 0 \in Nat /\ i + a \in Nat /\ i + 0 <= i + a
        BY <4>1
      <4> DEFINE x == i + 0
                 y == i + a
      <4> HIDE DEF x, y
      <4>3. x \in Nat /\ y \in Nat /\ x <= y
        BY <4>2 DEF x, y
      <4>4. x * BufferDen <= y * BufferDen
        BY <4>1, <4>3, MulDivMonotone
      <4>5. BufferDen * x <= BufferDen * y
        BY <4>1, <4>3, <4>4
      <4> QED BY <4>5 DEF x, y
    <3>3. BufferDen * (i + a) <= need
      BY <2>2 DEF WithinNeed
    <3>4. need \in Int
      <4>1. /\ totalPendingRedeemShares \in Nat /\ supply + VirtualShares \in Nat \ {0}
            /\ toEvm \in Nat
        BY ConstantTypes DEF KeeperKnows, Inv, TypeOK, CoreTypeOK
      <4>2. Settled \in Nat /\ Settled + 1 \in Nat
        BY <3>1, <4>1 DEF Settled
      <4>3. Owed(Settled) \in Nat
        BY <4>1, <4>2, MulDivFloor DEF Owed
      <4> QED BY <4>2, <4>3, TimesNat, PlanAssumption
    <3>5. BufferDen * (i + 0) \in Int /\ BufferDen * (i + a) \in Int
      BY <3>1, PlanAssumption
    <3>6. BufferDen * (i + 0) <= need
      <4> HIDE DEF need, i
      <4> QED BY <3>2, <3>3, <3>4, <3>5
    <3> QED BY <1>1, <3>6 DEF WithinNeed
  <2> QED BY <2>1, <2>2
<1>4. CASE ~Waiting(a)
  <2>1. OnWay(a)'
    BY <1>1, <1>2, <1>4 DEF OnWay, Leaving, InSpot, Arriving, NoBridge, Coverable
  <2>2. WithinNeed(a) => WithinNeed(a)'
    BY <1>1 DEF WithinNeed
  <2> QED BY <2>1, <2>2
<1> QED BY <1>3, <1>4

LEMMA LoneEnds ==
    ASSUME KeeperKnows, LoneInv, Blocked \/ Raise \/ RebalanceNothing \/ RebalanceSend
    PROVE  LoneInv'
<1>1. /\ pc' = "asleep" /\ UNCHANGED <<vars, mode, bridged, alone>>
  BY DEF Blocked, Raise, RebalanceNothing, RebalanceSend, Finish
<1>2. \/ mempool' = mempool
      \/ pc = "rebalance" /\ \E orders \in Batches : mempool' = BasketTx(orders)
  BY DEF Blocked, Raise, RebalanceNothing, RebalanceSend, Accept
<1>3. report'.healthy => /\ pc = "rebalance"
                         /\ liquidity.submitted => liquidity.verified
                         /\ ~liquidity.short
  <2>1. CASE Blocked \/ Raise
    <3>1. report' = [healthy |-> Healthy(TRUE, NoResult, TRUE), submitted |-> FALSE]
      BY <2>1 DEF Blocked, Raise, Finish, NoResult
    <3> QED BY <3>1 DEF Healthy
  <2>2. CASE RebalanceNothing \/ RebalanceSend
    <3>1. pc = "rebalance" /\ \E c \in BOOLEAN : Finish(FALSE, liquidity, c)
      BY Zenon, <2>2 DEF RebalanceNothing, RebalanceSend
    <3>2. PICK c \in BOOLEAN : Finish(FALSE, liquidity, c)
      BY <3>1
    <3>3. report' = [healthy |-> Healthy(FALSE, liquidity, c), submitted |-> liquidity.submitted]
      BY <3>2 DEF Finish
    <3>4. report'.healthy => Healthy(FALSE, liquidity, c)
      BY Zenon, <3>3
    <3> QED BY <3>1, <3>4 DEF Healthy
  <2> QED BY <2>1, <2>2
<1>4. SUFFICES ASSUME alone PROVE (LoneWay /\ LonePlan /\ LoneEnd)'
  BY Zenon, <1>1 DEF LoneInv
<1>5. LoneWay /\ LonePlan /\ LoneEnd
  BY <1>4 DEF LoneInv
<1>6. PICK a \in Nat : OnWay(a) /\ (bridged => WithinNeed(a))
  BY <1>5 DEF LoneWay
<1>7. LoneWay'
  <2>1. CASE mempool' = mempool
    <3>1. OnWay(a)' /\ (WithinNeed(a) => WithinNeed(a)')
      BY <1>1, <1>6, <2>1, WayStill
    <3> QED BY <1>1, <1>6, <3>1 DEF LoneWay
  <2>2. CASE \E orders \in Batches : mempool' = BasketTx(orders)
    <3>1. PICK b \in {0, a} : OnWay(b)' /\ (WithinNeed(a) => WithinNeed(b)')
      BY <1>1, <1>6, <2>2, WayReplaced
    <3> QED BY <1>1, <1>6, <3>1 DEF LoneWay
  <2> QED BY <1>2, <2>1, <2>2
<1>8. LonePlan'
  BY <1>1 DEF LonePlan
<1>9. Met => Met'
  <2>1. CASE mempool' = mempool
    BY <1>1, <2>1, WayStill
  <2>2. CASE \E orders \in Batches : mempool' = BasketTx(orders)
    <3>1. Met => OnWay(0)'
      BY <1>1, <2>2, WayReplaced DEF Met
    <3>2. IdleAssets' = IdleAssets /\ Owed(Settled)' = Owed(Settled)
      BY <1>1, ChainStill
    <3> QED BY <3>1, <3>2 DEF Met
  <2> QED BY <1>2, <2>1, <2>2
<1>10. LoneEnd'
  BY Zenon, <1>1, <1>3, <1>5, <1>9 DEF LoneEnd
<1> QED BY <1>7, <1>8, <1>10

LEMMA LoneRests ==
    ASSUME KeeperKnows, LoneInv, BecomeCalm \/ UNCHANGED allVars
    PROVE  LoneInv'
<1>1. /\ UNCHANGED <<vars, mempool>>
      /\ UNCHANGED <<mode, pc, liquidity, report, bridged, alone>>
  BY DEF BecomeCalm, allVars, keeperVars, botVars
<1>R. reads' = reads
  BY DEF BecomeCalm, allVars, keeperVars, botVars
<1>2. SUFFICES ASSUME alone PROVE (LoneWay /\ LonePlan /\ LoneEnd)'
  BY Zenon, <1>1 DEF LoneInv
<1>3. LoneWay /\ LonePlan /\ LoneEnd
  BY <1>2 DEF LoneInv
<1>4. /\ \A a : OnWay(a)' <=> OnWay(a)
      /\ \A a : WithinNeed(a)' <=> WithinNeed(a)
      /\ NothingInFlight' <=> NothingInFlight
      /\ Met' <=> Met
  BY <1>1, WayStill
<1>5. \A a : PlannedFor(a) => PlannedFor(a)'
  <2>1. ASSUME NEW a, PlannedFor(a) PROVE PlannedFor(a)'
    <3>1. PICK r : r = reads
      OBVIOUS
    <3>2. /\ Len(r) >= PlanCalls /\ \A i \in 1 .. PlanCalls : r[i] = reads[i]
          /\ Len(r) >= 7 => r[7] <= usdc
          /\ Len(r) >= 8 => r[8] = reservedAssets
      BY <2>1, <3>1 DEF PlannedFor
    <3>3. reads' = r /\ UNCHANGED vars
      BY <1>R, <1>1, <3>1
    <3>4. liquidity'.submitted = liquidity.submitted /\ liquidity'.short = liquidity.short
      BY <1>1
    <3> QED BY <2>1, <3>2, <3>3, <3>4, PlanKept
  <2> QED BY <2>1
<1>6. Fresh(reads) => Fresh(reads)'
  <2>1. /\ UNCHANGED <<usdc, reservedAssets, totalPendingRedeemShares>>
        /\ TotalAssets' = TotalAssets /\ CoreAvailable' = CoreAvailable
        /\ Owed(TotalAssets)' = Owed(TotalAssets)
    BY <1>1, ChainStill
  <2>2. \A k, x : Told(k, x)' <=> Told(k, x)
    BY <2>1 DEF Told
  <2> QED BY Zenon, <1>R, <2>2 DEF Fresh
<1>7. LoneWay'
  <2>1. PICK a \in Nat : /\ OnWay(a)
                         /\ bridged => WithinNeed(a)
                         /\ pc = "verify" => PlannedFor(a)
    BY <1>3 DEF LoneWay
  <2> QED BY Zenon, <1>1, <1>4, <1>5, <2>1 DEF LoneWay
<1>8. LonePlan'
  <2>1. pc' = "send" => /\ Len(reads') = PlanCalls
                        /\ Bridge(reads') > 0
                        /\ liquidity'.short <=> Shortfall(reads') > 0
    BY Zenon, <1>R, <1>1, <1>3 DEF LonePlan
  <2> QED BY Zenon, <1>1, <1>3, <1>4, <1>6, <2>1 DEF LonePlan
<1>9. LoneEnd'
  BY Zenon, <1>1, <1>3, <1>4 DEF LoneEnd
<1> QED BY <1>7, <1>8, <1>9

LEMMA LoneKept ==
    KeeperKnows /\ KeeperKnows' /\ LoneInv /\ [KeeperNext]_allVars => LoneInv'
<1> SUFFICES ASSUME KeeperKnows, KeeperKnows', LoneInv, [KeeperNext]_allVars PROVE LoneInv'
  OBVIOUS
<1>1. CASE BotStep
  BY <1>1, LoneStarts, LoneReads, LonePasses, LonePlans, LoneSends, LoneVerifies, LoneEnds
     DEF BotStep
<1>2. CASE Crash \/ ManualBridge \/ Others
  BY <1>2 DEF Crash, ManualBridge, Others, LoneInv
<1>3. CASE Mine \/ Settle
  BY <1>3, LoneMoves
<1>4. CASE BecomeCalm \/ UNCHANGED allVars
  BY <1>4, LoneRests
<1> QED BY <1>1, <1>2, <1>3, <1>4 DEF KeeperNext

LEMMA LoneAlways == KeeperSafety => [](KeeperKnows /\ LoneInv)
<1>1. KeeperInit => KeeperKnows /\ LoneInv
  BY KeeperKnowsInit DEF KeeperInit, LoneInv
<1>2. KeeperKnows /\ [KeeperNext]_allVars => KeeperKnows'
  BY KeeperKnowsKept
<1>3. KeeperKnows /\ KeeperKnows' /\ LoneInv /\ [KeeperNext]_allVars => LoneInv'
  BY LoneKept
<1> QED BY <1>1, <1>2, <1>3, PTL DEF KeeperSafety

LEMMA MetIsCovered ==
    KeeperKnows /\ Met => RedemptionDeficit = 0
<1> SUFFICES ASSUME KeeperKnows, Met PROVE RedemptionDeficit = 0
  OBVIOUS
<1>1. TotalAssets \in Nat
  BY NavTypes DEF KeeperKnows, Inv, ClaimsBacked, NavReadable
<1>2. toEvm = 0
  BY DEF Met, OnWay, Waiting, Leaving, InSpot, Arriving
<1>3. Settled = TotalAssets
  BY <1>1, <1>2 DEF Settled
<1>4. ToAssets(totalPendingRedeemShares, supply) <= IdleAssets
  BY <1>3 DEF Met, Owed, ToAssets
<1>5. ToAssets(totalPendingRedeemShares, supply) \in Nat /\ IdleAssets \in Nat
  <2>1. totalPendingRedeemShares \in Nat /\ supply + VirtualShares \in Nat \ {0}
    BY ConstantTypes DEF KeeperKnows, Inv, TypeOK
  <2>2. IdleAssets \in Nat /\ TotalAssets + 1 \in Nat
    BY NavTypes DEF KeeperKnows, Inv, ClaimsBacked, NavReadable
  <2> QED BY <2>1, <2>2, MulDivFloor DEF ToAssets
<1> QED BY <1>4, <1>5 DEF RedemptionDeficit

\* A healthy report of an undisturbed tick means that the queue is covered, whichever
\* of its readings came when and however long its bridge took.
THEOREM HealthyIsCovered == KeeperSafety => []HealthyMeansCovered
<1>1. KeeperKnows /\ LoneInv => HealthyMeansCovered
  BY Zenon, MetIsCovered DEF LoneInv, LoneEnd, HealthyMeansCovered
<1> QED BY <1>1, LoneAlways, PTL

\* An undisturbed tick never takes more from the trading account than the queue and
\* the buffer need, once its bridge has arrived or was replaced.
THEOREM LoneTicksAreModest == KeeperSafety => []LoneTickNeverOverdraws
<1>1. ASSUME KeeperKnows, LoneInv, alone, bridged, NothingInFlight
      PROVE  BufferDen * IdleAssets <= Need(Readings)
  <2>1. PICK a \in Nat : OnWay(a) /\ WithinNeed(a)
    BY <1>1 DEF LoneInv, LoneWay
  <2>2. a = 0 /\ toEvm = 0
    BY <1>1, <2>1 DEF NothingInFlight, OnWay, Waiting, Leaving, InSpot, Arriving, NoTx, BridgeTx
  <2>3. TotalAssets \in Nat /\ IdleAssets \in Nat
    BY <1>1, NavTypes DEF KeeperKnows, Inv, ClaimsBacked, NavReadable
  <2>4. Settled = TotalAssets /\ IdleAssets + a = IdleAssets
    BY <2>2, <2>3 DEF Settled
  <2>5. BufferDen * IdleAssets <= BufferDen * Owed(TotalAssets) + BufferNum * TotalAssets
    BY <2>1, <2>4 DEF WithinNeed
  <2>6. Readings[4] = Owed(TotalAssets) /\ Readings[5] = TotalAssets
    BY DEF Readings, PlanCalls, Calls, Answer, ToAssets, Owed
  <2> QED BY <2>5, <2>6 DEF Need, Pending, Nav
<1>2. KeeperKnows /\ LoneInv => LoneTickNeverOverdraws
  BY Zenon, <1>1 DEF LoneTickNeverOverdraws
<1> QED BY <1>2, LoneAlways, PTL
=============================================================================
