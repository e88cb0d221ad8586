---------------------------- MODULE QueueProofs ----------------------------
(***************************************************************************)
(* Proofs about the redemption queue, for every number of holders and      *)
(* every value of the constants: each step of the vault under a prudent    *)
(* manager is a step of RedemptionQueue or leaves it alone, and no         *)
(* fulfilment leaves too little for the requests that still wait.          *)
(***************************************************************************)
EXTENDS ValueProofs

\* Both modules total the promises in the same way.
LEMMA PromisedIsTotal ==
    /\ Queue!Promised = Total(claimableAssets, Accounts)
    /\ Queue!Promised' = Total(claimableAssets', Accounts)
BY DEF Queue!Promised, Queue!Total, Queue!Tokens, Total, Tokens,
       Queue!Cardinality, Cardinality

LEMMA InitImplements == Init => Queue!QueueInit
BY DEF Init, Queue!QueueInit

\* A step that touches neither requests nor claims only moves funds.
LEMMA MovesFundsOnly ==
    ASSUME Inv, Inv', ClaimsBacked', UNCHANGED <<pendingRedeemShares, claimableAssets>>
    PROVE  Queue!MoveFunds
<1>1. Total(claimableAssets, Accounts) = reservedAssets'
  BY DEF Inv, BooksBalance
<1>2. Queue!Promised = reservedAssets'
  BY <1>1, PromisedIsTotal
<1>3. usdc' \in Nat /\ reservedAssets' <= usdc'
  BY DEF Inv, TypeOK, ClaimsBacked
<1> QED BY <1>2, <1>3 DEF Queue!MoveFunds

LEMMA RequestImplements ==
    ASSUME Inv, Inv', NEW holder \in Accounts, NEW n \in Nat, RequestRedeem(holder, n)
    PROVE  Queue!Join(holder)
<1>1. /\ n # 0 /\ UNCHANGED <<usdc, claimableAssets>>
      /\ pendingRedeemShares' = [pendingRedeemShares EXCEPT ![holder] = @ + n]
  BY DEF RequestRedeem, Credit, claimVars
<1>2. pendingRedeemShares \in [Accounts -> Nat] /\ pendingRedeemShares' \in [Accounts -> Nat]
  BY DEF Inv, TypeOK
<1>3. pendingRedeemShares'[holder] > pendingRedeemShares[holder]
  BY <1>1, <1>2
<1> QED BY <1>1, <1>2, <1>3 DEF Queue!Join, Queue!MovesSharesOf

\* A dequeue takes shares of one owner out of the queue.
LEMMA DequeueMovesShares ==
    ASSUME Inv, Inv', NEW holder \in Accounts, NEW n \in Nat, Dequeue(holder, n)
    PROVE  /\ Queue!MovesSharesOf(holder)
           /\ pendingRedeemShares'[holder] < pendingRedeemShares[holder]
<1>1. /\ n # 0 /\ n <= pendingRedeemShares[holder]
      /\ pendingRedeemShares' = [pendingRedeemShares EXCEPT ![holder] = @ - n]
  BY DEF Dequeue, Debit
<1>2. pendingRedeemShares \in [Accounts -> Nat] /\ pendingRedeemShares' \in [Accounts -> Nat]
  BY DEF Inv, TypeOK
<1>3. pendingRedeemShares'[holder] < pendingRedeemShares[holder]
  BY <1>1, <1>2
<1> QED BY <1>1, <1>2, <1>3 DEF Queue!MovesSharesOf

LEMMA CancelImplements ==
    ASSUME Inv, Inv', NEW holder \in Accounts, NEW n \in Nat,
           CancelRedeemRequest(holder, n)
    PROVE  Queue!Leave(holder)
BY DequeueMovesShares DEF CancelRedeemRequest, Queue!Leave, claimVars

LEMMA FulfillImplements ==
    ASSUME Inv, Inv', ClaimsBacked', NEW holder \in Accounts, NEW n \in Nat,
           FulfillRedeem(holder, n)
    PROVE  Queue!Promise(holder)
<1> DEFINE assets == PreviewRedeem(n, AccruedSupply)
<1>1. Queue!MovesSharesOf(holder) /\ pendingRedeemShares'[holder] < pendingRedeemShares[holder]
  BY DequeueMovesShares DEF FulfillRedeem
<1>2. assets \in Nat
  BY ConversionTypes DEF FulfillRedeem, Accrue, Inv
<1>3. claimableAssets' = [claimableAssets EXCEPT ![holder] = @ + assets] /\ usdc' = usdc
  BY DEF FulfillRedeem, Credit
<1> HIDE DEF assets
<1>4. claimableAssets \in [Accounts -> Nat] /\ claimableAssets' \in [Accounts -> Nat]
  BY DEF Inv, TypeOK
<1>5. claimableAssets'[holder] >= claimableAssets[holder]
  BY <1>2, <1>3, <1>4
<1>6. \A other \in Accounts \ {holder} : claimableAssets'[other] = claimableAssets[other]
  BY <1>3, <1>4
<1>7. Queue!Promised' <= usdc
  <2>1. Total(claimableAssets', Accounts) = reservedAssets' /\ reservedAssets' <= usdc'
    BY DEF Inv, BooksBalance, ClaimsBacked
  <2> QED BY <1>3, <2>1, PromisedIsTotal
<1> QED BY <1>1, <1>3, <1>4, <1>5, <1>6, <1>7 DEF Queue!Promise

LEMMA ClaimImplements ==
    ASSUME NEW holder \in Accounts, Claim(holder)
    PROVE  Queue!Keep(holder)
BY DEF Claim, PayOut, Queue!Keep, requestVars

-----------------------------------------------------------------------------
\* Deposits, other exits, transfers, bridges, fees and governance leave the queue's
\* two ledgers alone.
LEMMA OthersLeaveQueue ==
    ASSUME OtherStep
    PROVE  \/ UNCHANGED <<pendingRedeemShares, claimableAssets>>
           \/ \E n \in ShareAmounts, holder \in Accounts :
                 \/ RequestRedeem(holder, n)
                 \/ CancelRedeemRequest(holder, n)
                 \/ FulfillRedeem(holder, n)
           \/ \E holder \in Accounts : Claim(holder)
<1> DEFINE Apart == UNCHANGED <<pendingRedeemShares, claimableAssets>>
<1>1. UNCHANGED queueVars => Apart
  BY DEF queueVars, requestVars, claimVars
<1>2. UNCHANGED vaultVars => Apart
  BY <1>1 DEF vaultVars
<1> HIDE DEF Apart
<1>3. ASSUME NEW a \in AssetAmounts, NEW receiver \in Holders, Deposit(receiver, a)
      PROVE  Apart
  BY <1>1, <1>3 DEF Deposit, Deposits
<1>4. ASSUME NEW a \in AssetAmounts, NEW holder \in Accounts, Withdraw(holder, a)
      PROVE  Apart
  BY <1>1, <1>4 DEF Withdraw, Withdraws
<1>5. ASSUME NEW n \in ShareAmounts, NEW receiver \in Holders, Mint(receiver, n)
      PROVE  Apart
  BY <1>1, <1>5 DEF Mint, Deposits
<1>6. ASSUME NEW n \in ShareAmounts, NEW from \in Accounts, NEW to \in Holders,
             Transfer(from, to, n)
      PROVE  Apart
  BY <1>1, <1>6 DEF Transfer
<1>7. ASSUME NEW n \in ShareAmounts, NEW holder \in Accounts, Redeem(holder, n)
      PROVE  Apart
  BY <1>1, <1>7 DEF Redeem, Withdraws
<1>8. ASSUME NEW a \in Donations, Donate(a) PROVE Apart
  BY <1>1, <1>8 DEF Donate
<1>9. ASSUME NEW a \in BridgeAmounts, BridgeFromCoreForRedemptions(a) PROVE Apart
  BY <1>2, <1>9 DEF BridgeFromCoreForRedemptions
<1>10. AccrueFees => Apart
  BY <1>1 DEF AccrueFees
<1>11. GovernanceStep => Apart
  BY <1>1, <1>10 DEF GovernanceStep, SetFeeConfig, SetProtocolFeeConfig, SetProtocolAdmin,
         SetDepositCap
<1>12. CreditEvm => Apart
  BY <1>1 DEF CreditEvm
<1>13. ASSUME NEW caller \in Accounts, NEW a \in BridgeAmounts, BridgeFromCore(caller, a)
       PROVE  Apart
  BY <1>2, <1>13 DEF BridgeFromCore
<1>14. CASE UserStep
  BY <1>3, <1>4, <1>5, <1>6, <1>7, <1>8, <1>9, <1>10, <1>14 DEF UserStep, Apart
<1> QED BY <1>2, <1>11, <1>12, <1>13, <1>14 DEF OtherStep, Apart

\* Every step of the vault is a step of the queue.
LEMMA StepImplements ==
    ASSUME Inv, Inv', ClaimsBacked', [PrudentNext]_vars
    PROVE  [Queue!QueueNext]_(Queue!queue)
<1> DEFINE Apart == UNCHANGED <<pendingRedeemShares, claimableAssets>>
<1>1. Apart => Queue!QueueNext
  BY MovesFundsOnly DEF Queue!QueueNext
<1>2. UNCHANGED vaultVars => Apart
  BY DEF vaultVars, queueVars, requestVars, claimVars
<1>3. CASE UNCHANGED vars
  BY <1>1, <1>2, <1>3 DEF vars
<1>4. ASSUME NEW caller \in Accounts, NEW a \in BridgeAmounts, BridgeToCore(caller, a)
      PROVE  Apart
  BY <1>4 DEF BridgeToCore, queueVars, requestVars, claimVars
<1>5. CASE OtherStep
  <2>1. ShareAmounts \subseteq Nat
    BY VaultAssumption
  <2>2. ASSUME NEW n \in ShareAmounts, NEW holder \in Accounts,
               \/ RequestRedeem(holder, n)
               \/ CancelRedeemRequest(holder, n)
               \/ FulfillRedeem(holder, n)
        PROVE  Queue!QueueNext
    BY <2>1, <2>2, RequestImplements, CancelImplements, FulfillImplements
       DEF Queue!QueueNext
  <2>3. ASSUME NEW holder \in Accounts, Claim(holder) PROVE Queue!QueueNext
    BY <2>3, ClaimImplements DEF Queue!QueueNext
  <2> QED BY <1>1, <1>5, <2>2, <2>3, OthersLeaveQueue
<1> HIDE DEF Apart
<1> QED BY <1>1, <1>3, <1>4, <1>5 DEF PrudentNext

\* Under a manager that bridges idle USDC only, the vault implements the redemption
\* queue: shares enter and leave it one owner at a time, a promise is made only within
\* free USDC and never lowered, and it ends by payment in full.
THEOREM QueueImplemented == PrudentSpec => ImplementsQueue
<1>1. Init => Inv /\ ClaimsBacked
  BY InitIsBacked
<1>2. (Inv /\ ClaimsBacked) /\ [PrudentNext]_vars => (Inv /\ ClaimsBacked)'
  BY PrudentKeepsBacked
<1>3. Init => Queue!QueueInit
  BY InitImplements
<1>4. /\ Inv /\ ClaimsBacked /\ (Inv /\ ClaimsBacked)' /\ [PrudentNext]_vars
      => [Queue!QueueNext]_(Queue!queue)
  BY StepImplements
<1> QED BY <1>1, <1>2, <1>3, <1>4, PTL DEF PrudentSpec, ImplementsQueue, Queue!QueueSpec

-----------------------------------------------------------------------------
(* Coverage: q shares at t per s are worth at most i, after rounding down,  *)
(* when q * t < (i + 1) * s.                                                *)

LEMMA WorthAtMost ==
    ASSUME NEW q \in Nat, NEW t \in Nat, NEW s \in Nat \ {0}, NEW i \in Nat
    PROVE  MulDiv(q, t, s) <= i <=> q * t < (i + 1) * s
<1> DEFINE w == MulDiv(q, t, s)
<1>1. q * t \in Nat
  BY TimesNat
<1>2. w \in Nat /\ w * s <= q * t /\ q * t < w * s + s
  BY <1>1, DivBounds DEF MulDiv
<1> HIDE DEF w
<1>3. w * s \in Nat /\ (i + 1) * s \in Nat /\ w * s + s = (w + 1) * s
  BY <1>2, TimesNat
<1>4. w <= i => (w + 1) * s <= (i + 1) * s
  BY <1>2, MulDivMonotone
<1>5. w >= i + 1 => (i + 1) * s <= w * s
  BY <1>2, MulDivMonotone
<1>6. w <= i \/ w >= i + 1
  BY <1>2
<1> QED BY <1>1, <1>2, <1>3, <1>4, <1>5, <1>6 DEF w

\* Fewer shares wait, or more shares share the same NAV.
LEMMA CoverGrows ==
    ASSUME NEW q \in Nat, NEW r \in Nat, NEW t \in Nat, NEW s \in Nat, NEW v \in Nat,
           NEW i \in Nat, q * t < (i + 1) * s, r <= q, s <= v
    PROVE  r * t < (i + 1) * v
<1>1. r * t <= q * t /\ (i + 1) * s <= (i + 1) * v
  BY MulDivMonotone
<1>2. r * t \in Nat /\ q * t \in Nat /\ (i + 1) * s \in Nat /\ (i + 1) * v \in Nat
  BY TimesNat
<1> QED BY <1>1, <1>2

\* USDC a comes in, for n new shares: it covers its part of the queue and more.
LEMMA CoverEntry ==
    ASSUME NEW q \in Nat, NEW t \in Nat, NEW s \in Nat, NEW i \in Nat,
           NEW a \in Nat, NEW n \in Nat, q * t < (i + 1) * s, q <= s
    PROVE  q * (t + a) < (i + a + 1) * (s + n)
<1>1. q * (t + a) = q * t + q * a
  OBVIOUS
<1>2. q * a <= s * a /\ s * a = a * s
  BY MulDivMonotone
<1>3. (i + a + 1) * s = (i + 1) * s + a * s
  OBVIOUS
<1>4. (i + a + 1) * s <= (i + a + 1) * (s + n)
  OBVIOUS
<1>5. /\ q * t \in Nat /\ q * a \in Nat /\ a * s \in Nat /\ (i + 1) * s \in Nat
      /\ (i + a + 1) * (s + n) \in Nat
  BY TimesNat
<1> QED BY <1>1, <1>2, <1>3, <1>4, <1>5

\* n of the q waiting shares are served with a, at no more than the price: what is
\* left covers the others.  In real numbers this says that serving someone below the
\* price raises it by less than what it saves.
LEMMA CoverExit ==
    ASSUME NEW q \in Nat, NEW t \in Nat, NEW s \in Nat, NEW i \in Nat,
           NEW a \in Nat, NEW n \in Nat,
           q * t < (i + 1) * s, q <= s, n <= q, n < s, a * s <= n * t
    PROVE  (q - n) * (t - a) < (i - a + 1) * (s - n)
<1> DEFINE rest == s - n
           cover == (i - a + 1) * (s - n) - (q - n) * (t - a)
<1>1. rest \in Nat /\ rest >= 1 /\ s - q \in Nat /\ s >= 1
  OBVIOUS
<1>2. /\ q * t \in Nat /\ (i + 1) * s \in Nat /\ a * s \in Nat /\ n * t \in Nat
      /\ (i - a + 1) * (s - n) \in Int /\ (q - n) * (t - a) \in Int
  BY TimesNat
<1>3. s * cover = ((i + 1) * s - q * t) * rest + (s - q) * (n * t - a * s)
  OBVIOUS
<1>4. ((i + 1) * s - q * t) * rest >= 1
  <2> DEFINE gap == (i + 1) * s - q * t
  <2>1. gap \in Nat /\ gap >= 1
    BY <1>2
  <2> HIDE DEF gap, rest
  <2>2. gap * rest >= 1
    BY <1>1, <2>1
  <2> QED BY <2>2 DEF gap
<1>5. (s - q) * (n * t - a * s) \in Nat
  <2> DEFINE u == s - q
             v == n * t - a * s
  <2>1. u \in Nat /\ v \in Nat
    BY <1>1, <1>2
  <2> HIDE DEF u, v
  <2>2. u * v \in Nat
    BY <2>1, TimesNat
  <2> QED BY <2>2 DEF u, v
<1>6. cover \in Int
  BY <1>2
<1>7. s * cover >= 1
  BY <1>2, <1>3, <1>4, <1>5
<1>8. cover >= 1
  <2> HIDE DEF cover
  <2> QED BY <1>1, <1>6, <1>7
<1> QED BY <1>2, <1>8

\* That idle USDC covers the queue, with the division multiplied out
QueueCovered ==
    totalPendingRedeemShares * (TotalAssets + 1) < (IdleAssets + 1) * (supply + VirtualShares)

LEMMA DeficitIsLack ==
    TypeOK /\ NavReadable => (RedemptionDeficit = 0 <=> QueueCovered)
<1> SUFFICES ASSUME TypeOK, NavReadable PROVE RedemptionDeficit = 0 <=> QueueCovered
  OBVIOUS
<1> DEFINE owed == ToAssets(totalPendingRedeemShares, supply)
<1>1. /\ IdleAssets \in Nat /\ TotalAssets + 1 \in Nat /\ totalPendingRedeemShares \in Nat
      /\ supply + VirtualShares \in Nat \ {0}
  BY NavTypes, ConstantTypes DEF TypeOK
<1>2. owed = MulDiv(totalPendingRedeemShares, TotalAssets + 1, supply + VirtualShares)
  BY DEF ToAssets
<1>3. owed \in Nat
  BY <1>1, <1>2, MulDivFloor
<1>4. owed <= IdleAssets <=> QueueCovered
  BY <1>1, <1>2, WorthAtMost DEF QueueCovered
<1>5. RedemptionDeficit = IF owed > IdleAssets THEN owed - IdleAssets ELSE 0
  BY DEF RedemptionDeficit
<1> HIDE DEF owed
<1> QED BY <1>1, <1>3, <1>4, <1>5

\* Every waiting share is in the supply.
LEMMA QueueWithinSupply ==
    ASSUME Inv
    PROVE  /\ totalPendingRedeemShares \in Nat /\ supply \in Nat
           /\ totalPendingRedeemShares <= supply
<1>1. /\ shares \in [Holders -> Nat] /\ Total(shares, Holders) = supply /\ supply \in Nat
      /\ totalPendingRedeemShares <= shares[Vault] /\ totalPendingRedeemShares \in Nat
  BY DEF Inv, TypeOK, BooksBalance, EscrowBacked
<1>2. shares[Vault] <= supply /\ shares[Vault] \in Nat
  BY <1>1, HoldersFinite, TotalBoundsEntry
<1> QED BY <1>1, <1>2

LEMMA IdleFollowsNav ==
    ASSUME TypeOK, TypeOK', NavReadable, NavReadable', UNCHANGED coreVars,
           NEW d \in Int, TotalAssets' = TotalAssets + d
    PROVE  IdleAssets' = IdleAssets + d
<1>1. PICK u \in Nat, r \in Nat : usdc' = u /\ reservedAssets' = r
  BY DEF TypeOK
<1>2. /\ spot \in Nat /\ perp \in Int /\ IdleAssets \in Nat
  BY NavTypes DEF TypeOK, CoreTypeOK
<1>3. /\ CoreEquityUsd' = CoreEquityUsd /\ CoreEquityUsd \in Nat
      /\ CoreSpotUsd' = CoreSpotUsd /\ CoreSpotUsd \in Nat
  BY <1>2 DEF CoreEquityUsd, CoreSpotUsd, coreVars
<1>4. IdleAssets' = u - r /\ TotalAssets' = u - r + CoreEquityUsd + CoreSpotUsd
  BY <1>1, <1>3 DEF IdleAssets, TotalAssets
<1>5. TotalAssets = IdleAssets + CoreEquityUsd + CoreSpotUsd
  BY DEF TotalAssets
<1> QED BY <1>1, <1>2, <1>3, <1>4, <1>5

\* USDC a came in, m shares were minted, and nobody joined the queue.
LEMMA GainsCover ==
    ASSUME Inv, Inv', NavReadable, NavReadable', UNCHANGED coreVars, QueueCovered,
           totalPendingRedeemShares' <= totalPendingRedeemShares,
           NEW a \in Nat, NEW m \in Nat,
           TotalAssets' = TotalAssets + a, supply' = supply + m
    PROVE  QueueCovered'
<1> DEFINE q == totalPendingRedeemShares
           s == supply + VirtualShares
           t == TotalAssets + 1
<1>1. PICK r \in Nat : totalPendingRedeemShares' = r
  BY DEF Inv, TypeOK
<1>2. /\ TypeOK /\ TypeOK' /\ q \in Nat /\ supply \in Nat /\ s \in Nat /\ q <= s /\ r <= q
      /\ VirtualShares \in Nat
  BY <1>1, QueueWithinSupply, ConstantTypes DEF Inv
<1>3. IdleAssets \in Nat /\ TotalAssets \in Nat /\ t \in Nat
  BY <1>2, NavTypes
<1>4. IdleAssets' = IdleAssets + a
  BY <1>2, IdleFollowsNav
<1>5. q * t < (IdleAssets + 1) * s
  BY DEF QueueCovered
<1> HIDE DEF q, s, t
<1>6. q * (t + a) < (IdleAssets + a + 1) * (s + m)
  BY <1>2, <1>3, <1>5, CoverEntry
<1>7. r * (t + a) < (IdleAssets + a + 1) * (s + m)
  <2>1. t + a \in Nat /\ s + m \in Nat /\ IdleAssets + a \in Nat
    BY <1>2, <1>3
  <2> QED BY <1>2, <1>6, <2>1, CoverGrows
<1>8. TotalAssets' + 1 = t + a /\ supply' + VirtualShares = s + m
  BY <1>2, <1>3 DEF s, t
<1> QED BY <1>1, <1>4, <1>7, <1>8 DEF QueueCovered

LEMMA FulfillKeepsCover ==
    ASSUME Inv, Inv', NavReadable, NavReadable', UNCHANGED coreVars, QueueCovered,
           NEW holder \in Accounts, NEW n \in Nat, FulfillRedeem(holder, n),
           NEW a \in Nat, Exited(a, n)
    PROVE  QueueCovered'
<1> DEFINE q == totalPendingRedeemShares
           s == AccruedSupply + VirtualShares
           t == TotalAssets + 1
<1>1. /\ TypeOK /\ TypeOK' /\ CanAccrue
  BY ReadableAccrues DEF Inv
<1>2. /\ q \in Nat /\ supply \in Nat /\ q <= supply /\ supply <= AccruedSupply
      /\ AccruedSupply \in Nat /\ VirtualShares \in Nat \ {0} /\ TotalAssets \in Nat
      /\ IdleAssets \in Nat
  BY <1>1, QueueWithinSupply, ShareTypes, ConstantTypes, NavTypes
<1>3. n <= q /\ totalPendingRedeemShares' = q - n
  BY DEF FulfillRedeem, Dequeue
<1>4. /\ TotalAssets' = TotalAssets + (-a) /\ supply' = AccruedSupply - n /\ a * s <= n * t
  BY <1>2 DEF Exited
<1>5. IdleAssets' = IdleAssets + (-a)
  BY <1>1, <1>4, IdleFollowsNav
<1>6. q * t < (IdleAssets + 1) * s
  <2>1. q * t < (IdleAssets + 1) * (supply + VirtualShares)
    BY DEF QueueCovered
  <2>2. /\ t \in Nat /\ s \in Nat /\ supply + VirtualShares \in Nat
        /\ supply + VirtualShares <= s /\ q <= q
    BY <1>2
  <2> HIDE DEF q, s, t
  <2> QED BY <1>2, <2>1, <2>2, CoverGrows
<1>7. t \in Nat /\ s \in Nat /\ q <= s /\ n < s
  BY <1>2, <1>3
<1>8. TotalAssets' + 1 = t - a /\ supply' + VirtualShares = s - n
      /\ IdleAssets' + 1 = IdleAssets - a + 1
  BY <1>2, <1>4, <1>5
<1> HIDE DEF q, s, t
<1>9. (q - n) * (t - a) < (IdleAssets - a + 1) * (s - n)
  BY <1>2, <1>3, <1>4, <1>6, <1>7, CoverExit
<1> QED BY <1>3, <1>8, <1>9 DEF QueueCovered

\* A synchronous exit that pays nobody and burns nothing but fee shares changes
\* neither NAV nor the queue.
LEMMA IdleExit ==
    ASSUME Inv, NEW holder \in Accounts, NEW a \in Nat, NEW n \in Nat,
           Withdraws(holder, a, n), outside' <= outside \/ SettlesClaim
    PROVE  a = 0
<1>1. outside \in Nat /\ outside' = outside + a /\ UNCHANGED claimableAssets
  BY DEF Inv, TypeOK, Withdraws, PayOut, queueVars, claimVars
<1>2. PaidOut = a
  BY <1>1 DEF PaidOut
<1> QED BY <1>1, <1>2 DEF SettlesClaim

LEMMA StepsKeepCover ==
    ASSUME Inv, Inv', [Next]_vars, NavReadable, RedemptionDeficit = 0, UNCHANGED coreVars,
           totalPendingRedeemShares' <= totalPendingRedeemShares, BurnsQueuedOnly,
           outside' <= outside \/ SettlesClaim
    PROVE  RedemptionDeficit' = 0
<1>1. TypeOK /\ TypeOK' /\ CanAccrue /\ QueueCovered
  BY ReadableAccrues, DeficitIsLack DEF Inv
<1>2. /\ supply \in Nat /\ AccruedSupply \in Nat /\ supply <= AccruedSupply
      /\ TotalAssets \in Nat /\ totalPendingRedeemShares \in Nat
  BY <1>1, ShareTypes, QueueWithinSupply
<1>3. NavReadable'
  <2>1. CASE OtherStep
    BY <2>1, OtherKeepsClaims DEF NavReadable, ClaimsBacked
  <2>2. CASE UNCHANGED vars
    BY <2>2 DEF NavReadable, vars, vaultVars, tokenVars, queueVars, claimVars
  <2>3. ASSUME NEW caller \in Accounts, NEW a \in BridgeAmounts, BridgeToCore(caller, a)
        PROVE  NavReadable'
    <3>1. a \in Nat /\ toCore \in Nat /\ usdc \in Nat /\ toCore + a = toCore
      BY <1>1, <2>3, VaultAssumption
         DEF TypeOK, CoreTypeOK, BridgeToCore, SendToCore, coreVars
    <3>2. usdc - a = usdc
      BY <3>1
    <3> QED BY <2>3, <3>2 DEF BridgeToCore, NavReadable, queueVars, claimVars
  <2> QED BY <2>1, <2>2, <2>3 DEF Next
<1>4. QueueCovered'
  <2>1. CASE Stayed
    <3>1. PICK gift \in Nat : TotalAssets' = TotalAssets + gift
      BY <2>1 DEF Stayed
    <3>2. PICK m \in Nat : supply' = supply + m
      <4>1. supply = supply + 0 /\ AccruedSupply = supply + (AccruedSupply - supply)
        BY <1>2
      <4>2. AccruedSupply - supply \in Nat
        BY <1>2
      <4> QED BY <2>1, <4>1, <4>2 DEF Stayed
    <3> QED BY <1>1, <1>3, <3>1, <3>2, GainsCover
  <2>2. ASSUME NEW a \in Nat, NEW n \in Nat, Entered(a, n) PROVE QueueCovered'
    <3> DEFINE m == AccruedSupply - supply + n
    <3>1. m \in Nat /\ supply' = supply + m /\ TotalAssets' = TotalAssets + a
      BY <1>2, <2>2 DEF Entered
    <3> QED BY <1>1, <1>3, <3>1, GainsCover
  <2>3. ASSUME NEW a \in Nat, NEW n \in Nat, NEW holder \in Accounts,
               Exited(a, n), Withdraws(holder, a, n)
        PROVE  QueueCovered'
    <3>1. a = 0
      BY <2>3, IdleExit
    <3>2. totalPendingRedeemShares' = totalPendingRedeemShares
      BY <2>3 DEF Withdraws, queueVars, requestVars
    <3>3. AccruedSupply - n >= supply
      BY <1>2, <2>3, <3>2 DEF BurnsQueuedOnly, Exited
    <3> DEFINE m == AccruedSupply - n - supply
    <3>4. m \in Nat /\ supply' = supply + m /\ TotalAssets' = TotalAssets + 0
      BY <1>2, <2>3, <3>1, <3>3 DEF Exited
    <3> QED BY <1>1, <1>3, <3>4, GainsCover
  <2>4. ASSUME NEW a \in Nat, NEW n \in Nat, NEW holder \in Accounts,
               Exited(a, n), FulfillRedeem(holder, n)
        PROVE  QueueCovered'
    BY <1>1, <1>3, <2>4, FulfillKeepsCover
  <2> QED BY <2>1, <2>2, <2>3, <2>4, StepsFair DEF Fair
<1>5. (TypeOK /\ NavReadable)' => (RedemptionDeficit = 0 <=> QueueCovered)'
  BY DeficitIsLack, PTL
<1> QED BY <1>1, <1>3, <1>4, <1>5

\* A queue that idle USDC covers stays covered while Core rests, whoever is served
\* from it, in whatever order, and whatever fees and roundings that brings.
THEOREM CoverKept == Spec => QueueStaysCovered
<1>1. Inv /\ Inv' /\ [Next]_vars
      => [/\ NavReadable
          /\ RedemptionDeficit = 0
          /\ UNCHANGED coreVars
          /\ totalPendingRedeemShares' <= totalPendingRedeemShares
          /\ BurnsQueuedOnly
          /\ outside' <= outside \/ SettlesClaim
          => RedemptionDeficit' = 0]_vars
  BY StepsKeepCover
<1> QED BY <1>1, Invariance, PTL DEF Spec, QueueStaysCovered
=============================================================================
