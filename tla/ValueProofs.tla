---------------------------- MODULE ValueProofs ----------------------------
(***************************************************************************)
(* Proofs about value and fees, for every number of holders, price, rate   *)
(* and amount: no call takes value from those who stay, only redeemers are *)
(* paid, and no USDC is lost on the way to HyperCore and back; the deposit *)
(* limits keep NAV within the cap, fee shares dilute by no more than the   *)
(* fees, a moment is charged once and at the rate then in force, the       *)
(* high-water mark never falls, the brakes hold, and a manager who acts is *)
(* heard.                                                                  *)
(***************************************************************************)
EXTENDS VaultProofs

-----------------------------------------------------------------------------
(* Arithmetic of fair exchanges.                                           *)

\* n shares issued for a at a price of at least t per s do not lower t per s.
LEMMA FairEntry ==
    ASSUME NEW s \in Nat, NEW t \in Nat, NEW a \in Nat, NEW n \in Nat, n * t <= a * s
    PROVE  (t + a) * s >= t * (s + n)
<1>1. (t + a) * s = t * s + a * s /\ t * (s + n) = t * s + n * t
  OBVIOUS
<1>2. t * s \in Nat /\ a * s \in Nat /\ n * t \in Nat
  BY TimesNat
<1> QED BY <1>1, <1>2

\* n shares burnt against a at a price of at most t per s do not lower t per s.
LEMMA FairExit ==
    ASSUME NEW s \in Nat, NEW t \in Nat, NEW a \in Nat, NEW n \in Nat, a * s <= n * t
    PROVE  (t - a) * s >= t * (s - n)
<1>1. (t - a) * s = t * s - a * s /\ t * (s - n) = t * s - n * t
  OBVIOUS
<1>2. t * s \in Nat /\ a * s \in Nat /\ n * t \in Nat
  BY TimesNat
<1> QED BY <1>1, <1>2

\* There and back with the second conversion rounded up: still at most i.
LEMMA RoundTripUp ==
    ASSUME NEW n \in Nat, NEW i \in Nat, NEW s \in Nat \ {0}, NEW t \in Nat \ {0},
           n <= MulDiv(i, s, t)
    PROVE  MulDivUp(n, t, s) <= i
<1> DEFINE q == MulDivUp(n, t, s)
           p == MulDiv(i, s, t)
<1>1. q \in Nat /\ q * s <= n * t + (s - 1) /\ p \in Nat /\ p * t <= i * s
  BY MulDivFloor, MulDivCeil
<1> HIDE DEF q, p
<1>2. n * t <= p * t
  BY <1>1, MulDivMonotone DEF p
<1>3. q * s \in Nat /\ n * t \in Nat /\ p * t \in Nat /\ i * s \in Nat
  BY <1>1, TimesNat
<1>4. q * s <= i * s + (s - 1)
  BY <1>1, <1>2, <1>3
<1>5. SUFFICES ASSUME q >= i + 1 PROVE FALSE
  BY <1>1 DEF q
<1>6. q * s >= (i + 1) * s /\ (i + 1) * s = i * s + s
  BY <1>1, <1>5, MulDivMonotone
<1> QED BY <1>3, <1>4, <1>6

-----------------------------------------------------------------------------
(* What an exchange of USDC for shares does to NAV and to the supply.      *)

\* While Core rests, NAV moves with the idle USDC.
LEMMA NavMoves ==
    ASSUME TypeOK, UNCHANGED coreVars, NEW d \in Int, NEW u \in Nat, NEW r \in Nat,
           usdc' = u, reservedAssets' = r, u - r = usdc - reservedAssets + d
    PROVE  TotalAssets' = TotalAssets + d
<1>1. usdc \in Nat /\ reservedAssets \in Nat /\ spot \in Nat /\ perp \in Int
  BY DEF TypeOK, CoreTypeOK
<1>2. /\ CoreEquityUsd' = CoreEquityUsd /\ CoreEquityUsd \in Nat
      /\ CoreSpotUsd' = CoreSpotUsd /\ CoreSpotUsd \in Nat
  BY <1>1 DEF CoreEquityUsd, CoreSpotUsd, coreVars
<1>3. TotalAssets' = u - r + CoreEquityUsd + CoreSpotUsd
  BY <1>2 DEF TotalAssets, IdleAssets
<1>4. TotalAssets = usdc - reservedAssets + CoreEquityUsd + CoreSpotUsd
  BY DEF TotalAssets, IdleAssets
<1> QED BY <1>1, <1>2, <1>3, <1>4

LEMMA ShareTypes ==
    ASSUME TypeOK, CanAccrue
    PROVE  /\ AccruedSupply \in Nat /\ AccruedSupply + VirtualShares \in Nat \ {0}
           /\ supply \in Nat /\ supply <= AccruedSupply
           /\ TotalAssets \in Nat /\ TotalAssets + 1 \in Nat \ {0}
<1>1. supply \in Nat
  BY DEF TypeOK
<1>2. FeeShares \in Nat /\ AccruedSupply \in Nat
  BY FeeTypes
<1> QED BY <1>1, <1>2, NavTypes, ConstantTypes DEF AccruedSupply, CanAccrue

\* Shares worth less than, or just, the USDC paid for them: deposit rounds them down,
\* mint rounds the USDC up.
LEMMA EntriesFair ==
    ASSUME TypeOK, CanAccrue, NEW x \in Nat
    PROVE  /\ ToShares(x, AccruedSupply) * (TotalAssets + 1)
                  <= x * (AccruedSupply + VirtualShares)
           /\ x * (TotalAssets + 1)
                  <= ToAssetsUp(x, AccruedSupply) * (AccruedSupply + VirtualShares)
BY ShareTypes, MulDivFloor, MulDivCeil DEF ToShares, ToAssetsUp

\* USDC worth at most the shares burnt for it: withdraw rounds the shares up, and both
\* exits keep the exit fee in the vault.
LEMMA ExitsFair ==
    ASSUME TypeOK, CanAccrue, NEW x \in Nat
    PROVE  /\ x * (AccruedSupply + VirtualShares)
                  <= PreviewWithdraw(x, AccruedSupply) * (TotalAssets + 1)
           /\ PreviewRedeem(x, AccruedSupply) * (AccruedSupply + VirtualShares)
                  <= x * (TotalAssets + 1)
<1> DEFINE s == AccruedSupply + VirtualShares
           t == TotalAssets + 1
           fee == FeeOnRaw(x, fees.exit, BPS)
           gross == MulDiv(x, t, s)
           net == gross - FeeOnTotal(gross, fees.exit, BPS)
<1>1. s \in Nat \ {0} /\ t \in Nat \ {0}
  BY ShareTypes
<1>2. fees.exit \in Nat /\ BPS \in Nat \ {0}
  BY ConstantTypes DEF TypeOK, FeeRates
<1> HIDE DEF s, t
<1>3. x * s <= MulDivUp(x + fee, s, t) * t
  <2>1. fee \in Nat
    BY <1>2, FeeOnRawType
  <2> HIDE DEF fee
  <2>2. x + fee \in Nat
    BY <2>1
  <2>3. (x + fee) * s <= MulDivUp(x + fee, s, t) * t /\ MulDivUp(x + fee, s, t) \in Nat
    BY <1>1, <2>2, MulDivCeil
  <2>4. x * s <= (x + fee) * s
    BY <1>1, <2>1, <2>2, MulDivMonotone
  <2>5. x * s \in Nat /\ (x + fee) * s \in Nat /\ MulDivUp(x + fee, s, t) * t \in Nat
    BY <1>1, <2>2, <2>3, TimesNat
  <2> QED BY <2>3, <2>4, <2>5
<1>4. net * s <= x * t
  <2>1. gross \in Nat /\ gross * s <= x * t
    BY <1>1, MulDivFloor
  <2>2. FeeOnTotal(gross, fees.exit, BPS) \in 0 .. gross
    BY <1>2, <2>1, FeeOnTotalBound
  <2>3. net \in Nat /\ net <= gross
    BY <2>1, <2>2
  <2> HIDE DEF gross, net
  <2>4. net * s <= gross * s
    BY <1>1, <2>1, <2>3, MulDivMonotone
  <2>5. net * s \in Nat /\ gross * s \in Nat /\ x * t \in Nat
    BY <1>1, <2>1, <2>3, TimesNat
  <2> QED BY <2>1, <2>4, <2>5
<1> QED BY <1>3, <1>4 DEF PreviewWithdraw, PreviewRedeem, ToSharesUp, ToAssets, s, t

-----------------------------------------------------------------------------
(* The price of a share.                                                   *)
Entered(a, n) ==
    /\ TotalAssets' = TotalAssets + a /\ supply' = AccruedSupply + n
    /\ n * (TotalAssets + 1) <= a * (AccruedSupply + VirtualShares)

Exited(a, n) ==
    /\ TotalAssets' = TotalAssets - a /\ supply' = AccruedSupply - n
    /\ a * (AccruedSupply + VirtualShares) <= n * (TotalAssets + 1)

Stayed ==
    /\ \E gift \in Nat : TotalAssets' = TotalAssets + gift
    /\ supply' \in {supply, AccruedSupply}

PriceKept ==
    (TotalAssets' + 1) * (AccruedSupply + VirtualShares)
        >= (TotalAssets + 1) * (supply' + VirtualShares)

LEMMA FairStepsKeepPrice ==
    ASSUME TypeOK, CanAccrue,
           \/ Stayed
           \/ \E a \in Nat, n \in Nat : Entered(a, n) \/ Exited(a, n)
    PROVE  PriceKept
<1> DEFINE s == AccruedSupply + VirtualShares
           t == TotalAssets + 1
<1>1. /\ s \in Nat /\ t \in Nat /\ AccruedSupply \in Nat /\ VirtualShares \in Nat
      /\ TotalAssets \in Nat /\ supply \in Nat /\ supply <= AccruedSupply
  BY ShareTypes, ConstantTypes
<1>2. ASSUME NEW a \in Nat, NEW n \in Nat, Entered(a, n) PROVE PriceKept
  <2>1. TotalAssets' + 1 = t + a /\ supply' + VirtualShares = s + n /\ n * t <= a * s
    BY <1>1, <1>2 DEF Entered
  <2> HIDE DEF s, t
  <2>2. (t + a) * s >= t * (s + n)
    BY <1>1, <2>1, FairEntry
  <2> QED BY <2>1, <2>2 DEF PriceKept, s, t
<1>3. ASSUME NEW a \in Nat, NEW n \in Nat, Exited(a, n) PROVE PriceKept
  <2>1. TotalAssets' + 1 = t - a /\ supply' + VirtualShares = s - n /\ a * s <= n * t
    BY <1>1, <1>3 DEF Exited
  <2> HIDE DEF s, t
  <2>2. (t - a) * s >= t * (s - n)
    BY <1>1, <2>1, FairExit
  <2> QED BY <2>1, <2>2 DEF PriceKept, s, t
<1>4. CASE Stayed
  <2>1. PICK gift \in Nat : TotalAssets' = TotalAssets + gift
    BY <1>4 DEF Stayed
  <2>2. PICK left \in Nat : supply' = left /\ left <= AccruedSupply
    BY <1>1, <1>4 DEF Stayed
  <2>3. (t + gift) * s >= t * (left + VirtualShares)
    <3> DEFINE r == left + VirtualShares
    <3>1. r \in Nat /\ r <= s
      BY <1>1, <2>2
    <3> HIDE DEF s, t, r
    <3>2. t * r <= t * s /\ (t + gift) * s = t * s + gift * s
      BY <1>1, <3>1
    <3>3. t * r \in Nat /\ t * s \in Nat /\ gift * s \in Nat
      BY <1>1, <3>1, TimesNat
    <3>4. (t + gift) * s >= t * r
      BY <3>2, <3>3
    <3> QED BY <3>4 DEF r
  <2>4. TotalAssets' + 1 = t + gift /\ supply' + VirtualShares = left + VirtualShares
    BY <1>1, <2>1, <2>2
  <2> QED BY <2>3, <2>4 DEF PriceKept
<1> QED BY <1>2, <1>3, <1>4

LEMMA ReadableAccrues == Inv /\ NavReadable => CanAccrue
BY PlatformSliceHasTreasury DEF AccrualNeverReverts

\* Nothing enters, leaves or is promised: the price stays, but for fees.
LEMMA RestIsFair ==
    ASSUME TypeOK, UNCHANGED <<coreVars, usdc, reservedAssets>>, NavReadable,
           supply' \in {supply, AccruedSupply}
    PROVE  Stayed
<1>1. usdc \in Nat /\ reservedAssets \in Nat /\ TotalAssets \in Nat
  BY NavTypes DEF TypeOK
<1>2. usdc - reservedAssets = usdc - reservedAssets + 0
  BY <1>1
<1>3. TotalAssets' = TotalAssets + 0
  BY <1>1, <1>2, NavMoves
<1> QED BY <1>3 DEF Stayed

LEMMA DepositsFair ==
    ASSUME TypeOK, NEW receiver \in Holders, NEW a \in Nat, NEW n \in Nat,
           n * (TotalAssets + 1) <= a * (AccruedSupply + VirtualShares),
           Deposits(receiver, a, n)
    PROVE  Entered(a, n)
<1>1. usdc \in Nat /\ reservedAssets \in Nat /\ usdc + a \in Nat
  BY DEF TypeOK
<1>2. usdc' = usdc + a /\ reservedAssets' = reservedAssets /\ UNCHANGED coreVars
  BY DEF Deposits, PayIn, queueVars, claimVars
<1>3. usdc + a - reservedAssets = usdc - reservedAssets + a
  BY <1>1
<1>4. TotalAssets' = TotalAssets + a
  BY <1>1, <1>2, <1>3, NavMoves
<1> QED BY <1>4 DEF Entered, Deposits, MintShares

LEMMA WithdrawsFair ==
    ASSUME TypeOK, CanAccrue, NEW holder \in Accounts, NEW a \in Nat, NEW n \in Nat,
           a * (AccruedSupply + VirtualShares) <= n * (TotalAssets + 1),
           Withdraws(holder, a, n)
    PROVE  Exited(a, n)
<1>1. usdc \in Nat /\ reservedAssets \in Nat /\ a <= usdc
  BY DEF TypeOK, Withdraws, PayOut
<1>2. usdc' = usdc - a /\ reservedAssets' = reservedAssets /\ UNCHANGED coreVars
  BY DEF Withdraws, PayOut, queueVars, claimVars
<1>3. usdc - a \in Nat /\ usdc - a - reservedAssets = usdc - reservedAssets + (-a)
  BY <1>1
<1>4. TotalAssets' = TotalAssets + (-a)
  BY <1>1, <1>2, <1>3, NavMoves
<1>5. TotalAssets \in Nat
  BY ShareTypes
<1> QED BY <1>4, <1>5 DEF Exited, Withdraws, BurnShares

LEMMA FulfillFair ==
    ASSUME TypeOK, NEW holder \in Accounts, NEW n \in Nat, FulfillRedeem(holder, n)
    PROVE  Exited(PreviewRedeem(n, AccruedSupply), n)
<1> DEFINE a == PreviewRedeem(n, AccruedSupply)
<1>1. usdc \in Nat /\ reservedAssets \in Nat
  BY DEF TypeOK
<1>2. CanAccrue
  BY DEF FulfillRedeem, Accrue
<1>3. a \in Nat /\ a * (AccruedSupply + VirtualShares) <= n * (TotalAssets + 1)
  BY <1>2, ConversionTypes, ExitsFair
<1>4. /\ usdc' = usdc /\ reservedAssets' = reservedAssets + a /\ UNCHANGED coreVars
      /\ supply' = AccruedSupply - n
  BY DEF FulfillRedeem, BurnShares
<1> HIDE DEF a
<1>5. /\ reservedAssets + a \in Nat
      /\ usdc - (reservedAssets + a) = usdc - reservedAssets + (-a)
  BY <1>1, <1>3
<1>6. TotalAssets' = TotalAssets + (-a)
  BY <1>1, <1>3, <1>4, <1>5, NavMoves
<1>7. TotalAssets \in Nat
  BY <1>2, ShareTypes
<1> QED BY <1>3, <1>4, <1>6, <1>7 DEF Exited, a

\* What a step may do to NAV and the supply while Core rests
Fair ==
    \/ Stayed
    \/ \E a \in Nat, n \in Nat :
        \/ Entered(a, n)
        \/ /\ Exited(a, n)
           /\ \E holder \in Accounts : Withdraws(holder, a, n) \/ FulfillRedeem(holder, n)

LEMMA UserStepsFair ==
    ASSUME Inv, NavReadable, UNCHANGED coreVars, UserStep
    PROVE  Fair
<1>1. /\ TypeOK /\ CanAccrue /\ usdc \in Nat /\ reservedAssets \in Nat
      /\ AssetAmounts \subseteq Nat /\ ShareAmounts \subseteq Nat /\ Donations \subseteq Nat
  BY ReadableAccrues, VaultAssumption DEF Inv, TypeOK
<1>2. ASSUME UNCHANGED <<usdc, reservedAssets>>, supply' \in {supply, AccruedSupply}
      PROVE  Fair
  BY <1>1, <1>2, RestIsFair DEF Fair
<1>3. ASSUME NEW a \in AssetAmounts, NEW receiver \in Holders, Deposit(receiver, a)
      PROVE  Fair
  <2> DEFINE n == ToShares(a, AccruedSupply)
  <2>1. a \in Nat /\ n \in Nat
    BY <1>1, ConversionTypes
  <2>2. n * (TotalAssets + 1) <= a * (AccruedSupply + VirtualShares)
    BY <1>1, <2>1, EntriesFair
  <2>3. Entered(a, n)
    BY <1>1, <1>3, <2>1, <2>2, DepositsFair DEF Deposit
  <2> QED BY <2>1, <2>3 DEF Fair
<1>4. ASSUME NEW n \in ShareAmounts, NEW receiver \in Holders, Mint(receiver, n)
      PROVE  Fair
  <2> DEFINE a == ToAssetsUp(n, AccruedSupply)
  <2>1. n \in Nat /\ a \in Nat
    BY <1>1, ConversionTypes
  <2>2. n * (TotalAssets + 1) <= a * (AccruedSupply + VirtualShares)
    BY <1>1, <2>1, EntriesFair
  <2>3. Entered(a, n)
    BY <1>1, <1>4, <2>1, <2>2, DepositsFair DEF Mint
  <2> QED BY <2>1, <2>3 DEF Fair
<1>5. ASSUME NEW a \in AssetAmounts, NEW holder \in Accounts, Withdraw(holder, a)
      PROVE  Fair
  <2> DEFINE n == PreviewWithdraw(a, AccruedSupply)
  <2>1. a \in Nat /\ n \in Nat
    BY <1>1, ConversionTypes
  <2>2. a * (AccruedSupply + VirtualShares) <= n * (TotalAssets + 1)
    BY <1>1, <2>1, ExitsFair
  <2>3. Withdraws(holder, a, n) /\ Exited(a, n)
    BY <1>1, <1>5, <2>1, <2>2, WithdrawsFair DEF Withdraw
  <2> QED BY <2>1, <2>3 DEF Fair
<1>6. ASSUME NEW n \in ShareAmounts, NEW holder \in Accounts, Redeem(holder, n)
      PROVE  Fair
  <2> DEFINE a == PreviewRedeem(n, AccruedSupply)
  <2>1. n \in Nat /\ a \in Nat
    BY <1>1, ConversionTypes
  <2>2. a * (AccruedSupply + VirtualShares) <= n * (TotalAssets + 1)
    BY <1>1, <2>1, ExitsFair
  <2>3. Withdraws(holder, a, n) /\ Exited(a, n)
    BY <1>1, <1>6, <2>1, <2>2, WithdrawsFair DEF Redeem
  <2> QED BY <2>1, <2>3 DEF Fair
<1>7. ASSUME NEW n \in ShareAmounts, NEW holder \in Accounts, FulfillRedeem(holder, n)
      PROVE  Fair
  <2>1. n \in Nat /\ PreviewRedeem(n, AccruedSupply) \in Nat
    BY <1>1, ConversionTypes
  <2> QED BY <1>1, <1>7, <2>1, FulfillFair DEF Fair
<1>8. ASSUME NEW holder \in Accounts, Claim(holder) PROVE Fair
  <2> DEFINE c == claimableAssets[holder]
  <2>1. c \in Nat /\ c <= reservedAssets /\ c <= usdc
    BY <1>1, <1>8 DEF Claim, PayOut, TypeOK
  <2>2. usdc' = usdc - c /\ reservedAssets' = reservedAssets - c /\ supply' = supply
    BY <1>8 DEF Claim, PayOut
  <2> HIDE DEF c
  <2>3. /\ usdc - c \in Nat /\ reservedAssets - c \in Nat
        /\ usdc - c - (reservedAssets - c) = usdc - reservedAssets + 0
    BY <1>1, <2>1
  <2>4. TotalAssets' = TotalAssets + 0
    BY <1>1, <2>2, <2>3, NavMoves
  <2> QED BY <2>2, <2>4 DEF Stayed, Fair
<1>9. ASSUME NEW a \in Donations, Donate(a) PROVE Fair
  <2>1. /\ a \in Nat /\ usdc' = usdc + a /\ reservedAssets' = reservedAssets
        /\ supply' = supply
    BY <1>1, <1>9 DEF Donate, PayIn, queueVars, claimVars
  <2>2. usdc + a \in Nat /\ usdc + a - reservedAssets = usdc - reservedAssets + a
    BY <1>1, <2>1
  <2>3. TotalAssets' = TotalAssets + a
    BY <1>1, <2>1, <2>2, NavMoves
  <2> QED BY <2>1, <2>3 DEF Stayed, Fair
<1>10. ASSUME NEW n \in ShareAmounts, NEW holder \in Accounts,
              RequestRedeem(holder, n) \/ CancelRedeemRequest(holder, n)
       PROVE  Fair
  BY <1>2, <1>10 DEF RequestRedeem, CancelRedeemRequest, MoveShares, claimVars
<1>11. ASSUME NEW n \in ShareAmounts, NEW from \in Accounts, NEW to \in Holders,
              Transfer(from, to, n)
       PROVE  Fair
  BY <1>2, <1>11 DEF Transfer, queueVars, claimVars
<1>12. ASSUME NEW a \in BridgeAmounts, BridgeFromCoreForRedemptions(a) PROVE Fair
  BY <1>2, <1>12 DEF BridgeFromCoreForRedemptions, vaultVars, tokenVars, queueVars, claimVars
<1>13. AccrueFees => Fair
  BY <1>2 DEF AccrueFees, queueVars, claimVars
<1> QED BY <1>3, <1>4, <1>5, <1>6, <1>7, <1>8, <1>9, <1>10, <1>11, <1>12, <1>13 DEF UserStep

LEMMA StepsFair ==
    ASSUME Inv, [Next]_vars, NavReadable, UNCHANGED coreVars
    PROVE  Fair
<1>1. TypeOK /\ CanAccrue /\ BridgeAmounts \subseteq Nat
  BY ReadableAccrues, VaultAssumption DEF Inv
<1>2. ASSUME UNCHANGED <<usdc, reservedAssets>>, supply' \in {supply, AccruedSupply}
      PROVE  Fair
  BY <1>1, <1>2, RestIsFair DEF Fair
<1>3. UNCHANGED vaultVars => Fair
  BY <1>2 DEF vaultVars, tokenVars, queueVars, claimVars
<1>4. AccrueFees => Fair
  BY <1>2 DEF AccrueFees, queueVars, claimVars
<1>5. CASE UserStep
  BY <1>1, <1>5, UserStepsFair
<1>6. CASE GovernanceStep
  BY <1>2, <1>4, <1>6 DEF GovernanceStep, SetFeeConfig, SetProtocolFeeConfig,
         SetProtocolAdmin, SetDepositCap, tokenVars, queueVars, claimVars
<1>7. CASE CreditEvm
  BY <1>7 DEF CreditEvm, LeaveCore, coreVars
<1>8. ASSUME NEW caller \in Accounts, NEW a \in BridgeAmounts, BridgeFromCore(caller, a)
      PROVE  Fair
  BY <1>3, <1>8 DEF BridgeFromCore
<1>9. ASSUME NEW caller \in Accounts, NEW a \in BridgeAmounts, BridgeToCore(caller, a)
      PROVE  Fair
  <2>1. a \in Nat /\ toCore \in Nat /\ usdc \in Nat
    BY <1>1 DEF TypeOK, CoreTypeOK
  <2>2. toCore + a = toCore
    BY <1>9 DEF BridgeToCore, SendToCore, coreVars
  <2>3. usdc - a = usdc
    BY <2>1, <2>2
  <2>4. UNCHANGED <<usdc, reservedAssets, supply>>
    BY <1>9, <2>3 DEF BridgeToCore, queueVars, claimVars
  <2> QED BY <1>2, <2>4
<1>10. CASE UNCHANGED vars
  BY <1>3, <1>10 DEF vars
<1> QED BY <1>3, <1>5, <1>6, <1>7, <1>8, <1>9, <1>10 DEF Next, OtherStep

LEMMA StepsKeepPrice ==
    ASSUME Inv, [Next]_vars, NavReadable, UNCHANGED coreVars
    PROVE  PriceKept
<1>1. TypeOK /\ CanAccrue
  BY ReadableAccrues DEF Inv
<1> QED BY <1>1, StepsFair, FairStepsKeepPrice DEF Fair

\* No call of a holder, a stranger, the manager or governance lowers the value of a
\* share, whatever the amounts, the fees and the rounding.
THEOREM SharePriceKept == Spec => SharePriceNeverFalls
<1>1. Inv /\ [Next]_vars
      => [NavReadable /\ UNCHANGED coreVars =>
              (TotalAssets' + 1) * (AccruedSupply + VirtualShares)
                  >= (TotalAssets + 1) * (supply' + VirtualShares)]_vars
  BY StepsKeepPrice DEF PriceKept
<1> QED BY <1>1, Invariance, PTL DEF Spec, SharePriceNeverFalls

-----------------------------------------------------------------------------
(* Only redeemers are paid.                                                *)

\* What leaves through withdraw and redeem is paid for with shares.
LEMMA ExitsPay ==
    ASSUME TypeOK, CanAccrue, NEW holder \in Accounts, NEW a \in Nat, NEW n \in Nat,
           a * (AccruedSupply + VirtualShares) <= n * (TotalAssets + 1),
           Withdraws(holder, a, n)
    PROVE  RedeemsShares
<1>1. outside \in Nat /\ AccruedSupply \in Nat
  BY ShareTypes DEF TypeOK
<1>2. outside' = outside + a /\ supply' = AccruedSupply - n
  BY DEF Withdraws, PayOut, BurnShares
<1>3. PaidOut = a
  BY <1>1, <1>2 DEF PaidOut
<1>4. AccruedSupply - supply' = n
  BY <1>1, <1>2
<1> QED BY <1>3, <1>4 DEF RedeemsShares

LEMMA StepsPayRedeemers ==
    ASSUME Inv, [Next]_vars, outside' > outside
    PROVE  SettlesClaim \/ RedeemsShares
<1>1. /\ TypeOK /\ outside \in Nat
      /\ AssetAmounts \subseteq Nat /\ ShareAmounts \subseteq Nat /\ Donations \subseteq Nat
  BY VaultAssumption DEF Inv, TypeOK
<1>2. ASSUME outside' = outside PROVE FALSE
  BY <1>1, <1>2
<1>3. ASSUME NEW a \in Nat, PayIn(a) PROVE FALSE
  BY <1>1, <1>3 DEF PayIn
<1>4. ASSUME NEW a \in AssetAmounts, NEW receiver \in Holders, Deposit(receiver, a)
      PROVE  FALSE
  BY <1>1, <1>3, <1>4 DEF Deposit, Deposits
<1>5. ASSUME NEW n \in ShareAmounts, NEW receiver \in Holders, Mint(receiver, n)
      PROVE  FALSE
  <2>1. ToAssetsUp(n, AccruedSupply) \in Nat
    BY <1>1, <1>5, ConversionTypes DEF Mint, Accrue
  <2> QED BY <1>3, <1>5, <2>1 DEF Mint, Deposits
<1>6. ASSUME NEW a \in AssetAmounts, NEW holder \in Accounts, Withdraw(holder, a)
      PROVE  RedeemsShares
  <2>1. CanAccrue /\ a \in Nat /\ Withdraws(holder, a, PreviewWithdraw(a, AccruedSupply))
    BY <1>1, <1>6 DEF Withdraw, Accrue
  <2>2. PreviewWithdraw(a, AccruedSupply) \in Nat
    BY <1>1, <2>1, ConversionTypes
  <2>3. a * (AccruedSupply + VirtualShares)
            <= PreviewWithdraw(a, AccruedSupply) * (TotalAssets + 1)
    BY <1>1, <2>1, ExitsFair
  <2> QED BY <1>1, <2>1, <2>2, <2>3, ExitsPay
<1>7. ASSUME NEW n \in ShareAmounts, NEW holder \in Accounts, Redeem(holder, n)
      PROVE  RedeemsShares
  <2>1. CanAccrue /\ n \in Nat /\ Withdraws(holder, PreviewRedeem(n, AccruedSupply), n)
    BY <1>1, <1>7 DEF Redeem, Accrue
  <2>2. PreviewRedeem(n, AccruedSupply) \in Nat
    BY <1>1, <2>1, ConversionTypes
  <2>3. PreviewRedeem(n, AccruedSupply) * (AccruedSupply + VirtualShares)
            <= n * (TotalAssets + 1)
    BY <1>1, <2>1, ExitsFair
  <2> QED BY <1>1, <2>1, <2>2, <2>3, ExitsPay
<1>8. ASSUME NEW holder \in Accounts, Claim(holder) PROVE SettlesClaim
  <2> DEFINE c == claimableAssets[holder]
  <2>1. c \in Nat /\ claimableAssets'[holder] = 0
    BY <1>1, <1>8 DEF Claim, TypeOK
  <2>2. outside' = outside + c /\ reservedAssets' = reservedAssets - c
    BY <1>8 DEF Claim, PayOut
  <2>3. PaidOut = c
    <3> HIDE DEF c
    <3> QED BY <1>1, <2>1, <2>2 DEF PaidOut
  <2> QED BY <2>1, <2>2, <2>3 DEF SettlesClaim
<1>9. CASE UserStep
  <2>1. ASSUME NEW a \in Donations, Donate(a) PROVE FALSE
    BY <1>1, <1>3, <2>1 DEF Donate
  <2>2. ASSUME NEW n \in ShareAmounts, NEW holder \in Accounts,
               \/ RequestRedeem(holder, n)
               \/ CancelRedeemRequest(holder, n)
               \/ FulfillRedeem(holder, n)
        PROVE  FALSE
    BY <1>2, <2>2 DEF RequestRedeem, CancelRedeemRequest, FulfillRedeem
  <2>3. ASSUME NEW n \in ShareAmounts, NEW from \in Accounts, NEW to \in Holders,
               Transfer(from, to, n)
        PROVE  FALSE
    BY <1>2, <2>3 DEF Transfer
  <2>4. ASSUME NEW a \in BridgeAmounts, BridgeFromCoreForRedemptions(a) PROVE FALSE
    BY <1>2, <2>4 DEF BridgeFromCoreForRedemptions, vaultVars, tokenVars
  <2>5. AccrueFees => FALSE
    BY <1>2 DEF AccrueFees
  <2> QED BY <1>4, <1>5, <1>6, <1>7, <1>8, <1>9, <2>1, <2>2, <2>3, <2>4, <2>5 DEF UserStep
<1>10. CASE GovernanceStep
  BY <1>2, <1>10 DEF GovernanceStep, SetFeeConfig, SetProtocolFeeConfig, SetProtocolAdmin,
         SetDepositCap, AccrueFees, tokenVars
<1>11. CASE UNCHANGED vaultVars
  BY <1>2, <1>11 DEF vaultVars, tokenVars
<1>12. CASE CreditEvm
  BY <1>2, <1>12 DEF CreditEvm
<1>13. ASSUME NEW caller \in Accounts, NEW a \in BridgeAmounts, BridgeToCore(caller, a)
       PROVE  FALSE
  BY <1>2, <1>13 DEF BridgeToCore
<1> QED BY <1>9, <1>10, <1>11, <1>12, <1>13 DEF Next, OtherStep, BridgeFromCore, vars

\* USDC leaves the vault for a wallet only as the whole of a claim, or for shares
\* worth at least as much.
THEOREM OnlyRedeemersPaid == Spec => PaysOnlyRedeemers
<1>1. Inv /\ [Next]_vars
      => [outside' > outside => SettlesClaim \/ RedeemsShares]_vars
  BY StepsPayRedeemers
<1> QED BY <1>1, Invariance, PTL DEF Spec, PaysOnlyRedeemers

-----------------------------------------------------------------------------
(* No USDC is lost.                                                        *)
LEMMA FlowTypes ==
    ASSUME Inv
    PROVE  /\ outside \in Nat /\ usdc \in Nat /\ toCore \in Nat /\ spot \in Nat
           /\ toEvm \in Nat /\ perp \in Int
           /\ InSystem = outside + usdc + toCore + perp + spot + toEvm
BY DEF Inv, TypeOK, CoreTypeOK, InSystem

\* A transfer between the vault and a wallet
LEMMA WalletsConserve ==
    ASSUME Inv, UNCHANGED coreVars, NEW d \in Int,
           outside' = outside + d, usdc' = usdc + (-d)
    PROVE  InSystem' = InSystem
<1>1. InSystem' = outside + d + (usdc + (-d)) + toCore + perp + spot + toEvm
  BY DEF InSystem, coreVars
<1> QED BY <1>1, FlowTypes

\* HyperCore runs or drops a queued action.
LEMMA RunConserves ==
    ASSUME Inv, RunAction, UNCHANGED <<outside, usdc>>
    PROVE  InSystem' = InSystem
<1> DEFINE action == Head(coreQueue)
<1>1. action.amount \in Nat
  <2>1. coreQueue \in Seq(CoreActions) /\ coreQueue # <<>>
    BY DEF RunAction, Inv, TypeOK, CoreTypeOK
  <2>2. Head(coreQueue) \in CoreActions
    BY <2>1
  <2> QED BY <2>2 DEF CoreActions
<1>2. InSystem' = outside + usdc + toCore + perp' + spot' + toEvm'
  BY DEF InSystem, RunAction
<1>3. CASE UNCHANGED <<perp, spot, toEvm>>
  BY <1>2, <1>3 DEF InSystem
<1>4. CASE /\ spot' = spot - action.amount /\ perp' = perp + action.amount
           /\ UNCHANGED toEvm
  <2>1. InSystem' = outside + usdc + toCore + (perp + action.amount)
                        + (spot - action.amount) + toEvm
    BY <1>2, <1>4
  <2> QED BY <1>1, <2>1, FlowTypes
<1>5. CASE /\ perp' = perp - action.amount /\ spot' = spot + action.amount
           /\ UNCHANGED toEvm
  <2>1. InSystem' = outside + usdc + toCore + (perp - action.amount)
                        + (spot + action.amount) + toEvm
    BY <1>2, <1>5
  <2> QED BY <1>1, <2>1, FlowTypes
<1>6. CASE /\ spot' = spot - action.amount /\ toEvm' = toEvm + action.amount
           /\ UNCHANGED perp
  <2>1. InSystem' = outside + usdc + toCore + perp
                        + (spot - action.amount) + (toEvm + action.amount)
    BY <1>2, <1>6
  <2> QED BY <1>1, <2>1, FlowTypes
<1> QED BY <1>3, <1>4, <1>5, <1>6 DEF RunAction, Effect

LEMMA StepsConserve ==
    ASSUME Inv, [Next]_vars
    PROVE  MarketStep \/ InSystem' = InSystem
<1> DEFINE Same == InSystem' = InSystem
<1>1. /\ AssetAmounts \subseteq Nat /\ ShareAmounts \subseteq Nat
      /\ Donations \subseteq Nat /\ BridgeAmounts \subseteq Nat
  BY VaultAssumption
<1>2. ASSUME NEW a \in Nat, PayIn(a) \/ PayOut(a), UNCHANGED coreVars PROVE Same
  <2>1. CASE PayIn(a)
    <3>1. outside' = outside + (-a) /\ usdc' = usdc + (-(-a))
      BY <2>1, FlowTypes DEF PayIn
    <3> QED BY <1>2, <3>1, WalletsConserve
  <2>2. CASE PayOut(a)
    <3>1. outside' = outside + a /\ usdc' = usdc + (-a)
      BY <2>2, FlowTypes DEF PayOut
    <3> QED BY <1>2, <3>1, WalletsConserve
  <2> QED BY <1>2, <2>1, <2>2
<1>3. UNCHANGED <<usdc, outside, coreVars>> => Same
  BY DEF InSystem, coreVars
<1>4. UNCHANGED <<vaultVars, coreVars>> => Same
  BY <1>3 DEF vaultVars, tokenVars
<1>5. ASSUME CanAccrue, NEW x \in Nat
      PROVE  ToAssetsUp(x, AccruedSupply) \in Nat /\ PreviewRedeem(x, AccruedSupply) \in Nat
  BY <1>5, ConversionTypes DEF Inv
<1>6. ASSUME NEW amount, CallFromCore(amount), UNCHANGED vaultVars PROVE Same
  BY <1>6 DEF CallFromCore, InSystem, vaultVars, tokenVars
<1> HIDE DEF Same
<1>7. CASE UserStep
  <2>1. ASSUME NEW a \in AssetAmounts, NEW receiver \in Holders, Deposit(receiver, a)
        PROVE  Same
    BY <1>1, <1>2, <2>1 DEF Deposit, Deposits
  <2>2. ASSUME NEW n \in ShareAmounts, NEW receiver \in Holders, Mint(receiver, n)
        PROVE  Same
    BY <1>1, <1>2, <1>5, <2>2 DEF Mint, Deposits, Accrue
  <2>3. ASSUME NEW a \in AssetAmounts, NEW holder \in Accounts, Withdraw(holder, a)
        PROVE  Same
    BY <1>1, <1>2, <2>3 DEF Withdraw, Withdraws
  <2>4. ASSUME NEW n \in ShareAmounts, NEW holder \in Accounts, Redeem(holder, n)
        PROVE  Same
    BY <1>1, <1>2, <1>5, <2>4 DEF Redeem, Withdraws, Accrue
  <2>5. ASSUME NEW n \in ShareAmounts, NEW holder \in Accounts,
               \/ RequestRedeem(holder, n)
               \/ CancelRedeemRequest(holder, n)
               \/ FulfillRedeem(holder, n)
        PROVE  Same
    BY <1>3, <2>5 DEF RequestRedeem, CancelRedeemRequest, FulfillRedeem
  <2>6. ASSUME NEW n \in ShareAmounts, NEW from \in Accounts, NEW to \in Holders,
               Transfer(from, to, n)
        PROVE  Same
    BY <1>3, <2>6 DEF Transfer
  <2>7. ASSUME NEW holder \in Accounts, Claim(holder) PROVE Same
    <3>1. claimableAssets[holder] \in Nat
      BY DEF Inv, TypeOK
    <3> QED BY <1>2, <2>7, <3>1 DEF Claim
  <2>8. ASSUME NEW a \in Donations, Donate(a) PROVE Same
    BY <1>1, <1>2, <2>8 DEF Donate
  <2>9. ASSUME NEW a \in BridgeAmounts, BridgeFromCoreForRedemptions(a) PROVE Same
    BY <1>6, <2>9 DEF BridgeFromCoreForRedemptions
  <2>10. AccrueFees => Same
    BY <1>3 DEF AccrueFees
  <2> QED BY <1>7, <2>1, <2>2, <2>3, <2>4, <2>5, <2>6, <2>7, <2>8, <2>9, <2>10
     DEF UserStep, Same
<1>8. CASE GovernanceStep
  BY <1>3, <1>8 DEF GovernanceStep, SetFeeConfig, SetProtocolFeeConfig, SetProtocolAdmin,
         SetDepositCap, AccrueFees, tokenVars, Same
<1>9. CASE CreditEvm
  <2>1. InSystem' = outside + (usdc + toEvm) + toCore + perp + spot + 0
    BY <1>9 DEF CreditEvm, LeaveCore, InSystem
  <2> QED BY <2>1, FlowTypes DEF Same
<1>10. ASSUME NEW caller \in Accounts, NEW a \in BridgeAmounts, BridgeFromCore(caller, a)
       PROVE  Same
  BY <1>6, <1>10 DEF BridgeFromCore
<1>11. ASSUME NEW caller \in Accounts, NEW a \in BridgeAmounts, BridgeToCore(caller, a)
       PROVE  Same
  <2>1. InSystem' = outside + (usdc - a) + (toCore + a) + perp + spot + toEvm
    BY <1>11 DEF BridgeToCore, SendToCore, InSystem
  <2>2. a \in Nat
    BY <1>1
  <2> QED BY <2>1, <2>2, FlowTypes DEF Same
<1>12. CASE CoreStep /\ UNCHANGED vaultVars
  <2>1. CASE RunAction
    BY <1>12, <2>1, RunConserves DEF vaultVars, tokenVars, Same
  <2>2. CASE CreditSpot
    <3>1. InSystem' = outside + usdc + 0 + perp + (spot + toCore) + toEvm
      BY <1>12, <2>2 DEF CreditSpot, InSystem, vaultVars, tokenVars
    <3> QED BY <3>1, FlowTypes DEF Same
  <2> QED BY <1>12, <2>1, <2>2 DEF CoreStep, MarketStep, Same
<1>13. CASE UNCHANGED <<vaultVars, coreVars>>
  BY <1>4, <1>13 DEF Same
<1> QED BY <1>7, <1>8, <1>9, <1>10, <1>11, <1>12, <1>13 DEF Next, OtherStep, vars, Same

\* Whatever the order in which bridges, credits and dropped CoreWriter actions
\* interleave, USDC only moves between wallets, vault, transit and the Core account.
THEOREM NothingEverLost == Spec => NothingLost
<1>1. Inv /\ [Next]_vars => [MarketStep \/ InSystem' = InSystem]_vars
  BY StepsConserve
<1> QED BY <1>1, Invariance, PTL DEF Spec, NothingLost

-----------------------------------------------------------------------------
(* What fees cost.                                                         *)

\* An accrual that is worth m of v in all, paid in shares at the price after it.
LEMMA FloorOfRest ==
    ASSUME NEW f \in Nat, NEW s \in Nat, NEW v \in Nat, f < v, NEW m \in Nat,
           m * (v - f) <= f * s
    PROVE  m * v <= f * (s + m)
<1>1. m * (v - f) = m * v - m * f /\ f * (s + m) = f * s + f * m /\ m * f = f * m
  OBVIOUS
<1>2. m * v \in Nat /\ m * f \in Nat /\ f * s \in Nat
  BY TimesNat
<1> QED BY <1>1, <1>2

\* Holders are diluted by at most the value of the fees, however they round.
THEOREM DilutionBounded == Spec => []DilutionWithinFees
<1>1. ASSUME Inv, CanAccrue, Accruing PROVE FeeShares * TotalAssets <= FeeAssets * AccruedSupply
  <2>1. /\ FeeAssets \in Nat /\ FeeShares \in Nat /\ supply \in Nat /\ TotalAssets \in Nat
        /\ AccruedSupply = supply + FeeShares
    BY <1>1, AccrualTypes, NavTypes DEF Inv, TypeOK, CanAccrue, AccruedSupply
  <2>2. CASE FeeAssets > 0 /\ FeeAssets < TotalAssets
    <3> DEFINE d == TotalAssets - FeeAssets
    <3>1. d \in Nat \ {0}
      BY <2>1, <2>2
    <3>2. FeeShares = MulDiv(FeeAssets, supply, d)
      BY <1>1, <2>2 DEF FeeShares, SharesFor
    <3>3. FeeShares * d <= FeeAssets * supply
      <4> HIDE DEF d
      <4> QED BY <2>1, <3>1, <3>2, MulDivFloor
    <3>4. FeeShares * TotalAssets <= FeeAssets * (supply + FeeShares)
      BY <2>1, <2>2, <3>3, FloorOfRest
    <3> QED BY <2>1, <3>4
  <2>3. CASE ~(FeeAssets > 0 /\ FeeAssets < TotalAssets)
    <3>1. FeeShares = 0
      BY <2>3 DEF FeeShares, SharesFor
    <3>2. FeeShares * TotalAssets = 0 /\ FeeAssets * AccruedSupply \in Nat
      BY <2>1, <3>1, TimesNat
    <3> QED BY <3>2
  <2> QED BY <2>2, <2>3
<1>2. Inv => DilutionWithinFees
  BY <1>1 DEF DilutionWithinFees
<1> QED BY <1>2, Invariance, PTL

\* A deposit or a mint that the limits allow never carries NAV over the cap, although
\* maxMint rounds the room down to shares and mint rounds back up to USDC.
THEOREM CapAlwaysRespected == Spec => []CapRespected
<1>1. ASSUME Inv, CanAccrue, depositCap > TotalAssets PROVE
        /\ \A a \in AssetAmounts : WithinMaxDeposit(a) => TotalAssets + a <= depositCap
        /\ \A n \in ShareAmounts :
              WithinMaxMint(n, AccruedSupply)
                  => TotalAssets + ToAssetsUp(n, AccruedSupply) <= depositCap
  <2>1. /\ TotalAssets \in Nat /\ depositCap \in Nat /\ depositCap # 0
        /\ AssetAmounts \subseteq Nat /\ ShareAmounts \subseteq Nat
        /\ AccruedSupply + VirtualShares \in Nat \ {0} /\ TotalAssets + 1 \in Nat \ {0}
    BY <1>1, ShareTypes, VaultAssumption DEF Inv, TypeOK
  <2>2. CapRoom \in Nat /\ TotalAssets + CapRoom = depositCap
    BY <1>1, <2>1 DEF CapRoom
  <2>3. ASSUME NEW a \in AssetAmounts, WithinMaxDeposit(a)
        PROVE  TotalAssets + a <= depositCap
    <3>1. a \in Nat /\ a <= CapRoom
      BY <2>1, <2>3 DEF WithinMaxDeposit
    <3> QED BY <2>1, <2>2, <3>1
  <2>4. ASSUME NEW n \in ShareAmounts, WithinMaxMint(n, AccruedSupply)
        PROVE  TotalAssets + ToAssetsUp(n, AccruedSupply) <= depositCap
    <3>1. n \in Nat /\ n <= MulDiv(CapRoom, AccruedSupply + VirtualShares, TotalAssets + 1)
      BY <2>1, <2>4 DEF WithinMaxMint, ToShares
    <3>2. MulDivUp(n, TotalAssets + 1, AccruedSupply + VirtualShares) <= CapRoom
      BY <2>1, <2>2, <3>1, RoundTripUp
    <3>3. ToAssetsUp(n, AccruedSupply) \in Nat /\ ToAssetsUp(n, AccruedSupply) <= CapRoom
      BY <1>1, <3>1, <3>2, ConversionTypes DEF ToAssetsUp, Inv
    <3> QED BY <2>1, <2>2, <3>3
  <2> QED BY <2>3, <2>4
<1>2. Inv => CapRespected
  BY <1>1 DEF CapRespected
<1> QED BY <1>2, Invariance, PTL

-----------------------------------------------------------------------------
(* When fees are charged.                                                  *)

\* Only governance changes a rate.
LEMMA RatesRest ==
    ASSUME [Next]_vars, ~GovernanceStep
    PROVE  UNCHANGED configVars
<1>1. UNCHANGED vaultVars => UNCHANGED configVars
  BY DEF vaultVars
<1>2. CASE UserStep
  BY <1>1, <1>2 DEF UserStep, Deposit, Mint, Deposits, Withdraw, Redeem, Withdraws,
         RequestRedeem, CancelRedeemRequest, FulfillRedeem, Claim, Donate, Transfer,
         BridgeFromCoreForRedemptions
<1> QED BY <1>1, <1>2 DEF Next, OtherStep, CreditEvm, BridgeFromCore, BridgeToCore, vars

LEMMA AccruedNow ==
    ASSUME Inv, AccrueFees
    PROVE  Elapsed' = 0
<1>1. now \in Nat /\ now' = now /\ lastFeeAccrual' = now
  BY DEF Inv, TypeOK, ControlTypeOK, AccrueFees, Accrue, controlVars
<1>2. now - now = 0
  BY <1>1
<1> QED BY <1>1, <1>2 DEF Elapsed

\* A change of a fee rate never charges the time before it at the new rate.
THEOREM RatesApplyForward == Spec => RatesNotRetroactive
<1>1. ASSUME Inv, [Next]_vars, fees' # fees \/ protocolFeeBps' # protocolFeeBps
      PROVE  Elapsed' = 0
  <2>1. GovernanceStep
    BY <1>1, RatesRest DEF configVars, operatorVars, platformVars
  <2>2. AccrueFees
    BY <1>1, <2>1 DEF GovernanceStep, SetFeeConfig, SetProtocolFeeConfig, SetProtocolAdmin,
       SetDepositCap, operatorVars, platformVars
  <2> QED BY <1>1, <2>2, AccruedNow
<1>2. Inv /\ [Next]_vars
      => [fees' # fees \/ protocolFeeBps' # protocolFeeBps => Elapsed' = 0]_vars
  BY <1>1
<1> QED BY <1>2, Invariance, PTL DEF Spec, RatesNotRetroactive

\* NAV and the rest of the accrual's inputs after an accrual.
LEMMA AfterAccrual ==
    ASSUME Inv, Inv', AccrueFees
    PROVE  /\ NavReadable /\ TotalAssets' = TotalAssets /\ supply' = AccruedSupply
           /\ highWaterMark' = AccruedHighWaterMark
           /\ \E m \in Nat, p \in Nat : fees'.management = m /\ protocolFeeBps' = p
<1>1. TypeOK /\ usdc \in Nat /\ reservedAssets \in Nat /\ TypeOK'
  BY DEF Inv, TypeOK
<1>2. UNCHANGED <<coreVars, usdc, reservedAssets>>
  BY DEF AccrueFees, queueVars, claimVars
<1>3. NavReadable /\ supply' = AccruedSupply /\ highWaterMark' = AccruedHighWaterMark
  BY DEF AccrueFees, Accrue, CanAccrue
<1>4. TotalAssets' = TotalAssets + 0
  <2>1. usdc - reservedAssets = usdc - reservedAssets + 0
    BY <1>1
  <2> QED BY <1>1, <1>2, <2>1, NavMoves
<1>5. TotalAssets \in Nat
  BY <1>1, <1>3, NavTypes
<1>6. fees'.management \in Nat /\ protocolFeeBps' \in Nat
  BY <1>1 DEF TypeOK, FeeRates
<1> QED BY <1>3, <1>4, <1>5, <1>6

\* The accrual leaves the mark at the price it leaves, or above it.
LEMMA MarkCoversPrice ==
    ASSUME TypeOK, NavReadable, Accruing
    PROVE  /\ AccruedSupply \in Nat \ {0} /\ PricePerShare(AccruedSupply) \in Nat
           /\ AccruedHighWaterMark \in Nat
           /\ AccruedHighWaterMark >= PricePerShare(AccruedSupply)
<1>1. supply \in Nat \ {0} /\ FeeShares \in Nat /\ AccruedHighWaterMark \in Nat
  BY AccrualTypes DEF Accruing, TypeOK
<1>2. AccruedSupply \in Nat \ {0}
  BY <1>1 DEF AccruedSupply
<1>3. PricePerShare(AccruedSupply) \in Nat /\ Baseline \in Nat
  BY <1>2, FeeParts
<1> QED BY <1>1, <1>2, <1>3 DEF AccruedHighWaterMark

\* No gain is left to charge after an accrual.
LEMMA GainSettled ==
    ASSUME Inv, Inv', AccrueFees, Accruing
    PROVE  PerformanceAssets' = 0
<1>1. TypeOK /\ NavReadable
  BY AfterAccrual DEF Inv
<1>2. PricePerShare(supply)' = PricePerShare(AccruedSupply)
  BY AfterAccrual DEF PricePerShare
<1>3. Baseline' = IF AccruedHighWaterMark = 0 THEN PricePerShare(AccruedSupply)
                  ELSE AccruedHighWaterMark
  BY <1>2, AfterAccrual DEF Baseline
<1>4. PricePerShare(supply)' <= Baseline'
  BY <1>1, <1>2, <1>3, MarkCoversPrice
<1> QED BY <1>4 DEF PerformanceAssets

\* Accruing settles everything due: a second accrual in the same block mints nothing.
THEOREM FeesSettled == Spec => FeesSettleOnce
<1>1. ASSUME Inv, Inv', AccrueFees PROVE FeeShares' = 0
  <2>1. CASE ~Accruing'
    BY <2>1 DEF FeeShares, SharesFor
  <2>2. CASE Accruing'
    <3>1. TypeOK /\ NavReadable /\ TotalAssets \in Nat /\ FeeShares \in Nat /\ supply \in Nat
      BY <1>1, AfterAccrual, AccrualTypes, NavTypes DEF Inv, TypeOK
    <3>2. Accruing
      <4>1. SUFFICES ASSUME ~Accruing PROVE FALSE
        OBVIOUS
      <4>2. FeeShares = 0 /\ supply' = supply /\ TotalAssets' = TotalAssets
        BY <1>1, <3>1, <4>1, AfterAccrual DEF FeeShares, SharesFor, AccruedSupply
      <4> QED BY <2>2, <4>1, <4>2 DEF Accruing
    <3>3. PerformanceAssets' = 0
      BY <1>1, <3>2, GainSettled
    <3>4. Elapsed' = 0
      BY <1>1, AccruedNow
    <3>5. ASSUME NEW b \in Nat PROVE MulDiv(TotalAssets * 0, b, BPS * YEAR) = 0
      <4>1. TotalAssets * 0 = 0 /\ 0 * b = 0
        BY <3>1
      <4>2. BPS * YEAR \in Nat \ {0}
        BY ConstantTypes
      <4>3. 0 \div (BPS * YEAR) = 0
        BY <4>2
      <4> QED BY <4>1, <4>3 DEF MulDiv
    <3>6. FeeAssets' = 0
      <4>1. PICK m \in Nat, p \in Nat : fees'.management = m /\ protocolFeeBps' = p
        BY <1>1, AfterAccrual
      <4>2. FeeAssets' = MulDiv(TotalAssets * 0, m, BPS * YEAR) + 0
                            + MulDiv(TotalAssets * 0, p, BPS * YEAR)
        BY <1>1, <3>3, <3>4, <4>1, AfterAccrual DEF FeeAssets, FeesAfter, Streamed
      <4> QED BY <3>5, <4>2
    <3> QED BY <3>6 DEF FeeShares, SharesFor
  <2> QED BY <2>1, <2>2
<1>2. Inv /\ Inv' /\ [Next]_vars => [AccrueFees => FeeShares' = 0]_vars
  BY <1>1
<1> QED BY <1>2, Invariance, PTL DEF Spec, FeesSettleOnce

\* Streamed fees over two intervals add up to at most the fee over both.
LEMMA StreamsAddUp ==
    ASSUME TypeOK, NavReadable, NEW e \in Nat, NEW d \in Nat, NEW b \in Nat
    PROVE  Streamed(e, b) + Streamed(d, b) <= Streamed(e + d, b)
<1> DEFINE D == BPS * YEAR
           n == TotalAssets
           p == MulDiv(n * e, b, D)
           q == MulDiv(n * d, b, D)
<1>1. n \in Nat /\ D \in Nat \ {0}
  BY NavTypes, ConstantTypes
<1>2. n * e \in Nat /\ n * d \in Nat /\ n * (e + d) = n * e + n * d
  BY <1>1, TimesNat
<1>3. p \in Nat /\ q \in Nat /\ p * D <= (n * e) * b /\ q * D <= (n * d) * b
  BY <1>1, <1>2, MulDivFloor
<1>4. p + q <= MulDiv(n * (e + d), b, D)
  <2> DEFINE x == n * e
             y == n * d
  <2>1. x \in Nat /\ y \in Nat /\ p * D <= x * b /\ q * D <= y * b
    BY <1>2, <1>3
  <2> HIDE DEF p, q, D, n, x, y
  <2>2. p * D + q * D <= x * b + y * b
    BY <1>1, <1>3, <2>1, TimesNat
  <2>3. (p + q) * D = p * D + q * D /\ (x + y) * b = x * b + y * b
    BY <1>1, <1>3, <2>1
  <2>4. p + q \in Nat /\ x + y \in Nat /\ (p + q) * D <= (x + y) * b
    BY <1>3, <2>1, <2>2, <2>3
  <2>5. p + q <= MulDiv(x + y, b, D)
    BY <1>1, <2>4, MulDivGreatest
  <2> QED BY <1>2, <2>5 DEF x, y
<1> QED BY <1>4 DEF Streamed

\* The supply after minting for a fee f of the NAV n: the greatest at which the old
\* shares are still worth what the fee leaves.
LEMMA SupplyAfterFee ==
    ASSUME NEW s \in Nat, NEW n \in Nat, NEW f \in Nat, f < n, NEW m,
           m = IF f > 0 THEN MulDiv(f, s, n - f) ELSE 0
    PROVE  /\ m \in Nat
           /\ (s + m) * (n - f) <= s * n
           /\ \A t \in Nat : t * (n - f) <= s * n => t <= s + m
<1> DEFINE r == n - f
<1>1. r \in Nat \ {0} /\ n = r + f
  OBVIOUS
<1> HIDE DEF r
<1>2. m \in Nat /\ m * r <= f * s /\ (\A x \in Nat : x * r <= f * s => x <= m)
  <2>1. CASE f > 0
    BY <1>1, <2>1, MulDivFloor, MulDivGreatest DEF r
  <2>2. CASE f = 0
    <3>1. m = 0 /\ f * s = 0 /\ m * r = 0
      BY <1>1, <2>2
    <3>2. ASSUME NEW x \in Nat, x * r <= 0 * r PROVE x <= 0
      BY <1>1, <3>2, MulDivMonotone
    <3> QED BY <1>1, <2>2, <3>1, <3>2
  <2> QED BY <2>1, <2>2
<1>3. s * n = s * r + f * s /\ s * r \in Nat /\ f * s \in Nat /\ m * r \in Nat
  BY <1>1, <1>2, TimesNat
<1>4. (s + m) * r = s * r + m * r
  BY <1>1, <1>2
<1>5. (s + m) * r <= s * n
  BY <1>2, <1>3, <1>4
<1>6. ASSUME NEW t \in Nat, t * r <= s * n PROVE t <= s + m
  <2>1. CASE t <= s
    BY <1>2, <2>1
  <2>2. CASE ~(t <= s)
    <3>1. PICK x \in Nat : t = s + x
      <4>1. t - s \in Nat /\ t = s + (t - s)
        BY <2>2
      <4> QED BY <4>1
    <3>2. t * r = s * r + x * r /\ x * r \in Nat
      BY <1>1, <3>1, TimesNat
    <3>3. x * r <= f * s
      BY <1>3, <1>6, <3>2
    <3> QED BY <1>2, <3>1, <3>3
  <2> QED BY <2>1, <2>2
<1> QED BY <1>2, <1>5, <1>6 DEF r

\* Charging f and then g of the same NAV leaves the old shares at least what charging
\* f and g at once does.
LEMMA TwoFeesInOne ==
    ASSUME NEW n \in Nat, NEW s \in Nat, NEW f \in Nat, NEW g \in Nat, NEW h \in Nat,
           f + g <= h, h < n, NEW s1 \in Nat, NEW s2 \in Nat,
           s1 * (n - f) <= s * n, s2 * (n - g) <= s1 * n
    PROVE  s2 * (n - h) <= s * n
<1> DEFINE a == n - f
           b == n - g
           c == n - h
<1>1. a \in Nat /\ b \in Nat /\ c \in Nat /\ n \in Nat \ {0} /\ n = a + f /\ n = b + g
      /\ c + f + g <= n
  OBVIOUS
<1>2. s1 * a <= s * n /\ s2 * b <= s1 * n
  OBVIOUS
<1> HIDE DEF a, b, c
<1>3. c * n <= a * b
  <2>1. c <= a - g /\ a - g \in Int /\ b = n - g /\ a <= n
    BY <1>1
  <2>2. a - g \in Nat /\ g \in Nat
    BY <1>1, <2>1
  <2>3. c * n <= (a - g) * n
    BY <1>1, <2>1, <2>2, MulDivMonotone
  <2>4. (a - g) * n = a * n - g * n /\ a * b = a * n - g * a /\ g * a <= g * n
    <3>1. (a - g) * n = a * n - g * n /\ a * b = a * n - g * a
      BY <1>1, <2>1
    <3>2. a * g <= n * g /\ a * g = g * a /\ n * g = g * n
      BY <1>1, <2>1, MulDivMonotone
    <3> QED BY <3>1, <3>2
  <2>5. a * n \in Nat /\ g * n \in Nat /\ g * a \in Nat /\ c * n \in Nat
    BY <1>1, TimesNat
  <2> QED BY <2>3, <2>4, <2>5
<1>4. s2 * (a * b) <= (s * n) * n
  <2>1. (s2 * b) * a <= (s1 * n) * a
    <3>1. s2 * b \in Nat /\ s1 * n \in Nat
      BY <1>1, TimesNat
    <3> QED BY <1>1, <1>2, <3>1, MulDivMonotone
  <2>2. (s1 * a) * n <= (s * n) * n
    <3>1. s1 * a \in Nat /\ s * n \in Nat
      BY <1>1, TimesNat
    <3> QED BY <1>1, <1>2, <3>1, MulDivMonotone
  <2>3. (s1 * n) * a = (s1 * a) * n /\ (s2 * b) * a = s2 * (a * b)
    BY <1>1
  <2>4. s2 * (a * b) \in Nat /\ (s1 * a) * n \in Nat /\ (s * n) * n \in Nat
    BY <1>1, TimesNat
  <2> QED BY <2>1, <2>2, <2>3, <2>4
<1>5. (s2 * c) * n <= (s * n) * n
  <2>1. s2 * (c * n) <= s2 * (a * b)
    <3>1. c * n \in Nat /\ a * b \in Nat
      BY <1>1, TimesNat
    <3>2. (c * n) * s2 <= (a * b) * s2
      BY <1>3, <3>1, MulDivMonotone
    <3> QED BY <3>1, <3>2
  <2>2. (s2 * c) * n = s2 * (c * n)
    BY <1>1
  <2>3. s2 * (c * n) \in Nat /\ s2 * (a * b) \in Nat /\ (s * n) * n \in Nat
    BY <1>1, TimesNat
  <2> QED BY <1>4, <2>1, <2>2, <2>3
<1>6. s2 * c <= s * n
  <2>1. s2 * c \in Nat /\ s * n \in Nat
    BY <1>1, TimesNat
  <2> QED BY <1>1, <1>5, <2>1, MulDivMonotone
<1> QED BY <1>6 DEF c

LEMMA AccruingTypes ==
    ASSUME Inv, AccrueFees, Accruing, NEW d \in Nat
    PROVE  /\ TypeOK /\ NavReadable
           /\ TotalAssets \in Nat /\ supply \in Nat \ {0} /\ Elapsed \in Nat
           /\ fees.management \in Nat /\ protocolFeeBps \in Nat
           /\ PerformanceAssets \in Nat
           /\ FeesAfter(Elapsed) \in Nat /\ FeesAfter(Elapsed + d) \in Nat
<1>1. TypeOK /\ NavReadable
  BY DEF Inv, AccrueFees, Accrue, CanAccrue
<1>2. /\ TotalAssets \in Nat /\ supply \in Nat \ {0} /\ Elapsed \in Nat
      /\ fees.management \in Nat /\ protocolFeeBps \in Nat
  BY <1>1, NavTypes DEF TypeOK, ControlTypeOK, FeeRates, Elapsed, Accruing
<1>3. PerformanceAssets \in Nat
  BY <1>1, FeeParts
<1>4. ASSUME NEW e \in Nat PROVE FeesAfter(e) \in Nat
  <2>1. Streamed(e, fees.management) \in Nat /\ Streamed(e, protocolFeeBps) \in Nat
    BY <1>1, <1>2, <1>4, FeeParts
  <2> QED BY <1>3, <2>1 DEF FeesAfter
<1>5. Elapsed + d \in Nat
  BY <1>2
<1> QED BY <1>1, <1>2, <1>3, <1>4, <1>5

\* The fee over a further interval, counted from an accrual, is only what streams in it.
LEMMA LaterFee ==
    ASSUME Inv, Inv', AccrueFees, UNCHANGED configVars, Accruing, NEW d \in Nat
    PROVE  FeesAfter(Elapsed + d)' = Streamed(d, fees.management) + Streamed(d, protocolFeeBps)
<1>1. PICK m \in Nat, p \in Nat : fees.management = m /\ protocolFeeBps = p
  BY AccruingTypes
<1>2. fees'.management = m /\ protocolFeeBps' = p
  BY <1>1 DEF configVars, operatorVars, platformVars
<1>3. Elapsed' = 0 /\ PerformanceAssets' = 0 /\ TotalAssets' = TotalAssets
  BY AccruedNow, GainSettled, AfterAccrual
<1>4. FeesAfter(Elapsed + d)' = MulDiv(TotalAssets * (0 + d), m, BPS * YEAR) + 0
                                   + MulDiv(TotalAssets * (0 + d), p, BPS * YEAR)
  BY <1>2, <1>3 DEF FeesAfter, Streamed
<1>5. Streamed(d, m) \in Nat /\ Streamed(d, p) \in Nat
  BY <1>1, AccruingTypes, FeeParts
<1>6. 0 + d = d
  OBVIOUS
<1>7. FeesAfter(Elapsed + d)' = Streamed(d, m) + 0 + Streamed(d, p)
  BY <1>4, <1>6 DEF Streamed
<1> QED BY <1>1, <1>5, <1>7

\* Whoever pokes accrueFees, and however often, dilutes holders by no more than one
\* accrual at the end of the time would.
THEOREM PokingIsFree == Spec => PokingCostsNothing
<1>1. ASSUME Inv, Inv', AccrueFees, UNCHANGED configVars, Accruing, NEW d \in 0 .. YEAR,
             FeesAfter(Elapsed + d) < TotalAssets
      PROVE  SupplyIn(d)' <= SupplyIn(d)
  <2> DEFINE n == TotalAssets
             f == FeesAfter(Elapsed)
             g == Streamed(d, fees.management) + Streamed(d, protocolFeeBps)
             h == FeesAfter(Elapsed + d)
             m1 == SharesFor(f)
             m2 == SharesFor(FeesAfter(Elapsed + d))'
             m == SharesFor(h)
  <2>1. d \in Nat
    BY ConstantTypes
  <2>2. /\ TypeOK /\ NavReadable /\ n \in Nat /\ supply \in Nat /\ f \in Nat /\ h \in Nat
        /\ Elapsed \in Nat /\ PerformanceAssets \in Nat
        /\ fees.management \in Nat /\ protocolFeeBps \in Nat
    BY <1>1, <2>1, AccruingTypes
  <2>3. g \in Nat /\ f + g <= h
    <3> DEFINE u(e) == Streamed(e, fees.management)
               v(e) == Streamed(e, protocolFeeBps)
    <3>1. Elapsed + d \in Nat
      BY <2>1, <2>2
    <3>2. /\ u(Elapsed) \in Nat /\ u(d) \in Nat /\ u(Elapsed + d) \in Nat
          /\ v(Elapsed) \in Nat /\ v(d) \in Nat /\ v(Elapsed + d) \in Nat
      BY <2>1, <2>2, <3>1, FeeParts
    <3>3. u(Elapsed) + u(d) <= u(Elapsed + d) /\ v(Elapsed) + v(d) <= v(Elapsed + d)
      BY <2>1, <2>2, StreamsAddUp
    <3>4. /\ f = u(Elapsed) + PerformanceAssets + v(Elapsed)
          /\ h = u(Elapsed + d) + PerformanceAssets + v(Elapsed + d)
          /\ g = u(d) + v(d)
      BY DEF FeesAfter
    <3> HIDE DEF u, v, f, g, h
    <3> QED BY <2>2, <3>2, <3>3, <3>4
  <2>4. f < n /\ g < n /\ h < n
    BY <1>1, <2>2, <2>3
  <2>5. m1 = IF f > 0 THEN MulDiv(f, supply, n - f) ELSE 0
    BY <1>1, <2>4 DEF SharesFor
  <2>6. m1 \in Nat /\ (supply + m1) * (n - f) <= supply * n
    BY <2>2, <2>4, <2>5, SupplyAfterFee
  <2>7. PICK s1 \in Nat \ {0} : s1 = supply + m1
    BY <1>1, <2>2, <2>6 DEF Accruing
  <2>8. supply' = s1 /\ TotalAssets' = n /\ FeesAfter(Elapsed + d)' = g
    <3>1. AccruedSupply = s1
      BY <2>7 DEF AccruedSupply, FeeShares, FeeAssets
    <3> QED BY <1>1, <2>1, <3>1, AfterAccrual, LaterFee
  <2>9. m2 = IF g > 0 THEN MulDiv(g, s1, n - g) ELSE 0
    <3>1. Accruing'
      BY <1>1, <2>7, <2>8 DEF Accruing
    <3> QED BY <2>4, <2>8, <3>1 DEF SharesFor
  <2>10. m2 \in Nat /\ (s1 + m2) * (n - g) <= s1 * n
    BY <2>2, <2>3, <2>4, <2>7, <2>9, SupplyAfterFee
  <2>11. (s1 + m2) * (n - h) <= supply * n
    <3>1. s1 \in Nat /\ s1 + m2 \in Nat /\ s1 * (n - f) <= supply * n
      BY <2>6, <2>7, <2>10
    <3> HIDE DEF n, f, g, h, m1, m2
    <3> QED BY <2>2, <2>3, <2>4, <2>10, <3>1, TwoFeesInOne
  <2>12. m = IF h > 0 THEN MulDiv(h, supply, n - h) ELSE 0
    BY <1>1, <2>4 DEF SharesFor
  <2>13. s1 + m2 <= supply + m
    <3>1. s1 + m2 \in Nat
      BY <2>7, <2>10
    <3> HIDE DEF n, f, g, h, m1, m2, m
    <3> QED BY <2>2, <2>4, <2>11, <2>12, <3>1, SupplyAfterFee
  <2>14. SupplyIn(d) = supply + m /\ SupplyIn(d)' = supply' + m2
    BY DEF SupplyIn
  <2> QED BY <2>8, <2>13, <2>14
<1>2. Inv /\ Inv' /\ [Next]_vars
      => [AccrueFees /\ UNCHANGED configVars /\ Accruing =>
             \A d \in 0 .. YEAR :
                 FeesAfter(Elapsed + d) < TotalAssets => SupplyIn(d)' <= SupplyIn(d)]_vars
  BY <1>1
<1> QED BY <1>2, Invariance, PTL DEF Spec, PokingCostsNothing

-----------------------------------------------------------------------------
(* The brakes.                                                             *)

Braked ==
    /\ toCore' <= toCore
    /\ \A i \in DOMAIN sent' \ DOMAIN sent : ~paused /\ sent'[i].leg.reduceOnly

\* While the vault is paused or winding down, nobody sends USDC to Core or opens
\* exposure, whatever roles changed hands.
THEOREM BrakesHold == Spec => EmergencyBrake
<1>1. ASSUME Inv, [Next]_vars, paused \/ reduceOnlyMode PROVE Braked
  <2>1. toCore \in Nat
    BY <1>1 DEF Inv, TypeOK, CoreTypeOK
  <2>2. ASSUME UNCHANGED <<toCore, sent>> PROVE Braked
    BY <2>1, <2>2 DEF Braked
  <2>3. UNCHANGED <<coreVars, deskVars>> => Braked
    BY <2>2 DEF coreVars, deskVars
  <2>4. ASSUME NEW a, CallFromCore(a), UNCHANGED deskVars PROVE Braked
    BY <2>2, <2>4 DEF CallFromCore, deskVars
  <2>5. CASE UserStep
    BY <2>3, <2>4, <2>5 DEF UserStep, Deposit, Mint, Deposits, Withdraw, Redeem, Withdraws,
       RequestRedeem, CancelRedeemRequest, FulfillRedeem, Claim, Donate, Transfer, AccrueFees,
       BridgeFromCoreForRedemptions
  <2>6. CASE GovernanceStep
    BY <2>3, <2>6 DEF GovernanceStep, SetFeeConfig, SetProtocolFeeConfig, SetProtocolAdmin,
       SetDepositCap, AccrueFees
  <2>7. CASE CreditEvm
    BY <2>2, <2>7 DEF CreditEvm, LeaveCore, deskVars
  <2>8. ASSUME NEW caller \in Accounts, NEW a \in BridgeAmounts, BridgeFromCore(caller, a)
        PROVE  Braked
    BY <2>4, <2>8 DEF BridgeFromCore
  <2>9. ASSUME NEW caller \in Accounts, NEW a \in BridgeAmounts, BridgeToCore(caller, a)
        PROVE  Braked
    BY <1>1, <2>9 DEF BridgeToCore
  <2>10. CASE CoreStep /\ UNCHANGED deskVars
    <3>1. CASE CreditSpot
      BY <2>1, <2>10, <3>1 DEF CreditSpot, Braked, deskVars
    <3> QED BY <2>2, <2>10, <3>1 DEF CoreStep, RunAction, MarketMove, deskVars
  <2>11. CASE DeskNext /\ UNCHANGED coreVars
    <3>1. ASSUME NEW caller \in Accounts, NEW orders \in Batches, SubmitBasket(caller, orders)
          PROVE  Braked
      <4>1. ~paused /\ reduceOnlyMode
        BY <1>1, <3>1 DEF SubmitBasket
      <4>2. \A i \in DOMAIN orders : orders[i].reduceOnly
        BY <3>1, <4>1 DEF SubmitBasket, LegAccepted
      <4> DEFINE Log == [leg : Legs, at : Nat, postOnly : BOOLEAN]
                 new == [i \in DOMAIN orders |->
                            [leg |-> orders[i], at |-> now, postOnly |-> requirePostOnly]]
      <4>3. sent' = sent \o new
        BY <3>1 DEF SubmitBasket
      <4>4. sent \in Seq(Log) /\ new \in Seq(Log)
        <5>1. orders \in Seq(Legs)
          BY DeskAssumption
        <5>2. now \in Nat /\ requirePostOnly \in BOOLEAN /\ sent \in Seq(Log)
          BY <1>1 DEF Inv, TypeOK, ControlTypeOK, DeskTypeOK
        <5>3. \A i \in DOMAIN orders :
                  [leg |-> orders[i], at |-> now, postOnly |-> requirePostOnly] \in Log
          BY <5>1, <5>2
        <5>4. DOMAIN orders = 1 .. Len(orders) /\ Len(orders) \in Nat
          BY <5>1
        <5> QED BY <5>2, <5>3, <5>4
      <4>5. \A i \in DOMAIN new : new[i].leg.reduceOnly
        BY <4>2
      <4> HIDE DEF new, Log
      <4>6. \A i \in DOMAIN (sent \o new) \ DOMAIN sent :
                i - Len(sent) \in DOMAIN new /\ (sent \o new)[i] = new[i - Len(sent)]
        BY <4>4
      <4>7. toCore' = toCore
        BY <2>11 DEF coreVars
      <4> QED BY <2>1, <4>1, <4>3, <4>5, <4>6, <4>7 DEF Braked
    <3> QED BY <2>2, <2>11, <3>1 DEF DeskNext, SetAllowedAsset, SetAssetOrderCap,
           SetRequirePostOnly, SetOrderCaps, coreVars
  <2>12. CASE UNCHANGED vars
    BY <2>3, <2>12 DEF vars
  <2> QED BY <1>1, <2>3, <2>5, <2>6, <2>7, <2>8, <2>9, <2>10, <2>11, <2>12 DEF Next, OtherStep
<1>2. Inv /\ [Next]_vars
      => [paused \/ reduceOnlyMode =>
              /\ toCore' <= toCore
              /\ \A i \in DOMAIN sent' \ DOMAIN sent : ~paused /\ sent'[i].leg.reduceOnly]_vars
  BY <1>1 DEF Braked
<1> QED BY <1>2, Invariance, PTL DEF Spec, EmergencyBrake

-----------------------------------------------------------------------------
\* Who has just been heard of is not dark, whatever the timeout.
LEMMA HeardNow ==
    ASSUME Inv, lastManagerAction' = now, UNCHANGED <<now, managerTimeout>>
    PROVE  ~ManagerIsDark'
<1>1. PICK t, m : t = now /\ m = managerTimeout
  OBVIOUS
<1>2. t \in Nat /\ m \in Nat
  BY <1>1 DEF Inv, TypeOK, ControlTypeOK
<1>3. now' = t /\ lastManagerAction' = t /\ managerTimeout' = m
  BY <1>1
<1>4. ~(t > t + m)
  BY <1>2
<1> QED BY <1>3, <1>4 DEF ManagerIsDark

\* Batches and changes of manager are the only steps after which the log or the
\* manager differs, and each of them is recorded.
LEMMA ActsAreRecorded ==
    ASSUME [Next]_vars, sent' # sent \/ manager' # manager
    PROVE  lastManagerAction' = now /\ UNCHANGED <<now, managerTimeout>>
<1>1. ~(UNCHANGED <<controlVars, deskVars>>) /\ ~(UNCHANGED <<manager, sent>>)
  BY DEF controlVars, roleVars, deskVars
<1>2. ~UserStep
  BY <1>1, Zenon DEF UserStep, Deposit, Mint, Deposits, Withdraw, Redeem, Withdraws,
     RequestRedeem, CancelRedeemRequest, FulfillRedeem, Claim, Donate, Transfer, AccrueFees,
     BridgeFromCoreForRedemptions
<1>3. ~GovernanceStep
  BY <1>1, Zenon DEF GovernanceStep, SetFeeConfig, SetProtocolFeeConfig, SetProtocolAdmin,
     SetDepositCap, AccrueFees
<1>4. ~CreditEvm /\ ~(CoreStep /\ UNCHANGED <<vaultVars, controlVars, deskVars>>)
      /\ ~(UNCHANGED vars)
  BY <1>1, Zenon DEF CreditEvm, vars
<1>5. TouchManager => lastManagerAction' = now /\ UNCHANGED <<now, managerTimeout>>
  BY DEF TouchManager
<1>6. ASSUME NEW caller \in Accounts, NEW a \in BridgeAmounts,
             BridgeFromCore(caller, a) \/ BridgeToCore(caller, a)
      PROVE  TouchManager
  BY <1>6, Zenon DEF BridgeFromCore, BridgeToCore
<1>7. ASSUME ControlNext, UNCHANGED deskVars
      PROVE  lastManagerAction' = now /\ UNCHANGED <<now, managerTimeout>>
  <2>1. UNCHANGED sent
    BY <1>7, Zenon DEF deskVars
  <2>2. ~Tick /\ \A caller \in Accounts : ~Pause(caller) /\ ~Unpause(caller)
    BY <1>1, <2>1, Zenon DEF Tick, Pause, Unpause, roleVars
  <2>3. \A caller \in Accounts, enabled \in BOOLEAN : ~SetReduceOnlyMode(caller, enabled)
    BY <1>1, <2>1, Zenon DEF SetReduceOnlyMode, roleVars
  <2>4. \A caller \in Accounts, timeout \in Timeouts : ~SetManagerTimeout(caller, timeout)
    BY <1>1, <2>1, Zenon DEF SetManagerTimeout, roleVars
  <2>5. \A caller \in Accounts, to \in RoleCandidates \cup {NoOne} :
           ~SetGuardian(caller, to) /\ ~TransferOwnership(caller, to)
    BY <1>1, <2>1, Zenon DEF SetGuardian, TransferOwnership
  <2>6. PICK caller \in Accounts, to \in RoleCandidates : SetManager(caller, to)
    BY <1>7, <2>2, <2>3, <2>4, <2>5, Zenon DEF ControlNext
  <2> QED BY <2>6 DEF SetManager
<1>8. ASSUME DeskNext PROVE TouchManager
  <2>1. UNCHANGED controlVars => UNCHANGED manager
    BY Zenon DEF controlVars, roleVars
  <2>2. \A caller \in Accounts, asset \in Assets :
           /\ \A ok \in BOOLEAN : ~SetAllowedAsset(caller, asset, ok)
           /\ \A cap \in AssetCaps : ~SetAssetOrderCap(caller, asset, cap)
    BY <1>1, <2>1, Zenon DEF SetAllowedAsset, SetAssetOrderCap
  <2>3. \A caller \in Accounts :
           /\ \A enabled \in BOOLEAN : ~SetRequirePostOnly(caller, enabled)
           /\ \A newCaps \in CapChoices : ~SetOrderCaps(caller, newCaps)
    BY <1>1, <2>1, Zenon DEF SetRequirePostOnly, SetOrderCaps
  <2>4. PICK caller \in Accounts, orders \in Batches : SubmitBasket(caller, orders)
    BY <1>8, <2>2, <2>3, Zenon DEF DeskNext
  <2> QED BY <2>4 DEF SubmitBasket
<1> QED BY <1>2, <1>3, <1>4, <1>5, <1>6, <1>7, <1>8, Zenon DEF Next, OtherStep

\* _touchManager: whoever is manager, by trading, by bridging either way or by taking
\* office, shows to be alive, so that no dark-manager exit opens just after.
THEOREM ManagerHeard == Spec => ManagerActsAreHeard
<1>1. ASSUME Inv, [Next]_vars,
             \/ sent' # sent \/ manager' # manager
             \/ \E caller \in Accounts, a \in BridgeAmounts :
                    BridgeToCore(caller, a) \/ BridgeFromCore(caller, a)
      PROVE  ~ManagerIsDark'
  <2>1. CASE sent' # sent \/ manager' # manager
    BY <1>1, <2>1, ActsAreRecorded, HeardNow
  <2>2. ASSUME NEW caller \in Accounts, NEW a \in BridgeAmounts,
               BridgeToCore(caller, a) \/ BridgeFromCore(caller, a)
        PROVE  ~ManagerIsDark'
    <3>1. lastManagerAction' = now /\ UNCHANGED <<now, managerTimeout>>
      BY <2>2 DEF BridgeToCore, BridgeFromCore, TouchManager
    <3> QED BY <1>1, <3>1, HeardNow
  <2> QED BY <1>1, <2>1, <2>2, Zenon
<1>2. Inv /\ [Next]_vars
      => [(\/ sent' # sent \/ manager' # manager
           \/ \E caller \in Accounts, a \in BridgeAmounts :
                  BridgeToCore(caller, a) \/ BridgeFromCore(caller, a)) => ~ManagerIsDark']_vars
  BY <1>1, Zenon
<1> QED BY <1>2, Invariance, PTL DEF Spec, ManagerActsAreHeard

-----------------------------------------------------------------------------
(***************************************************************************)
(* The desk's theorems are about the desk under the roles, the switches    *)
(* and the clock.  In the vault a bridge by the manager, which touches the *)
(* heartbeat, comes between.                                               *)
(***************************************************************************)
LEMMA StepsOnDesk ==
    ASSUME [Next]_vars
    PROVE  \/ [AloneNext]_<<controlVars, deskVars>>
           \/ TouchManager /\ UNCHANGED deskVars
<1>1. UserStep => UNCHANGED <<controlVars, deskVars>>
  BY Zenon DEF UserStep, Deposit, Mint, Deposits, Withdraw, Redeem, Withdraws,
     RequestRedeem, CancelRedeemRequest, FulfillRedeem, Claim, Donate, Transfer, AccrueFees,
     BridgeFromCoreForRedemptions
<1>2. GovernanceStep => UNCHANGED <<controlVars, deskVars>>
  BY Zenon DEF GovernanceStep, SetFeeConfig, SetProtocolFeeConfig, SetProtocolAdmin,
     SetDepositCap, AccrueFees
<1>3. CreditEvm => UNCHANGED <<controlVars, deskVars>>
  BY Zenon DEF CreditEvm
<1>4. ASSUME NEW caller \in Accounts, NEW a \in BridgeAmounts,
             BridgeFromCore(caller, a) \/ BridgeToCore(caller, a)
      PROVE  TouchManager /\ UNCHANGED deskVars
  BY <1>4, Zenon DEF BridgeFromCore, BridgeToCore
<1>5. UNCHANGED vars => UNCHANGED <<controlVars, deskVars>>
  BY Zenon DEF vars
<1>6. (ControlNext /\ UNCHANGED deskVars) \/ DeskNext => AloneNext
  BY Zenon DEF AloneNext
<1>7. \/ UserStep \/ GovernanceStep \/ CreditEvm \/ UNCHANGED vars
      \/ UNCHANGED <<controlVars, deskVars>>
      \/ \E caller \in Accounts, a \in BridgeAmounts :
             BridgeFromCore(caller, a) \/ BridgeToCore(caller, a)
      \/ ControlNext /\ UNCHANGED deskVars
      \/ DeskNext
  BY Zenon DEF Next, OtherStep
<1> QED BY <1>1, <1>2, <1>3, <1>4, <1>5, <1>6, <1>7, Zenon

LEMMA TouchKeepsWindow ==
    ASSUME WindowInv, TouchManager, UNCHANGED deskVars
    PROVE  WindowInv'
<1>1. /\ lastManagerAction' = now /\ now' = now
      /\ UNCHANGED <<roleVars, switchVars, managerTimeout>>
      /\ UNCHANGED <<limitVars, epochVars, sent, capsSince>>
  BY DEF TouchManager, deskVars
<1>2. EpochInv /\ HeartbeatInv /\ ControlTypeOK /\ DeskTypeOK
  BY DEF WindowInv, EpochInv, HeartbeatInv
<1>3. ControlTypeOK' /\ DeskTypeOK'
  <2>1. UNCHANGED <<owner, manager, guardian, paused, reduceOnlyMode>>
    BY <1>1, Zenon DEF roleVars, switchVars
  <2>2. ControlTypeOK'
    BY <1>1, <1>2, <2>1, Zenon DEF ControlTypeOK
  <2>3. DeskTypeOK'
    BY <1>1, <1>2, Zenon DEF DeskTypeOK, limitVars, epochVars
  <2> QED BY <2>2, <2>3
<1>4. \A i \in DOMAIN sent : sent[i].at <= now
  <2>1. \A i \in DOMAIN sent : sent[i].at \in Nat /\ sent[i].at <= lastManagerAction
    BY <1>2, StampsAreTimes DEF HeartbeatInv
  <2>2. lastManagerAction <= now /\ lastManagerAction \in Nat /\ now \in Nat
    BY <1>2 DEF HeartbeatInv, ControlTypeOK
  <2> QED BY <2>1, <2>2
<1>5. now <= now
  BY <1>2 DEF ControlTypeOK
<1>6. HeartbeatInv'
  BY <1>1, <1>3, <1>4, <1>5 DEF HeartbeatInv
<1>7. UNCHANGED <<sent, caps, capsSince, epochStart, epochNotionalUsed, now>>
  BY <1>1 DEF limitVars, epochVars
<1>8. EpochInv'
  BY <1>2, <1>6, <1>7 DEF EpochInv, UsedMatchesSent, Notional, UnderCaps
<1> QED BY <1>7, <1>8 DEF WindowInv

\* submitBasket inside the whole vault: with bridges, deposits and exits between batches
\* the counter stays exact, no window carries more than twice the cap, and the
\* backstop opens only on silence.
THEOREM DeskWithinVault ==
    Spec => [](UsedMatchesSent /\ WindowWithinTwiceCap /\ BackstopNeedsSilence)
<1>1. Init => WindowInv
  BY WindowInit DEF Init, AloneInit
<1>2. WindowInv /\ [Next]_vars => WindowInv'
  BY StepsOnDesk, WindowStep, TouchKeepsWindow
<1>3. WindowInv => UsedMatchesSent /\ WindowWithinTwiceCap /\ BackstopNeedsSilence
  BY WindowBounded, HeardMeansSilence DEF WindowInv, EpochInv
<1> QED BY <1>1, <1>2, <1>3, PTL DEF Spec
=============================================================================
