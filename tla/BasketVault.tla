---------------------------- MODULE BasketVault ----------------------------
(***************************************************************************)
(* The vault: an ERC-4626 share ledger over USDC, with streaming and       *)
(* performance fees paid in shares, an asynchronous redemption queue, and  *)
(* bridges to and from the vault's HyperCore account.  Every external      *)
(* function is one action; an action is the whole call, so each one that   *)
(* touches value accrues fees first, and a revert is a disabled action.    *)
(*                                                                         *)
(* USDC in all wallets is one pool, `outside`: any holder may fund and be  *)
(* paid from it.  A redemption on behalf of an owner who gave an allowance *)
(* is the owner's own redemption here.                                     *)
(***************************************************************************)
EXTENDS OrderDesk, HyperCore

CONSTANTS
    Vault,                \* the vault's own address, where shares are escrowed
    VirtualShares,        \* 10^_decimalsOffset()
    BPS,                  \* basis points in one
    YEAR,                 \* SECONDS_PER_YEAR, in clock ticks
    PriceScale,           \* 1e18
    MaxFees,              \* the MAX_*_FEE_BPS constants
    DefaultFees,          \* the constructor's operator fees
    ProtocolFee,          \* the constructor's protocolFeeBps_
    Treasury,             \* the constructor's protocolTreasury_
    ProtocolGovernor,     \* the constructor's protocolAdmin_
    Endowment,            \* USDC in existence at deployment
    AssetAmounts, ShareAmounts, BridgeAmounts, Donations,   \* call arguments
    FeeChoices, ProtocolFees, FeeAddresses, DepositCaps     \* governance arguments

Holders == Accounts \cup {Vault}
FeeRates == [management : Nat, performance : Nat, exit : Nat]

ASSUME VaultAssumption ==
    /\ IsFiniteSet(Accounts)
    /\ Vault \notin Accounts \cup {NoOne}
    /\ {VirtualShares, BPS, YEAR, PriceScale} \subseteq Nat \ {0}
    /\ MaxFees \in [management : Nat, performance : Nat, exit : Nat, protocol : Nat]
    /\ DefaultFees \in FeeRates
    /\ ProtocolFee \in Nat
    /\ ProtocolFee <= MaxFees.protocol
    /\ Treasury \in Accounts \cup {NoOne}
    /\ ProtocolFee > 0 => Treasury # NoOne
    /\ ProtocolGovernor \in Accounts \cup {NoOne}
    /\ Endowment \in Nat
    /\ AssetAmounts \cup ShareAmounts \cup BridgeAmounts \cup Donations \subseteq Nat
    /\ FeeChoices \subseteq FeeRates
    /\ ProtocolFees \cup DepositCaps \subseteq Nat
    /\ FeeAddresses \subseteq Holders

VARIABLES
    usdc, outside,                  \* USDC held by the vault, and in wallets
    shares, supply,                 \* balanceOf and totalSupply
    pendingRedeemShares, totalPendingRedeemShares,
    claimableAssets, reservedAssets,
    highWaterMark, lastFeeAccrual,
    fees, feeRecipient,             \* operator fee rates and their recipient
    protocolFeeBps, protocolTreasury, protocolAdmin,
    depositCap

tokenVars == <<usdc, outside, shares, supply>>
requestVars == <<pendingRedeemShares, totalPendingRedeemShares>>
claimVars == <<claimableAssets, reservedAssets>>
queueVars == <<requestVars, claimVars>>
accrualVars == <<highWaterMark, lastFeeAccrual>>
operatorVars == <<fees, feeRecipient>>
platformVars == <<protocolFeeBps, protocolTreasury, protocolAdmin>>
configVars == <<operatorVars, platformVars, depositCap>>
vaultVars == <<tokenVars, queueVars, accrualVars, configVars>>
vars == <<vaultVars, controlVars, deskVars, coreVars>>

TypeOK ==
    /\ ControlTypeOK
    /\ DeskTypeOK
    /\ CoreTypeOK
    /\ usdc \in Nat
    /\ outside \in Nat
    /\ shares \in [Holders -> Nat]
    /\ supply \in Nat
    /\ pendingRedeemShares \in [Accounts -> Nat]
    /\ totalPendingRedeemShares \in Nat
    /\ claimableAssets \in [Accounts -> Nat]
    /\ reservedAssets \in Nat
    /\ highWaterMark \in Nat
    /\ lastFeeAccrual \in Nat
    /\ lastFeeAccrual <= now
    /\ fees \in FeeRates
    /\ feeRecipient \in Holders
    /\ protocolFeeBps \in Nat
    /\ protocolTreasury \in Holders \cup {NoOne}
    /\ protocolAdmin \in Accounts \cup {NoOne}
    /\ depositCap \in Nat

Init ==
    /\ ControlInit
    /\ DeskInit
    /\ CoreInit
    /\ usdc = 0
    /\ outside = Endowment
    /\ shares = [h \in Holders |-> 0]
    /\ supply = 0
    /\ pendingRedeemShares = [a \in Accounts |-> 0]
    /\ totalPendingRedeemShares = 0
    /\ claimableAssets = [a \in Accounts |-> 0]
    /\ reservedAssets = 0
    /\ highWaterMark = 0
    /\ lastFeeAccrual = now
    /\ fees = DefaultFees
    /\ feeRecipient = Deployer
    /\ protocolFeeBps = ProtocolFee
    /\ protocolTreasury = Treasury
    /\ protocolAdmin = ProtocolGovernor
    /\ depositCap = 0

-----------------------------------------------------------------------------
(***************************************************************************)
(* Net asset value.  _idleAssets subtracts with overflow checks, so every  *)
(* function that prices shares reverts unless NavReadable.                 *)
(***************************************************************************)
NavReadable == reservedAssets <= usdc
\* Mutant: claims count as idle
IdleAssetsWithClaims == usdc
IdleAssets == usdc - reservedAssets
TotalAssets == IdleAssets + CoreEquityUsd + CoreSpotUsd

\* ERC-4626 conversions at a share supply s
ToShares(a, s) == MulDiv(a, s + VirtualShares, TotalAssets + 1)
ToSharesUp(a, s) == MulDivUp(a, s + VirtualShares, TotalAssets + 1)
ToAssets(n, s) == MulDiv(n, TotalAssets + 1, s + VirtualShares)
\* Mutant: mint rounds in favour of the caller
ToAssetsUpFloor(n, s) == MulDiv(n, TotalAssets + 1, s + VirtualShares)
ToAssetsUp(n, s) == MulDivUp(n, TotalAssets + 1, s + VirtualShares)

\* Mutant: withdraw rounds down and forgets the fee
PreviewWithdrawDown(a, s) == ToShares(a, s)

\* Withdrawals and redemptions, net of the exit fee kept in the vault
PreviewWithdraw(a, s) == ToSharesUp(a + FeeOnRaw(a, fees.exit, BPS), s)
PreviewRedeem(n, s) == ToAssets(n, s) - FeeOnTotal(ToAssets(n, s), fees.exit, BPS)

\* Room under the deposit cap; 0 means uncapped
CapRoom == IF TotalAssets >= depositCap THEN 0 ELSE depositCap - TotalAssets
WithinMaxDeposit(a) == depositCap # 0 => a <= CapRoom
\* Mutant: maxMint rounds the room up
WithinMaxMintUp(n, s) == depositCap # 0 => n <= ToSharesUp(CapRoom, s)
WithinMaxMint(n, s) == depositCap # 0 => n <= ToShares(CapRoom, s)

-----------------------------------------------------------------------------
(***************************************************************************)
(* _accrueFees: fees are minted as shares worth FeeAssets at the price     *)
(* after the mint, the platform's slice off the top.                       *)
(***************************************************************************)
Elapsed == now - lastFeeAccrual
PricePerShare(s) == MulDiv(TotalAssets, PriceScale, s)
\* Mutant: the streamed fee rounds up
StreamedUp(elapsed, bps) == MulDivUp(TotalAssets * elapsed, bps, BPS * YEAR)
Streamed(elapsed, bps) == MulDiv(TotalAssets * elapsed, bps, BPS * YEAR)
ProtocolAssets == Streamed(Elapsed, protocolFeeBps)

\* The high-water mark that gains are measured from
Baseline == IF highWaterMark = 0 THEN PricePerShare(supply) ELSE highWaterMark

PerformanceAssets ==
    IF PricePerShare(supply) <= Baseline THEN 0
    ELSE LET gain == MulDiv(PricePerShare(supply) - Baseline, supply, PriceScale)
         IN  MulDiv(gain, fees.performance, BPS)

\* The fee on the present NAV and price for an interval of length elapsed
FeesAfter(elapsed) ==
    Streamed(elapsed, fees.management) + PerformanceAssets
        + Streamed(elapsed, protocolFeeBps)
FeeAssets == FeesAfter(Elapsed)

\* An empty vault, or one without value, accrues nothing.
Accruing == supply # 0 /\ TotalAssets # 0

\* Mutant: fee shares round up
SharesForUp(fee) ==
    IF Accruing /\ fee > 0 /\ fee < TotalAssets
    THEN MulDivUp(fee, supply, TotalAssets - fee)
    ELSE 0

\* The shares minted for a fee; a fee of the whole NAV mints none.
SharesFor(fee) ==
    IF Accruing /\ fee > 0 /\ fee < TotalAssets
    THEN MulDiv(fee, supply, TotalAssets - fee)
    ELSE 0
FeeShares == SharesFor(FeeAssets)

ProtocolShares ==
    IF FeeShares = 0 THEN 0 ELSE MulDiv(FeeShares, ProtocolAssets, FeeAssets)

AccruedSupply == supply + FeeShares

\* Minting to address(0) reverts.
CanAccrue == NavReadable /\ (ProtocolShares > 0 => protocolTreasury # NoOne)

AccruedShares ==
    LET platform == IF ProtocolShares = 0 THEN shares
                    ELSE Credit(shares, protocolTreasury, ProtocolShares)
    IN  Credit(platform, feeRecipient, FeeShares - ProtocolShares)

AccruedHighWaterMark ==
    LET price == PricePerShare(AccruedSupply)
    IN  IF ~Accruing THEN highWaterMark
        ELSE IF price > Baseline THEN price ELSE Baseline

\* Mutant: the accrual clock is not moved
AccrueAgain ==
    /\ CanAccrue
    /\ UNCHANGED lastFeeAccrual
    /\ highWaterMark' = AccruedHighWaterMark

\* The accrual that starts a call; the call then changes AccruedShares and
\* AccruedSupply.
Accrue ==
    /\ CanAccrue
    /\ lastFeeAccrual' = now
    /\ highWaterMark' = AccruedHighWaterMark

MintShares(to, n) ==
    /\ shares' = Credit(AccruedShares, to, n)
    /\ supply' = AccruedSupply + n

BurnShares(from, n) ==
    /\ n <= AccruedShares[from]
    /\ shares' = Debit(AccruedShares, from, n)
    /\ supply' = AccruedSupply - n

\* Mutant: the shares stay with their holder
MoveNothing(from, to, n) ==
    /\ n <= AccruedShares[from]
    /\ shares' = AccruedShares
    /\ supply' = AccruedSupply

MoveShares(from, to, n) ==
    /\ n <= AccruedShares[from]
    /\ shares' = Credit(Debit(AccruedShares, from, n), to, n)
    /\ supply' = AccruedSupply

\* USDC transfers between the vault and the wallets
PayIn(a) == a <= outside /\ usdc' = usdc + a /\ outside' = outside - a
PayOut(a) == a <= usdc /\ usdc' = usdc - a /\ outside' = outside + a

-----------------------------------------------------------------------------
(***************************************************************************)
(* ERC-4626 entry and exit.                                                *)
(***************************************************************************)
\* _deposit: pausable, and stopped if it leaves NAV above the cap
Deposits(receiver, a, n) ==
    /\ ~paused
    /\ depositCap # 0 => TotalAssets + a <= depositCap
    /\ PayIn(a)
    /\ MintShares(receiver, n)
    /\ UNCHANGED <<queueVars, configVars, controlVars, deskVars, coreVars>>

Deposit(receiver, a) ==
    /\ Accrue
    /\ WithinMaxDeposit(a)
    /\ Deposits(receiver, a, ToShares(a, AccruedSupply))

Mint(receiver, n) ==
    /\ Accrue
    /\ WithinMaxMint(n, AccruedSupply)
    /\ Deposits(receiver, ToAssetsUp(n, AccruedSupply), n)

\* _withdraw: exits are never paused
Withdraws(holder, a, n) ==
    /\ BurnShares(holder, n)
    /\ PayOut(a)
    /\ UNCHANGED <<queueVars, configVars, controlVars, deskVars, coreVars>>

WithinMaxWithdraw(holder, a, s) ==
    /\ a <= ToAssets(AccruedShares[holder], s)
    /\ a <= IdleAssets

\* Mutant: maxRedeem ignores the idle USDC
WithinBalance(holder, n, s) == n <= AccruedShares[holder]

WithinMaxRedeem(holder, n, s) ==
    /\ n <= AccruedShares[holder]
    /\ n <= ToShares(IdleAssets, s)

Withdraw(holder, a) ==
    /\ Accrue
    /\ WithinMaxWithdraw(holder, a, AccruedSupply)
    /\ Withdraws(holder, a, PreviewWithdraw(a, AccruedSupply))

Redeem(holder, n) ==
    /\ Accrue
    /\ WithinMaxRedeem(holder, n, AccruedSupply)
    /\ Withdraws(holder, PreviewRedeem(n, AccruedSupply), n)

-----------------------------------------------------------------------------
(***************************************************************************)
(* The asynchronous redemption queue.                                      *)
(***************************************************************************)
RequestRedeem(holder, n) ==
    /\ n # 0
    /\ Accrue
    /\ MoveShares(holder, Vault, n)
    /\ pendingRedeemShares' = Credit(pendingRedeemShares, holder, n)
    /\ totalPendingRedeemShares' = totalPendingRedeemShares + n
    /\ UNCHANGED <<usdc, outside, claimVars, configVars,
                   controlVars, deskVars, coreVars>>

\* Mutant: the caller's own request is not checked
DequeueUnchecked(holder, n) ==
    /\ n # 0
    /\ n <= totalPendingRedeemShares
    /\ pendingRedeemShares' = Debit(pendingRedeemShares, holder, n)
    /\ totalPendingRedeemShares' = totalPendingRedeemShares - n

\* Mutant: the total is not lowered
DequeueEntryOnly(holder, n) ==
    /\ n # 0
    /\ n <= pendingRedeemShares[holder]
    /\ pendingRedeemShares' = Debit(pendingRedeemShares, holder, n)
    /\ UNCHANGED totalPendingRedeemShares

\* The part of a request that leaves the queue
Dequeue(holder, n) ==
    /\ n # 0
    /\ n <= pendingRedeemShares[holder]
    /\ n <= totalPendingRedeemShares
    /\ pendingRedeemShares' = Debit(pendingRedeemShares, holder, n)
    /\ totalPendingRedeemShares' = totalPendingRedeemShares - n

\* The only move of shares in the queue that does not accrue fees
CancelRedeemRequest(holder, n) ==
    /\ Dequeue(holder, n)
    /\ n <= shares[Vault]
    /\ shares' = Credit(Debit(shares, Vault, n), holder, n)
    /\ UNCHANGED <<usdc, outside, supply, claimVars, accrualVars, configVars,
                   controlVars, deskVars, coreVars>>

\* Permissionless, at the price of the moment, within the idle USDC
FulfillRedeem(holder, n) ==
    /\ Dequeue(holder, n)
    /\ Accrue
    /\ PreviewRedeem(n, AccruedSupply) <= IdleAssets
    /\ BurnShares(Vault, n)
    /\ reservedAssets' = reservedAssets + PreviewRedeem(n, AccruedSupply)
    /\ claimableAssets' =
           Credit(claimableAssets, holder, PreviewRedeem(n, AccruedSupply))
    /\ UNCHANGED <<usdc, outside, configVars, controlVars, deskVars, coreVars>>

\* Mutant: the claim is cleared before it is read, so that nothing is paid for it
ClaimClearedFirst(holder) ==
    /\ claimableAssets[holder] # 0
    /\ claimableAssets' = [claimableAssets EXCEPT ![holder] = 0]
    /\ UNCHANGED <<usdc, outside, reservedAssets, shares, supply, requestVars, accrualVars,
                   configVars, controlVars, deskVars, coreVars>>

Claim(holder) ==
    /\ claimableAssets[holder] # 0
    /\ claimableAssets[holder] <= reservedAssets
    /\ claimableAssets' = [claimableAssets EXCEPT ![holder] = 0]
    /\ reservedAssets' = reservedAssets - claimableAssets[holder]
    /\ PayOut(claimableAssets[holder])
    /\ UNCHANGED <<shares, supply, requestVars, accrualVars, configVars,
                   controlVars, deskVars, coreVars>>

-----------------------------------------------------------------------------
(***************************************************************************)
(* Bridges.                                                                *)
(***************************************************************************)
\* Mutant: wind-down mode is not checked
BridgeInWindDown(caller, a) ==
    /\ OnlyManager(caller)
    /\ ~paused
    /\ a <= usdc
    /\ usdc' = usdc - a
    /\ SendToCore(a)
    /\ TouchManager
    /\ UNCHANGED <<outside, shares, supply, queueVars, accrualVars, configVars, deskVars>>

\* Bounded by the balance the ERC20 transfer needs, not by the idle USDC
BridgeToCore(caller, a) ==
    /\ OnlyManager(caller)
    /\ ~paused
    /\ ~reduceOnlyMode
    /\ a <= usdc
    /\ usdc' = usdc - a
    /\ SendToCore(a)
    /\ TouchManager
    /\ UNCHANGED <<outside, shares, supply, queueVars, accrualVars, configVars, deskVars>>

BridgeFromCore(caller, a) ==
    /\ OnlyManager(caller)
    /\ CallFromCore(a)
    /\ TouchManager
    /\ UNCHANGED <<vaultVars, deskVars>>

\* Mutant: spot USDC counts as if it were on its way back
DeficitBeyondSpot ==
    LET owed == ToAssets(totalPendingRedeemShares, supply)
        covered == IdleAssets + CoreSpotUsd
    IN  IF owed > covered THEN owed - covered ELSE 0

RedemptionDeficit ==
    LET owed == ToAssets(totalPendingRedeemShares, supply)
    IN  IF owed > IdleAssets THEN owed - IdleAssets ELSE 0

BridgeFromCoreForRedemptions(a) ==
    /\ ManagerIsDark
    /\ a # 0
    /\ NavReadable
    /\ a <= RedemptionDeficit
    /\ CallFromCore(a)
    /\ UNCHANGED <<vaultVars, controlVars, deskVars>>

\* USDC spot-sent by Core arrives in the vault's balance.
CreditEvm ==
    /\ LeaveCore
    /\ usdc' = usdc + toEvm
    /\ UNCHANGED <<outside, shares, supply, queueVars, accrualVars, configVars,
                   controlVars, deskVars>>

-----------------------------------------------------------------------------
(***************************************************************************)
(* Fee accrual on demand, governance, and what others may do to the        *)
(* vault's tokens: send it USDC, or transfer shares.                       *)
(***************************************************************************)
AccrueFees ==
    /\ Accrue
    /\ shares' = AccruedShares
    /\ supply' = AccruedSupply
    /\ UNCHANGED <<usdc, outside, queueVars, controlVars, deskVars, coreVars>>

\* Mutant: the new rates apply to the time since the last accrual
SetFeeConfigLate(caller, recipient, rates) ==
    /\ OnlyOwner(caller)
    /\ rates.management <= MaxFees.management
    /\ rates.performance <= MaxFees.performance
    /\ rates.exit <= MaxFees.exit
    /\ feeRecipient' = recipient
    /\ fees' = rates
    /\ UNCHANGED <<tokenVars, queueVars, accrualVars, platformVars, depositCap,
                   controlVars, deskVars, coreVars>>

SetFeeConfig(caller, recipient, rates) ==
    /\ OnlyOwner(caller)
    /\ rates.management <= MaxFees.management
    /\ rates.performance <= MaxFees.performance
    /\ rates.exit <= MaxFees.exit
    /\ AccrueFees
    /\ feeRecipient' = recipient
    /\ fees' = rates
    /\ UNCHANGED <<platformVars, depositCap>>

\* Mutant: a fee without a treasury is accepted
SetAnyProtocolFee(caller, treasury, bps) ==
    /\ caller = protocolAdmin
    /\ bps <= MaxFees.protocol
    /\ AccrueFees
    /\ protocolTreasury' = treasury
    /\ protocolFeeBps' = bps
    /\ UNCHANGED <<protocolAdmin, operatorVars, depositCap>>

SetProtocolFeeConfig(caller, treasury, bps) ==
    /\ caller = protocolAdmin
    /\ bps <= MaxFees.protocol
    /\ bps > 0 => treasury # NoOne
    /\ AccrueFees
    /\ protocolTreasury' = treasury
    /\ protocolFeeBps' = bps
    /\ UNCHANGED <<protocolAdmin, operatorVars, depositCap>>

SetProtocolAdmin(caller, newAdmin) ==
    /\ caller = protocolAdmin
    /\ protocolAdmin' = newAdmin
    /\ UNCHANGED <<tokenVars, queueVars, accrualVars, operatorVars, depositCap,
                   protocolFeeBps, protocolTreasury, controlVars, deskVars, coreVars>>

SetDepositCap(caller, cap) ==
    /\ OnlyOwner(caller)
    /\ depositCap' = cap
    /\ UNCHANGED <<tokenVars, queueVars, accrualVars, operatorVars, platformVars,
                   controlVars, deskVars, coreVars>>

Donate(a) ==
    /\ PayIn(a)
    /\ UNCHANGED <<shares, supply, queueVars, accrualVars, configVars,
                   controlVars, deskVars, coreVars>>

Transfer(from, to, n) ==
    /\ n <= shares[from]
    /\ shares' = Credit(Debit(shares, from, n), to, n)
    /\ UNCHANGED <<usdc, outside, supply, queueVars, accrualVars, configVars,
                   controlVars, deskVars, coreVars>>

-----------------------------------------------------------------------------
UserStep ==
    \/ \E a \in AssetAmounts :
        \/ \E receiver \in Holders : Deposit(receiver, a)
        \/ \E holder \in Accounts : Withdraw(holder, a)
    \/ \E n \in ShareAmounts :
        \/ \E receiver \in Holders : Mint(receiver, n)
        \/ \E from \in Accounts, to \in Holders : Transfer(from, to, n)
        \/ \E holder \in Accounts :
            \/ Redeem(holder, n)
            \/ RequestRedeem(holder, n)
            \/ CancelRedeemRequest(holder, n)
            \/ FulfillRedeem(holder, n)
    \/ \E holder \in Accounts : Claim(holder)
    \/ \E a \in Donations : Donate(a)
    \/ \E a \in BridgeAmounts : BridgeFromCoreForRedemptions(a)
    \/ AccrueFees /\ UNCHANGED configVars

GovernanceStep ==
    \E caller \in Accounts :
        \/ \E recipient \in FeeAddresses, rates \in FeeChoices :
            SetFeeConfig(caller, recipient, rates)
        \/ \E treasury \in FeeAddresses \cup {NoOne}, bps \in ProtocolFees :
            SetProtocolFeeConfig(caller, treasury, bps)
        \/ \E newAdmin \in RoleCandidates \cup {NoOne} : SetProtocolAdmin(caller, newAdmin)
        \/ \E cap \in DepositCaps : SetDepositCap(caller, cap)

\* Every step but the manager's bridge to Core
OtherStep ==
    \/ UserStep
    \/ GovernanceStep
    \/ CreditEvm
    \/ \E caller \in Accounts, a \in BridgeAmounts : BridgeFromCore(caller, a)
    \/ CoreStep /\ UNCHANGED <<vaultVars, controlVars, deskVars>>
    \/ ControlNext /\ UNCHANGED <<vaultVars, deskVars, coreVars>>
    \/ DeskNext /\ UNCHANGED <<vaultVars, coreVars>>

Next ==
    \/ OtherStep
    \/ \E caller \in Accounts, a \in BridgeAmounts : BridgeToCore(caller, a)

Spec == Init /\ [][Next]_vars

\* A manager that bridges idle USDC only, as the comment on bridgeToCore asks
PrudentNext ==
    \/ OtherStep
    \/ \E caller \in Accounts, a \in BridgeAmounts :
        a + reservedAssets <= usdc /\ BridgeToCore(caller, a)

PrudentSpec == Init /\ [][PrudentNext]_vars
=============================================================================
