----------------------------- MODULE VaultProofs -----------------------------
(***************************************************************************)
(* Proofs that the vault keeps its books for every number of holders and   *)
(* every value of the constants: type correctness, the three sums, the     *)
(* backing of the redemption queue's escrow and of its claims, and that    *)
(* fee accrual and maxRedeem keep their word.                              *)
(***************************************************************************)
EXTENDS VaultProperties, DeskProofs

\* A platform fee always has an address to be minted to.
PlatformFeeHasTreasury == protocolFeeBps > 0 => protocolTreasury # NoOne

\* The inductive invariant.  Types alone are not inductive: that supply - n and
\* totalPendingRedeemShares - n stay natural numbers needs the sums.
Inv ==
    /\ TypeOK
    /\ BooksBalance
    /\ EscrowBacked
    /\ PlatformFeeHasTreasury

-----------------------------------------------------------------------------
LEMMA ConstantTypes ==
    /\ VirtualShares \in Nat \ {0}
    /\ BPS \in Nat \ {0}
    /\ YEAR \in Nat \ {0}
    /\ PriceScale \in Nat \ {0}
    /\ BPS * YEAR \in Nat \ {0}
BY VaultAssumption

LEMMA HoldersFinite ==
    /\ IsFiniteSet(Holders)
    /\ IsFiniteSet(Accounts)
    /\ Vault \in Holders
    /\ Vault \notin Accounts
    /\ NoOne \notin Holders
    /\ Accounts \subseteq Holders
BY VaultAssumption, ControlAssumption, FS_AddElement DEF Holders

LEMMA NavTypes ==
    ASSUME TypeOK, NavReadable
    PROVE  /\ IdleAssets \in Nat
           /\ CoreEquityUsd \in Nat
           /\ TotalAssets \in Nat
           /\ TotalAssets + 1 \in Nat \ {0}
<1>1. usdc \in Nat /\ reservedAssets \in Nat /\ spot \in Nat /\ perp \in Int
  BY DEF TypeOK, CoreTypeOK
<1> QED BY <1>1 DEF NavReadable, IdleAssets, TotalAssets, CoreEquityUsd, CoreSpotUsd

\* What a fee is made of, for an interval of any length.
LEMMA FeeParts ==
    ASSUME TypeOK, NavReadable
    PROVE  /\ \A e \in Nat, b \in Nat : Streamed(e, b) \in Nat
           /\ \A s \in Nat \ {0} : PricePerShare(s) \in Nat
           /\ Accruing => PerformanceAssets \in Nat /\ Baseline \in Nat
<1>1. TotalAssets \in Nat
  BY NavTypes
<1>2. supply \in Nat /\ highWaterMark \in Nat /\ fees.performance \in Nat
  BY DEF TypeOK, FeeRates
<1>3. ASSUME NEW e \in Nat, NEW b \in Nat PROVE Streamed(e, b) \in Nat
  <2>1. TotalAssets * e \in Nat
    BY <1>1, TimesNat
  <2> QED BY <2>1, ConstantTypes, MulDivFloor DEF Streamed
<1>4. ASSUME NEW s \in Nat \ {0} PROVE PricePerShare(s) \in Nat
  BY <1>1, <1>4, ConstantTypes, MulDivFloor DEF PricePerShare
<1>5. ASSUME Accruing PROVE PerformanceAssets \in Nat /\ Baseline \in Nat
  <2>1. supply \in Nat \ {0}
    BY <1>2, <1>5 DEF Accruing
  <2>2. PricePerShare(supply) \in Nat /\ Baseline \in Nat
    BY <1>2, <1>4, <2>1 DEF Baseline
  <2>3. CASE PricePerShare(supply) <= Baseline
    BY <2>2, <2>3 DEF PerformanceAssets
  <2>4. CASE ~(PricePerShare(supply) <= Baseline)
    <3> DEFINE d == PricePerShare(supply) - Baseline
               gain == MulDiv(d, supply, PriceScale)
    <3>1. d \in Nat
      BY <2>2, <2>4
    <3>2. gain \in Nat
      BY <3>1, <1>2, ConstantTypes, MulDivFloor
    <3>3. MulDiv(gain, fees.performance, BPS) \in Nat
      BY <3>2, <1>2, ConstantTypes, MulDivFloor
    <3> QED BY <2>2, <2>4, <3>3 DEF PerformanceAssets
  <2> QED BY <2>3, <2>4
<1> QED BY <1>3, <1>4, <1>5

LEMMA AccrualTypes ==
    ASSUME TypeOK, NavReadable
    PROVE  /\ FeeShares \in Nat
           /\ ProtocolShares \in Nat
           /\ ProtocolShares <= FeeShares
           /\ AccruedHighWaterMark \in Nat
           /\ AccruedSupply \in Nat
           /\ Accruing => FeeAssets \in Nat
<1>1. TotalAssets \in Nat
  BY NavTypes
<1>2. /\ supply \in Nat /\ highWaterMark \in Nat /\ protocolFeeBps \in Nat
      /\ fees.management \in Nat
      /\ Elapsed \in Nat
  BY DEF TypeOK, ControlTypeOK, FeeRates, Elapsed
<1>3. CASE ~Accruing
  BY <1>2, <1>3 DEF FeeShares, SharesFor, ProtocolShares, AccruedHighWaterMark,
     AccruedSupply
<1>4. CASE Accruing
  <2>1. supply \in Nat \ {0}
    BY <1>2, <1>4 DEF Accruing
  <2>2. Baseline \in Nat /\ PerformanceAssets \in Nat
    BY <1>4, FeeParts
  <2>3. Streamed(Elapsed, fees.management) \in Nat /\ Streamed(Elapsed, protocolFeeBps) \in Nat
    BY <1>2, FeeParts
  <2>4. FeeAssets \in Nat /\ ProtocolAssets \in Nat /\ ProtocolAssets <= FeeAssets
    BY <2>2, <2>3 DEF FeeAssets, FeesAfter, ProtocolAssets
  <2>5. FeeShares \in Nat
    <3>1. CASE FeeAssets > 0 /\ FeeAssets < TotalAssets
      <4> DEFINE d == TotalAssets - FeeAssets
      <4>1. d \in Nat \ {0}
        BY <1>1, <2>4, <3>1
      <4>2. MulDiv(FeeAssets, supply, d) \in Nat
        BY <4>1, <2>1, <2>4, MulDivFloor
      <4> QED BY <4>2, <3>1, <1>4 DEF FeeShares, SharesFor
    <3> QED BY <3>1 DEF FeeShares, SharesFor
  <2>6. ProtocolShares \in Nat /\ ProtocolShares <= FeeShares
    <3>1. CASE FeeShares = 0
      BY <3>1 DEF ProtocolShares
    <3>2. CASE FeeShares # 0
      <4>1. FeeAssets \in Nat \ {0}
        BY <2>4, <3>2 DEF FeeShares, SharesFor
      <4>2. /\ MulDiv(FeeShares, ProtocolAssets, FeeAssets) \in Nat
            /\ MulDiv(FeeShares, ProtocolAssets, FeeAssets) <= FeeShares
        BY <2>4, <2>5, <4>1, MulDivShare
      <4> QED BY <4>2, <3>2 DEF ProtocolShares
    <3> QED BY <3>1, <3>2
  <2>7. AccruedSupply \in Nat \ {0} /\ PricePerShare(AccruedSupply) \in Nat
    BY FeeParts, <2>1, <2>5 DEF AccruedSupply
  <2>8. AccruedHighWaterMark \in Nat
    BY <2>2, <2>7, <1>4 DEF AccruedHighWaterMark
  <2> QED BY <2>4, <2>5, <2>6, <2>7, <2>8
<1> QED BY <1>3, <1>4

LEMMA FeeTypes ==
    ASSUME TypeOK, CanAccrue
    PROVE  /\ FeeShares \in Nat
           /\ ProtocolShares \in Nat
           /\ ProtocolShares <= FeeShares
           /\ AccruedHighWaterMark \in Nat
           /\ AccruedSupply \in Nat
BY AccrualTypes DEF CanAccrue

\* After the accrual the entries still add up to the supply, and the escrow has
\* lost nothing.
LEMMA AccruedTokens ==
    ASSUME TypeOK, BooksBalance, CanAccrue
    PROVE  /\ AccruedShares \in [Holders -> Nat]
           /\ Total(AccruedShares, Holders) = AccruedSupply
           /\ shares[Vault] <= AccruedShares[Vault]
<1> DEFINE platform == IF ProtocolShares = 0 THEN shares
                       ELSE Credit(shares, protocolTreasury, ProtocolShares)
           rest == FeeShares - ProtocolShares
<1>1. /\ FeeShares \in Nat /\ ProtocolShares \in Nat /\ rest \in Nat
  BY FeeTypes
<1>2. shares \in [Holders -> Nat] /\ Total(shares, Holders) = supply /\ supply \in Nat
  BY DEF TypeOK, BooksBalance
<1>3. feeRecipient \in Holders /\ protocolTreasury \in Holders \cup {NoOne}
  BY DEF TypeOK
<1>4. /\ platform \in [Holders -> Nat]
      /\ Total(platform, Holders) = supply + ProtocolShares
      /\ shares[Vault] <= platform[Vault]
  <2>1. CASE ProtocolShares = 0
    BY <1>2, <2>1, HoldersFinite
  <2>2. CASE ProtocolShares # 0
    <3>1. protocolTreasury \in Holders
      BY <1>1, <1>3, <2>2 DEF CanAccrue
    <3>2. /\ Credit(shares, protocolTreasury, ProtocolShares) \in [Holders -> Nat]
          /\ Total(Credit(shares, protocolTreasury, ProtocolShares), Holders)
                 = supply + ProtocolShares
      BY <1>1, <1>2, <3>1, HoldersFinite, TotalCredit
    <3>3. shares[Vault] <= Credit(shares, protocolTreasury, ProtocolShares)[Vault]
      BY <1>1, <1>2, <3>1, HoldersFinite, CreditGrows
    <3> QED BY <2>2, <3>2, <3>3
  <2> QED BY <2>1, <2>2
<1>5. AccruedShares = Credit(platform, feeRecipient, rest)
  BY DEF AccruedShares
<1> HIDE DEF platform
<1>6. /\ Credit(platform, feeRecipient, rest) \in [Holders -> Nat]
      /\ Total(Credit(platform, feeRecipient, rest), Holders)
             = supply + ProtocolShares + rest
  BY <1>1, <1>3, <1>4, HoldersFinite, TotalCredit
<1>7. platform[Vault] <= Credit(platform, feeRecipient, rest)[Vault]
  BY <1>1, <1>3, <1>4, HoldersFinite, CreditGrows
<1>8. shares[Vault] \in Nat /\ platform[Vault] \in Nat
  BY <1>2, <1>4, HoldersFinite
<1>9. supply + ProtocolShares + rest = AccruedSupply
  BY <1>1, <1>2 DEF rest, AccruedSupply
<1> QED BY <1>4, <1>5, <1>6, <1>7, <1>8, <1>9, HoldersFinite

LEMMA MintKeepsBooks ==
    ASSUME TypeOK, BooksBalance, CanAccrue,
           NEW to \in Holders, NEW n \in Nat, MintShares(to, n)
    PROVE  /\ shares' \in [Holders -> Nat] /\ supply' \in Nat
           /\ Total(shares', Holders) = supply'
           /\ shares[Vault] <= shares'[Vault]
<1>1. /\ AccruedShares \in [Holders -> Nat] /\ AccruedSupply \in Nat
      /\ Total(AccruedShares, Holders) = AccruedSupply
      /\ shares[Vault] <= AccruedShares[Vault]
  BY AccruedTokens, FeeTypes
<1>2. shares' = Credit(AccruedShares, to, n) /\ supply' = AccruedSupply + n
  BY DEF MintShares
<1>3. shares[Vault] \in Nat
  BY HoldersFinite DEF TypeOK
<1>4. /\ Credit(AccruedShares, to, n) \in [Holders -> Nat]
      /\ Total(Credit(AccruedShares, to, n), Holders) = AccruedSupply + n
  BY <1>1, HoldersFinite, TotalCredit
<1>5. AccruedShares[Vault] <= Credit(AccruedShares, to, n)[Vault]
  BY <1>1, HoldersFinite, CreditGrows
<1> QED BY <1>1, <1>2, <1>3, <1>4, <1>5, HoldersFinite

LEMMA BurnKeepsBooks ==
    ASSUME TypeOK, BooksBalance, CanAccrue,
           NEW from \in Holders, NEW n \in Nat, BurnShares(from, n)
    PROVE  /\ shares' \in [Holders -> Nat] /\ supply' \in Nat
           /\ Total(shares', Holders) = supply'
           /\ from # Vault => shares[Vault] <= shares'[Vault]
           /\ from = Vault => shares[Vault] <= shares'[Vault] + n
<1>1. /\ AccruedShares \in [Holders -> Nat] /\ AccruedSupply \in Nat
      /\ Total(AccruedShares, Holders) = AccruedSupply
      /\ shares[Vault] <= AccruedShares[Vault]
  BY AccruedTokens, FeeTypes
<1>2. /\ shares' = Debit(AccruedShares, from, n) /\ supply' = AccruedSupply - n
      /\ n <= AccruedShares[from]
  BY DEF BurnShares
<1>3. shares[Vault] \in Nat
  BY HoldersFinite DEF TypeOK
<1>4. /\ Debit(AccruedShares, from, n) \in [Holders -> Nat]
      /\ Total(Debit(AccruedShares, from, n), Holders) = AccruedSupply - n
  BY <1>1, <1>2, HoldersFinite, TotalDebit
<1>5. n <= AccruedSupply
  <2>1. AccruedShares[from] \in Nat /\ AccruedShares[from] <= Total(AccruedShares, Holders)
    BY <1>1, HoldersFinite, TotalBoundsEntry
  <2> QED BY <1>1, <1>2, <2>1
<1>6. /\ Debit(AccruedShares, from, n)[from] = AccruedShares[from] - n
      /\ from # Vault => Debit(AccruedShares, from, n)[Vault] = AccruedShares[Vault]
  BY <1>1, HoldersFinite DEF Debit
<1> QED BY <1>1, <1>2, <1>3, <1>4, <1>5, <1>6, HoldersFinite

\* TotalCredit, for the share ledger
LEMMA HolderCredit ==
    \A f \in [Holders -> Nat], a \in Holders, n \in Nat :
        /\ Credit(f, a, n) \in [Holders -> Nat]
        /\ Total(Credit(f, a, n), Holders) = Total(f, Holders) + n
BY HoldersFinite, TotalCredit

LEMMA MoveKeepsTotals ==
    ASSUME NEW f \in [Holders -> Nat], NEW from \in Holders, NEW to \in Holders,
           NEW n \in Nat, n <= f[from]
    PROVE  /\ Credit(Debit(f, from, n), to, n) \in [Holders -> Nat]
           /\ Total(Credit(Debit(f, from, n), to, n), Holders) = Total(f, Holders)
           /\ from # to => Credit(Debit(f, from, n), to, n)[to] = f[to] + n
           /\ Vault # from => f[Vault] <= Credit(Debit(f, from, n), to, n)[Vault]
           /\ f[Vault] <= Credit(Debit(f, from, n), to, n)[Vault] + n
<1> DEFINE d == Debit(f, from, n)
           g == Credit(d, to, n)
<1>1. d \in [Holders -> Nat] /\ Total(d, Holders) = Total(f, Holders) - n
  BY HoldersFinite, TotalDebit
<1>2. \A x \in Holders : d[x] = IF x = from THEN f[x] - n ELSE f[x]
  BY DEF Debit
<1>3. g \in [Holders -> Nat] /\ Total(g, Holders) = Total(d, Holders) + n
  BY <1>1, HolderCredit
<1>4. \A x \in Holders : g[x] = IF x = to THEN d[x] + n ELSE d[x]
  BY <1>1 DEF Credit
<1>5. Total(f, Holders) \in Nat
  BY HoldersFinite, TotalBoundsEntry
<1> HIDE DEF g
<1>6. from # to => g[to] = f[to] + n
  BY <1>2, <1>4
<1>7. Vault # from => f[Vault] <= g[Vault]
  BY <1>2, <1>4, HoldersFinite
<1>8. f[Vault] <= g[Vault] + n
  BY <1>2, <1>4, HoldersFinite
<1>9. Total(g, Holders) = Total(f, Holders)
  BY <1>1, <1>3, <1>5
<1> QED BY <1>3, <1>6, <1>7, <1>8, <1>9 DEF g, d

-----------------------------------------------------------------------------
(* The components beside the ledger keep their types.                       *)

LEMMA EnqueueKeepsType ==
    ASSUME coreQueue \in Seq(CoreActions), NEW actions \in Seq(CoreActions), Enqueue(actions)
    PROVE  coreQueue' \in Seq(CoreActions)
BY DEF Enqueue

LEMMA BridgesKeepTypes ==
    ASSUME CoreTypeOK, NEW a \in Nat, SendToCore(a) \/ CallFromCore(a)
    PROVE  CoreTypeOK'
<1>1. \A k \in ActionKinds : Queued(k, a) \in CoreActions
  BY DEF Queued, CoreActions
<1>2. CASE SendToCore(a)
  <2>1. <<Queued("spotToPerp", a)>> \in Seq(CoreActions)
    BY <1>1 DEF ActionKinds
  <2>2. coreQueue' \in Seq(CoreActions)
    BY <1>2, <2>1, EnqueueKeepsType DEF SendToCore, CoreTypeOK
  <2> QED BY <1>2, <2>2 DEF SendToCore, CoreTypeOK
<1>3. CASE CallFromCore(a)
  <2>1. <<Queued("perpToSpot", a), Queued("spotSend", a)>> \in Seq(CoreActions)
    BY <1>1 DEF ActionKinds
  <2> QED BY <1>3, <2>1, EnqueueKeepsType DEF CallFromCore, CoreTypeOK
<1> QED BY <1>2, <1>3

LEMMA CoreKeepsTypes ==
    ASSUME CoreTypeOK, CoreStep
    PROVE  CoreTypeOK'
<1> USE DEF CoreTypeOK
<1>1. CASE RunAction
  <2> DEFINE h == Head(coreQueue)
  <2>1. h \in CoreActions /\ coreQueue' \in Seq(CoreActions)
    BY <1>1 DEF RunAction
  <2>2. h.amount \in Nat /\ h.kind \in ActionKinds
    BY <2>1 DEF CoreActions
  <2>3. CASE Covered(h) /\ Effect(h)
    <3>1. h.kind # "perpToSpot" => h.amount <= spot
      BY <2>3 DEF Covered
    <3> HIDE DEF h
    <3>2. UNCHANGED <<margin, toCore>>
      BY <1>1 DEF RunAction
    <3>3. /\ perp' \in Int /\ spot' \in Nat /\ toEvm' \in Nat
      BY <2>2, <2>3, <3>1 DEF Effect
    <3> QED BY <2>1, <3>2, <3>3
  <2>4. CASE UNCHANGED <<perp, spot, toEvm>>
    BY <1>1, <2>1, <2>4 DEF RunAction
  <2> QED BY <1>1, <2>3, <2>4 DEF RunAction
<1>2. CASE CreditSpot
  BY <1>2 DEF CreditSpot
<1>3. ASSUME NEW delta \in PnlMoves, NEW locked \in MarginLevels, MarketMove(delta, locked)
      PROVE  CoreTypeOK'
  BY <1>3, CoreAssumption DEF MarketMove
<1> QED BY <1>1, <1>2, <1>3 DEF CoreStep

-----------------------------------------------------------------------------
(* The invariant, by the groups of variables that actions leave alone.      *)

TokensOK ==
    /\ usdc \in Nat /\ outside \in Nat /\ supply \in Nat
    /\ shares \in [Holders -> Nat]
    /\ Total(shares, Holders) = supply

RequestsOK ==
    /\ pendingRedeemShares \in [Accounts -> Nat]
    /\ totalPendingRedeemShares \in Nat
    /\ Total(pendingRedeemShares, Accounts) = totalPendingRedeemShares

ClaimsOK ==
    /\ claimableAssets \in [Accounts -> Nat]
    /\ reservedAssets \in Nat
    /\ Total(claimableAssets, Accounts) = reservedAssets

AccrualOK == highWaterMark \in Nat /\ lastFeeAccrual \in Nat /\ lastFeeAccrual <= now

OperatorOK == fees \in FeeRates /\ feeRecipient \in Holders
PlatformOK ==
    /\ protocolFeeBps \in Nat
    /\ protocolTreasury \in Holders \cup {NoOne}
    /\ protocolAdmin \in Accounts \cup {NoOne}
    /\ PlatformFeeHasTreasury
ConfigOK == OperatorOK /\ PlatformOK /\ depositCap \in Nat

LEMMA InvParts ==
    /\ Inv <=> /\ TokensOK /\ RequestsOK /\ ClaimsOK /\ AccrualOK /\ ConfigOK
               /\ ControlTypeOK /\ DeskTypeOK /\ CoreTypeOK /\ EscrowBacked
    /\ Inv' <=> /\ TokensOK' /\ RequestsOK' /\ ClaimsOK' /\ AccrualOK' /\ ConfigOK'
                /\ ControlTypeOK' /\ DeskTypeOK' /\ CoreTypeOK' /\ EscrowBacked'
BY DEF Inv, TypeOK, BooksBalance, TokensOK, RequestsOK, ClaimsOK, AccrualOK,
       ConfigOK, OperatorOK, PlatformOK

LEMMA RestKeepsTypes ==
    /\ ControlTypeOK /\ UNCHANGED controlVars => ControlTypeOK' /\ now' = now
    /\ DeskTypeOK /\ UNCHANGED deskVars => DeskTypeOK'
    /\ CoreTypeOK /\ UNCHANGED coreVars => CoreTypeOK'
    /\ TokensOK /\ UNCHANGED tokenVars => TokensOK'
    /\ RequestsOK /\ UNCHANGED requestVars => RequestsOK'
    /\ ClaimsOK /\ UNCHANGED claimVars => ClaimsOK'
    /\ AccrualOK /\ now \in Nat /\ now <= now' /\ now' \in Nat /\ UNCHANGED accrualVars => AccrualOK'
    /\ OperatorOK /\ UNCHANGED operatorVars => OperatorOK'
    /\ PlatformOK /\ UNCHANGED platformVars => PlatformOK'
    /\ ConfigOK /\ UNCHANGED configVars => ConfigOK'
<1>1. ControlTypeOK /\ UNCHANGED controlVars => ControlTypeOK' /\ now' = now
  BY DEF ControlTypeOK, controlVars, roleVars, switchVars, heartbeatVars
<1>2. DeskTypeOK /\ UNCHANGED deskVars => DeskTypeOK'
  BY DEF DeskTypeOK, deskVars, limitVars, epochVars
<1>3. CoreTypeOK /\ UNCHANGED coreVars => CoreTypeOK'
  BY DEF CoreTypeOK, coreVars
<1>4. TokensOK /\ UNCHANGED tokenVars => TokensOK'
  BY DEF TokensOK, tokenVars
<1>5. RequestsOK /\ UNCHANGED requestVars => RequestsOK'
  BY DEF RequestsOK, requestVars
<1>6. ClaimsOK /\ UNCHANGED claimVars => ClaimsOK'
  BY DEF ClaimsOK, claimVars
<1>7. AccrualOK /\ now \in Nat /\ now <= now' /\ now' \in Nat /\ UNCHANGED accrualVars => AccrualOK'
  BY DEF AccrualOK, accrualVars
<1>8. OperatorOK /\ UNCHANGED operatorVars => OperatorOK'
  BY DEF OperatorOK, operatorVars
<1>9. PlatformOK /\ UNCHANGED platformVars => PlatformOK'
  BY DEF PlatformOK, platformVars, PlatformFeeHasTreasury
<1>10. ConfigOK /\ UNCHANGED configVars => ConfigOK'
  BY <1>8, <1>9 DEF ConfigOK, configVars
<1> QED BY <1>1, <1>2, <1>3, <1>4, <1>5, <1>6, <1>7, <1>8, <1>9, <1>10

-----------------------------------------------------------------------------
(* What the calls have in common.                                           *)

LEMMA AccrueKeepsTypes ==
    ASSUME Inv, Accrue, now' = now
    PROVE  CanAccrue /\ AccrualOK' /\ NavReadable
<1>1. CanAccrue /\ lastFeeAccrual' = now /\ highWaterMark' = AccruedHighWaterMark
  BY DEF Accrue
<1>2. AccruedHighWaterMark \in Nat
  BY <1>1, FeeTypes DEF Inv
<1>3. now \in Nat
  BY DEF Inv, TypeOK, ControlTypeOK
<1> QED BY <1>1, <1>2, <1>3 DEF AccrualOK, CanAccrue

LEMMA ConversionTypes ==
    ASSUME TypeOK, CanAccrue, NEW x \in Nat
    PROVE  /\ ToShares(x, AccruedSupply) \in Nat
           /\ ToSharesUp(x, AccruedSupply) \in Nat
           /\ ToAssets(x, AccruedSupply) \in Nat
           /\ ToAssetsUp(x, AccruedSupply) \in Nat
           /\ PreviewWithdraw(x, AccruedSupply) \in Nat
           /\ PreviewRedeem(x, AccruedSupply) \in Nat
<1> DEFINE s == AccruedSupply + VirtualShares
           t == TotalAssets + 1
           fee == FeeOnRaw(x, fees.exit, BPS)
           gross == MulDiv(x, t, s)
<1>1. s \in Nat \ {0} /\ t \in Nat \ {0}
  BY FeeTypes, NavTypes, ConstantTypes DEF CanAccrue
<1>2. fees.exit \in Nat /\ BPS \in Nat \ {0}
  BY ConstantTypes DEF TypeOK, FeeRates
<1> HIDE DEF s, t
<1>3. /\ MulDiv(x, s, t) \in Nat /\ MulDivUp(x, s, t) \in Nat
      /\ gross \in Nat /\ MulDivUp(x, t, s) \in Nat
  BY <1>1, MulDivFloor, MulDivCeil
<1>4. fee \in Nat
  BY <1>2, FeeOnRawType
<1>5. MulDivUp(x + fee, s, t) \in Nat
  <2>1. x + fee \in Nat
    BY <1>4
  <2> QED BY <1>1, <2>1, MulDivCeil
<1>6. FeeOnTotal(gross, fees.exit, BPS) \in 0 .. gross
  BY <1>2, <1>3, FeeOnTotalBound
<1>7. gross - FeeOnTotal(gross, fees.exit, BPS) \in Nat
  BY <1>3, <1>6
<1> QED BY <1>3, <1>5, <1>7 DEF ToShares, ToSharesUp, ToAssets, ToAssetsUp,
           PreviewWithdraw, PreviewRedeem, s, t

LEMMA DepositsKeepInv ==
    ASSUME Inv, Accrue, NEW receiver \in Holders, NEW a \in Nat, NEW n \in Nat,
           Deposits(receiver, a, n)
    PROVE  Inv'
<1>1. /\ ControlTypeOK' /\ DeskTypeOK' /\ CoreTypeOK' /\ now' = now
      /\ RequestsOK' /\ ClaimsOK' /\ ConfigOK'
      /\ UNCHANGED totalPendingRedeemShares
  BY InvParts, RestKeepsTypes DEF Deposits, queueVars, requestVars
<1>2. AccrualOK' /\ CanAccrue
  BY <1>1, AccrueKeepsTypes
<1>3. /\ shares' \in [Holders -> Nat] /\ supply' \in Nat
      /\ Total(shares', Holders) = supply'
      /\ shares[Vault] <= shares'[Vault]
  BY <1>2, MintKeepsBooks DEF Inv, Deposits
<1>4. usdc' \in Nat /\ outside' \in Nat
  BY DEF Inv, TypeOK, Deposits, PayIn
<1>5. EscrowBacked'
  <2>1. totalPendingRedeemShares \in Nat /\ totalPendingRedeemShares <= shares[Vault]
    BY DEF Inv, TypeOK, EscrowBacked
  <2>2. shares[Vault] \in Nat /\ shares'[Vault] \in Nat
    BY <1>3, HoldersFinite DEF Inv, TypeOK
  <2> QED BY <1>1, <1>3, <2>1, <2>2 DEF EscrowBacked
<1> QED BY <1>1, <1>2, <1>3, <1>4, <1>5, InvParts DEF TokensOK

LEMMA WithdrawsKeepInv ==
    ASSUME Inv, Accrue, NEW holder \in Accounts, NEW a \in Nat, NEW n \in Nat,
           Withdraws(holder, a, n)
    PROVE  Inv'
<1>1. /\ ControlTypeOK' /\ DeskTypeOK' /\ CoreTypeOK' /\ now' = now
      /\ RequestsOK' /\ ClaimsOK' /\ ConfigOK'
      /\ UNCHANGED totalPendingRedeemShares
  BY InvParts, RestKeepsTypes DEF Withdraws, queueVars, requestVars
<1>2. AccrualOK' /\ CanAccrue
  BY <1>1, AccrueKeepsTypes
<1>3. holder \in Holders /\ holder # Vault
  BY HoldersFinite
<1>4. /\ shares' \in [Holders -> Nat] /\ supply' \in Nat
      /\ Total(shares', Holders) = supply'
      /\ shares[Vault] <= shares'[Vault]
  BY <1>2, <1>3, BurnKeepsBooks DEF Inv, Withdraws
<1>5. usdc' \in Nat /\ outside' \in Nat
  BY DEF Inv, TypeOK, Withdraws, PayOut
<1>6. EscrowBacked'
  <2>1. totalPendingRedeemShares \in Nat /\ totalPendingRedeemShares <= shares[Vault]
    BY DEF Inv, TypeOK, EscrowBacked
  <2>2. shares[Vault] \in Nat /\ shares'[Vault] \in Nat
    BY <1>4, HoldersFinite DEF Inv, TypeOK
  <2> QED BY <1>1, <1>4, <2>1, <2>2 DEF EscrowBacked
<1> QED BY <1>1, <1>2, <1>4, <1>5, <1>6, InvParts DEF TokensOK

\* A request leaves the queue by n shares: the scalar and the entries agree.
LEMMA DequeueKeepsRequests ==
    ASSUME RequestsOK, NEW holder \in Accounts, NEW n \in Nat, Dequeue(holder, n)
    PROVE  /\ RequestsOK'
           /\ totalPendingRedeemShares' = totalPendingRedeemShares - n
           /\ n <= totalPendingRedeemShares
<1>1. /\ pendingRedeemShares \in [Accounts -> Nat] /\ n <= pendingRedeemShares[holder]
      /\ pendingRedeemShares' = Debit(pendingRedeemShares, holder, n)
      /\ totalPendingRedeemShares' = totalPendingRedeemShares - n
      /\ n <= totalPendingRedeemShares
      /\ totalPendingRedeemShares \in Nat
      /\ Total(pendingRedeemShares, Accounts) = totalPendingRedeemShares
  BY DEF RequestsOK, Dequeue
<1>2. /\ Debit(pendingRedeemShares, holder, n) \in [Accounts -> Nat]
      /\ Total(Debit(pendingRedeemShares, holder, n), Accounts)
             = Total(pendingRedeemShares, Accounts) - n
  BY <1>1, HoldersFinite, TotalDebit
<1> QED BY <1>1, <1>2 DEF RequestsOK

-----------------------------------------------------------------------------
(* One lemma per action.                                                    *)

LEMMA EntryExitKeepsInv ==
    ASSUME Inv, NEW x \in Nat,
           \/ \E receiver \in Holders : Deposit(receiver, x) \/ Mint(receiver, x)
           \/ \E holder \in Accounts : Withdraw(holder, x) \/ Redeem(holder, x)
    PROVE  Inv'
<1> USE DEF Inv
<1>1. ASSUME Accrue
      PROVE  /\ ToShares(x, AccruedSupply) \in Nat /\ ToAssetsUp(x, AccruedSupply) \in Nat
             /\ PreviewWithdraw(x, AccruedSupply) \in Nat
             /\ PreviewRedeem(x, AccruedSupply) \in Nat
  BY <1>1, ConversionTypes DEF Accrue
<1> USE DEF Deposit, Mint, Withdraw, Redeem
<1>2. ASSUME NEW receiver \in Holders, Deposit(receiver, x) PROVE Inv'
  BY <1>1, <1>2, DepositsKeepInv
<1>3. ASSUME NEW receiver \in Holders, Mint(receiver, x) PROVE Inv'
  BY <1>1, <1>3, DepositsKeepInv
<1>4. ASSUME NEW holder \in Accounts, Withdraw(holder, x) PROVE Inv'
  BY <1>1, <1>4, WithdrawsKeepInv
<1>5. ASSUME NEW holder \in Accounts, Redeem(holder, x) PROVE Inv'
  BY <1>1, <1>5, WithdrawsKeepInv
<1> QED BY <1>2, <1>3, <1>4, <1>5

LEMMA RequestKeepsInv ==
    ASSUME Inv, NEW holder \in Accounts, NEW n \in Nat, RequestRedeem(holder, n)
    PROVE  Inv'
<1>1. /\ ControlTypeOK' /\ DeskTypeOK' /\ CoreTypeOK' /\ now' = now
      /\ ClaimsOK' /\ ConfigOK' /\ usdc' \in Nat /\ outside' \in Nat
  BY InvParts, RestKeepsTypes DEF RequestRedeem, TokensOK
<1>2. AccrualOK' /\ CanAccrue
  BY <1>1, AccrueKeepsTypes DEF RequestRedeem
<1>3. /\ AccruedShares \in [Holders -> Nat] /\ AccruedSupply \in Nat
      /\ Total(AccruedShares, Holders) = AccruedSupply
      /\ shares[Vault] <= AccruedShares[Vault]
  BY <1>2, AccruedTokens, FeeTypes DEF Inv
<1>4. holder \in Holders /\ Vault \in Holders /\ holder # Vault
  BY HoldersFinite
<1>5. /\ n <= AccruedShares[holder] /\ supply' = AccruedSupply
      /\ shares' = Credit(Debit(AccruedShares, holder, n), Vault, n)
  BY DEF RequestRedeem, MoveShares
<1>6. /\ shares' \in [Holders -> Nat] /\ Total(shares', Holders) = supply'
      /\ shares'[Vault] = AccruedShares[Vault] + n
  BY <1>3, <1>4, <1>5, MoveKeepsTotals
<1>7. /\ pendingRedeemShares \in [Accounts -> Nat] /\ totalPendingRedeemShares \in Nat
      /\ Total(pendingRedeemShares, Accounts) = totalPendingRedeemShares
      /\ totalPendingRedeemShares <= shares[Vault] /\ shares[Vault] \in Nat
  BY <1>4 DEF Inv, TypeOK, BooksBalance, EscrowBacked
<1>8. /\ pendingRedeemShares' = Credit(pendingRedeemShares, holder, n)
      /\ totalPendingRedeemShares' = totalPendingRedeemShares + n
  BY DEF RequestRedeem
<1>9. RequestsOK'
  BY <1>7, <1>8, HoldersFinite, TotalCredit DEF RequestsOK
<1>10. EscrowBacked'
  <2>1. AccruedShares[Vault] \in Nat
    BY <1>3, <1>4
  <2> QED BY <1>3, <1>6, <1>7, <1>8, <2>1 DEF EscrowBacked
<1> QED BY <1>1, <1>2, <1>3, <1>5, <1>6, <1>9, <1>10, InvParts DEF TokensOK

LEMMA CancelKeepsInv ==
    ASSUME Inv, NEW holder \in Accounts, NEW n \in Nat, CancelRedeemRequest(holder, n)
    PROVE  Inv'
<1>1. /\ ControlTypeOK' /\ DeskTypeOK' /\ CoreTypeOK' /\ now' = now /\ now \in Nat
      /\ ClaimsOK' /\ ConfigOK' /\ usdc' \in Nat /\ outside' \in Nat /\ supply' = supply
  BY InvParts, RestKeepsTypes DEF CancelRedeemRequest, TokensOK, ControlTypeOK
<1>2. AccrualOK'
  BY <1>1, InvParts, RestKeepsTypes DEF CancelRedeemRequest
<1>3. /\ RequestsOK' /\ totalPendingRedeemShares' = totalPendingRedeemShares - n
      /\ n <= totalPendingRedeemShares
  BY InvParts, DequeueKeepsRequests DEF CancelRedeemRequest
<1>4. holder \in Holders /\ Vault \in Holders
  BY HoldersFinite
<1>5. /\ shares \in [Holders -> Nat] /\ Total(shares, Holders) = supply /\ supply \in Nat
      /\ totalPendingRedeemShares <= shares[Vault] /\ totalPendingRedeemShares \in Nat
  BY DEF Inv, TypeOK, BooksBalance, EscrowBacked
<1>6. n <= shares[Vault] /\ shares' = Credit(Debit(shares, Vault, n), holder, n)
  BY DEF CancelRedeemRequest
<1>7. /\ shares' \in [Holders -> Nat] /\ Total(shares', Holders) = supply
      /\ shares[Vault] <= shares'[Vault] + n
  BY <1>4, <1>5, <1>6, MoveKeepsTotals
<1>8. EscrowBacked'
  <2>1. shares[Vault] \in Nat /\ shares'[Vault] \in Nat
    BY <1>4, <1>5, <1>7
  <2> QED BY <1>3, <1>5, <1>7, <2>1 DEF EscrowBacked
<1> QED BY <1>1, <1>2, <1>3, <1>5, <1>7, <1>8, InvParts DEF TokensOK

LEMMA FulfillKeepsInv ==
    ASSUME Inv, NEW holder \in Accounts, NEW n \in Nat, FulfillRedeem(holder, n)
    PROVE  Inv'
<1> DEFINE assets == PreviewRedeem(n, AccruedSupply)
<1>1. /\ ControlTypeOK' /\ DeskTypeOK' /\ CoreTypeOK' /\ now' = now
      /\ ConfigOK' /\ usdc' \in Nat /\ outside' \in Nat
  BY InvParts, RestKeepsTypes DEF FulfillRedeem, TokensOK
<1>2. AccrualOK' /\ CanAccrue
  BY <1>1, AccrueKeepsTypes DEF FulfillRedeem
<1>3. /\ RequestsOK' /\ totalPendingRedeemShares' = totalPendingRedeemShares - n
      /\ n <= totalPendingRedeemShares
  BY InvParts, DequeueKeepsRequests DEF FulfillRedeem
<1>4. /\ shares' \in [Holders -> Nat] /\ supply' \in Nat
      /\ Total(shares', Holders) = supply'
      /\ shares[Vault] <= shares'[Vault] + n
  BY <1>2, HoldersFinite, BurnKeepsBooks DEF FulfillRedeem, Inv
<1>5. assets \in Nat
  BY <1>2, ConversionTypes DEF Inv
<1>6. /\ claimableAssets' = Credit(claimableAssets, holder, assets)
      /\ reservedAssets' = reservedAssets + assets
  BY DEF FulfillRedeem
<1> HIDE DEF assets
<1>7. ClaimsOK'
  <2>1. /\ claimableAssets \in [Accounts -> Nat] /\ reservedAssets \in Nat
        /\ Total(claimableAssets, Accounts) = reservedAssets
    BY DEF Inv, TypeOK, BooksBalance
  <2> QED BY <1>5, <1>6, <2>1, HoldersFinite, TotalCredit DEF ClaimsOK
<1>8. EscrowBacked'
  <2>1. totalPendingRedeemShares \in Nat /\ totalPendingRedeemShares <= shares[Vault]
    BY DEF Inv, TypeOK, EscrowBacked
  <2>2. shares[Vault] \in Nat /\ shares'[Vault] \in Nat
    BY <1>4, HoldersFinite DEF Inv, TypeOK
  <2> QED BY <1>3, <1>4, <2>1, <2>2 DEF EscrowBacked
<1> QED BY <1>1, <1>2, <1>3, <1>4, <1>7, <1>8, InvParts DEF TokensOK

LEMMA ClaimKeepsInv ==
    ASSUME Inv, NEW holder \in Accounts, Claim(holder)
    PROVE  Inv'
<1> DEFINE assets == claimableAssets[holder]
<1>1. /\ ControlTypeOK' /\ DeskTypeOK' /\ CoreTypeOK' /\ now' = now /\ now \in Nat
      /\ RequestsOK' /\ ConfigOK' /\ UNCHANGED <<shares, supply, totalPendingRedeemShares>>
  BY InvParts, RestKeepsTypes DEF Claim, ControlTypeOK, requestVars
<1>2. AccrualOK'
  BY <1>1, InvParts, RestKeepsTypes DEF Claim
<1>3. /\ claimableAssets \in [Accounts -> Nat] /\ reservedAssets \in Nat
      /\ Total(claimableAssets, Accounts) = reservedAssets
      /\ usdc \in Nat /\ outside \in Nat
  BY DEF Inv, TypeOK, BooksBalance
<1>4. assets \in Nat
  BY <1>3
<1>5. /\ assets <= reservedAssets /\ reservedAssets' = reservedAssets - assets
      /\ claimableAssets' = Debit(claimableAssets, holder, assets)
      /\ PayOut(assets)
  <2>1. claimableAssets' = [claimableAssets EXCEPT ![holder] = 0]
    BY DEF Claim
  <2>2. claimableAssets[holder] - assets = 0
    BY <1>4
  <2> QED BY <2>1, <2>2 DEF Claim, Debit
<1> HIDE DEF assets
<1>6. ClaimsOK'
  <2>1. assets <= claimableAssets[holder]
    BY <1>4 DEF assets
  <2> QED BY <1>3, <1>4, <1>5, <2>1, HoldersFinite, TotalDebit DEF ClaimsOK
<1>7. TokensOK'
  BY <1>1, <1>3, <1>4, <1>5, InvParts DEF TokensOK, PayOut
<1> QED BY <1>1, <1>2, <1>6, <1>7, InvParts DEF EscrowBacked

LEMMA BridgeToCoreKeepsInv ==
    ASSUME Inv, NEW caller \in Accounts, NEW a \in Nat, BridgeToCore(caller, a)
    PROVE  Inv'
<1>1. ControlTypeOK' /\ now' = now /\ now \in Nat
  BY InvParts, TouchKeepsTypes DEF BridgeToCore, ControlTypeOK
<1>2. CoreTypeOK'
  BY InvParts, BridgesKeepTypes DEF BridgeToCore
<1>3. DeskTypeOK' /\ RequestsOK' /\ ClaimsOK' /\ ConfigOK' /\ AccrualOK'
  BY <1>1, InvParts, RestKeepsTypes DEF BridgeToCore, queueVars
<1>4. TokensOK'
  BY InvParts DEF BridgeToCore, TokensOK
<1>5. EscrowBacked'
  BY InvParts DEF BridgeToCore, EscrowBacked, queueVars, requestVars
<1> QED BY <1>1, <1>2, <1>3, <1>4, <1>5, InvParts

LEMMA CallFromCoreKeepsInv ==
    ASSUME Inv, NEW a \in Nat, CallFromCore(a), UNCHANGED <<vaultVars, deskVars>>,
           TouchManager \/ UNCHANGED controlVars
    PROVE  Inv'
<1>1. ControlTypeOK' /\ now' = now /\ now \in Nat
  BY InvParts, TouchKeepsTypes, RestKeepsTypes DEF ControlTypeOK
<1>2. CoreTypeOK'
  BY InvParts, BridgesKeepTypes
<1>3. /\ DeskTypeOK' /\ TokensOK' /\ RequestsOK' /\ ClaimsOK' /\ ConfigOK'
      /\ AccrualOK'
  BY <1>1, InvParts, RestKeepsTypes DEF vaultVars, queueVars
<1>4. EscrowBacked'
  BY InvParts DEF EscrowBacked, vaultVars, tokenVars, queueVars, requestVars
<1> QED BY <1>1, <1>2, <1>3, <1>4, InvParts

LEMMA CreditEvmKeepsInv ==
    ASSUME Inv, CreditEvm
    PROVE  Inv'
<1>1. /\ ControlTypeOK' /\ now' = now /\ now \in Nat
      /\ DeskTypeOK' /\ RequestsOK' /\ ClaimsOK' /\ ConfigOK'
  BY InvParts, RestKeepsTypes DEF CreditEvm, queueVars, ControlTypeOK
<1>2. AccrualOK'
  BY <1>1, InvParts, RestKeepsTypes DEF CreditEvm
<1>3. CoreTypeOK' /\ toEvm \in Nat
  BY InvParts DEF CreditEvm, LeaveCore, CoreTypeOK
<1>4. TokensOK'
  BY <1>3, InvParts DEF CreditEvm, TokensOK
<1>5. EscrowBacked'
  BY InvParts DEF CreditEvm, EscrowBacked, queueVars, requestVars
<1> QED BY <1>1, <1>2, <1>3, <1>4, <1>5, InvParts

\* accrueFees alone: everything but the configuration
LEMMA AccrueFeesKeeps ==
    ASSUME Inv, AccrueFees
    PROVE  /\ ControlTypeOK' /\ DeskTypeOK' /\ CoreTypeOK'
           /\ RequestsOK' /\ ClaimsOK' /\ AccrualOK' /\ TokensOK' /\ EscrowBacked'
<1>1. /\ ControlTypeOK' /\ DeskTypeOK' /\ CoreTypeOK' /\ now' = now
      /\ RequestsOK' /\ ClaimsOK' /\ usdc' \in Nat /\ outside' \in Nat
      /\ UNCHANGED totalPendingRedeemShares
  BY InvParts, RestKeepsTypes DEF AccrueFees, queueVars, requestVars, TokensOK
<1>2. AccrualOK' /\ CanAccrue
  BY <1>1, AccrueKeepsTypes DEF AccrueFees
<1>3. /\ shares' \in [Holders -> Nat] /\ Total(shares', Holders) = supply'
      /\ shares[Vault] <= shares'[Vault] /\ supply' \in Nat
  BY <1>2, AccruedTokens, FeeTypes DEF AccrueFees, Inv
<1>4. EscrowBacked'
  <2>1. totalPendingRedeemShares \in Nat /\ totalPendingRedeemShares <= shares[Vault]
    BY DEF Inv, TypeOK, EscrowBacked
  <2>2. shares[Vault] \in Nat /\ shares'[Vault] \in Nat
    BY <1>3, HoldersFinite DEF Inv, TypeOK
  <2> QED BY <1>1, <1>3, <2>1, <2>2 DEF EscrowBacked
<1> QED BY <1>1, <1>2, <1>3, <1>4 DEF TokensOK

LEMMA GovernanceKeepsInv ==
    ASSUME Inv, GovernanceStep
    PROVE  Inv'
<1>1. PICK caller \in Accounts :
        \/ \E recipient \in FeeAddresses, rates \in FeeChoices :
               SetFeeConfig(caller, recipient, rates)
        \/ \E treasury \in FeeAddresses \cup {NoOne}, bps \in ProtocolFees :
               SetProtocolFeeConfig(caller, treasury, bps)
        \/ \E newAdmin \in RoleCandidates \cup {NoOne} : SetProtocolAdmin(caller, newAdmin)
        \/ \E cap \in DepositCaps : SetDepositCap(caller, cap)
  BY DEF GovernanceStep
<1>2. ASSUME NEW recipient \in FeeAddresses, NEW rates \in FeeChoices,
             SetFeeConfig(caller, recipient, rates)
      PROVE  Inv'
  <2>1. recipient \in Holders /\ rates \in FeeRates
    BY VaultAssumption
  <2>2. OperatorOK'
    BY <1>2, <2>1 DEF SetFeeConfig, OperatorOK
  <2>3. PlatformOK' /\ depositCap' \in Nat
    BY <1>2, InvParts, RestKeepsTypes DEF SetFeeConfig, ConfigOK
  <2> QED BY <1>2, <2>2, <2>3, AccrueFeesKeeps, InvParts DEF SetFeeConfig, ConfigOK
<1>3. ASSUME NEW treasury \in FeeAddresses \cup {NoOne}, NEW bps \in ProtocolFees,
             SetProtocolFeeConfig(caller, treasury, bps)
      PROVE  Inv'
  <2>1. treasury \in Holders \cup {NoOne} /\ bps \in Nat
    BY VaultAssumption
  <2>2. PlatformOK'
    BY <1>3, <2>1, InvParts DEF SetProtocolFeeConfig, PlatformOK, PlatformFeeHasTreasury, ConfigOK
  <2>3. OperatorOK' /\ depositCap' \in Nat
    BY <1>3, InvParts, RestKeepsTypes DEF SetProtocolFeeConfig, ConfigOK
  <2> QED BY <1>3, <2>2, <2>3, AccrueFeesKeeps, InvParts DEF SetProtocolFeeConfig, ConfigOK
<1>4. ASSUME ConfigOK', UNCHANGED <<tokenVars, queueVars, accrualVars, controlVars,
                                    deskVars, coreVars>>
      PROVE  Inv'
  <2>1. ControlTypeOK' /\ DeskTypeOK' /\ CoreTypeOK' /\ now' = now /\ now \in Nat
    BY <1>4, InvParts, RestKeepsTypes DEF ControlTypeOK
  <2>2. TokensOK' /\ RequestsOK' /\ ClaimsOK' /\ AccrualOK'
    BY <1>4, <2>1, InvParts, RestKeepsTypes DEF queueVars
  <2>3. EscrowBacked'
    BY <1>4, InvParts DEF EscrowBacked, tokenVars, queueVars, requestVars
  <2> QED BY <1>4, <2>1, <2>2, <2>3, InvParts
<1>5. ASSUME NEW newAdmin \in RoleCandidates \cup {NoOne}, SetProtocolAdmin(caller, newAdmin)
      PROVE  Inv'
  <2>1. newAdmin \in Accounts \cup {NoOne}
    BY ControlAssumption
  <2>2. ConfigOK'
    BY <1>5, <2>1, InvParts, RestKeepsTypes
       DEF SetProtocolAdmin, ConfigOK, PlatformOK, PlatformFeeHasTreasury
  <2> QED BY <1>4, <1>5, <2>2 DEF SetProtocolAdmin
<1>6. ASSUME NEW cap \in DepositCaps, SetDepositCap(caller, cap)
      PROVE  Inv'
  <2>1. cap \in Nat
    BY VaultAssumption
  <2>2. ConfigOK'
    BY <1>6, <2>1, InvParts, RestKeepsTypes DEF SetDepositCap, ConfigOK
  <2> QED BY <1>4, <1>6, <2>2 DEF SetDepositCap
<1> QED BY <1>1, <1>2, <1>3, <1>5, <1>6

LEMMA OutsidersKeepInv ==
    ASSUME Inv, NEW x \in Nat,
           \/ Donate(x)
           \/ \E from \in Accounts, to \in Holders : Transfer(from, to, x)
    PROVE  Inv'
<1>1. /\ ControlTypeOK' /\ DeskTypeOK' /\ CoreTypeOK' /\ now' = now /\ now \in Nat
      /\ RequestsOK' /\ ClaimsOK' /\ ConfigOK' /\ UNCHANGED totalPendingRedeemShares
  BY InvParts, RestKeepsTypes DEF Donate, Transfer, queueVars, requestVars, ControlTypeOK
<1>2. AccrualOK'
  BY <1>1, InvParts, RestKeepsTypes DEF Donate, Transfer
<1>3. CASE Donate(x)
  <2>1. TokensOK' /\ UNCHANGED shares
    BY <1>3, InvParts DEF Donate, PayIn, TokensOK
  <2> QED BY <1>1, <1>2, <2>1, InvParts DEF EscrowBacked
<1>4. ASSUME NEW from \in Accounts, NEW to \in Holders, Transfer(from, to, x)
      PROVE  Inv'
  <2>1. from \in Holders /\ from # Vault /\ Vault \in Holders
    BY HoldersFinite
  <2>2. /\ shares \in [Holders -> Nat] /\ Total(shares, Holders) = supply
        /\ usdc \in Nat /\ outside \in Nat /\ supply \in Nat
        /\ totalPendingRedeemShares <= shares[Vault] /\ totalPendingRedeemShares \in Nat
    BY DEF Inv, TypeOK, BooksBalance, EscrowBacked
  <2>3. /\ x <= shares[from] /\ shares' = Credit(Debit(shares, from, x), to, x)
        /\ UNCHANGED <<usdc, outside, supply>>
    BY <1>4 DEF Transfer
  <2>4. /\ shares' \in [Holders -> Nat] /\ Total(shares', Holders) = supply
        /\ shares[Vault] <= shares'[Vault]
    BY <2>1, <2>2, <2>3, MoveKeepsTotals
  <2>5. EscrowBacked'
    <3>1. shares[Vault] \in Nat /\ shares'[Vault] \in Nat
      BY <2>1, <2>2, <2>4
    <3> QED BY <1>1, <2>2, <2>4, <3>1 DEF EscrowBacked
  <2> QED BY <1>1, <1>2, <2>2, <2>3, <2>4, <2>5, InvParts DEF TokensOK
<1> QED BY <1>3, <1>4

LEMMA UserKeepsInv ==
    ASSUME Inv, UserStep
    PROVE  Inv'
<1>1. /\ AssetAmounts \subseteq Nat /\ ShareAmounts \subseteq Nat
      /\ BridgeAmounts \subseteq Nat /\ Donations \subseteq Nat
  BY VaultAssumption
<1>2. ASSUME NEW a \in AssetAmounts,
             \/ \E receiver \in Holders : Deposit(receiver, a)
             \/ \E holder \in Accounts : Withdraw(holder, a)
      PROVE  Inv'
  BY <1>1, <1>2, EntryExitKeepsInv
<1>3. ASSUME NEW n \in ShareAmounts,
             \/ \E receiver \in Holders : Mint(receiver, n)
             \/ \E holder \in Accounts : Redeem(holder, n)
      PROVE  Inv'
  BY <1>1, <1>3, EntryExitKeepsInv
<1>4. ASSUME NEW n \in ShareAmounts, NEW from \in Accounts, NEW to \in Holders,
             Transfer(from, to, n)
      PROVE  Inv'
  BY <1>1, <1>4, OutsidersKeepInv
<1>5. ASSUME NEW n \in ShareAmounts, NEW holder \in Accounts,
             RequestRedeem(holder, n) \/ CancelRedeemRequest(holder, n)
                 \/ FulfillRedeem(holder, n)
      PROVE  Inv'
  BY <1>1, <1>5, RequestKeepsInv, CancelKeepsInv, FulfillKeepsInv
<1>6. ASSUME NEW holder \in Accounts, Claim(holder) PROVE Inv'
  BY <1>6, ClaimKeepsInv
<1>7. ASSUME NEW a \in Donations, Donate(a) PROVE Inv'
  BY <1>1, <1>7, OutsidersKeepInv
<1>8. ASSUME NEW a \in BridgeAmounts, BridgeFromCoreForRedemptions(a) PROVE Inv'
  BY <1>1, <1>8, CallFromCoreKeepsInv DEF BridgeFromCoreForRedemptions
<1>9. CASE AccrueFees /\ UNCHANGED configVars
  BY <1>9, AccrueFeesKeeps, InvParts, RestKeepsTypes
<1> QED BY <1>2, <1>3, <1>4, <1>5, <1>6, <1>7, <1>8, <1>9 DEF UserStep

\* Steps of HyperCore, of the roles and the clock, and of the trading desk
LEMMA BesideKeepsInv ==
    ASSUME Inv, UNCHANGED vaultVars,
           \/ CoreStep /\ UNCHANGED <<controlVars, deskVars>>
           \/ ControlNext /\ UNCHANGED <<deskVars, coreVars>>
           \/ DeskNext /\ UNCHANGED coreVars
    PROVE  Inv'
<1>1. ControlTypeOK' /\ DeskTypeOK' /\ CoreTypeOK' /\ now <= now'
  <2>0. now \in Nat
    BY InvParts DEF ControlTypeOK
  <2>1. CASE CoreStep /\ UNCHANGED <<controlVars, deskVars>>
    BY <2>0, <2>1, InvParts, CoreKeepsTypes, RestKeepsTypes
  <2>2. CASE ControlNext /\ UNCHANGED <<deskVars, coreVars>>
    BY <2>2, InvParts, ControlKeepsTypes, RestKeepsTypes
  <2>3. CASE DeskNext /\ UNCHANGED coreVars
    BY <2>0, <2>3, InvParts, DeskKeepsTypes, RestKeepsTypes
  <2> QED BY <2>1, <2>2, <2>3
<1>2. now \in Nat /\ now' \in Nat
  BY <1>1, InvParts DEF ControlTypeOK
<1>3. TokensOK' /\ RequestsOK' /\ ClaimsOK' /\ ConfigOK' /\ AccrualOK'
  BY <1>1, <1>2, InvParts, RestKeepsTypes DEF vaultVars, queueVars
<1>4. EscrowBacked'
  BY InvParts DEF EscrowBacked, vaultVars, tokenVars, queueVars, requestVars
<1> QED BY <1>1, <1>3, <1>4, InvParts

LEMMA OtherKeepsInv ==
    ASSUME Inv, OtherStep
    PROVE  Inv'
<1>1. ASSUME NEW caller \in Accounts, NEW a \in BridgeAmounts, BridgeFromCore(caller, a)
      PROVE  Inv'
  <2>1. a \in Nat
    BY VaultAssumption
  <2> QED BY <1>1, <2>1, CallFromCoreKeepsInv DEF BridgeFromCore
<1> QED BY <1>1, UserKeepsInv, GovernanceKeepsInv, CreditEvmKeepsInv, BesideKeepsInv
        DEF OtherStep

LEMMA InitInv == Init => Inv
<1> SUFFICES ASSUME Init PROVE Inv
  OBVIOUS
<1>1. ControlTypeOK
  BY ControlAssumption DEF Init, ControlInit, ControlTypeOK
<1>2. DeskTypeOK
  <2>1. requirePostOnly \in BOOLEAN /\ allowedAsset \in [Assets -> BOOLEAN]
    BY Zenon DEF Init, DeskInit
  <2> QED BY <2>1 DEF Init, DeskInit, DeskTypeOK, Caps
<1>3. CoreTypeOK
  BY DEF Init, CoreInit, CoreTypeOK
<1>4. TokensOK
  BY VaultAssumption, TotalZero DEF Init, TokensOK
<1>5. RequestsOK /\ ClaimsOK
  BY TotalZero DEF Init, RequestsOK, ClaimsOK
<1>6. AccrualOK
  BY DEF Init, ControlInit, AccrualOK
<1>7. ConfigOK
  BY VaultAssumption, ControlAssumption
     DEF Init, ConfigOK, OperatorOK, PlatformOK, PlatformFeeHasTreasury, Holders
<1>8. EscrowBacked
  BY HoldersFinite DEF Init, EscrowBacked
<1> QED BY <1>1, <1>2, <1>3, <1>4, <1>5, <1>6, <1>7, <1>8, InvParts

LEMMA NextKeepsInv == Inv /\ [Next]_vars => Inv'
<1> SUFFICES ASSUME Inv, [Next]_vars PROVE Inv'
  OBVIOUS
<1>1. CASE OtherStep
  BY <1>1, OtherKeepsInv
<1>2. ASSUME NEW caller \in Accounts, NEW a \in BridgeAmounts, BridgeToCore(caller, a)
      PROVE  Inv'
  <2>1. a \in Nat
    BY VaultAssumption
  <2> QED BY <1>2, <2>1, BridgeToCoreKeepsInv
<1>3. CASE UNCHANGED vars
  <2>1. now' = now /\ now \in Nat
    BY <1>3, InvParts, RestKeepsTypes DEF vars, ControlTypeOK
  <2>2. EscrowBacked'
    BY <1>3, InvParts DEF EscrowBacked, vars, vaultVars, tokenVars, queueVars, requestVars
  <2> QED BY <1>3, <2>1, <2>2, InvParts, RestKeepsTypes DEF vars, vaultVars, queueVars
<1> QED BY <1>1, <1>2, <1>3 DEF Next

-----------------------------------------------------------------------------
(* The books balance, with any manager and under any schedule.              *)

\* Inv is inductive: it holds in every reachable state of the vault.
THEOREM Invariance == Spec => []Inv
BY InitInv, NextKeepsInv, PTL DEF Spec

\* Every variable keeps its type: no subtraction in the ledger, the queue or the
\* HyperCore account goes below zero.
THEOREM TypeCorrect == Spec => []TypeOK
<1>1. Inv => TypeOK
  BY DEF Inv
<1> QED BY <1>1, Invariance, PTL

\* totalSupply, totalPendingRedeemShares and reservedAssets are the sums of their
\* per-account entries.
THEOREM BooksAlwaysBalance == Spec => []BooksBalance
<1>1. Inv => BooksBalance
  BY DEF Inv
<1> QED BY <1>1, Invariance, PTL

\* The vault holds every share that waits in the redemption queue.
THEOREM EscrowAlwaysBacked == Spec => []EscrowBacked
<1>1. Inv => EscrowBacked
  BY DEF Inv
<1> QED BY <1>1, Invariance, PTL

\* The platform's slice is minted only when a platform fee is set, and then there
\* is a treasury to take it: fee accrual never makes a call revert.
LEMMA PlatformSliceHasTreasury ==
    ASSUME Inv
    PROVE  AccrualNeverReverts
<1> SUFFICES ASSUME NavReadable, ProtocolShares > 0 PROVE protocolTreasury # NoOne
  BY DEF AccrualNeverReverts, CanAccrue
<1>1. CASE protocolFeeBps = 0
  <2>1. TotalAssets \in Nat /\ Elapsed \in Nat
    BY NavTypes DEF Inv, TypeOK, ControlTypeOK, Elapsed
  <2>2. ProtocolAssets = 0
    <3>1. TotalAssets * Elapsed \in Nat
      BY <2>1, TimesNat
    <3> QED BY <1>1, <3>1, MulDivZero, ConstantTypes DEF ProtocolAssets, Streamed
  <2>3. ProtocolShares = 0
    <3>1. CASE FeeShares = 0
      BY <3>1 DEF ProtocolShares
    <3>2. CASE FeeShares # 0
      <4>1. FeeShares \in Nat /\ Accruing /\ FeeAssets > 0 /\ FeeAssets \in Nat
        BY <3>2, AccrualTypes DEF FeeShares, SharesFor, Inv
      <4>2. MulDiv(FeeShares, 0, FeeAssets) = 0
        BY <4>1, MulDivZero
      <4> QED BY <2>2, <3>2, <4>2 DEF ProtocolShares
    <3> QED BY <3>1, <3>2
  <2> QED BY <2>3
<1>2. CASE protocolFeeBps # 0
  BY <1>2 DEF Inv, TypeOK, PlatformFeeHasTreasury
<1> QED BY <1>1, <1>2

\* Accruing fees never makes a call revert: a deposit, an exit or a governance
\* change is not blocked by an address that cannot receive the platform's shares.
THEOREM AccrualAlwaysPossible == Spec => []AccrualNeverReverts
<1>1. Inv => AccrualNeverReverts
  BY PlatformSliceHasTreasury
<1> QED BY <1>1, Invariance, PTL

-----------------------------------------------------------------------------
(* Claims stay backed, if the manager bridges idle USDC only.               *)

\* What maxRedeem lets through, the idle USDC can pay.
LEMMA RedeemWithinIdle ==
    ASSUME TypeOK, CanAccrue, NEW holder \in Accounts, NEW n \in Nat,
           WithinMaxRedeem(holder, n, AccruedSupply)
    PROVE  PreviewRedeem(n, AccruedSupply) <= IdleAssets
<1> DEFINE s == AccruedSupply + VirtualShares
           t == TotalAssets + 1
           gross == MulDiv(n, t, s)
<1>1. s \in Nat \ {0} /\ t \in Nat \ {0} /\ IdleAssets \in Nat
  BY FeeTypes, NavTypes, ConstantTypes DEF CanAccrue
<1>2. n <= MulDiv(IdleAssets, s, t)
  BY DEF WithinMaxRedeem, ToShares
<1> HIDE DEF s, t
<1>3. gross \in Nat /\ gross <= IdleAssets
  BY <1>1, <1>2, RoundTrip, MulDivFloor
<1>4. fees.exit \in Nat /\ BPS \in Nat \ {0}
  BY ConstantTypes DEF TypeOK, FeeRates
<1>5. FeeOnTotal(gross, fees.exit, BPS) \in 0 .. gross
  BY <1>3, <1>4, FeeOnTotalBound
<1>6. PreviewRedeem(n, AccruedSupply) = gross - FeeOnTotal(gross, fees.exit, BPS)
  BY DEF PreviewRedeem, ToAssets, s, t
<1> QED BY <1>1, <1>3, <1>5, <1>6

LEMMA OtherKeepsClaims ==
    ASSUME Inv, ClaimsBacked, OtherStep
    PROVE  ClaimsBacked'
<1>1. usdc \in Nat /\ reservedAssets \in Nat /\ toEvm \in Nat
  BY DEF Inv, TypeOK, CoreTypeOK
<1>2. /\ AssetAmounts \subseteq Nat /\ ShareAmounts \subseteq Nat
      /\ Donations \subseteq Nat
  BY VaultAssumption
<1>3. CASE UNCHANGED <<usdc, reservedAssets>>
  BY <1>3 DEF ClaimsBacked
<1>4. ASSUME NEW a \in Nat, PayIn(a), UNCHANGED reservedAssets
      PROVE  ClaimsBacked'
  BY <1>1, <1>4 DEF ClaimsBacked, PayIn
<1>5. ASSUME NEW a \in Nat, a <= IdleAssets, PayOut(a), UNCHANGED reservedAssets
      PROVE  ClaimsBacked'
  BY <1>1, <1>5 DEF ClaimsBacked, PayOut, IdleAssets
<1>6. ASSUME Accrue, NEW x \in Nat
      PROVE  ToAssetsUp(x, AccruedSupply) \in Nat /\ PreviewRedeem(x, AccruedSupply) \in Nat
  BY <1>6, ConversionTypes DEF Accrue, Inv
<1>7. ASSUME NEW a \in AssetAmounts, NEW receiver \in Holders, Deposit(receiver, a)
      PROVE  ClaimsBacked'
  BY <1>2, <1>4, <1>7 DEF Deposit, Deposits, queueVars, claimVars
<1>8. ASSUME NEW n \in ShareAmounts, NEW receiver \in Holders, Mint(receiver, n)
      PROVE  ClaimsBacked'
  BY <1>2, <1>4, <1>6, <1>8 DEF Mint, Deposits, queueVars, claimVars
<1>9. ASSUME NEW a \in AssetAmounts, NEW holder \in Accounts, Withdraw(holder, a)
      PROVE  ClaimsBacked'
  BY <1>2, <1>5, <1>9 DEF Withdraw, Withdraws, WithinMaxWithdraw, queueVars, claimVars
<1>10. ASSUME NEW n \in ShareAmounts, NEW holder \in Accounts, Redeem(holder, n)
       PROVE  ClaimsBacked'
  <2>1. PreviewRedeem(n, AccruedSupply) <= IdleAssets
    BY <1>2, <1>10, RedeemWithinIdle DEF Redeem, Accrue, Inv
  <2> QED BY <1>2, <1>5, <1>6, <1>10, <2>1 DEF Redeem, Withdraws, queueVars, claimVars
<1>11. ASSUME NEW n \in ShareAmounts, NEW holder \in Accounts, FulfillRedeem(holder, n)
       PROVE  ClaimsBacked'
  <2>1. PreviewRedeem(n, AccruedSupply) \in Nat
    BY <1>2, <1>6, <1>11 DEF FulfillRedeem
  <2>2. /\ PreviewRedeem(n, AccruedSupply) <= IdleAssets /\ usdc' = usdc
        /\ reservedAssets' = reservedAssets + PreviewRedeem(n, AccruedSupply)
    BY <1>11 DEF FulfillRedeem
  <2> QED BY <1>1, <2>1, <2>2 DEF ClaimsBacked, IdleAssets
<1>12. ASSUME NEW holder \in Accounts, Claim(holder)
       PROVE  ClaimsBacked'
  <2>1. claimableAssets[holder] \in Nat
    BY DEF Inv, TypeOK
  <2> QED BY <1>1, <1>12, <2>1 DEF Claim, PayOut, ClaimsBacked
<1>13. ASSUME NEW a \in Donations, Donate(a) PROVE ClaimsBacked'
  BY <1>2, <1>4, <1>13 DEF Donate, queueVars, claimVars
<1>14. CASE CreditEvm
  BY <1>1, <1>14 DEF CreditEvm, ClaimsBacked, queueVars, claimVars
<1>15. CASE UserStep
  <2>1. ASSUME NEW n \in ShareAmounts, NEW holder \in Accounts,
               RequestRedeem(holder, n) \/ CancelRedeemRequest(holder, n)
        PROVE  ClaimsBacked'
    BY <1>3, <2>1 DEF RequestRedeem, CancelRedeemRequest, claimVars
  <2>2. ASSUME NEW n \in ShareAmounts, NEW from \in Accounts, NEW to \in Holders,
               Transfer(from, to, n)
        PROVE  ClaimsBacked'
    BY <1>3, <2>2 DEF Transfer, queueVars, claimVars
  <2>3. ASSUME NEW a \in BridgeAmounts, BridgeFromCoreForRedemptions(a)
        PROVE  ClaimsBacked'
    BY <1>3, <2>3 DEF BridgeFromCoreForRedemptions, vaultVars, tokenVars, queueVars, claimVars
  <2>4. CASE AccrueFees
    BY <1>3, <2>4 DEF AccrueFees, queueVars, claimVars
  <2> QED BY <1>7, <1>8, <1>9, <1>10, <1>11, <1>12, <1>13, <1>15,
             <2>1, <2>2, <2>3, <2>4 DEF UserStep
<1>16. CASE GovernanceStep
  BY <1>3, <1>16 DEF GovernanceStep, SetFeeConfig, SetProtocolFeeConfig, SetProtocolAdmin,
         SetDepositCap, AccrueFees, tokenVars, queueVars, claimVars
<1>17. CASE UNCHANGED vaultVars
  BY <1>3, <1>17 DEF vaultVars, tokenVars, queueVars, claimVars
<1> QED BY <1>14, <1>15, <1>16, <1>17 DEF OtherStep, BridgeFromCore

LEMMA PrudentKeepsBacked ==
    Inv /\ ClaimsBacked /\ [PrudentNext]_vars => Inv' /\ ClaimsBacked'
<1> SUFFICES ASSUME Inv, ClaimsBacked, [PrudentNext]_vars PROVE Inv' /\ ClaimsBacked'
  OBVIOUS
<1>1. Inv'
  <2>1. [PrudentNext]_vars => [Next]_vars
    BY DEF PrudentNext, Next
  <2> QED BY <2>1, NextKeepsInv
<1>2. CASE OtherStep
  BY <1>1, <1>2, OtherKeepsClaims
<1>3. ASSUME NEW caller \in Accounts, NEW a \in BridgeAmounts,
             a + reservedAssets <= usdc, BridgeToCore(caller, a)
      PROVE  ClaimsBacked'
  <2>1. a \in Nat /\ usdc \in Nat /\ reservedAssets \in Nat
    BY VaultAssumption DEF Inv, TypeOK
  <2> QED BY <1>3, <2>1 DEF BridgeToCore, ClaimsBacked, queueVars, claimVars
<1>4. CASE UNCHANGED vars
  BY <1>1, <1>4 DEF ClaimsBacked, vars, vaultVars, tokenVars, queueVars, claimVars
<1> QED BY <1>1, <1>2, <1>3, <1>4 DEF PrudentNext

LEMMA InitIsBacked == Init => Inv /\ ClaimsBacked
BY InitInv DEF Init, ClaimsBacked

\* With a manager that bridges idle USDC only, the vault always holds the USDC of
\* every claim: no claim waits, and no subtraction in _idleAssets reverts.
THEOREM ClaimsAlwaysBacked == PrudentSpec => []ClaimsBacked
<1>1. Init => Inv /\ ClaimsBacked
  BY InitIsBacked
<1>2. (Inv /\ ClaimsBacked) /\ [PrudentNext]_vars => (Inv /\ ClaimsBacked)'
  BY PrudentKeepsBacked
<1> QED BY <1>1, <1>2, PTL DEF PrudentSpec

\* Whatever the manager does, a redemption within maxRedeem is paid in full out of
\* idle USDC.
THEOREM RedeemAlwaysHonoured == Spec => []MaxRedeemHonoured
<1>1. Inv => MaxRedeemHonoured
  <2>1. ShareAmounts \subseteq Nat
    BY VaultAssumption
  <2> QED BY <2>1, RedeemWithinIdle DEF Inv, MaxRedeemHonoured
<1> QED BY <1>1, Invariance, PTL
=============================================================================
