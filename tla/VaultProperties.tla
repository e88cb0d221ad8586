-------------------------- MODULE VaultProperties --------------------------
(***************************************************************************)
(* What the vault promises to its holders, redeemers and operators.        *)
(***************************************************************************)
EXTENDS BasketVault

-----------------------------------------------------------------------------
(* Books.                                                                  *)

\* The scalar totals the contract keeps (totalSupply, totalPendingRedeemShares,
\* reservedAssets) are the sums of the per-account entries, whatever order of
\* requests, cancellations, fulfilments, claims and fee mints led there.
BooksBalance ==
    /\ Total(shares, Holders) = supply
    /\ Total(pendingRedeemShares, Accounts) = totalPendingRedeemShares
    /\ Total(claimableAssets, Accounts) = reservedAssets

\* Every share waiting in the queue is held by the vault itself, so that a
\* cancellation can always return it and a fulfilment can always burn it.
EscrowBacked == totalPendingRedeemShares <= shares[Vault]

\* USDC promised to claimers lies in the vault's own balance: a claim can
\* always be paid at once, and _idleAssets never underflows.
ClaimsBacked == reservedAssets <= usdc

-----------------------------------------------------------------------------
(* The redemption queue.                                                   *)

Queue == INSTANCE RedemptionQueue
    WITH Owners <- Accounts, waiting <- pendingRedeemShares,
         owed <- claimableAssets, funds <- usdc

\* The vault implements the queue of RedemptionQueue: whatever deposits, exits, fees,
\* bridges and governance do meanwhile, a request ends by cancellation or by a
\* promise within free USDC, and a promise by its payment in full.
ImplementsQueue == Queue!QueueSpec

-----------------------------------------------------------------------------
(* Value.                                                                  *)

\* No call of a holder, of a stranger or of governance lowers the value of a
\* share: after the fees that the call accrues, rounding is always in favour of
\* those who stay.  (Only HyperCore, by moving USDC or by the market, can.)
SharePriceNeverFalls ==
    [][NavReadable /\ UNCHANGED coreVars =>
          (TotalAssets' + 1) * (AccruedSupply + VirtualShares)
              >= (TotalAssets + 1) * (supply' + VirtualShares)]_vars

PaidOut == outside' - outside

\* A payment settles the whole of one account's claim...
SettlesClaim ==
    /\ \E a \in Accounts : claimableAssets[a] = PaidOut /\ claimableAssets'[a] = 0
    /\ reservedAssets' = reservedAssets - PaidOut

\* ...or is at most the net asset value of the shares burnt for it.
RedeemsShares ==
    PaidOut * (AccruedSupply + VirtualShares)
        <= (AccruedSupply - supply') * (TotalAssets + 1)

\* No share but those that leave the queue is burnt.
BurnsQueuedOnly ==
    supply + totalPendingRedeemShares' <= supply' + totalPendingRedeemShares

\* A queue that idle USDC covers stays covered, unless someone joins it, redeems
\* past it, or USDC goes to Core: fulfilling some requests, with the fees accrued on
\* the way, never leaves too little for the others.
QueueStaysCovered ==
    [][/\ NavReadable
       /\ RedemptionDeficit = 0
       /\ UNCHANGED coreVars
       /\ totalPendingRedeemShares' <= totalPendingRedeemShares
       /\ BurnsQueuedOnly
       /\ outside' <= outside \/ SettlesClaim
       => RedemptionDeficit' = 0]_vars

\* USDC leaves the vault for a wallet in these two ways only; bridging, trading,
\* fees and governance never pay anybody.
PaysOnlyRedeemers ==
    [][outside' > outside => SettlesClaim \/ RedeemsShares]_vars

\* USDC anywhere: wallets, vault, Core account and in transit between them
InSystem == outside + usdc + toCore + perp + spot + toEvm

MarketStep ==
    \E delta \in PnlMoves, locked \in MarginLevels : MarketMove(delta, locked)

\* Apart from trading results no USDC appears or disappears, whatever the order
\* in which bridges, credits and dropped CoreWriter actions interleave.
NothingLost == [][MarketStep \/ InSystem' = InSystem]_vars

\* What maxRedeem allows, redeem can pay out of idle USDC: the vault never burns
\* shares it cannot honour.
MaxRedeemHonoured ==
    CanAccrue =>
        \A a \in Accounts, n \in ShareAmounts :
            WithinMaxRedeem(a, n, AccruedSupply)
                => PreviewRedeem(n, AccruedSupply) <= IdleAssets

\* What maxDeposit and maxMint allow never carries NAV over the deposit cap,
\* although maxMint converts the room to shares and mint converts back.
CapRespected ==
    CanAccrue /\ depositCap > TotalAssets =>
        /\ \A a \in AssetAmounts :
              WithinMaxDeposit(a) => TotalAssets + a <= depositCap
        /\ \A n \in ShareAmounts :
              WithinMaxMint(n, AccruedSupply)
                  => TotalAssets + ToAssetsUp(n, AccruedSupply) <= depositCap

-----------------------------------------------------------------------------
(* Fees.                                                                   *)

\* The shares minted for fees are worth at most the fees, at the price after the
\* mint: holders are diluted by no more than the fee value.
DilutionWithinFees ==
    CanAccrue /\ Accruing => FeeShares * TotalAssets <= FeeAssets * AccruedSupply

\* Accruing fees never makes a call revert: the platform's shares are minted
\* only to an address that can hold them, whatever the order of the platform's
\* and the operator's fee changes.
AccrualNeverReverts == NavReadable => CanAccrue

\* Accruing settles everything due: a second accrual in the same block, by
\* whichever call, mints nothing.
FeesSettleOnce == [][AccrueFees => FeeShares' = 0]_vars

\* A change of rate never charges the time before it at the new rate.
RatesNotRetroactive ==
    [][fees' # fees \/ protocolFeeBps' # protocolFeeBps => Elapsed' = 0]_vars

\* The supply that an accrual d from now leaves, at the present NAV and price.
SupplyIn(d) == supply + SharesFor(FeesAfter(Elapsed + d))

\* Anyone may poke accrueFees in any block.  Accruing now and again d later never
\* dilutes holders by more than one accrual d later does: fees are not compounded, no
\* moment and no gain is charged twice, and no rounding adds up.  (A fee that has
\* grown to the whole NAV mints nothing, so there waiting would be free.)
PokingCostsNothing ==
    [][AccrueFees /\ UNCHANGED configVars /\ Accruing =>
          \A d \in 0 .. YEAR :
              FeesAfter(Elapsed + d) < TotalAssets => SupplyIn(d)' <= SupplyIn(d)]_vars

-----------------------------------------------------------------------------
(* Control of the vault.                                                    *)

\* While the vault is paused or winding down, no caller, whatever roles changed
\* hands, sends USDC to Core or opens exposure; a pause stops all trading.
EmergencyBrake ==
    [][paused \/ reduceOnlyMode =>
          /\ toCore' <= toCore
          /\ \A i \in DOMAIN sent' \ DOMAIN sent : ~paused /\ sent'[i].leg.reduceOnly]_vars

\* Whoever is manager, by trading, by bridging either way or by taking office,
\* shows to be alive: the backstop is closed after it.
ManagerActsAreHeard ==
    [][(\/ sent' # sent \/ manager' # manager
        \/ \E caller \in Accounts, a \in BridgeAmounts :
               BridgeToCore(caller, a) \/ BridgeFromCore(caller, a)) => ~ManagerIsDark']_vars

=============================================================================
