# A verification development for the SANDICK vault

SANDICK is an ERC-4626 vault on HyperEVM that holds USDC, keeps a weighted basket of
perpetuals on HyperCore, and lets a trade-only manager key (usually the keeper bot)
run it; command lines in Python discover markets, build baskets, derive the deploy
config and send orders. This directory holds TLA+ modules translated from the source,
TLC configurations that check them on small instances, and theorems that TLAPS
proves for every value of the constants.

## 1. The system

| Component | State | Operations | Interacts with |
|---|---|---|---|
| `contracts/src/BasketVaultBase.sol` | share balances, `totalPendingRedeemShares`, `pendingRedeemShares`, `claimableAssets`, `reservedAssets`, `highWaterMark`, `lastFeeAccrual`, fee rates and recipients, `depositCap` | deposit, mint, withdraw, redeem, requestRedeem, cancelRedeemRequest, fulfillRedeem, claim, accrueFees, setters | holders, strangers (fulfil, accrue, backstop), owner, platform admin |
| roles and switches (same file) | `owner`, `manager`, `guardian`, `paused`, `reduceOnlyMode`, `lastManagerAction`, `managerTimeout` | setters, pause, unpause | every guarded call |
| order desk (same file) | allow-list, leg caps, `epochStart`, `epochNotionalUsed`, `requirePostOnly` | submitBasket and setters | manager, HyperCore |
| `BasketVault.sol`, `HyperCoreReader.sol`, `HyperCoreActions.sol` | none of their own | bridge and order hooks, equity and spot readings | CoreWriter and the read precompiles |
| HyperCore (external) | account value, locked margin, positions, spot balance, queued actions, USDC in transit both ways | runs, drops and credits what was queued, later | the vault, through readings only |
| `VaultFactory.sol` | `vaults`, `isVault`, default platform fee | createVault, platform governance | is `protocolAdmin` of each vault |
| keeper (`sandick/keeper*.py`) | none between ticks; within one, what its calls returned | gate, liquidity job, rebalance job, verification, report; a loop of ticks | reads the vault and HyperCore call by call, signs as manager |
| `rebalance.py`, `onchain.py` | none | deltas, lots, reduce-only flags; asset ids | keeper |
| `allocator.py`, `weights.py`, `basket.py` | the basket file | which files load, weights, leverages, sizes | keeper, exec_cli |
| `execute.py`, `exec_cli.py`, `safety.py` | none | plan, limits, confirmation, kill switch, one order per leg, exit code | the exchange, through the SDK |
| `discovery.py`, `admin.py`, `deploy_config.py`, `keeper_cli.py` | catalog snapshot, basket file, deploy config | discover, build-basket, deploy-config, start the keeper | the exchange's listings; each other, through files |
| `prices.py`, `plan.py`, `cli.py`, frontend, deployment | none the above rely on | input and output | |

What is hard about it:

- **No call settles.** A CoreWriter call is queued, run later, and dropped without
  a trace when the account cannot cover it. Between the ERC20 transfer and the
  credit to spot the USDC is in no reading at all.
- **Everybody calls at once.** Fulfilment, fee accrual and the backstop are open to
  anyone; redeemers, depositors and the manager interleave with HyperCore's steps.
- **Two exits and three ledgers.** Synchronous exits and the queue share the idle
  USDC; escrowed shares, claimable USDC and the reserve must agree on every path.
- **Rounding.** Conversions, exit fee, virtual shares and fee mints each round; so do
  sizes, to lots, and asset prices, to ticks.
- **Time.** Streaming fees, the high-water mark, the notional epoch and the dark
  manager's timeout are all sampled only when somebody calls.
- **The keeper reads a moving chain.** A tick makes its calls one after another,
  drops the gate's readings and reads again, sends up to two transactions with a nonce
  that does not see the first, and verifies by a third reading, while holders, humans
  with the same key and HyperCore act, calls raise and the process may be killed.
- **Files outlive what they describe.** Asset ids are positions in lists that grow; a
  keeper trades by ids that an earlier command looked up for an earlier basket.

What makes each component correct: the ledgers add up and the escrow covers the
queue; what is owed to claimers lies in the vault; no call takes value from those
who stay; fees charge each second once, at the rate then in force, and no more than
they say; the brakes hold; the epoch counter counts every leg once; the backstop
opens only on silence; when the manager disappears, exits still complete; a healthy
keeper report means a covered queue, and the keeper comes to serve it; no rebalance
flips a position, and the book comes to rest; an asset id denotes the coin it was
looked up for; a run uses the capital it was given, spends no more than its limit, and
exits with 0 only if every leg was taken.

## 2. The modules

| Module | Models | How it corresponds to the code |
|---|---|---|
| `FixedPoint` | OpenZeppelin's `mulDiv`, the exit-fee formulas | totals over accounts are cardinalities of disjoint unions, so that the laws of sums follow from those of finite sets |
| `VaultControl` | roles, switches, clock, heartbeat | one action per setter; a modifier is a guard |
| `OrderDesk` | `submitBasket` and its limits | a leg is asset, notional and reduce-only flag; a batch is accepted whole or disabled (a revert); `sent` is a log of legs, `capsSince` an auxiliary mark in it |
| `HyperCore` | the hooks of `BasketVault.sol`, the reader, and the external account | calls append to `coreQueue`; `RunAction` runs or drops the head; `CreditSpot` and `LeaveCore` deliver USDC |
| `BasketVault` | the rest of `BasketVaultBase.sol`, composed with the modules above | one action per external function; `Accrue` is the `_accrueFees` each call starts with, `AccruedShares` and `AccruedSupply` the ledger it leaves for the rest of the call |
| `RedemptionQueue` | what the asynchronous exit promises, abstractly | no price, fee or bridge: shares wait, are taken back or turned into a promise within free funds, and a promise is paid whole |
| `VaultProperties`, `DeskProperties` | the properties of vault and desk | `VaultProperties` instantiates `RedemptionQueue` over the vault's variables |
| `DarkManager` | the vault after its manager falls silent, with fairness | before the first tick the vault is in use; afterwards only permissionless calls and HyperCore act |
| `KeeperPlan` | `keeper_guard.py` and `keeper.py`: what one round of readings decides | a round is the sequence of what the calls returned; gate, deficit, bridge, shortfall and verification are operators on it |
| `Keeper` | the loop of `keeper_bot.py` over `keeper_chain.py`, composed with the whole vault | one chain call per step; `pc` is the place in the tick, `mempool` the key's transaction not yet mined, `liquidity` and `report` the results the code returns |
| `RebalanceBook` | the rebalance job: `rebalance.py`, `onchain.py` and its half of `keeper_bot.py` | positions are read, then prices; a batch is pooled, mined, run leg by leg; sizes are whole lots |
| `Allocation` | `basket.py`, `weights.py`, `allocator.py` | operators on a basket; fractions brought to common multiples, so that all is exact |
| `Listing` | `discovery.py`, `admin.py`, `deploy_config.py`, `hip3_asset_id`, the start of `keeper_cli.py`, and the exchange's listings (external) | one action per command, over the files the commands leave |
| `Execution` | `exec_cli run`: `execute.py`, `safety.py`, the checks of `prices.py`; composed with `Listing` | `pc` is the place in the run; one leg per step, with every answer and with calls that raise |
| `MCVault`, `MCDark`, `MCDesk`, `MCKeeper`, `MCBook`, `MCTools` | values and action constraints for TLC | |
| `FixedPointProofs`, `DeskProofs`, `VaultProofs`, `ValueProofs`, `QueueProofs`, `KeeperProofs`, `BookProofs`, `ToolsProofs` | lemmas and theorems | |

`BasketVault` EXTENDS `OrderDesk` (which EXTENDS `VaultControl` and `FixedPoint`)
and `HyperCore`; `DarkManager` and `Keeper` EXTEND `VaultProperties`; `Execution`
EXTENDS `Listing`, which EXTENDS `Allocation`. Definitions marked
`Mutant:` are plausible bugs of the definition they precede; no specification uses
them, and each run's properties are known to fail when one is put in its place.

Abstractions, all named here:

- A revert is a disabled action; a call is one step (each is `nonReentrant` or makes
  no external call in the middle of its updates; views into HyperCore are readings).
- USDC in wallets is one pool, `outside`. The `receiver` of a withdrawal is a wallet.
  A redemption by a spender with an allowance is the owner's own.
- HyperEVM and HyperCore amounts have the same unit (`coreScale` = 1); the uint64
  bound is `MaxCoreAmount`. Token amounts are naturals: uint256 arithmetic reverts
  on overflow and the amounts here are far below it.
- On the desk an order's side, price and size are one number, its notional; time in
  force is the `postOnly` flag in the log. In the vault's runs fills are `MarketMove`:
  any change of account value in `PnlMoves` while margin is locked, and any new locked
  margin. `RebalanceBook` has the positions and fills themselves, without the ledger.
- HyperCore runs the vault's actions in the order they were queued, and it does not
  lose USDC that it accepted.
- `usdcSystemAddress`, reader and token index are immutable and correct.
- The Python code's floats are exact numbers: integers in units of 1/`BufferDen`,
  lots, ticks and common multiples. What rounds explicitly in the code (raw units,
  lots, ticks) rounds here.
- In `Keeper` the rebalance half sends some batch or none and reports some outcome;
  `RebalanceBook` decides which. The node keeps one transaction per key, because
  each takes the nonce of the last mined one: a second is refused or replaces it.
- In `RebalanceBook` the only effects of the vault are that a batch reverts in wind-down,
  as a whole, for one opening leg, and that HyperCore clips a reduce-only leg.
- `Execution` models runs of a long basket only. A short one is not its mirror image: a
  sell has a lowest price and no highest (`execute.py:51`), so that when prices rise its
  notional passes any limit; `SpendWithinLimit` says nothing of sells. The leverage sent
  before each leg, which changes no size, is left out.

## 3. The runs

Units are scaled down: `BPS = 10`, `YEAR = 2` ticks, two virtual shares, amounts from
1 to 10. A set left empty in a cfg switches off the calls that draw arguments from it,
so that each run spends its states on one question.

| Run | Question | Bounds, and why they are enough |
|---|---|---|
| `VaultLedger` | do the ledgers add up, does any rounding favour the caller, do the deposit limits keep NAV within the cap, and does the vault implement the redemption queue? | two holders, deposits of 1 and 3, share amounts 1 and 3, an exit fee that rounds, donations that move the price off 1:1, caps above and below NAV: partial and whole cancellations and fulfilments of each other's requests, transfers to the vault itself |
| `VaultBridge` | are claims backed, is what `maxRedeem` allows payable, is no USDC lost, and does a fulfilment leave the others their cover? | 2 USDC, up to two queued actions, gains and losses of 2, negative account value, locked margin, two ticks so that the backstop opens |
| `VaultFees` | do fees charge each moment and each gain once, at the right rate, however often anyone accrues, and no more than they say? | 10 USDC with gains of 5, all three fees, both fee setters, two ticks |
| `VaultControls` | do the brakes hold, and does every act of a manager count? | two accounts that exchange owner, manager and guardian, one opening and one closing leg, one bridge |
| `DarkExit` | with a silent manager, do exits complete? | one redeemer, 2 USDC anywhere between wallet, vault, transit, spot and perp when the manager falls silent |
| `Desk` | is the epoch's counter exact, what may any window carry, and does the backstop need silence? | three legs in four ticks, epochs of two ticks, two sets of caps, an asset cap, two managers, two timeouts |
| `Keeper` | what does a healthy report mean, what may a tick ask of Core, and does the keeper come to serve the queue? | one deposit of 2 USDC (4 shares), requests of 2 shares, human bridges of 1 USDC, one transaction pending, one verification re-reading; each of the tick's calls is a step, between which anybody may act |
| `Book` | can a rebalance flip a position, does a filled batch hit its target, what does `cleared` mean, and does the book come to rest? | two coins of equal weight, up to 2 lots each bought by humans and 3 held, two prices of one coin, one batch pooled, one running, two verification re-readings, partial fills |
| `Tools` | do the keeper's asset ids denote its basket; does a plan use its capital; what do exit code and spending say? | two networks, the core dex and two builder dexes, three listings, one delisting, two coins; six baskets by hand, four of which are refused (one by dividing by zero); three command lines; prices of 1 and 4 |

Three more runs find a violation: what a comment or a test says and the code does not do.

| Run | Claim | What happens |
|---|---|---|
| `ReservedBridged` | reserved USDC is excluded from idle liquidity, and `bridgeToCore` moves idle USDC | `bridgeToCore` checks no reserve: fulfil, then bridge everything, and the claim reverts while every priced call underflows |
| `DarkExitTrapped` | a dark manager can delay exits but never trap them | margin locked by positions only the manager can close makes HyperCore drop every pull |
| `KeeperReport` | `submitted`: a bridge tx was actually sent | the rebalance half of the tick raises, and `run_loop` replaces the report by one that has submitted nothing |

Action constraints, of runs whose state would otherwise not fit: `SwitchesRest`,
`PostOnlyRests` and `RolesRest` keep at rest switches that play no part in a run
(`VaultControls` moves them all). `FewDisturbances` of `MCKeeper`: one deposit fills the
empty vault and nobody gives shares away to it; the human bridges to Core while Core is
empty; while a tick runs holders and the human act once at most; an asset once listed
stays listed; calm comes between two ticks. `FewDisturbances` of `MCBook`: a stray
position or a wind-down comes alone and stays; prices stand still from then on and while
a batch waits to be mined; calm comes between two ticks. `FewCommands` of `MCTools`: dexes
before markets; nothing listed on mainnet; one discovery; baskets by hand, and dexes
named on the command line, only where nothing was discovered; while a keeper runs only
the exchange changes; a run starts before there is a deploy config and is the last
command, with prices moving while it is under way. They leave out nothing that a
property's mutant needs. The theorems hold without any of them: `IdsAlwaysDenote`, for one,
lets a dex be deployed after markets were listed.

Deadlock is checked except in `DarkExit` (all exits complete, nothing more to do)
and in the desk's run (the owner may renounce while paused).

`VaultBridge` and `VaultLedger` run under `PrudentSpec`, in which the manager bridges
idle USDC only. The contract does not enforce it, which is what `ReservedBridged` shows,
but the keeper does (theorem `KeeperIsPrudent`); the other vault runs use `Spec`.

### The refinement

`ImplementsQueue` is the specification of `RedemptionQueue` under the mapping
`waiting <- pendingRedeemShares`, `owed <- claimableAssets`, `funds <- usdc`. Requests
map to `Join`, cancellations to `Leave`, fulfilments to `Promise`, claims to `Keep`,
and everything that moves the vault's USDC to `MoveFunds`, which must leave the promises
covered; all else stutters.

### What the keeper's properties say

`HealthyMeansCovered` and `LoneTickNeverOverdraws` are about ticks that began with
nothing on its way and that nobody else disturbed (`alone`), with every fault and every
order of settlement left in. They are false of other ticks: one that begins while USDC is
in transit sees a NAV without it, asks for it a second time, and may take the arrival of
an earlier bridge for its own. `ClearedMeansBalanced` is about ticks whose last reading of
the positions found nothing in flight. With two coins it would hold without that, but the
proof for any number of coins failed there, for a good reason: with three, the weights
may be within the threshold between two fills of a batch and beyond it after the last, and
the bot, which only sees weights, reports the drift as cleared. `KeeperServes` and `BookSettles` are about all
behaviours in which faults and other actors at some point cease.

### Fairness

`DarkSpec`. Weak fairness: the clock advances; HyperCore runs what is
queued, credits spot and credits HyperEVM; a holder with a claim takes it (nothing but
the claim itself can disable it). Strong fairness: `fulfillRedeem` and the backstop,
which anyone may call and which others' calls disable again and again (a synchronous
redeemer takes the idle USDC, the queue of CoreWriter is full); a bot that keeps trying
gets its turn. Nothing is assumed of the manager, the owner, depositors or the market.
In `DarkExit` margin is not locked (`MarginLevels` = {0}); `DarkExitTrapped` is the same
run with it. `ShareAmounts` is {2} there, because a request cut into slices that each
round to 0 is fulfilled for nothing, which would answer a different question.

`KeeperSpec` and `BookSpec`. Weak fairness of the bot's next step (the loop sleeps and
ticks for ever, and its calls return or raise), of mining and of HyperCore's steps. The
auxiliary `calm` marks the moment, which need not come, after which no call fails for a
reason of its own, the process is not killed, the node accepts and mines what it is
given, orders fill and nobody else acts; the liveness properties have `<>calm` as their premise. In
`BookSpec` a calm tick begins when the last batch has run: the interval between ticks
(60 s by default) is long against settlement. `Keeper` assumes no such thing.

### Smaller disagreements and dangers met while modelling, without a run

Vault. NAV is not continuous across the bridge, although `BasketVault.sol:98-99` says that it is: until
Core credits spot, the USDC is in no term of `totalAssets`. The backstop may pull more
than is owed, although `BasketVaultBase.sol:69-70` says never, since the deficit ignores what earlier calls
have queued. The epoch is not a rolling window, as `:78-79` and `:90` call it: a batch late in
one epoch and one early in the next pass twice the cap, which `WindowWithinTwiceCap`
bounds. `managerIsDark` is strict where its comment says "at least"; an `epochLength` of
0 does not disable the accounting but makes the budget final;
a fee that has grown to the whole NAV before anyone accrues mints nothing at all
(`BasketVaultBase.sol:594`), which `PokingCostsNothing` has to leave out;
`withdraw(maxWithdraw(owner))` reverts when an exit fee is set; `deposit(0)` above the cap
fires the check that is said never to fire. A redeem whose payment rounds to 0 can
lift the price past what idle USDC covers, which is why `QueueStaysCovered` is about
steps that burn queued shares only.

Keeper. The nonce is that of the `latest` block (`keeper_chain.py:300`), so a tick's two
transactions compete. USDC in Core's spot account is invisible to it. A deficit of a
fraction of a raw unit is floored to a bridge of 0, sent, and verified against the
fraction. Overlapping settlement doubles a batch. A position outside the basket blocks
the gate, and with it the redemptions. In preview mode (`--once` without `--execute`, which
the monitoring policy's cron line uses) a report is healthy with redemptions unserved.
Basket, deploy config and network are never compared (`keeper_cli.py:62`).

Command lines. A group without members makes the weights sum to less than 1; the
allocator scales this away, the keeper shrinks the book by it at each rebalance. If such a
group has all the weight, the file loads and the allocator divides by zero
(`allocator.py:125`); `Sizable` has that refusal among the others, and it was the attempt to
prove `PlansUseCapital` that showed it missing. Running
again after a failure buys filled legs a second time; a call that raises after some legs
(exit 2) loses what was sent. A partial fill is reported as "all legs filled". A
leverage with a fraction is truncated (`execute.py:87-88`). `build-basket` drops the dex an asset
was selected from; its ambiguity error is unreachable with the default `--dex`
(`admin.py:68`); a coin selected twice fails only when the file is loaded; `--group` without
group weights is ignored; delisted coins are accepted from old snapshots. `--dex-name` of
another dex is combined with the positions on the basket's own dex, and `--deployer`
matches in addition to the name, not instead of it (`deploy_config.py:126`). `plan.py` says that execution consumes its plan, but
`exec_cli` plans again.

## 4. The proofs

For all accounts, batches, amounts, fees, prices, baskets and bounds allowed by the
named assumptions: `ControlAssumption`, `DeskAssumption`, `CoreAssumption` and
`VaultAssumption` for the vault; also `PlanAssumption` and `KeeperAssumption` for the
keeper; `BookAssumption` for the book; `AllocationAssumption`, `ListingAssumption`,
`BasketAssumption` and `ExecutionAssumption` for the command lines. They say that
constants are numbers of the kind the code has (a tolerance, for one, is a fraction above 0
and at most 1) and that baskets come out of their files with numbers for weights and leverages;
TLC evaluates each in a run. Every invariant and every action property that a passing
run checks is a theorem:

| Module | Theorem | States |
|---|---|---|
| `VaultProofs` | `Invariance` | `Spec => []Inv` |
| | `TypeCorrect` | `Spec => []TypeOK` |
| | `BooksAlwaysBalance` | `Spec => []BooksBalance` |
| | `EscrowAlwaysBacked` | `Spec => []EscrowBacked` |
| | `AccrualAlwaysPossible` | `Spec => []AccrualNeverReverts` |
| | `RedeemAlwaysHonoured` | `Spec => []MaxRedeemHonoured` |
| | `ClaimsAlwaysBacked` | `PrudentSpec => []ClaimsBacked` |
| `ValueProofs` | `SharePriceKept` | `Spec => SharePriceNeverFalls` |
| | `OnlyRedeemersPaid` | `Spec => PaysOnlyRedeemers` |
| | `NothingEverLost` | `Spec => NothingLost` |
| | `DilutionBounded` | `Spec => []DilutionWithinFees` |
| | `CapAlwaysRespected` | `Spec => []CapRespected` |
| | `PokingIsFree` | `Spec => PokingCostsNothing` |
| | `RatesApplyForward` | `Spec => RatesNotRetroactive` |
| | `FeesSettled` | `Spec => FeesSettleOnce` |
| | `BrakesHold` | `Spec => EmergencyBrake` |
| | `ManagerHeard` | `Spec => ManagerActsAreHeard` |
| | `DeskWithinVault` | `Spec => [](UsedMatchesSent /\ WindowWithinTwiceCap /\ BackstopNeedsSilence)` |
| `QueueProofs` | `QueueImplemented` | `PrudentSpec => ImplementsQueue` |
| | `CoverKept` | `Spec => QueueStaysCovered` |
| `KeeperProofs` | `KeeperIsPrudent` | `KeeperSafety => PrudentSpec` |
| | `KeeperKeepsPromises` | `KeeperSafety => []ClaimsBacked /\ ImplementsQueue` |
| | `KeeperTyped` | `KeeperSafety => []KeeperTypeOK` |
| | `HealthyIsCovered` | `KeeperSafety => []HealthyMeansCovered` |
| | `LoneTicksAreModest` | `KeeperSafety => []LoneTickNeverOverdraws` |
| `BookProofs` | `BookTyped` | `BookSpec => []BookTypeOK` |
| | `BookNeverFlips` | `BookSpec => []NeverFlips` |
| | `ClearedTicksBalance` | `BookSpec => []ClearedMeansBalanced` |
| | `FilledBatchesHitTargets` | `BookSpec => []FilledBatchHitsTarget` |
| `ToolsProofs` | `ToolsInvariance` | `ToolsSpec => [](FilesInv /\ RunInv)` |
| | `ToolsTyped` | `ToolsSpec => []ToolsTypeOK` |
| | `IdsAlwaysDenote` | `ToolsSpec => []IdsDenoteBasket` |
| | `PlansUseCapital` | `ToolsSpec => []PlanUsesCapital` |
| | `CleanExitsAccepted` | `ToolsSpec => []CleanExitMeansAccepted` |
| | `SpendingLimited` | `ToolsSpec => []SpendWithinLimit` |
| `DeskProofs` | `EpochCounterExact` | `DeskSpec => []UsedMatchesSent` |
| | `BackstopAlwaysNeedsSilence` | `DeskSpec => []BackstopNeedsSilence` |
| | `NoWindowBeyondTwiceCap` | `DeskSpec => []WindowWithinTwiceCap` |

**Ledgers.** `Inv` joins the type invariant, the books, the escrow and the treasury behind the
platform fee. None of them is inductive alone: a burn stays in the naturals only if
the entries sum to the supply, a fulfilment burns from the escrow only if the queue is
covered, and an accrual mints to a holder only if the fee has a treasury. The proof
groups the conjuncts by the state they read (`TokensOK`, `RequestsOK`, `ClaimsOK`,
`AccrualOK`, `ConfigOK` and the types of control, desk and Core), shows for each
action what it does to its groups, and lets the rest be unchanged. The laws of sums
(`FixedPointProofs`) come from the library's facts on cardinalities of disjoint unions.

`ClaimsAlwaysBacked` needs more arithmetic: every payment and reservation must stay
within the idle USDC. For `withdraw` that is its guard; for `redeem` it is
`RoundTrip`, a conversion of USDC to shares and back never gains, which with
monotone conversion bounds the payment by the idle USDC (`RedeemWithinIdle`). The same
lemma gives `RedeemAlwaysHonoured`. The prudent manager is the assumption left, and
`ReservedBridged` shows that it cannot be dropped.

**Value.** Every step of the vault while Core rests is `Fair` (`StepsFair`): it enters USDC
for shares worth at most as much, takes USDC out for shares worth at least as much, adds
a gift, or mints fee shares only. `FairEntry` and `FairExit` are the two inequalities of
natural numbers from which `SharePriceKept` follows, whatever rounding each function
uses. `OnlyRedeemersPaid` uses the same bound on exits. `NothingEverLost` follows the USDC
from pool to pool, with one lemma for what HyperCore runs or drops.

**Fees.** `DilutionBounded` bounds the floor in the fee mint (`FloorOfRest`);
`CapAlwaysRespected` is a round trip the other way, shares down and USDC up
(`RoundTripUp`). `FeesSettled` and `PokingIsFree` rest on what an accrual leaves: the
clock at now and the mark at the price or above it, so that no gain is left to charge
(`GainSettled`). `PokingIsFree` then compares two accruals with one at the end: streamed
fees add up to at most the fee over both intervals (`StreamsAddUp`), taking `f` and then
`g` of a NAV leaves the old shares at least what taking `f + g` does (`TwoFeesInOne`), and
the supply after a fee is the greatest that leaves them that (`SupplyAfterFee`).

**The heartbeat.** `ManagerHeard` needs the types only: each of the calls by which a manager
trades, bridges or takes office sets the heartbeat in the same step (`ActsAreRecorded`), and
no other step changes what the property looks at.

**The queue.** `QueueImplemented` has one lemma per operation of the queue and uses
`ClaimsBacked` in both states, by which a fulfilment promises only free USDC.
`CoverKept` is about the floor of a product after a burn at most at the price.
`CoverExit` states the fact on four numbers, with the division multiplied out
(`QueueCovered`): serving `n` of the waiting shares at no more than their worth leaves
enough for the rest, since what underpaying adds to the price it also leaves in the vault.

**The keeper.** `KeeperInv` says that roles rest and that what waits to be mined is a bridge
from Core or a batch the keeper built; each step of the composition is then a step
of `PrudentNext` or leaves the vault alone (`KeeperStepPrudent`). The human of the composition
bridges idle USDC only, as `bridgeToCore`'s comment has it; the keeper itself never bridges to Core.
So `KeeperIsPrudent` carries what is proved of `PrudentSpec` over to the live system, with
any readings, raising calls, crashes and replaced transactions.

`KeeperKnows` adds to it the types of the tick, and the invariants of the vault. The two
theorems about lone ticks rest on `LoneInv`. All that can be on its way in such a tick is its
own bridge, in one of four places (`OnWay`: in the node's pool, in the queue of CoreWriter,
in spot with its second action still queued, on its way back), and `Settled`, the NAV once all
has arrived, is the same in each. `Fresh` ties each reading of the plan to the state at that
moment; `PlannedFor` keeps, while the bridge travels, that idle USDC and what is still on its
way are together what was read and what was asked for. What verification compares then leaves
only the place where everything has arrived, which needs that the tolerance is above 0. On the
side of arithmetic, `BridgeWithinNeed` and `BridgeCoversQueue` bound the request from both sides,
although it is rounded down to raw units.

**The book.** `BookInv` puts the sign of every position, of the last reading, and of every
order on its way on the basket's side: an order that trades against it is reduce-only, and
HyperCore clips those at zero, so even a batch sized on a stale book cannot flip one.
`TickInv` says what an undisturbed tick knows: the book was settled when it read positions,
and they are still what it read. `PlanInv` is the state of a batch under way: a coin either waits
for its order with the position that was read, or is less than a lot from its target.

**The desk.** Its three theorems are about `DeskSpec`, the desk under the roles, switches and
clock without the vault around it; `DeskWithinVault` carries them over to `Spec`, where
each step is a step of that desk, leaves it alone, or is a bridge that touches the
heartbeat. `HeartbeatInv` adds to the types that no leg is younger than the last
heartbeat, nor the heartbeat than the clock. `EpochInv` adds to
that the fact which makes a new epoch start from zero: no leg lies at or beyond the end
of the running epoch, so when it has elapsed none of the old legs counts in the next.
The log's totals before and after a batch are related by `TotalUnion` and `TotalShift`.
`WindowInv` splits a window at the start of the running epoch. What it holds of that epoch is
within the counter, hence within the cap; what it holds of earlier ones is within
one cap if the window reaches into the running epoch, and within two if it ended before.

**The command lines.** The proof splits in two. `FilesInv` is about what commands leave behind: a
config's ids denote the coins they were looked up for (`StandsFor`), which only-appended lists of
dexes and markets preserve whatever is delisted, and a keeper's ids are among its config's.
`RunInv` is about a run: the plan is the one that sizing made of the quoted prices and that passed
the limits; nothing is sent before the last question; what the exchange has is among the orders
sent so far, and every order reported as accepted is there; what was paid is within
the worth of the accepted legs at their limits. That the orders sent
one after another are all the legs with a size, each once, is a lemma on the k-th smallest element of a
finite set (`RankOnto`, `LegsInOrder`). `PlansUseCapital` and `SpendingLimited` sum roundings over the legs of
any basket: `TotalSum` and `TotalScale` prove that totals add up and scale by bijections
between sets of tokens, without induction.

**Model-checked only.** Liveness: `ExitsComplete`, `KeeperServes` and `BookSettles`. Fairness and
ENABLED are out of the prover's reach. What the three runs that find a violation
claim is false, and no theorem.

## 5. What is not modelled, and the plan

Not modelled: `VaultFactory` (a registry, and platform governance over several vaults; the
vault's `protocolAdmin` is an account here); `plan_to_onchain_orders` and
`targets_from_plan`, which nothing in `sandick` calls; the limit prices of on-chain orders;
`cli.py` and `plan.py`, which print and write plans no program reads; `exec_cli verify`,
which only reads; the network calls themselves, ABI and CoreWriter encodings, keys,
addresses, argument parsing and the wording of reports; the frontend; build and
deployment scripts; gas, events, metadata.

What could come next, in order:

1. The steps that make up the liveness arguments, as theorems without fairness: that serving
   the queue never lengthens the way to an exit, and what a calm tick achieves.
2. Keeper and book in one module, so that the two jobs compete for the nonce with the
   orders they really compute.
3. `VaultFactory`: several vaults behind one platform admin.
