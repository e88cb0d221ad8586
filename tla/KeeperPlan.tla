----------------------------- MODULE KeeperPlan -----------------------------
(***************************************************************************)
(* What the keeper decides from one round of calls to the chain.  A round  *)
(* is the sequence of what the calls returned, in the order of `Calls`, in *)
(* raw USDC units; two more calls re-read the idle USDC to verify a bridge.*)
(* The code's floats are taken as exact: amounts are integers in units of  *)
(* 1/BufferDen of a raw unit.                                              *)
(***************************************************************************)
EXTENDS Integers

CONSTANTS
    BufferNum, BufferDen,         \* KeeperConfig.buffer_fraction
    ToleranceNum, ToleranceDen    \* share of a bridge that verification wants to see

ASSUME PlanAssumption ==
    /\ {BufferDen, ToleranceDen} \subseteq Nat \ {0}
    /\ BufferNum \in 0 .. BufferDen - 1
    /\ ToleranceNum \in 1 .. ToleranceDen

Calls == <<"balanceOf", "reservedAssets", "totalPendingRedeemShares",
           "convertToAssets", "totalAssets", "accountMarginSummary",
           "balanceOf", "reservedAssets">>
PlanCalls == 6       \* a round to plan from
AllCalls == 8        \* ... and to verify with

\* idle_assets takes two calls, and clamps what they disagree on
Unreserved(balance, reserved) == IF balance > reserved THEN balance - reserved ELSE 0

Idle(r) == Unreserved(r[1], r[2])
Pending(r) == r[4]
Nav(r) == r[5]
CoreFree(r) == r[6]
IdleAgain(r) == Unreserved(r[7], r[8])

\* evaluate_gate: readings that contradict each other, or a book without prices
GateAllows(r, bookPriced) ==
    /\ bookPriced
    /\ Idle(r) <= Nav(r)
    /\ Pending(r) > 0 => Nav(r) # 0

\* plan_liquidity: what idle USDC should be, what is missing, what to ask of Core
Need(r) == BufferDen * Pending(r) + BufferNum * Nav(r)

\* Mutant: idle USDC does not count
DeficitFromScratch(r) == Need(r)
Deficit(r) ==
    IF BufferDen * Idle(r) >= Need(r) THEN 0 ELSE Need(r) - BufferDen * Idle(r)

Bridge(r) ==
    IF Deficit(r) <= BufferDen * CoreFree(r) THEN Deficit(r) ELSE BufferDen * CoreFree(r)
Shortfall(r) == Deficit(r) - Bridge(r)

\* _to_raw: the call carries whole raw units
Requested(r) == Bridge(r) \div BufferDen

\* Mutant: a receipt is treated as success
ReceiptIsEnough(r) == TRUE

\* _verify_idle_rose, on one re-reading
IdleRose(r) ==
    ToleranceDen * BufferDen * (IdleAgain(r) - Idle(r)) >= ToleranceNum * Bridge(r)
=============================================================================
