------------------------------ MODULE DeskProofs ------------------------------
(***************************************************************************)
(* Proofs about the roles, the clock and the order desk, for every set of  *)
(* batches, caps and timeouts: types, the silence the backstop needs, and  *)
(* the exactness of the epoch's counter.                                   *)
(***************************************************************************)
EXTENDS DeskProperties, FixedPointProofs

-----------------------------------------------------------------------------
LEMMA ControlKeepsTypes ==
    ASSUME ControlTypeOK, ControlNext
    PROVE  ControlTypeOK' /\ now <= now'
<1> USE ControlAssumption DEF ControlTypeOK, controlVars, roleVars, switchVars, heartbeatVars
<1>1. CASE Tick
  BY <1>1 DEF Tick
<1>2. ASSUME NEW caller \in Accounts, Pause(caller) PROVE ControlTypeOK' /\ now <= now'
  BY <1>2 DEF Pause
<1>7. ASSUME NEW caller \in Accounts, Unpause(caller) PROVE ControlTypeOK' /\ now <= now'
  <2>1. paused' \in BOOLEAN
    BY <1>7, Zenon DEF Unpause
  <2>2. UNCHANGED <<now, owner, manager, guardian, reduceOnlyMode,
                    lastManagerAction, managerTimeout>>
    BY <1>7 DEF Unpause
  <2>3. now \in Nat
    OBVIOUS
  <2> QED BY <2>1, <2>2, <2>3
<1>3. CASE \E caller \in Accounts, enabled \in BOOLEAN : SetReduceOnlyMode(caller, enabled)
  BY <1>3 DEF SetReduceOnlyMode
<1>4. CASE \E caller \in Accounts, timeout \in Timeouts : SetManagerTimeout(caller, timeout)
  BY <1>4 DEF SetManagerTimeout
<1>5. CASE \E caller \in Accounts, to \in RoleCandidates : SetManager(caller, to)
  BY <1>5 DEF SetManager
<1>6. CASE \E caller \in Accounts, to \in RoleCandidates \cup {NoOne} :
              SetGuardian(caller, to) \/ TransferOwnership(caller, to)
  BY <1>6 DEF SetGuardian, TransferOwnership
<1> QED BY <1>1, <1>2, <1>3, <1>4, <1>5, <1>6, <1>7 DEF ControlNext

LEMMA TouchKeepsTypes ==
    ASSUME ControlTypeOK, TouchManager
    PROVE  ControlTypeOK' /\ now' = now
BY DEF ControlTypeOK, TouchManager, roleVars, switchVars

LEMMA BatchTypes ==
    ASSUME NEW orders \in Batches
    PROVE  /\ orders \in Seq(Legs)
           /\ BatchNotional(orders) \in Nat
<1> DEFINE f == [i \in DOMAIN orders |-> orders[i].notional]
<1>1. orders \in Seq(Legs)
  BY DeskAssumption
<1>2. PICK k \in Nat : DOMAIN orders = 1 .. k
  BY <1>1
<1>3. IsFiniteSet(DOMAIN orders)
  <2>1. 1 \in Int /\ k \in Int
    OBVIOUS
  <2> QED BY <1>2, <2>1, FS_Interval
<1>4. \A i \in DOMAIN orders : f[i] \in Nat
  <2>1. \A i \in DOMAIN orders : orders[i] \in Legs
    BY <1>1
  <2> QED BY <2>1 DEF Legs
<1>5. Total(f, DOMAIN orders) \in Nat
  BY <1>3, <1>4, TokensFinite
<1> QED BY <1>1, <1>5 DEF BatchNotional

\* What a batch adds to the log
LogEntries == [leg : Legs, at : Nat, postOnly : BOOLEAN]
Stamped(orders) ==
    [i \in DOMAIN orders |-> [leg |-> orders[i], at |-> now, postOnly |-> requirePostOnly]]

LEMMA StampedTypes ==
    ASSUME ControlTypeOK, DeskTypeOK, NEW orders \in Batches
    PROVE  Stamped(orders) \in Seq(LogEntries)
<1>1. orders \in Seq(Legs)
  BY BatchTypes
<1>2. PICK k \in Nat : DOMAIN orders = 1 .. k
  BY <1>1
<1>3. \A i \in 1 .. k : orders[i] \in Legs
  BY <1>1, <1>2
<1>4. now \in Nat /\ requirePostOnly \in BOOLEAN
  BY DEF ControlTypeOK, DeskTypeOK
<1>5. \A l \in Legs : [leg |-> l, at |-> now, postOnly |-> requirePostOnly] \in LogEntries
  BY <1>4 DEF LogEntries
<1>6. Stamped(orders) \in [1 .. k -> LogEntries]
  BY <1>2, <1>3, <1>5 DEF Stamped
<1> QED BY <1>2, <1>6

LEMMA DeskKeepsTypes ==
    ASSUME ControlTypeOK, DeskTypeOK, DeskNext
    PROVE  ControlTypeOK' /\ DeskTypeOK' /\ now' = now
<1> USE DEF DeskTypeOK, limitVars, epochVars
<1>1. ASSUME NEW caller \in Accounts, NEW orders \in Batches, SubmitBasket(caller, orders)
      PROVE  ControlTypeOK' /\ DeskTypeOK' /\ now' = now
  <2>1. ControlTypeOK' /\ now' = now
    BY <1>1, TouchKeepsTypes DEF SubmitBasket
  <2>2. orders \in Seq(Legs) /\ BatchNotional(orders) \in Nat
    BY BatchTypes
  <2>3. Stamped(orders) \in Seq(LogEntries)
    BY StampedTypes
  <2>4. sent' \in Seq(LogEntries)
    BY <1>1, <2>3 DEF SubmitBasket, Stamped, LogEntries
  <2>5. epochNotionalUsed' \in Nat /\ epochStart' \in Nat
    BY <1>1, <2>2 DEF SubmitBasket, UsedAfter, UsedBefore, ControlTypeOK
  <2>6. /\ allowedAsset' = allowedAsset
        /\ assetMaxOrderNotional' = assetMaxOrderNotional
        /\ requirePostOnly' = requirePostOnly
        /\ caps' = caps /\ capsSince' = capsSince
    BY <1>1 DEF SubmitBasket
  <2> QED BY <2>1, <2>4, <2>5, <2>6 DEF LogEntries
<1>2. ASSUME NEW caller \in Accounts, NEW asset \in Assets, NEW ok \in BOOLEAN,
             SetAllowedAsset(caller, asset, ok)
      PROVE  ControlTypeOK' /\ DeskTypeOK' /\ now' = now
  BY <1>2 DEF SetAllowedAsset, ControlTypeOK, controlVars, roleVars, switchVars, heartbeatVars
<1>3. ASSUME NEW caller \in Accounts, NEW asset \in Assets, NEW cap \in AssetCaps,
             SetAssetOrderCap(caller, asset, cap)
      PROVE  ControlTypeOK' /\ DeskTypeOK' /\ now' = now
  <2>1. cap \in Nat
    BY DeskAssumption
  <2> QED BY <1>3, <2>1 DEF SetAssetOrderCap, ControlTypeOK, controlVars, roleVars, switchVars, heartbeatVars
<1>4. ASSUME NEW caller \in Accounts, NEW enabled \in BOOLEAN,
             SetRequirePostOnly(caller, enabled)
      PROVE  ControlTypeOK' /\ DeskTypeOK' /\ now' = now
  BY <1>4 DEF SetRequirePostOnly, ControlTypeOK, controlVars, roleVars, switchVars, heartbeatVars
<1>5. ASSUME NEW caller \in Accounts, NEW newCaps \in CapChoices,
             SetOrderCaps(caller, newCaps)
      PROVE  ControlTypeOK' /\ DeskTypeOK' /\ now' = now
  <2>1. newCaps \in Caps /\ Len(sent) \in Nat
    BY DeskAssumption
  <2> QED BY <1>5, <2>1 DEF SetOrderCaps, ControlTypeOK, controlVars, roleVars, switchVars, heartbeatVars
<1> QED BY <1>1, <1>2, <1>3, <1>4, <1>5, DeskAssumption DEF DeskNext

-----------------------------------------------------------------------------
(* The backstop needs silence.                                              *)

\* No leg is younger than the heartbeat, nor the heartbeat than the clock.
HeartbeatInv ==
    /\ ControlTypeOK
    /\ DeskTypeOK
    /\ lastManagerAction <= now
    /\ \A i \in DOMAIN sent : sent[i].at <= lastManagerAction

LEMMA HeartbeatInit == AloneInit => HeartbeatInv
<1> SUFFICES ASSUME AloneInit PROVE HeartbeatInv
  OBVIOUS
<1>1. ControlTypeOK
  BY ControlAssumption DEF AloneInit, ControlInit, ControlTypeOK
<1>2. DeskTypeOK
  <2>1. requirePostOnly \in BOOLEAN /\ allowedAsset \in [Assets -> BOOLEAN]
    BY Zenon DEF AloneInit, DeskInit
  <2> QED BY <2>1 DEF AloneInit, DeskInit, DeskTypeOK, Caps
<1>3. sent = << >> /\ lastManagerAction = now /\ now = 0
  BY DEF AloneInit, ControlInit, DeskInit
<1> QED BY <1>1, <1>2, <1>3 DEF HeartbeatInv

LEMMA StampsAreTimes ==
    ASSUME DeskTypeOK
    PROVE  \A i \in DOMAIN sent : sent[i].at \in Nat /\ sent[i].leg \in Legs
<1>1. sent \in Seq(LogEntries)
  BY DEF DeskTypeOK, LogEntries
<1>2. \A i \in DOMAIN sent : sent[i] \in LogEntries
  BY <1>1
<1> QED BY <1>2 DEF LogEntries

\* The log after a batch: the old entries, then one per leg, stamped now.
LEMMA LogGrows ==
    ASSUME ControlTypeOK, DeskTypeOK, NEW caller \in Accounts, NEW orders \in Batches,
           SubmitBasket(caller, orders)
    PROVE  /\ Len(sent) \in Nat /\ Len(orders) \in Nat
           /\ DOMAIN orders = 1 .. Len(orders)
           /\ DOMAIN sent = 1 .. Len(sent)
           /\ DOMAIN sent' = 1 .. Len(sent) + Len(orders)
           /\ \A i \in DOMAIN sent : sent'[i] = sent[i]
           /\ \A i \in DOMAIN sent' \ DOMAIN sent :
                 /\ i - Len(sent) \in DOMAIN orders
                 /\ sent'[i].leg = orders[i - Len(sent)]
                 /\ sent'[i].at = now
<1> DEFINE log == Stamped(orders)
<1>1. sent \in Seq(LogEntries) /\ log \in Seq(LogEntries) /\ sent' = sent \o log
  BY StampedTypes DEF DeskTypeOK, SubmitBasket, Stamped, LogEntries
<1>2. orders \in Seq(Legs) /\ DOMAIN log = DOMAIN orders
  BY BatchTypes DEF Stamped
<1>3. /\ Len(sent) \in Nat /\ Len(orders) \in Nat
      /\ DOMAIN sent = 1 .. Len(sent) /\ DOMAIN orders = 1 .. Len(orders)
  BY <1>1, <1>2
<1>4. \A i \in DOMAIN orders : log[i].leg = orders[i] /\ log[i].at = now
  BY DEF Stamped
<1> HIDE DEF log
<1>5. Len(log) = Len(orders)
  BY <1>1, <1>2, <1>3
<1>6. DOMAIN sent' = 1 .. Len(sent) + Len(orders)
  <2>1. sent \o log \in Seq(LogEntries) /\ Len(sent \o log) = Len(sent) + Len(log)
    BY <1>1
  <2>2. DOMAIN (sent \o log) = 1 .. Len(sent \o log)
    BY <2>1
  <2> QED BY <1>1, <1>5, <2>1, <2>2
<1>7. \A i \in DOMAIN sent : sent'[i] = sent[i]
  BY <1>1, <1>3
<1>8. \A i \in DOMAIN sent' \ DOMAIN sent :
         i - Len(sent) \in DOMAIN orders /\ sent'[i] = log[i - Len(sent)]
  BY <1>1, <1>3, <1>5, <1>6
<1> QED BY <1>3, <1>4, <1>6, <1>7, <1>8

LEMMA HeartbeatStep == HeartbeatInv /\ [AloneNext]_<<controlVars, deskVars>> => HeartbeatInv'
<1> SUFFICES ASSUME HeartbeatInv, [AloneNext]_<<controlVars, deskVars>> PROVE HeartbeatInv'
  OBVIOUS
<1>0. /\ now \in Nat /\ lastManagerAction \in Nat
      /\ \A i \in DOMAIN sent : sent[i].at \in Nat /\ sent[i].at <= lastManagerAction
  BY StampsAreTimes DEF HeartbeatInv, ControlTypeOK
<1>1. ASSUME NEW caller \in Accounts, NEW orders \in Batches, SubmitBasket(caller, orders)
      PROVE  HeartbeatInv'
  <2>1. lastManagerAction' = now /\ now' = now
    BY <1>1 DEF SubmitBasket, TouchManager
  <2>2. \A i \in DOMAIN sent' : sent'[i].at <= now
    BY <1>0, <1>1, LogGrows DEF HeartbeatInv
  <2>3. ControlTypeOK' /\ DeskTypeOK'
    BY <1>1, DeskKeepsTypes DEF HeartbeatInv, DeskNext
  <2> QED BY <1>0, <2>1, <2>2, <2>3 DEF HeartbeatInv
<1>2. CASE DeskNext /\ UNCHANGED <<sent, now, lastManagerAction>>
  BY <1>2, DeskKeepsTypes DEF HeartbeatInv
<1>3. CASE ControlNext /\ UNCHANGED deskVars
  <2>1. ControlTypeOK' /\ now <= now'
    BY <1>3, ControlKeepsTypes DEF HeartbeatInv
  <2>2. DeskTypeOK' /\ sent' = sent
    BY <1>3 DEF HeartbeatInv, DeskTypeOK, deskVars, limitVars, epochVars
  <2>3. lastManagerAction' \in {lastManagerAction, now'}
    BY <1>3 DEF ControlNext, Tick, Pause, Unpause, SetReduceOnlyMode, SetManagerTimeout,
           SetManager, SetGuardian, TransferOwnership, heartbeatVars
  <2>4. now' \in Nat /\ lastManagerAction <= lastManagerAction' /\ lastManagerAction' <= now'
    BY <1>0, <2>1, <2>3 DEF HeartbeatInv, ControlTypeOK
  <2> QED BY <1>0, <2>1, <2>2, <2>4 DEF HeartbeatInv, ControlTypeOK
<1>4. CASE UNCHANGED <<controlVars, deskVars>>
  BY <1>4 DEF HeartbeatInv, ControlTypeOK, DeskTypeOK, controlVars, roleVars, switchVars,
         heartbeatVars, deskVars, limitVars, epochVars
<1>5. CASE DeskNext
  <2>1. \/ \E caller \in Accounts, orders \in Batches : SubmitBasket(caller, orders)
        \/ UNCHANGED <<sent, now, lastManagerAction>>
    BY <1>5 DEF DeskNext, SetAllowedAsset, SetAssetOrderCap, SetRequirePostOnly, SetOrderCaps,
           controlVars, heartbeatVars
  <2> QED BY <1>1, <1>2, <1>5, <2>1
<1> QED BY <1>3, <1>4, <1>5 DEF AloneNext

LEMMA HeardMeansSilence ==
    ASSUME HeartbeatInv
    PROVE  BackstopNeedsSilence
<1> SUFFICES ASSUME ManagerIsDark, NEW i \in DOMAIN sent
             PROVE  sent[i].at + managerTimeout < now
  BY DEF BackstopNeedsSilence
<1>1. sent[i].at \in Nat /\ lastManagerAction \in Nat /\ managerTimeout \in Nat /\ now \in Nat
  BY StampsAreTimes DEF HeartbeatInv, ControlTypeOK
<1> QED BY <1>1 DEF HeartbeatInv, ManagerIsDark

\* Whoever was manager and however the owner changed the timeout, the backstop
\* opens only when no leg was sent within the timeout.
THEOREM BackstopAlwaysNeedsSilence == DeskSpec => []BackstopNeedsSilence
<1>1. HeartbeatInv => BackstopNeedsSilence
  BY HeardMeansSilence
<1> QED BY <1>1, HeartbeatInit, HeartbeatStep, PTL DEF DeskSpec

-----------------------------------------------------------------------------
(* The epoch's counter is exact.                                            *)

\* Legs of the running epoch, under the present caps
InEpoch == {i \in UnderCaps : sent[i].at >= epochStart}

\* The counter is exact, and no leg lies beyond the epoch: when an epoch has
\* elapsed none of the old legs can count in the one that begins.
EpochInv ==
    /\ HeartbeatInv
    /\ capsSince <= Len(sent)
    /\ epochStart <= now
    /\ UsedMatchesSent
    /\ caps.epochLength # 0 =>
          \A i \in UnderCaps : sent[i].at < epochStart + caps.epochLength

LEMMA EpochInit == AloneInit => EpochInv
<1> SUFFICES ASSUME AloneInit PROVE EpochInv
  OBVIOUS
<1>1. HeartbeatInv
  BY HeartbeatInit
<1>2. /\ sent = << >> /\ capsSince = 0 /\ epochStart = 0 /\ now = 0
      /\ caps.epochLength = 0 /\ caps.epochNotionalCap = 0
  BY DEF AloneInit, ControlInit, DeskInit
<1> QED BY <1>1, <1>2 DEF EpochInv, UsedMatchesSent

\* A batch's new legs are all in the running epoch; the old ones are if it had
\* not elapsed, and none of them is if it had.
LEMMA BatchJoinsEpoch ==
    ASSUME EpochInv, NEW caller \in Accounts, NEW orders \in Batches,
           SubmitBasket(caller, orders)
    PROVE  LET new == (Len(sent) + 1) .. (Len(sent) + Len(orders))
           IN  InEpoch' = IF EpochElapsed THEN new ELSE InEpoch \cup new
<1> DEFINE new == (Len(sent) + 1) .. (Len(sent) + Len(orders))
<1>1. /\ Len(sent) \in Nat /\ Len(orders) \in Nat
      /\ DOMAIN sent = 1 .. Len(sent)
      /\ DOMAIN sent' = 1 .. Len(sent) + Len(orders)
      /\ \A i \in DOMAIN sent : sent'[i] = sent[i]
      /\ \A i \in DOMAIN sent' \ DOMAIN sent : sent'[i].at = now
  BY LogGrows DEF EpochInv, HeartbeatInv
<1>2. /\ now \in Nat /\ epochStart \in Nat /\ epochStart <= now
      /\ capsSince \in Nat /\ capsSince <= Len(sent) /\ caps.epochLength \in Nat
      /\ \A i \in DOMAIN sent : sent[i].at \in Nat
  BY StampsAreTimes DEF EpochInv, HeartbeatInv, ControlTypeOK, DeskTypeOK, Caps
<1>3. capsSince' = capsSince /\ epochStart' = IF EpochElapsed THEN now ELSE epochStart
  BY DEF SubmitBasket
<1>4. \A i : i \in InEpoch' <=> i \in DOMAIN sent' /\ i > capsSince /\ sent'[i].at >= epochStart'
  BY <1>3 DEF InEpoch, UnderCaps
<1>5. \A i : i \in InEpoch <=> i \in DOMAIN sent /\ i > capsSince /\ sent[i].at >= epochStart
  BY DEF InEpoch, UnderCaps
<1>6. DOMAIN sent' = DOMAIN sent \cup new /\ DOMAIN sent \cap new = {}
  BY <1>1
<1>7. \A i \in new : i \in InEpoch'
  <2> SUFFICES ASSUME NEW i \in new PROVE i \in InEpoch'
    OBVIOUS
  <2>1. i \in DOMAIN sent' \ DOMAIN sent /\ i > capsSince
    BY <1>1, <1>2
  <2>2. sent'[i].at = now /\ now >= epochStart'
    BY <1>1, <1>2, <1>3, <2>1
  <2> QED BY <1>4, <2>1, <2>2
<1> HIDE DEF new
<1>8. CASE EpochElapsed
  <2>1. \A i \in DOMAIN sent : i > capsSince => ~(sent[i].at >= now)
    <3> SUFFICES ASSUME NEW i \in DOMAIN sent, i > capsSince PROVE ~(sent[i].at >= now)
      OBVIOUS
    <3>1. caps.epochLength # 0 /\ now >= epochStart + caps.epochLength
      BY <1>8 DEF EpochElapsed
    <3>2. sent[i].at < epochStart + caps.epochLength
      BY <3>1 DEF EpochInv, UnderCaps
    <3> QED BY <1>2, <3>1, <3>2
  <2>2. \A i \in DOMAIN sent : i \notin InEpoch'
    BY <1>1, <1>3, <1>4, <1>8, <2>1
  <2>3. InEpoch' = new
    BY <1>4, <1>6, <1>7, <2>2
  <2> QED BY <1>8, <2>3 DEF new
<1>9. CASE ~EpochElapsed
  <2>1. \A i \in DOMAIN sent : i \in InEpoch' <=> i \in InEpoch
    BY <1>1, <1>3, <1>4, <1>5, <1>6, <1>9
  <2>2. InEpoch' = InEpoch \cup new
    BY <1>4, <1>5, <1>6, <1>7, <2>1
  <2> QED BY <1>9, <2>2 DEF new
<1> QED BY <1>8, <1>9

\* What a batch adds to the notional of the log
LEMMA BatchAddsItsNotional ==
    ASSUME EpochInv, NEW caller \in Accounts, NEW orders \in Batches,
           SubmitBasket(caller, orders)
    PROVE  /\ Notional(InEpoch) \in Nat
           /\ Notional(InEpoch)' = BatchNotional(orders)
                + (IF EpochElapsed THEN 0 ELSE Notional(InEpoch))
<1> DEFINE m == Len(sent)
           n == Len(orders)
           new == (m + 1) .. (m + n)
           f == [i \in DOMAIN orders |-> orders[i].notional]
           g == [i \in DOMAIN sent' |-> sent'[i].leg.notional]
           h == [i \in InEpoch |-> sent[i].leg.notional]
<1>1. /\ m \in Nat /\ n \in Nat
      /\ DOMAIN orders = 1 .. n /\ DOMAIN sent = 1 .. m /\ DOMAIN sent' = 1 .. m + n
      /\ \A i \in DOMAIN sent : sent'[i] = sent[i]
      /\ \A i \in DOMAIN sent' \ DOMAIN sent : sent'[i].leg = orders[i - m]
  BY LogGrows DEF EpochInv, HeartbeatInv
<1>2. \A i \in DOMAIN sent : sent[i].leg.notional \in Nat
  BY StampsAreTimes DEF EpochInv, HeartbeatInv, Legs
<1>3. orders \in Seq(Legs)
  BY BatchTypes
<1>4. \A i \in 1 .. n : f[i] \in Nat
  <2>1. \A i \in 1 .. n : orders[i] \in Legs
    BY <1>1, <1>3
  <2>2. \A i \in 1 .. n : orders[i].notional \in Nat
    BY <2>1 DEF Legs
  <2> QED BY <1>1, <2>2
<1>5. InEpoch \subseteq DOMAIN sent
  BY DEF InEpoch, UnderCaps
<1>6. \A j \in 1 .. n : m + j \in DOMAIN sent' \ DOMAIN sent /\ (m + j) - m = j
  BY <1>1
<1>7. \A j \in 1 .. n : f[j] \in Nat /\ g[m + j] = f[j]
  BY <1>1, <1>4, <1>6
<1>8. Total(g, new) = BatchNotional(orders)
  <2>1. Total(g, new) = Total(f, 1 .. n)
    <3>1. m \in Nat /\ n \in Nat
      BY <1>1
    <3> HIDE DEF f, g, m, n
    <3>2. Total(g, (m + 1) .. (m + n)) = Total(f, 1 .. n)
      BY <3>1, <1>7, TotalShift
    <3> QED BY <3>2 DEF new
  <2> QED BY <1>1, <2>1 DEF BatchNotional
<1>9. IsFiniteSet(InEpoch) /\ IsFiniteSet(new)
  <2>1. IsFiniteSet(1 .. m) /\ IsFiniteSet(new)
    <3>1. 1 \in Int /\ m \in Int /\ m + 1 \in Int /\ m + n \in Int
      BY <1>1
    <3> QED BY <3>1, FS_Interval
  <2> QED BY <1>1, <1>5, <2>1, FS_Subset
<1>10. InEpoch \cap new = {}
  BY <1>1, <1>5
<1>11. \A i \in InEpoch : h[i] = g[i] /\ g[i] \in Nat
  BY <1>1, <1>2, <1>5
<1>12. \A i \in new : g[i] \in Nat
  <2> SUFFICES ASSUME NEW i \in new PROVE g[i] \in Nat
    OBVIOUS
  <2>1. i - m \in 1 .. n /\ m + (i - m) = i
    BY <1>1
  <2>2. g[m + (i - m)] \in Nat
    BY <1>7, <2>1
  <2> QED BY <2>1, <2>2
<1>13. Notional(InEpoch) = Total(g, InEpoch)
  BY <1>11, TotalCongruence DEF Notional
<1>14. Notional(InEpoch)' = Total(g, InEpoch')
  <2> DEFINE e == [i \in InEpoch' |-> sent'[i].leg.notional]
  <2>1. Notional(InEpoch)' = Total(e, InEpoch')
    BY DEF Notional
  <2>2. InEpoch' \subseteq DOMAIN sent'
    BY DEF InEpoch, UnderCaps
  <2>3. \A i \in InEpoch' : e[i] = g[i]
    BY <2>2
  <2> QED BY <2>1, <2>3, TotalCongruence
<1>15. InEpoch' = IF EpochElapsed THEN new ELSE InEpoch \cup new
  BY BatchJoinsEpoch
<1>16. /\ Total(g, InEpoch) \in Nat /\ Total(g, new) \in Nat
       /\ Total(g, InEpoch \cup new) = Total(g, InEpoch) + Total(g, new)
  <2> HIDE DEF g, new
  <2> QED BY <1>9, <1>10, <1>11, <1>12, TotalUnion
<1> HIDE DEF g, new
<1>17. CASE EpochElapsed
  BY <1>8, <1>13, <1>14, <1>15, <1>16, <1>17
<1>18. CASE ~EpochElapsed
  BY <1>8, <1>13, <1>14, <1>15, <1>16, <1>18
<1> QED BY <1>17, <1>18

LEMMA EpochStep == EpochInv /\ [AloneNext]_<<controlVars, deskVars>> => EpochInv'
<1> SUFFICES ASSUME EpochInv, [AloneNext]_<<controlVars, deskVars>> PROVE EpochInv'
  OBVIOUS
<1>0. /\ HeartbeatInv'
      /\ now \in Nat /\ epochStart \in Nat /\ epochStart <= now
      /\ Len(sent) \in Nat /\ capsSince \in Nat /\ capsSince <= Len(sent)
      /\ caps.epochLength \in Nat /\ epochNotionalUsed \in Nat
      /\ DOMAIN sent = 1 .. Len(sent)
  <2>1. HeartbeatInv /\ capsSince <= Len(sent) /\ epochStart <= now
    BY DEF EpochInv
  <2>2. HeartbeatInv'
    BY <2>1, HeartbeatStep
  <2>3. /\ now \in Nat /\ epochStart \in Nat /\ epochNotionalUsed \in Nat /\ capsSince \in Nat
        /\ caps \in Caps /\ sent \in Seq(LogEntries)
    BY <2>1 DEF HeartbeatInv, ControlTypeOK, DeskTypeOK, LogEntries
  <2>4. Len(sent) \in Nat /\ DOMAIN sent = 1 .. Len(sent)
    BY <2>3
  <2>5. caps.epochLength \in Nat
    BY <2>3 DEF Caps
  <2> QED BY <2>1, <2>2, <2>3, <2>4, <2>5
<1>1. ASSUME NEW caller \in Accounts, NEW orders \in Batches, SubmitBasket(caller, orders)
      PROVE  EpochInv'
  <2>1. /\ Len(orders) \in Nat
        /\ DOMAIN sent' = 1 .. Len(sent) + Len(orders)
        /\ \A i \in DOMAIN sent : sent'[i] = sent[i]
        /\ \A i \in DOMAIN sent' \ DOMAIN sent : sent'[i].at = now
        /\ \A i \in DOMAIN sent : sent[i].at \in Nat
    BY <1>1, LogGrows, StampsAreTimes DEF EpochInv, HeartbeatInv
  <2>2. /\ capsSince' = capsSince /\ caps' = caps /\ now' = now
        /\ epochStart' = IF EpochElapsed THEN now ELSE epochStart
        /\ epochNotionalUsed' = UsedAfter(orders)
    BY <1>1 DEF SubmitBasket, TouchManager, limitVars
  <2>3. (capsSince <= Len(sent))'
    <3>1. sent' \in Seq(LogEntries)
      BY <1>0 DEF HeartbeatInv, DeskTypeOK, LogEntries
    <3>2. Len(sent') \in Nat /\ DOMAIN sent' = 1 .. Len(sent')
      BY <3>1
    <3>3. Len(sent') = Len(sent) + Len(orders)
      BY <1>0, <2>1, <3>2
    <3> QED BY <1>0, <2>1, <2>2, <3>3
  <2>4. (epochStart <= now)'
    BY <1>0, <2>2
  <2>5. UsedMatchesSent'
    <3>1. SUFFICES ASSUME caps.epochNotionalCap # 0
                   PROVE  epochNotionalUsed' = Notional(InEpoch)'
      BY <2>2 DEF UsedMatchesSent, InEpoch
    <3>2. /\ Notional(InEpoch) \in Nat
          /\ Notional(InEpoch)' = BatchNotional(orders)
               + (IF EpochElapsed THEN 0 ELSE Notional(InEpoch))
      BY <1>1, BatchAddsItsNotional
    <3>3. epochNotionalUsed = Notional(InEpoch)
      BY <3>1 DEF EpochInv, UsedMatchesSent, InEpoch
    <3>4. BatchNotional(orders) \in Nat
      BY BatchTypes
    <3> QED BY <2>2, <3>1, <3>2, <3>3, <3>4 DEF UsedAfter, UsedBefore
  <2>6. (caps.epochLength # 0 =>
            \A i \in UnderCaps : sent[i].at < epochStart + caps.epochLength)'
    <3>1. SUFFICES ASSUME caps.epochLength # 0, NEW i \in DOMAIN sent', i > capsSince
                   PROVE  sent'[i].at < epochStart' + caps.epochLength
      BY <2>2 DEF UnderCaps
    <3>2. CASE i \in DOMAIN sent
      <4>1. sent'[i].at = sent[i].at /\ sent[i].at \in Nat
        BY <2>1, <3>2
      <4>2. sent[i].at < epochStart + caps.epochLength
        BY <3>1, <3>2 DEF EpochInv, UnderCaps
      <4>3. epochStart' \in Nat /\ epochStart <= epochStart'
        BY <1>0, <2>2
      <4> QED BY <1>0, <4>1, <4>2, <4>3
    <3>3. CASE i \notin DOMAIN sent
      <4>1. sent'[i].at = now
        BY <2>1, <3>1, <3>3
      <4>2. ~EpochElapsed => now < epochStart + caps.epochLength
        BY <1>0, <3>1 DEF EpochElapsed
      <4> QED BY <1>0, <2>2, <3>1, <4>1, <4>2
    <3> QED BY <3>2, <3>3
  <2> QED BY <1>0, <2>3, <2>4, <2>5, <2>6 DEF EpochInv
<1>2. ASSUME NEW caller \in Accounts, NEW newCaps \in CapChoices, SetOrderCaps(caller, newCaps)
      PROVE  EpochInv'
  <2>1. /\ epochNotionalUsed' = 0 /\ capsSince' = Len(sent)
        /\ sent' = sent /\ epochStart' = now /\ now' = now
    BY <1>2 DEF SetOrderCaps, controlVars, heartbeatVars
  <2>2. UnderCaps' = {}
    BY <1>0, <2>1 DEF UnderCaps
  <2>3. Notional({})' = 0
    <3>1. Tokens([i \in {} |-> sent'[i].leg.notional], {}) = {}
      BY DEF Tokens
    <3> QED BY <3>1, FS_EmptySet DEF Notional, Total
  <2>4. UsedMatchesSent'
    <3>1. {i \in UnderCaps' : sent'[i].at >= epochStart'} = {}
      BY <2>2
    <3> QED BY <2>1, <2>3, <3>1 DEF UsedMatchesSent
  <2> QED BY <1>0, <2>1, <2>2, <2>4 DEF EpochInv
<1>3. ASSUME UNCHANGED <<sent, caps, capsSince, epochStart, epochNotionalUsed>>, now <= now',
             now' \in Nat
      PROVE  EpochInv'
  <2>1. UnderCaps' = UnderCaps /\ (epochStart <= now)'
    BY <1>0, <1>3 DEF UnderCaps
  <2>2. UsedMatchesSent'
    BY <1>3 DEF EpochInv, UsedMatchesSent, Notional, UnderCaps
  <2> QED BY <1>0, <1>3, <2>1, <2>2 DEF EpochInv
<1>4. CASE DeskNext
  <2>1. \/ \E caller \in Accounts, orders \in Batches : SubmitBasket(caller, orders)
        \/ \E caller \in Accounts, newCaps \in CapChoices : SetOrderCaps(caller, newCaps)
        \/ UNCHANGED <<sent, caps, capsSince, epochStart, epochNotionalUsed, now>>
    BY <1>4 DEF DeskNext, SetAllowedAsset, SetAssetOrderCap, SetRequirePostOnly,
           controlVars, heartbeatVars, epochVars
  <2> QED BY <1>0, <1>1, <1>2, <1>3, <2>1
<1>5. CASE ControlNext /\ UNCHANGED deskVars
  <2>1. now <= now' /\ now' \in Nat
    BY <1>5, ControlKeepsTypes DEF EpochInv, HeartbeatInv, ControlTypeOK
  <2> QED BY <1>3, <1>5, <2>1 DEF deskVars, limitVars, epochVars
<1>6. CASE UNCHANGED <<controlVars, deskVars>>
  BY <1>0, <1>3, <1>6 DEF controlVars, heartbeatVars, deskVars, limitVars, epochVars
<1> QED BY <1>4, <1>5, <1>6 DEF AloneNext

\* For every set of batches and caps, the counter of the epoch is the notional
\* sent since it began: no leg escapes the cap and none is counted twice.
THEOREM EpochCounterExact == DeskSpec => []UsedMatchesSent
<1>1. EpochInv => UsedMatchesSent
  BY DEF EpochInv
<1> QED BY <1>1, EpochInit, EpochStep, PTL DEF DeskSpec

-----------------------------------------------------------------------------
(* Twice the cap in any window.                                             *)

\* Entries of a log past the first n, sent from s until before t; their notional
Between(log, n, s, t) == {i \in DOMAIN log : i > n /\ s <= log[i].at /\ log[i].at < t}
Spent(log, n, s, t) ==
    Total([i \in Between(log, n, s, t) |-> log[i].leg.notional], Between(log, n, s, t))

\* The running epoch is within its cap.  A window that reaches into it has met
\* no leg of any epoch but the one before, and a window that ended before it
\* keeps the bound it had.
WindowInv ==
    /\ EpochInv
    /\ caps.epochNotionalCap # 0 =>
        /\ epochNotionalUsed <= caps.epochNotionalCap
        /\ caps.epochLength # 0 => \A t \in Nat :
              /\ t + caps.epochLength > epochStart =>
                    Spent(sent, capsSince, t, epochStart) <= caps.epochNotionalCap
              /\ t + caps.epochLength <= epochStart =>
                    Spent(sent, capsSince, t, t + caps.epochLength)
                        <= 2 * caps.epochNotionalCap

LEMMA EpochTypes ==
    ASSUME EpochInv
    PROVE  /\ now \in Nat /\ epochStart \in Nat /\ epochStart <= now
           /\ caps.epochLength \in Nat /\ caps.epochNotionalCap \in Nat
           /\ epochNotionalUsed \in Nat /\ Len(sent) \in Nat /\ capsSince \in Nat
           /\ IsFiniteSet(DOMAIN sent) /\ DOMAIN sent = 1 .. Len(sent)
           /\ \A i \in DOMAIN sent : sent[i].at \in Nat /\ sent[i].leg.notional \in Nat
<1>1. ControlTypeOK /\ DeskTypeOK /\ epochStart <= now
  BY DEF EpochInv, HeartbeatInv
<1>2. /\ sent \in Seq(LogEntries) /\ caps \in Caps
      /\ now \in Nat /\ epochStart \in Nat /\ epochNotionalUsed \in Nat /\ capsSince \in Nat
  BY <1>1 DEF ControlTypeOK, DeskTypeOK, LogEntries
<1>3. Len(sent) \in Nat /\ DOMAIN sent = 1 .. Len(sent)
  BY <1>2
<1>4. IsFiniteSet(DOMAIN sent)
  <2>1. 1 \in Int /\ Len(sent) \in Int
    BY <1>3
  <2> QED BY <1>3, <2>1, FS_Interval
<1>5. \A i \in DOMAIN sent : sent[i].at \in Nat /\ sent[i].leg \in Legs
  BY <1>1, StampsAreTimes
<1> QED BY <1>1, <1>2, <1>3, <1>4, <1>5 DEF Caps, Legs

\* Notional is monotone and additive over the legs of the log.
LEMMA NotionalMonotone ==
    ASSUME EpochInv, NEW A, NEW B, A \subseteq B, B \subseteq DOMAIN sent
    PROVE  Notional(A) \in Nat /\ Notional(B) \in Nat /\ Notional(A) <= Notional(B)
<1> DEFINE g == [i \in DOMAIN sent |-> sent[i].leg.notional]
<1>1. \A i \in B : g[i] \in Nat
  BY EpochTypes
<1>2. IsFiniteSet(B)
  BY EpochTypes, FS_Subset
<1>3. Notional(A) = Total(g, A) /\ Notional(B) = Total(g, B)
  BY TotalCongruence DEF Notional
<1> HIDE DEF g
<1> QED BY <1>1, <1>2, <1>3, TotalMonotone

LEMMA NotionalUnion ==
    ASSUME EpochInv, NEW A, NEW B, A \cup B \subseteq DOMAIN sent, A \cap B = {}
    PROVE  /\ Notional(A) \in Nat /\ Notional(B) \in Nat
           /\ Notional(A \cup B) = Notional(A) + Notional(B)
<1> DEFINE g == [i \in DOMAIN sent |-> sent[i].leg.notional]
<1>1. \A i \in A \cup B : g[i] \in Nat
  BY EpochTypes
<1>2. IsFiniteSet(A) /\ IsFiniteSet(B)
  BY EpochTypes, FS_Subset
<1>3. /\ Notional(A) = Total(g, A) /\ Notional(B) = Total(g, B)
      /\ Notional(A \cup B) = Total(g, A \cup B)
  BY TotalCongruence DEF Notional
<1> HIDE DEF g
<1>4. /\ Total(g, A) \in Nat /\ Total(g, B) \in Nat
      /\ Total(g, A \cup B) = Total(g, A) + Total(g, B)
  BY <1>1, <1>2, TotalUnion
<1> QED BY <1>3, <1>4

LEMMA SpentIsNotional ==
    ASSUME NEW s, NEW t
    PROVE  /\ Spent(sent, capsSince, s, t) = Notional(Between(sent, capsSince, s, t))
           /\ Between(sent, capsSince, s, t) \subseteq UnderCaps
           /\ UnderCaps \subseteq DOMAIN sent
BY DEF Spent, Notional, Between, UnderCaps

\* From the invariant: no window of an epoch's length holds more than twice the
\* cap, wherever it begins.
LEMMA WindowBound ==
    ASSUME WindowInv, caps.epochNotionalCap # 0, caps.epochLength # 0, NEW t \in Nat
    PROVE  Spent(sent, capsSince, t, t + caps.epochLength) <= 2 * caps.epochNotionalCap
<1> DEFINE cap == caps.epochNotionalCap
           window == Between(sent, capsSince, t, t + caps.epochLength)
           before == Between(sent, capsSince, t, epochStart)
           old == {i \in window : sent[i].at < epochStart}
           young == {i \in window : sent[i].at >= epochStart}
<1>1. CASE t + caps.epochLength <= epochStart
  BY <1>1 DEF WindowInv
<1>2. CASE t + caps.epochLength > epochStart
  <2>1. EpochInv
    BY DEF WindowInv
  <2>2. /\ cap \in Nat /\ epochStart \in Nat
        /\ \A i \in DOMAIN sent : sent[i].at \in Nat
    BY <2>1, EpochTypes
  <2>3. window \subseteq UnderCaps /\ before \subseteq UnderCaps /\ UnderCaps \subseteq DOMAIN sent
    BY SpentIsNotional
  <2>4. Notional(old) \in Nat /\ Notional(old) <= cap
    <3>1. old \subseteq before /\ before \subseteq DOMAIN sent
      BY <2>3 DEF Between
    <3>2. Notional(before) <= cap
      BY <1>2, SpentIsNotional DEF WindowInv
    <3>3. /\ Notional(old) \in Nat /\ Notional(before) \in Nat
          /\ Notional(old) <= Notional(before)
      BY <2>1, <3>1, NotionalMonotone
    <3> HIDE DEF old, before, cap
    <3> QED BY <2>2, <3>2, <3>3
  <2>5. Notional(young) \in Nat /\ Notional(young) <= cap
    <3>1. young \subseteq InEpoch /\ InEpoch \subseteq DOMAIN sent
      BY <2>3 DEF InEpoch
    <3>2. Notional(InEpoch) <= cap
      BY <2>1 DEF WindowInv, EpochInv, UsedMatchesSent, InEpoch
    <3>3. /\ Notional(young) \in Nat /\ Notional(InEpoch) \in Nat
          /\ Notional(young) <= Notional(InEpoch)
      BY <2>1, <3>1, NotionalMonotone
    <3> HIDE DEF young, cap
    <3> QED BY <2>2, <3>2, <3>3
  <2>6. old \cup young = window /\ old \cap young = {} /\ old \cup young \subseteq DOMAIN sent
    <3> HIDE DEF window
    <3> QED BY <2>2, <2>3
  <2>7. Notional(old \cup young) = Notional(old) + Notional(young)
    <3> HIDE DEF old, young
    <3> QED BY <2>1, <2>6, NotionalUnion
  <2> HIDE DEF old, young
  <2>8. Notional(window) = Notional(old) + Notional(young)
    BY <2>6, <2>7
  <2> HIDE DEF cap
  <2>9. Notional(old) + Notional(young) <= 2 * cap
    BY <2>2, <2>4, <2>5
  <2> QED BY <2>8, <2>9, SpentIsNotional DEF cap
<1> QED
  <2>1. caps.epochLength \in Nat /\ epochStart \in Nat
    BY EpochTypes DEF WindowInv
  <2> QED BY <1>1, <1>2, <2>1

\* A batch leaves every window that ends by now as it was.
LEMMA BatchKeepsThePast ==
    ASSUME EpochInv, NEW caller \in Accounts, NEW orders \in Batches,
           SubmitBasket(caller, orders), NEW s \in Nat, NEW t \in Nat, t <= now
    PROVE  Spent(sent', capsSince', s, t) = Spent(sent, capsSince, s, t)
<1> DEFINE A == Between(sent, capsSince, s, t)
           B == Between(sent', capsSince', s, t)
           e == [i \in B |-> sent'[i].leg.notional]
           g == [i \in A |-> sent[i].leg.notional]
<1>1. /\ DOMAIN sent \subseteq DOMAIN sent'
      /\ \A i \in DOMAIN sent : sent'[i] = sent[i]
      /\ \A i \in DOMAIN sent' \ DOMAIN sent : sent'[i].at = now
      /\ capsSince' = capsSince
  <2>1. /\ DOMAIN sent = 1 .. Len(sent) /\ DOMAIN sent' = 1 .. Len(sent) + Len(orders)
        /\ Len(sent) \in Nat /\ Len(orders) \in Nat
        /\ \A i \in DOMAIN sent : sent'[i] = sent[i]
        /\ \A i \in DOMAIN sent' \ DOMAIN sent : sent'[i].at = now
    BY LogGrows DEF EpochInv, HeartbeatInv
  <2>2. capsSince' = capsSince
    BY DEF SubmitBasket
  <2> QED BY <2>1, <2>2
<1>2. now \in Nat
  BY EpochTypes
<1>3. A \subseteq DOMAIN sent
  BY DEF Between
<1>4. B = A
  <2>1. ASSUME NEW i \in B PROVE i \in A
    <3>1. i \in DOMAIN sent
      BY <1>1, <1>2 DEF Between
    <3> QED BY <1>1, <3>1 DEF Between
  <2>2. ASSUME NEW i \in A PROVE i \in B
    BY <1>1 DEF Between
  <2> QED BY <2>1, <2>2
<1>5. \A i \in B : e[i] = g[i]
  BY <1>1, <1>3, <1>4
<1>6. Total(e, B) = Total(g, B)
  <2> HIDE DEF e, g, A, B
  <2> QED BY <1>5, TotalCongruence
<1> QED BY <1>4, <1>6 DEF Spent

LEMMA WindowInit == AloneInit => WindowInv
<1> SUFFICES ASSUME AloneInit PROVE WindowInv
  OBVIOUS
<1>1. caps.epochNotionalCap = 0
  BY DEF AloneInit, DeskInit
<1> QED BY <1>1, EpochInit DEF WindowInv

LEMMA BatchKeepsWindow ==
    ASSUME WindowInv, EpochInv', NEW caller \in Accounts, NEW orders \in Batches,
           SubmitBasket(caller, orders)
    PROVE  WindowInv'
<1>0. /\ EpochInv
      /\ now \in Nat /\ epochStart \in Nat /\ epochStart <= now
      /\ caps.epochLength \in Nat /\ caps.epochNotionalCap \in Nat
      /\ \A i \in DOMAIN sent : sent[i].at \in Nat
  BY EpochTypes DEF WindowInv
<1>1. /\ caps' = caps
      /\ epochNotionalUsed' = UsedAfter(orders)
      /\ epochStart' = IF EpochElapsed THEN now ELSE epochStart
      /\ caps.epochNotionalCap # 0 => UsedAfter(orders) <= caps.epochNotionalCap
  BY DEF SubmitBasket, limitVars
<1>2. epochStart' \in Nat /\ epochStart' <= now
  BY <1>0, <1>1
<1>3. ASSUME caps.epochNotionalCap # 0, caps.epochLength # 0, NEW t \in Nat,
             t + caps.epochLength > epochStart'
      PROVE  Spent(sent', capsSince', t, epochStart') <= caps.epochNotionalCap
  <2>1. Spent(sent', capsSince', t, epochStart') = Spent(sent, capsSince, t, epochStart')
    BY <1>0, <1>2, BatchKeepsThePast
  <2>2. CASE ~EpochElapsed
    BY <1>1, <1>3, <2>1, <2>2 DEF WindowInv
  <2>3. CASE EpochElapsed
    <3>1. t > epochStart /\ epochStart' = now
      BY <1>0, <1>1, <1>3, <2>3 DEF EpochElapsed
    <3>2. Between(sent, capsSince, t, now) \subseteq InEpoch /\ InEpoch \subseteq DOMAIN sent
      BY <1>0, <3>1 DEF Between, InEpoch, UnderCaps
    <3>3. /\ Notional(Between(sent, capsSince, t, now)) \in Nat /\ Notional(InEpoch) \in Nat
          /\ Notional(Between(sent, capsSince, t, now)) <= Notional(InEpoch)
      BY <1>0, <3>2, NotionalMonotone
    <3>4. Notional(InEpoch) <= caps.epochNotionalCap
      BY <1>0, <1>3 DEF WindowInv, EpochInv, UsedMatchesSent, InEpoch
    <3>5. Spent(sent, capsSince, t, now) <= caps.epochNotionalCap
      BY <1>0, <3>3, <3>4, SpentIsNotional
    <3> QED BY <2>1, <3>1, <3>5
  <2> QED BY <2>2, <2>3
<1>4. ASSUME caps.epochNotionalCap # 0, caps.epochLength # 0, NEW t \in Nat,
             t + caps.epochLength <= epochStart'
      PROVE  Spent(sent', capsSince', t, t + caps.epochLength) <= 2 * caps.epochNotionalCap
  <2>1. t + caps.epochLength \in Nat /\ t + caps.epochLength <= now
    BY <1>0, <1>2, <1>4
  <2>2. Spent(sent', capsSince', t, t + caps.epochLength)
          = Spent(sent, capsSince, t, t + caps.epochLength)
    BY <1>0, <2>1, BatchKeepsThePast
  <2> QED BY <1>4, <2>2, WindowBound
<1> QED BY <1>1, <1>3, <1>4 DEF WindowInv

LEMMA WindowStep == WindowInv /\ [AloneNext]_<<controlVars, deskVars>> => WindowInv'
<1> SUFFICES ASSUME WindowInv, [AloneNext]_<<controlVars, deskVars>> PROVE WindowInv'
  OBVIOUS
<1>0. EpochInv /\ EpochInv'
  BY EpochStep DEF WindowInv
<1>1. ASSUME NEW caller \in Accounts, NEW orders \in Batches, SubmitBasket(caller, orders)
      PROVE  WindowInv'
  BY <1>0, <1>1, BatchKeepsWindow
<1>2. ASSUME NEW caller \in Accounts, NEW newCaps \in CapChoices, SetOrderCaps(caller, newCaps)
      PROVE  WindowInv'
  <2>1. /\ epochNotionalUsed' = 0 /\ capsSince' = Len(sent) /\ sent' = sent
        /\ caps' = newCaps /\ newCaps.epochNotionalCap \in Nat
    BY <1>2, DeskAssumption DEF SetOrderCaps, Caps
  <2>2. DOMAIN sent = 1 .. Len(sent) /\ Len(sent) \in Nat
    BY <1>0, EpochTypes
  <2>3. \A s, t : Between(sent', capsSince', s, t) = {}
    BY <2>1, <2>2 DEF Between
  <2>4. \A s, t : Spent(sent', capsSince', s, t) = 0
    <3> SUFFICES ASSUME NEW s, NEW t PROVE Spent(sent', capsSince', s, t) = 0
      OBVIOUS
    <3>1. \A f : Total(f, {}) = 0
      <4>1. \A f : Tokens(f, {}) = {}
        BY DEF Tokens
      <4> QED BY <4>1, FS_EmptySet DEF Total
    <3> QED BY <2>3, <3>1 DEF Spent
  <2> QED BY <1>0, <2>1, <2>4 DEF WindowInv
<1>3. ASSUME UNCHANGED <<sent, caps, capsSince, epochStart, epochNotionalUsed>>
      PROVE  WindowInv'
  BY <1>0, <1>3 DEF WindowInv
<1>4. CASE DeskNext
  <2>1. \/ \E caller \in Accounts, orders \in Batches : SubmitBasket(caller, orders)
        \/ \E caller \in Accounts, newCaps \in CapChoices : SetOrderCaps(caller, newCaps)
        \/ UNCHANGED <<sent, caps, capsSince, epochStart, epochNotionalUsed>>
    BY <1>4 DEF DeskNext, SetAllowedAsset, SetAssetOrderCap, SetRequirePostOnly, epochVars
  <2> QED BY <1>1, <1>2, <1>3, <2>1
<1>5. CASE UNCHANGED deskVars
  BY <1>3, <1>5 DEF deskVars, limitVars, epochVars
<1>6. CASE UNCHANGED <<controlVars, deskVars>>
  BY <1>5, <1>6
<1> QED BY <1>4, <1>5, <1>6 DEF AloneNext

LEMMA WindowBounded ==
    ASSUME WindowInv
    PROVE  WindowWithinTwiceCap
<1> SUFFICES ASSUME caps.epochNotionalCap # 0, caps.epochLength # 0, NEW t \in 0 .. now
             PROVE  Notional({i \in UnderCaps : sent[i].at \in t .. t + caps.epochLength - 1})
                      <= 2 * caps.epochNotionalCap
  BY DEF WindowWithinTwiceCap
<1>1. /\ now \in Nat /\ caps.epochLength \in Nat
      /\ \A i \in DOMAIN sent : sent[i].at \in Nat
  BY EpochTypes DEF WindowInv
<1>2. t \in Nat
  BY <1>1
<1>3. \A i \in DOMAIN sent : sent[i].at \in t .. t + caps.epochLength - 1
          <=> t <= sent[i].at /\ sent[i].at < t + caps.epochLength
  BY <1>1, <1>2
<1>4. {i \in UnderCaps : sent[i].at \in t .. t + caps.epochLength - 1}
         = Between(sent, capsSince, t, t + caps.epochLength)
  BY <1>3 DEF Between, UnderCaps
<1> QED BY <1>2, <1>4, WindowBound, SpentIsNotional

\* For every set of batches and caps: whatever the manager key submits, no window
\* of an epoch's length carries more than twice the epoch's cap, also where the
\* window straddles the roll of an epoch.
THEOREM NoWindowBeyondTwiceCap == DeskSpec => []WindowWithinTwiceCap
<1>1. WindowInv => WindowWithinTwiceCap
  BY WindowBounded
<1> QED BY <1>1, WindowInit, WindowStep, PTL DEF DeskSpec
=============================================================================
