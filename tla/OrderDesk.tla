------------------------------ MODULE OrderDesk ------------------------------
(***************************************************************************)
(* The manager's trading desk: submitBasket and the limits the owner puts  *)
(* on it -- the asset allow-list, the per-leg notional caps and the        *)
(* notional budget of an epoch.  A leg is its asset, its notional          *)
(* (limitPx * sz) and its reduce-only flag; `sent` is the log of the legs  *)
(* handed to CoreWriter.                                                   *)
(***************************************************************************)
EXTENDS VaultControl, FixedPoint, Sequences

CONSTANTS
    Assets,        \* HyperCore perp asset ids
    Batches,       \* the Order[] arguments the manager may submit
    AssetCaps,     \* values for setAssetOrderCap
    CapChoices,    \* arguments for setOrderCaps
    MaxSent        \* bound on the number of legs sent

Legs == [asset : Assets, notional : Nat, reduceOnly : BOOLEAN]
Caps == [maxOrderNotional : Nat, epochNotionalCap : Nat, epochLength : Nat]

ASSUME DeskAssumption ==
    /\ Batches \subseteq Seq(Legs)
    /\ AssetCaps \subseteq Nat
    /\ CapChoices \subseteq Caps

VARIABLES
    allowedAsset, assetMaxOrderNotional, requirePostOnly,
    caps,                          \* maxOrderNotional, epochNotionalCap, epochLength
    epochStart, epochNotionalUsed,
    sent,                          \* legs handed to CoreWriter, with time and tif
    capsSince                      \* auxiliary: Len(sent) when caps were last set

limitVars == <<allowedAsset, assetMaxOrderNotional, requirePostOnly, caps>>
epochVars == <<epochStart, epochNotionalUsed>>
deskVars == <<limitVars, epochVars, sent, capsSince>>

DeskTypeOK ==
    /\ allowedAsset \in [Assets -> BOOLEAN]
    /\ assetMaxOrderNotional \in [Assets -> Nat]
    /\ requirePostOnly \in BOOLEAN
    /\ caps \in Caps
    /\ epochStart \in Nat
    /\ epochNotionalUsed \in Nat
    /\ sent \in Seq([leg : Legs, at : Nat, postOnly : BOOLEAN])
    /\ capsSince \in Nat

DeskInit ==
    /\ allowedAsset = [a \in Assets |-> FALSE]
    /\ assetMaxOrderNotional = [a \in Assets |-> 0]
    /\ requirePostOnly = FALSE
    /\ caps = [maxOrderNotional |-> 0, epochNotionalCap |-> 0, epochLength |-> 0]
    /\ epochStart = 0
    /\ epochNotionalUsed = 0
    /\ sent = <<>>
    /\ capsSince = 0

-----------------------------------------------------------------------------
\* The per-asset cap wins when set, else the global cap; 0 means no cap.
LegCap(leg) ==
    IF assetMaxOrderNotional[leg.asset] # 0
    THEN assetMaxOrderNotional[leg.asset]
    ELSE caps.maxOrderNotional

LegAccepted(leg) ==
    /\ allowedAsset[leg.asset]
    /\ reduceOnlyMode => leg.reduceOnly
    /\ LegCap(leg) # 0 => leg.notional <= LegCap(leg)

BatchNotional(orders) ==
    Total([i \in DOMAIN orders |-> orders[i].notional], DOMAIN orders)

EpochElapsed ==
    /\ caps.epochLength # 0
    /\ now >= epochStart + caps.epochLength

\* Mutant: an elapsed epoch is not reset
UsedEver == epochNotionalUsed

UsedBefore == IF EpochElapsed THEN 0 ELSE epochNotionalUsed

\* Mutant: the batch replaces what was used before it
UsedByBatch(orders) ==
    IF caps.epochNotionalCap = 0 THEN UsedBefore ELSE BatchNotional(orders)

UsedAfter(orders) ==
    IF caps.epochNotionalCap = 0 THEN UsedBefore
    ELSE UsedBefore + BatchNotional(orders)

\* The whole batch is accepted or the call reverts.
SubmitBasket(caller, orders) ==
    /\ OnlyManager(caller)
    /\ ~paused
    /\ \A i \in DOMAIN orders : LegAccepted(orders[i])
    /\ caps.epochNotionalCap # 0 => UsedAfter(orders) <= caps.epochNotionalCap
    /\ Len(sent) + Len(orders) <= MaxSent
    /\ epochStart' = IF EpochElapsed THEN now ELSE epochStart
    /\ epochNotionalUsed' = UsedAfter(orders)
    /\ sent' = sent \o [i \in DOMAIN orders |->
                   [leg |-> orders[i], at |-> now, postOnly |-> requirePostOnly]]
    /\ TouchManager
    /\ UNCHANGED <<limitVars, capsSince>>

SetAllowedAsset(caller, asset, ok) ==
    /\ OnlyOwner(caller)
    /\ allowedAsset' = [allowedAsset EXCEPT ![asset] = ok]
    /\ UNCHANGED <<controlVars, assetMaxOrderNotional, requirePostOnly, caps,
                   epochVars, sent, capsSince>>

SetAssetOrderCap(caller, asset, cap) ==
    /\ OnlyOwner(caller)
    /\ assetMaxOrderNotional' = [assetMaxOrderNotional EXCEPT ![asset] = cap]
    /\ UNCHANGED <<controlVars, allowedAsset, requirePostOnly, caps,
                   epochVars, sent, capsSince>>

SetRequirePostOnly(caller, enabled) ==
    /\ OnlyOwner(caller)
    /\ requirePostOnly' = enabled
    /\ UNCHANGED <<controlVars, allowedAsset, assetMaxOrderNotional, caps,
                   epochVars, sent, capsSince>>

SetOrderCaps(caller, newCaps) ==
    /\ OnlyOwner(caller)
    /\ caps' = newCaps
    /\ epochStart' = now
    /\ epochNotionalUsed' = 0
    /\ capsSince' = Len(sent)
    /\ UNCHANGED <<controlVars, allowedAsset, assetMaxOrderNotional,
                   requirePostOnly, sent>>

DeskNext ==
    \E caller \in Accounts :
        \/ \E orders \in Batches : SubmitBasket(caller, orders)
        \/ \E asset \in Assets, ok \in BOOLEAN : SetAllowedAsset(caller, asset, ok)
        \/ \E asset \in Assets, cap \in AssetCaps : SetAssetOrderCap(caller, asset, cap)
        \/ \E enabled \in BOOLEAN : SetRequirePostOnly(caller, enabled)
        \/ \E newCaps \in CapChoices : SetOrderCaps(caller, newCaps)

\* The desk on its own, under the roles, switches and clock of the vault
AloneInit == ControlInit /\ DeskInit

AloneNext ==
    \/ DeskNext
    \/ ControlNext /\ UNCHANGED deskVars

DeskSpec == AloneInit /\ [][AloneNext]_<<controlVars, deskVars>>
=============================================================================
