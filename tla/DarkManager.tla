----------------------------- MODULE DarkManager -----------------------------
(***************************************************************************)
(* Exits after the manager key is lost.  While the clock stands at 0 the   *)
(* vault is in normal use, under a manager that bridges idle USDC only;    *)
(* from the first tick on the manager signs nothing, the owner does not    *)
(* replace it, and redemptions are left to permissionless callers and to   *)
(* HyperCore.                                                              *)
(***************************************************************************)
EXTENDS VaultProperties

ManagerStep ==
    \E caller \in Accounts, a \in BridgeAmounts :
        \/ a + reservedAssets <= usdc /\ BridgeToCore(caller, a)
        \/ BridgeFromCore(caller, a)

Requests ==
    \E holder \in Accounts, n \in ShareAmounts : RequestRedeem(holder, n)

DarkNext ==
    \/ now = 0 /\ (ManagerStep \/ Requests)
    \/ UserStep /\ ~Requests
    \/ CreditEvm
    \/ CoreStep /\ UNCHANGED <<vaultVars, controlVars, deskVars>>
    \/ Tick /\ UNCHANGED <<vaultVars, deskVars, coreVars>>

\* HyperCore runs what is queued and credits what was sent; the clock advances;
\* and redeemers, or bots on their behalf, keep calling the functions that anyone
\* may call.  Each such call competes with others that disable it again and
\* again, so it needs strong fairness; a claim, once due, stays due.
Fairness ==
    /\ WF_vars(Tick /\ UNCHANGED <<vaultVars, deskVars, coreVars>>)
    /\ WF_vars(RunAction /\ UNCHANGED <<vaultVars, controlVars, deskVars>>)
    /\ WF_vars(CreditSpot /\ UNCHANGED <<vaultVars, controlVars, deskVars>>)
    /\ WF_vars(CreditEvm)
    /\ \A a \in BridgeAmounts : SF_vars(BridgeFromCoreForRedemptions(a))
    /\ \A holder \in Accounts :
        /\ \A n \in ShareAmounts : SF_vars(FulfillRedeem(holder, n))
        /\ WF_vars(Claim(holder))

DarkSpec == Init /\ [][DarkNext]_vars /\ Fairness

\* BasketVaultBase.sol: a dark manager can delay exits but never trap them.
ExitsComplete ==
    \A a \in Accounts :
        pendingRedeemShares[a] > 0
            ~> pendingRedeemShares[a] = 0 /\ claimableAssets[a] = 0
=============================================================================
