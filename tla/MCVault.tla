------------------------------- MODULE MCVault -------------------------------
(***************************************************************************)
(* Small instances of the vault.  Units are scaled down: a fee basis of    *)
(* ten, a year of two ticks, two virtual shares.  A set left empty in a    *)
(* cfg switches the calls that take their arguments from it off.           *)
(***************************************************************************)
EXTENDS VaultProperties

CONSTANTS alice, operator, vault, perp1

MCAccounts == {alice, operator}
Solo == {operator}
Alice == {alice}
OnePerp == {perp1}
OpenAndClose ==
    {<<[asset |-> perp1, notional |-> 1, reduceOnly |-> r]>> : r \in BOOLEAN}
NoBatches == {}
NoCaps == {}
NoArgs == {}

MaxFeeRates == [management |-> 5, performance |-> 5, exit |-> 3, protocol |-> 3]
NoFees == [management |-> 0, performance |-> 0, exit |-> 0]
ExitFee == [management |-> 0, performance |-> 0, exit |-> 1]
AllFees == [management |-> 2, performance |-> 3, exit |-> 1]

Amounts == {1, 3}
OneAmount == {2}
One == {1}
Amounts12 == {1, 2}
BigAmount == {10}
Gift == {5}
FeeSettings == {NoFees, AllFees}
PlatformFees == {0, 3}
ShareCounts == {1, 3}
OneCount == {2}
Margins == {0, 1}
\* Action constraints: switches that play no part in a run
SwitchesRest == UNCHANGED <<switchVars, requirePostOnly>>
PostOnlyRests == UNCHANGED requirePostOnly

Flat == {0}
Swing == {-2, 2}
PerpValues == -2 .. 8
NarrowPerp == -2 .. 4
=============================================================================
