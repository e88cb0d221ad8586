------------------------------- MODULE MCDesk -------------------------------
(* Small instances of the order desk.                                       *)
EXTENDS DeskProperties

CONSTANTS operator, alice, perp1

Solo == {operator}
Pair == {operator, alice}
OnePerp == {perp1}
NoArgs == {}

Leg(a, n, r) == [asset |-> a, notional |-> n, reduceOnly |-> r]
CapSet(m, c, l) == [maxOrderNotional |-> m, epochNotionalCap |-> c, epochLength |-> l]

SomeBatches ==
    {<<Leg(perp1, 1, FALSE)>>, <<Leg(perp1, 2, TRUE)>>,
     <<Leg(perp1, 1, TRUE), Leg(perp1, 1, FALSE)>>}
OneBatch == {<<Leg(perp1, 2, FALSE)>>}
OneAssetCap == {1}
EpochCaps == {CapSet(2, 2, 2), CapSet(1, 2, 0)}
EpochOfTwo == {CapSet(0, 2, 2)}
Alice == {alice}
Two == {2}

\* Action constraint: the roles and switches that play no part in the run
RolesRest == UNCHANGED <<owner, guardian, switchVars>>
=============================================================================
