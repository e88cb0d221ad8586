--------------------------- MODULE DeskProperties ---------------------------
(***************************************************************************)
(* What the desk's limits promise against a compromised manager key.       *)
(***************************************************************************)
EXTENDS OrderDesk

\* Notional of the legs at the indices S of the log
Notional(S) == Total([i \in S |-> sent[i].leg.notional], S)

\* Legs sent under the present caps
UnderCaps == {i \in DOMAIN sent : i > capsSince}

\* The epoch's counter is the notional sent since the epoch began, over every
\* interleaving of batches, epoch rolls and cap changes: no leg escapes it and
\* none is counted twice.
UsedMatchesSent ==
    caps.epochNotionalCap # 0 =>
        epochNotionalUsed = Notional({i \in UnderCaps : sent[i].at >= epochStart})

\* Epochs tile time rather than roll, so a window of an epoch's length meets two
\* epochs at most: twice the cap is what a rogue manager can send within it.
WindowWithinTwiceCap ==
    caps.epochNotionalCap # 0 /\ caps.epochLength # 0 =>
        \A t \in 0 .. now :
            Notional({i \in UnderCaps : sent[i].at \in t .. t + caps.epochLength - 1})
                <= 2 * caps.epochNotionalCap

\* The backstop opens only if no leg was sent within the timeout, whoever was
\* manager then and however the owner changed the timeout.
BackstopNeedsSilence ==
    ManagerIsDark => \A i \in DOMAIN sent : sent[i].at + managerTimeout < now
=============================================================================
