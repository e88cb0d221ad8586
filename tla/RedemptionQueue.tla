-------------------------- MODULE RedemptionQueue --------------------------
(***************************************************************************)
(* What the vault's asynchronous exit promises, without prices, fees or    *)
(* bridges: shares wait in a queue until their owner takes them back or    *)
(* somebody turns them into a promise of USDC; a promise is made only      *)
(* against funds that no other promise has a claim to, is never lowered,   *)
(* and ends when its owner is paid all of it.  Whatever else happens to    *)
(* the funds leaves the promises covered.                                  *)
(***************************************************************************)
EXTENDS FixedPoint

CONSTANT Owners

VARIABLES
    waiting,    \* shares of each owner in the queue
    owed,       \* USDC promised to each owner
    funds       \* USDC at hand

queue == <<waiting, owed, funds>>

QueueInit ==
    /\ waiting = [o \in Owners |-> 0]
    /\ owed = [o \in Owners |-> 0]
    /\ funds = 0

Promised == Total(owed, Owners)

\* Of the shares that wait, at most those of o change.
MovesSharesOf(o) ==
    /\ waiting' \in [Owners -> Nat]
    /\ \A other \in Owners \ {o} : waiting'[other] = waiting[other]

Join(o) ==
    /\ MovesSharesOf(o)
    /\ waiting'[o] > waiting[o]
    /\ UNCHANGED <<owed, funds>>

Leave(o) ==
    /\ MovesSharesOf(o)
    /\ waiting'[o] < waiting[o]
    /\ UNCHANGED <<owed, funds>>

Promise(o) ==
    /\ MovesSharesOf(o)
    /\ waiting'[o] < waiting[o]
    /\ owed' \in [Owners -> Nat]
    /\ owed'[o] >= owed[o]
    /\ \A other \in Owners \ {o} : owed'[other] = owed[other]
    /\ Promised' <= funds
    /\ UNCHANGED funds

Keep(o) ==
    /\ owed[o] # 0
    /\ owed' = [owed EXCEPT ![o] = 0]
    /\ funds' = funds - owed[o]
    /\ UNCHANGED waiting

\* Deposits, other exits and bridges
MoveFunds ==
    /\ funds' \in Nat
    /\ Promised <= funds'
    /\ UNCHANGED <<waiting, owed>>

QueueNext ==
    \/ \E o \in Owners : Join(o) \/ Leave(o) \/ Promise(o) \/ Keep(o)
    \/ MoveFunds

QueueSpec == QueueInit /\ [][QueueNext]_queue
=============================================================================
