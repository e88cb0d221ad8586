---------------------------- MODULE VaultControl ----------------------------
(***************************************************************************)
(* Who may call the vault and when: the role addresses, the two emergency  *)
(* switches (pause and reduce-only mode), the block clock, and the         *)
(* manager's heartbeat, whose silence opens the redemption backstop.       *)
(***************************************************************************)
EXTENDS Naturals

CONSTANTS
    Accounts,        \* externally owned accounts
    NoOne,           \* address(0)
    Deployer,        \* the constructor's owner_
    FirstManager,    \* the constructor's manager_
    RoleCandidates,  \* accounts the owner may hand a role to
    DefaultTimeout,  \* 7 days, in clock ticks
    Timeouts,        \* values the owner may pass to setManagerTimeout
    MaxTime          \* bound on the clock

ASSUME ControlAssumption ==
    /\ NoOne \notin Accounts
    /\ {Deployer, FirstManager} \subseteq Accounts
    /\ RoleCandidates \subseteq Accounts
    /\ DefaultTimeout \in Nat
    /\ Timeouts \subseteq Nat
    /\ MaxTime \in Nat

VARIABLES
    now, owner, manager, guardian, paused, reduceOnlyMode,
    lastManagerAction, managerTimeout

roleVars == <<owner, manager, guardian>>
switchVars == <<paused, reduceOnlyMode>>
heartbeatVars == <<lastManagerAction, managerTimeout>>
controlVars == <<now, roleVars, switchVars, heartbeatVars>>

ControlTypeOK ==
    /\ now \in Nat
    /\ owner \in Accounts \cup {NoOne}
    /\ manager \in Accounts
    /\ guardian \in Accounts \cup {NoOne}
    /\ paused \in BOOLEAN
    /\ reduceOnlyMode \in BOOLEAN
    /\ lastManagerAction \in Nat
    /\ managerTimeout \in Nat

ControlInit ==
    /\ now = 0
    /\ owner = Deployer
    /\ manager = FirstManager
    /\ guardian = Deployer
    /\ paused = FALSE
    /\ reduceOnlyMode = FALSE
    /\ lastManagerAction = now
    /\ managerTimeout = DefaultTimeout

-----------------------------------------------------------------------------
OnlyOwner(caller) == caller = owner
OnlyManager(caller) == caller = manager
OnlyGuardianOrOwner(caller) == caller \in {guardian, owner}

\* Mutant: the heartbeat is not recorded
TouchNothing == UNCHANGED <<now, roleVars, switchVars, heartbeatVars>>

\* _touchManager, to be joined to a manager action that leaves the rest alone
TouchManager ==
    /\ lastManagerAction' = now
    /\ UNCHANGED <<now, roleVars, switchVars, managerTimeout>>

ManagerIsDark ==
    /\ managerTimeout # 0
    /\ now > lastManagerAction + managerTimeout

-----------------------------------------------------------------------------
\* Mutant: the new manager inherits the old one's silence
SetSilentManager(caller, newManager) ==
    /\ OnlyOwner(caller)
    /\ manager' = newManager
    /\ UNCHANGED <<now, owner, guardian, switchVars, heartbeatVars>>

SetManager(caller, newManager) ==
    /\ OnlyOwner(caller)
    /\ manager' = newManager
    /\ lastManagerAction' = now
    /\ UNCHANGED <<now, owner, guardian, switchVars, managerTimeout>>

SetGuardian(caller, newGuardian) ==
    /\ OnlyOwner(caller)
    /\ guardian' = newGuardian
    /\ UNCHANGED <<now, owner, manager, switchVars, heartbeatVars>>

\* Ownable: transferOwnership to an account, renounceOwnership to NoOne
TransferOwnership(caller, newOwner) ==
    /\ OnlyOwner(caller)
    /\ owner' = newOwner
    /\ UNCHANGED <<now, manager, guardian, switchVars, heartbeatVars>>

SetManagerTimeout(caller, timeout) ==
    /\ OnlyOwner(caller)
    /\ managerTimeout' = timeout
    /\ UNCHANGED <<now, roleVars, switchVars, lastManagerAction>>

SetReduceOnlyMode(caller, enabled) ==
    /\ OnlyGuardianOrOwner(caller)
    /\ reduceOnlyMode' = enabled
    /\ UNCHANGED <<now, roleVars, paused, heartbeatVars>>

Pause(caller) ==
    /\ OnlyGuardianOrOwner(caller)
    /\ ~paused
    /\ paused' = TRUE
    /\ UNCHANGED <<now, roleVars, reduceOnlyMode, heartbeatVars>>

Unpause(caller) ==
    /\ OnlyOwner(caller)
    /\ paused
    /\ paused' = FALSE
    /\ UNCHANGED <<now, roleVars, reduceOnlyMode, heartbeatVars>>

\* block.timestamp moves on
Tick ==
    /\ now < MaxTime
    /\ now' = now + 1
    /\ UNCHANGED <<roleVars, switchVars, heartbeatVars>>

ControlNext ==
    \/ Tick
    \/ \E caller \in Accounts :
        \/ Pause(caller)
        \/ Unpause(caller)
        \/ \E enabled \in BOOLEAN : SetReduceOnlyMode(caller, enabled)
        \/ \E timeout \in Timeouts : SetManagerTimeout(caller, timeout)
        \/ \E to \in RoleCandidates : SetManager(caller, to)
        \/ \E to \in RoleCandidates \cup {NoOne} :
            SetGuardian(caller, to) \/ TransferOwnership(caller, to)
=============================================================================
