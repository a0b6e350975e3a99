SPECIFICATION Spec
CONSTANTS
    alice = alice
    bob = bob
    hacker = hacker
    infiltrator = infiltrator
    Clients = {alice, bob}
    Roles = {hacker, infiltrator}
    Nobody = Nobody
    Numbers = {1, 2}
    MaxRefs <- MCMaxRefs
    MaxFaults = 1
    MaxLog = 3
SYMMETRY Symmetry
INVARIANT TypeOK
INVARIANT EpochClean
INVARIANT OnceInOrder
INVARIANT OutcomeHonest
INVARIANT NoFalseLeave
CHECK_DEADLOCK FALSE
