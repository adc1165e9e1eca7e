\* Three callers race upserts of three positions and deletes on one key.
SPECIFICATION FairSpec
CONSTANTS
    Writers = {a, b, c}
    Positions = {1, 2, 3}
    MaxCalls = 4
CHECK_DEADLOCK FALSE
INVARIANTS
    StoreInv
    NoUpsertLost
PROPERTIES
    ImplementsRegister
    CallsReturn
