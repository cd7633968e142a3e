CONSTANTS
    Actor = {a1, a2, a3, a4}
    CountModulus = 8
    PosModulus = 12
    MaxSends = 2
SPECIFICATION UnionSpec
INVARIANT FailsOnlyWhenAllFail
CHECK_DEADLOCK FALSE
