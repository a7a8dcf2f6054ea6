\* Every kind of relocation a special function treats, in small sections.
SPECIFICATION Spec
CONSTANTS
    LoSpan = 4
    HiSpan = 16
    HalfSpan = 8
    CallSpan = 8
    BranchSpan = 4
    Links <- MCLinks
INVARIANTS
    TypeOK
    PairLosesOnlyTheCarry
    BranchReaches
    InstalledOnceForOwnSymbol
\* The link ends after the last section.
CHECK_DEADLOCK FALSE
