\* One failed or unanswered call, two crashes or signals and two actions of other people, in
\* any order and at any point.
SPECIFICATION Spec
CONSTANTS
    MaxFaults = 1
    MaxCrashes = 2
    MaxMeddling = 2
INVARIANTS
    TypeOK
    MutationsAreCovered
    CompletionIsTrue
PROPERTIES
    NothingRepeated
    OthersWorkKept
    ImplementsDelivery
    Recovers
CHECK_DEADLOCK FALSE
