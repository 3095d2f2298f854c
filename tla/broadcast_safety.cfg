\* One broadcast, two workers, one of each fault; an audience larger than a batch.
CONSTANTS
    Broadcasts = {b1}
    Users = {u1, u2, u3}
    Groups = {g1}
    StageUsers = {u1}
    Workers = {w1, w2}
    COUNTER_BATCH = 2
    NoJob = NoJob
    NoChat = NoChat
    MaxCrashes = 1
    MaxDbErrors = 1
    MaxRedeliveries = 1
SPECIFICATION Spec
SYMMETRY WorkerSymmetry
INVARIANTS
    CountersNeverOverstated
    DoneCountsAudience
    CounterLossBounded
    RejectedUsersExcluded
PROPERTIES
    DoneIsFinal
    KeepsContract
CHECK_DEADLOCK FALSE
