\* Two broadcasts; no worker is killed, one transaction may fail, one message is
\* redelivered.
CONSTANTS
    Broadcasts = {b1, b2}
    Users = {u1}
    Groups = {g1}
    StageUsers = {u1}
    Workers = {w1, w2}
    COUNTER_BATCH = 2
    NoJob = NoJob
    NoChat = NoChat
    MaxCrashes = 0
    MaxDbErrors = 1
    MaxRedeliveries = 1
SPECIFICATION FairSpec
PROPERTIES
    QueuedSettles
CHECK_DEADLOCK FALSE
