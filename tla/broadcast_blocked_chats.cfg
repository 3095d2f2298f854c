\* One timeout is enough to list a chat that never rejected the bot.
CONSTANTS
    Broadcasts = {b1}
    Users = {u1}
    Groups = {g1}
    StageUsers = {u1}
    Workers = {w1}
    COUNTER_BATCH = 2
    NoJob = NoJob
    NoChat = NoChat
    MaxCrashes = 0
    MaxDbErrors = 0
    MaxRedeliveries = 0
SPECIFICATION Spec
INVARIANTS
    BlockedChatsRejectedTheBot
CHECK_DEADLOCK FALSE
