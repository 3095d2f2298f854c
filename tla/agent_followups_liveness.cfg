\* Every transaction ends and every follow-up is settled, despite a fault.
CONSTANTS
    Users = {u1}
    Followups = {f1, f2}
    Handlers = {h1, h2}
    Kinds = {"view", "phone", "stop"}
    None = None
    MaxTotal = 2
    MaxDaily = 2
    BatchLimit = 20
    MaxFaults = 1
SPECIFICATION FairSpec
PROPERTIES
    HandlersFinish
    FollowupsSettle
CHECK_DEADLOCK FALSE
