\* A stop request of a customer without a memory row.
CONSTANTS
    Users = {u1}
    Followups = {f1}
    Handlers = {h1, h2}
    Kinds = {"view", "stop"}
    None = None
    MaxTotal = 2
    MaxDaily = 2
    BatchLimit = 20
    MaxFaults = 0
SPECIFICATION Spec
SYMMETRY Symmetry
INVARIANTS
    StopRequestHonoured
CHECK_DEADLOCK FALSE
