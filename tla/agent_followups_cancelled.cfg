\* A follow-up cancelled while the batch sends it.
CONSTANTS
    Users = {u1}
    Followups = {f1}
    Handlers = {h1, h2}
    Kinds = {"view", "phone"}
    None = None
    MaxTotal = 2
    MaxDaily = 2
    BatchLimit = 20
    MaxFaults = 0
SPECIFICATION Spec
PROPERTIES
    CancelledStays
CHECK_DEADLOCK FALSE
