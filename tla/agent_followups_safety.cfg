\* One customer, three follow-ups, events and opt-outs that meet a batch, a fault.
CONSTANTS
    Users = {u1}
    Followups = {f1, f2, f3}
    Handlers = {h1, h2, h3}
    Kinds = {"view", "price", "operator", "stop"}
    None = None
    MaxTotal = 2
    MaxDaily = 2
    BatchLimit = 2
    MaxFaults = 1
SPECIFICATION Spec
SYMMETRY Symmetry
INVARIANTS
    CountMatchesRows
    LifetimeCap
    GapHolds
    OnePendingPerType
    DisabledStaysQuiet
PROPERTIES
    NoRepeatWithoutLoss
CHECK_DEADLOCK FALSE
