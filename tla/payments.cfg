\* Two proofs (an album), three presses of the buttons, one restart.
CONSTANTS
    Payments = {p1, p2}
    Proofs = {m1, m2}
    Clicks = {k1, k2, k3}
    None = None
    MaxRestarts = 1
    MaxEntries = 1
SPECIFICATION FairSpec
INVARIANTS
    AuditMatchesRow
PROPERTIES
    KeepsContract
    EveryPressAnswered
CHECK_DEADLOCK FALSE
