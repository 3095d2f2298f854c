\* Both jobs at work on two leads that others change.
CONSTANTS
    Leads = {l1, l2}
    None = None
    InitialLeads <- StartLeads
    Cap = 2
    MaxEvents = 2
SPECIFICATION FairSpec
INVARIANTS
    CountMatchesSends
    CapHolds
PROPERTIES
    SkippedLeftAlone
    DueSettles
    WeekSettles
CHECK_DEADLOCK FALSE
