\* A closed lead is still reminded about.
CONSTANTS
    Leads = {l1, l2}
    None = None
    InitialLeads <- StartLeads
    Cap = 2
    MaxEvents = 2
SPECIFICATION Spec
PROPERTIES
    ClosedLeftAlone
CHECK_DEADLOCK FALSE
