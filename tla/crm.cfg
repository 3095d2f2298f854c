SPECIFICATION Spec
CONSTANTS
    Handlers = {h1, h2, h3}
    NoOne = NoOne
    FirstStages = {"NEW"}
    MaxCrossings = 1
    Scans = {"delay", "chat"}
    KeyTtl = 2
    LastTick = 4
    Cooldown = 1
    LastMinute = 4
    MaxMessages = 2
    SummaryEvery = 2
    MaxResets = 2
    MaxAnswers = 2
    MaxNonces = 2
    LinkWindow = 2
    LastSecond = 6
    MaxDetected = 3
    MinConfidence = 50
    MaxTexts = 2
    MaxHits = 2
    MaxRequests = 3
    Env <- LiveEnv
    Confidences = {0, 50, 80}
    Objections = {"price", "delay"}
    MaxOccurrences = 2
    Sides = {5, 20, 40, 50, 100, 250, 501}
SYMMETRY Perms
CHECK_DEADLOCK FALSE
INVARIANTS
    CrmTypeOK
    ButtonsFollowTransitions
    SubmissionComplete
    ResetForgets
    LabelTellsBranch
    AnswersLeadOn
    
PROPERTIES
    QuoteOnce
    RejectedNotHandedOver
    ExpiryIsFinal
    AlertsSpaced
    CardsSpaced
    QuietAfterPhone
    LinkMuteEarned
    AgentHeeds
    PresetInForce
    EffortPays
