SPECIFICATION Spec
CONSTANTS
    ca = ca
    cp = cp
    srv = srv
    None = None
    Clients = {ca, cp}
    Services = {srv}
    Calls = {1}
    Registers <- registersP
    Caller <- caller
    Target <- target
    Kinds <- kinds
    MaxItems = 2
    MaxLost = 1
CHECK_DEADLOCK FALSE
INVARIANTS AnswersFindTheirCall StreamsAreWhole
PROPERTIES CallCompletes
