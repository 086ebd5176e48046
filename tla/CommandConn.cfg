SPECIFICATION Spec
CONSTANTS
    Obeys = {"eof", "term", "kill", "self"}
    Statuses = {"ok", "fail"}
    Output = 5
    Capacity = 2
    Slack = 1
INVARIANTS
    TypeOK
    ExitIsReal
PROPERTIES
    CloseReturns
    GentleClose
