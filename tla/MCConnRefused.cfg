SPECIFICATION Spec
CONSTANTS
    c1 = c1
    c2 = c2
    n1 = n1
    r1 = r1
    r2 = r2
    r3 = r3
    a = a
    b = b
    Calls = {}
    Notifs = {}
    Reqs = {r1}
    IDs = {a, b}
    NoID = NoID
    NoReq = NoReq
    App = App
    IdOf <- IdABN
    CallerOf <- ByApp
    Factory = {}
    CloseInFactory = FALSE
    Preempted = {}
    AsyncReqs = {}
    Blocking = {}
    Faulty = {}
    Cancelable = {}
    CancelIDs = {}
    OnInternalError = FALSE
    WriteFaults = {}
    ReadFaults = {"eof"}
    CloseResults = {"none"}
INVARIANTS
    RefusedCallAnswered
