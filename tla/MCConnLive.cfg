SPECIFICATION FairSpec
CONSTANTS
    c1 = c1
    c2 = c2
    n1 = n1
    r1 = r1
    r2 = r2
    r3 = r3
    a = a
    b = b
    Calls = {c1}
    Notifs = {}
    Reqs = {r1, r2}
    IDs = {a, b}
    NoID = NoID
    NoReq = NoReq
    App = App
    IdOf <- IdABN
    CallerOf <- C1InR1
    Factory = {}
    CloseInFactory = FALSE
    Preempted = {}
    AsyncReqs = {r1}
    Blocking = {}
    Faulty = {}
    Cancelable = {}
    CancelIDs = {a}
    OnInternalError = FALSE
    WriteFaults = {"io"}
    ReadFaults = {"eof"}
    CloseResults = {"none"}
PROPERTIES
    CloseReturns
    CallsReturn
    RequestsFinish
