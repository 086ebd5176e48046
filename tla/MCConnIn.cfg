SPECIFICATION Spec
CONSTANTS
    c1 = c1
    c2 = c2
    n1 = n1
    r1 = r1
    r2 = r2
    r3 = r3
    a = a
    b = b
    Calls = {}
    Notifs = {}
    Reqs = {r1, r2, r3}
    IDs = {a}
    NoID = NoID
    NoReq = NoReq
    App = App
    IdOf <- IdAAN
    CallerOf <- ByApp
    Factory = {}
    CloseInFactory = FALSE
    Preempted = {r3}
    AsyncReqs = {r2}
    Blocking = {}
    Faulty = {r1, r3}
    Cancelable = {}
    CancelIDs = {a}
    OnInternalError = TRUE
    WriteFaults = {"io", "rejected"}
    ReadFaults = {"eof"}
    CloseResults = {"none"}
INVARIANTS
    NoPanic
    LiveCallFindable
    OneUnreleasedHandler
    ReaderNeverWrites
    BrokenWriterCancels
    AcceptedCallAnswered
PROPERTIES
    AnsweredIDReusable
