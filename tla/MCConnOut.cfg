SPECIFICATION Spec
CONSTANTS
    c1 = c1
    c2 = c2
    n1 = n1
    r1 = r1
    r2 = r2
    r3 = r3
    a = a
    b = b
    Calls = {c1, c2}
    Notifs = {n1}
    Reqs = {r1}
    IDs = {a}
    NoID = NoID
    NoReq = NoReq
    App = App
    IdOf <- IdABN
    CallerOf <- PeersInR1
    Factory = {}
    CloseInFactory = TRUE
    Preempted = {}
    AsyncReqs = {}
    Blocking = {}
    Faulty = {}
    Cancelable = {c1}
    CancelIDs = {}
    OnInternalError = FALSE
    WriteFaults = {"io"}
    ReadFaults = {"err"}
    CloseResults = {"io"}
INVARIANTS
    TypeOK
    NoPanic
    CallResolvedOrTracked
    TrackedCallsHaveReader
    NoWriteOnClosedTransport
    DoneMeansDrained
PROPERTIES
    ShutdownDrains
    LifecycleSpec
