SPECIFICATION Spec
CONSTANTS
    Reqs = {r1}
    Registrants = {g1, g2}
    Extensions = {"_x"}
    Muxes = {"absent", "set"}
    Missing <- NoCancel
    AnyPeer = FALSE
    WireIDs <- IDs
    HandlerErrors <- Errors
    MaxExact = 4
    Nobody = Nobody
    r1 = r1
    r2 = r2
    g1 = g1
    g2 = g2
INVARIANTS
    TypeOK
    ContractKept
    SentIsHandled
    RegistrationStands
    CallerLearnsOutcome
PROPERTIES
    NotFoundMeansUnregistered
