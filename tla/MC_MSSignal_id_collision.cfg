CONSTANTS
    Callers = {c1, c2}
    ClientIds <- MC_ClientIds
    ServerIds <- MC_ServerIdsOverlap
    NoWaiter = NoWaiter
    NoMsg = NoMsg
SPECIFICATION Spec
INVARIANT CorrelatedResolution
