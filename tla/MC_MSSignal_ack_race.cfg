CONSTANTS
    Callers = {c1, c2}
    ClientIds <- MC_ClientIds
    ServerIds <- MC_ServerIdsDisjoint
    NoWaiter = NoWaiter
    NoMsg = NoMsg
SPECIFICATION Spec
PROPERTY WaiterResolved
