CONSTANTS
    Peers <- MC_Peers
    RoomsAtStart <- MC_RoomAny
    InitResults <- MC_InitAny
    TransportResults <- MC_TransportAny
    Drivers <- MC_DriverAny
    Scripts <- MC_ScriptsSession
SPECIFICATION Spec
CHECK_DEADLOCK FALSE
INVARIANTS
    ProducersOnConnectedTransport
PROPERTY
    ScriptRunsToEnd
