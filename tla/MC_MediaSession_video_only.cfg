CONSTANTS
    Peers <- MC_Peers
    RoomsAtStart <- MC_RoomOne
    InitResults <- MC_InitOk
    TransportResults <- MC_TransportOk
    Drivers <- MC_DriverMain
    Scripts <- MC_ScriptsVideoOnly
SPECIFICATION Spec
CHECK_DEADLOCK FALSE
INVARIANT
    ProducersOnConnectedTransport
