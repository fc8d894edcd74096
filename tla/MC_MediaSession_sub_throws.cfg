CONSTANTS
    Peers <- MC_Peers
    RoomsAtStart <- MC_RoomOne
    InitResults <- MC_InitOk
    TransportResults <- MC_TransportOk
    Drivers <- MC_DriverMain
    Scripts <- MC_ScriptsOneSubscribe
SPECIFICATION Spec
CHECK_DEADLOCK FALSE
INVARIANTS
    SubscribeNeverThrows
