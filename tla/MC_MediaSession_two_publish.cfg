CONSTANTS
    Peers <- MC_Peers
    RoomsAtStart <- MC_RoomOne
    InitResults <- MC_InitOk
    TransportResults <- MC_TransportOk
    Drivers <- MC_DriverMain
    Scripts <- MC_ScriptsTwoPublish
SPECIFICATION Spec
CHECK_DEADLOCK FALSE
INVARIANTS
    PublishNeverThrows
