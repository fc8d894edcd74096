\* Three joins; the uninitialised promise_ reads as null.
CONSTANTS
    MaxJoins = 3
    UninitPromise <- MC_NullPromise
SPECIFICATION Spec
\* after the joins return and the connections settle nothing is left to happen
CHECK_DEADLOCK FALSE
INVARIANT WsPromiseUsedWhileValid
PROPERTIES
    ConnectSyncReturnsOnceArmed
    JoinImplements
