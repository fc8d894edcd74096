\* One join; promise_ may hold heap garbage.
CONSTANTS
    MaxJoins = 1
    UninitPromise <- MC_AnyPromise
SPECIFICATION Spec
\* after the joins return and the connections settle nothing is left to happen
CHECK_DEADLOCK FALSE
INVARIANT WsPromiseUsedWhileValid
