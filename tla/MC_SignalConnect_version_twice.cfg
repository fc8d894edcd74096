\* A retried join after an init timeout.
CONSTANTS
    MaxJoins = 2
    UninitPromise <- MC_NullPromise
SPECIFICATION Spec
\* after the joins return and the connections settle nothing is left to happen
CHECK_DEADLOCK FALSE
INVARIANT VersionPromiseSetOnce
