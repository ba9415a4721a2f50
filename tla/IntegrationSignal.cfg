\* A reviewed Run and one crash or signal: nothing else happens.
SPECIFICATION Spec
CONSTANTS
    MaxFaults = 0
    MaxCrashes = 1
    MaxMeddling = 0
INVARIANT SignalledRunIsAccepted
CHECK_DEADLOCK FALSE
