\* One episode, one crash.
SPECIFICATION Spec
CONSTANTS
    MaxEpisodes = 1
    MaxWork = 1
    MaxFaults = 0
    MaxCrashes = 1
INVARIANT InterruptedEffectIsAccepted
CHECK_DEADLOCK FALSE
