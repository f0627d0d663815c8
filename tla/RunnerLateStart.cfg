\* A start call that is handled after the cleanup.
SPECIFICATION Spec
CONSTANTS
    PpsSteps <- OneRate
    Repetitions = 1
    DefaultPps = 2000
    StartupMode = "monitor"
    MaxLaunches = 1
    MaxFaults = 0
    MaxChecks = 1
INVARIANTS
    AckedStopIsFinal
\* A runner that has exited and is not launched again has nothing left to do.
CHECK_DEADLOCK FALSE
