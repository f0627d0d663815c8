\* Two launches: calls the first one gave up reach their servers under the
\* second, asking for another rate than it does.
SPECIFICATION Spec
CONSTANTS
    PpsSteps <- TwoRates
    Repetitions = 1
    DefaultPps = 2000
    StartupMode = "monitor"
    MaxLaunches = 2
    MaxFaults = 0
    MaxChecks = 1
CONSTRAINTS
    FirstRateOfTheSecond
INVARIANTS
    CleanupHolds
    QuietWhileConfiguring
    MeasuredUnderItsDropPoint
    LoadIsItsOwn
\* A runner that has exited and is not launched again has nothing left to do.
CHECK_DEADLOCK FALSE
