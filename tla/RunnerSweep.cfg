\* The whole sweep of one launch: two rates, walked up and then down; a server
\* restarts once at any moment.
SPECIFICATION Spec
CONSTANTS
    PpsSteps <- TwoRates
    Repetitions = 2
    DefaultPps = 2000
    StartupMode = "monitor"
    MaxLaunches = 1
    MaxFaults = 1
    MaxChecks = 1
INVARIANTS
    OneRunPerCondition
    TypeOK
    PublishedWindowIsItsOwn
    MeasuredUnderItsDropPoint
PROPERTIES
    SweepPromiseKept
    RunnerEnds
    PublishesAtRest
\* A runner that has exited and is not launched again has nothing left to do.
CHECK_DEADLOCK FALSE
