\* A run of one second at four rates; windows of up to 22 probes.
SPECIFICATION Spec
CONSTANTS
    PpsSteps <- FourRates
    Repetitions = 1
    MinSuccessPercent = 90
    MaxP95 = 100
    MinLoadDelivery = 90
    TicksPerSecond = 100
    Samples = 22
    First <- FirstWell
    Readings <- SomeReadings
INVARIANTS
    PercentileIsNearestRank
    MaintainedMeansServed
    SlowSenderIsNoticed
    CpuBusyIsAShareOfTime
    RunnerRunsAreValid
\* A run is read once.
CHECK_DEADLOCK FALSE
