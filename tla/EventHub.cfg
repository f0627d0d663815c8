\* A dashboard that reads and one that does not; a connection breaks, or the
\* hub restarts, once.
SPECIFICATION Spec
CONSTANTS
    reader = reader
    stalled = stalled
    PpsSteps <- OneRate
    Repetitions = 1
    MinSuccessPercent = 99
    MaxP95 = 100
    MinLoadDelivery = 90
    TicksPerSecond = 100
    Dashboards = {reader, stalled}
    Attentive = {reader}
    NodeLines <- Lines
    Capacity = 2
    WireSize = 1
    MaxEmitted = 3
    MaxBreaks = 1
INVARIANTS
    XdpLinesInOrder
PROPERTIES
    StreamPromise
    DashboardsCatchUp
\* Lines, and breaks, are bounded.
CHECK_DEADLOCK FALSE
