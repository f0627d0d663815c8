\* Two clients whose commands overlap, two CPUs, and a ticker that may fail to
\* read a counter.
SPECIFICATION Spec
CONSTANTS
    c1 = c1
    c2 = c2
    k1 = k1
    k2 = k2
    Conns <- TwoConns
    Cpus <- TwoCpus
    StartupMode = "monitor"
    MaxCommands = 2
    MaxPackets = 2
    MaxMisread = 2
CONSTRAINTS
    TwoIncidents
INVARIANTS
    TypeOK
    ShownModeIsApplied
    ProtectStopsTheLoad
    OnlyFailuresRepeat
PROPERTIES
    ControlIsARegister
    StatsCatchUp
\* Commands, packets and failures are bounded, the ticker is not.
