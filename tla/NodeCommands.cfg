\* Two clients and the console against both workers; a rate that is refused, a
\* default of one packet per tick.
INIT InitNode
NEXT NextNode
CONSTANTS
    c1 = c1
    c2 = c2
    Conns <- TwoConns
    Rates = {0, 1}
    DefaultPps = 2
    TicksPerSecond = 2
    U64Max = 1
    MaxCommands = 2
    MaxConsole = 1
    MaxEmitted = 2
SYMMETRY ConnSymmetry
INVARIANTS
    TypeOKNode
    AtMostOneBurstTrails
    StrayProbesBounded
PROPERTIES
    OwnProbesOnly
    LoadIsASwitch
\* Nothing happens once the process has quit.
CHECK_DEADLOCK FALSE
