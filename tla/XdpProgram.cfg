\* Two CPUs, three destinations in a map that holds two.
SPECIFICATION Spec
CONSTANTS
    k1 = k1
    k2 = k2
    h1 = h1
    h2 = h2
    h3 = h3
    Cpus <- TwoCpus
    Hosts <- ThreeHosts
    MaxDestinations = 2
    Window = 1
    Threshold = 3
    SampleEvery = 2
    U64 = 8
    MaxTime = 1
    MaxPackets = 4
SYMMETRY Alike
INVARIANTS
    TypeOK
    AlertsAreBacked
    OneAlertPerWindow
    ExactWithoutRaces
    EveryPacketIsCounted
    LoadIsSampled
\* Packets and time are bounded.
CHECK_DEADLOCK FALSE
