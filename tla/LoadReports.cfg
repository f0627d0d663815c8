\* One client and the console, a hub that goes away once, perhaps for ever.
SPECIFICATION Spec
CONSTANTS
    c1 = c1
    Conns = {c1}
    Rates = {100}
    DefaultPps = 100
    TicksPerSecond = 100
    U64Max = 1
    MaxCommands = 1
    MaxConsole = 1
    MaxEmitted = 0
    MaxOutages = 1
PROPERTIES
    HubLearnsLoad
    HubIsNotNeeded
\* Nothing happens once the process has quit.
CHECK_DEADLOCK FALSE
