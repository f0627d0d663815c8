\* The defaults: probes of at most 1.5 s, a drain of 2 s.
SPECIFICATION Spec
CONSTANTS
    c1 = c1
    Conns = {c1}
    Runner = c1
    Rates = {100}
    TargetPps = 100
    DefaultPps = 100
    TicksPerSecond = 100
    U64Max = 1
    MaxCommands = 6
    MaxConsole = 0
    MaxEmitted = 3
    HttpTimeout = 3
    HealthDrain = 4
    MaxRounds = 2
INVARIANTS
    DrainCollectsProbes
    RunAddsUp
\* The last measurement is complete, or waits for a tick that never comes.
CHECK_DEADLOCK FALSE
