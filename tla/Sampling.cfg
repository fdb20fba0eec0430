SPECIFICATION Spec
CONSTANTS
    None = None
    lo = lo
    eth0 = eth0
    sda = sda
    Loopback = lo
    Cores <- MCCores
    Pids <- MCPids
    Disks <- MCDisks
    Nics <- MCNics
    Loads <- MCLoads
    BootLogs <- MCBootLogs
    AlertLimit = 2
    ReadLimit = 1
    RingSize = 3
    StaticAge = 2
    Budget <- MCBudget
INVARIANTS
    TypeOK
    RetainedAreTheLatest
    StaticIsRecent
PROPERTIES
    RatesNeverOverstate
    SettlesOnTheTruth
