\* The program ends when run returns, and may wait for a client or a signal.
CHECK_DEADLOCK FALSE
CONSTANT TicksPerSecond = 2
CONSTANT Cooldown = 30
CONSTANT Chunk = 10
CONSTANT MaxLate = 1
CONSTANT MaxSignals = 1
CONSTANT MaxCalls = 1
SPECIFICATION FairSpec
PROPERTY CleanExit
