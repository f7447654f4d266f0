\* The program ends when run returns, and may wait for a client or a signal.
CHECK_DEADLOCK FALSE
CONSTANT TicksPerSecond = 2
CONSTANT Cooldown = 30
CONSTANT Chunk = 10
CONSTANT MaxLate = 1
CONSTANT MaxSignals = 2
CONSTANT MaxCalls = 2
CONSTANT Threads = {0, 1}
CONSTANT NumListeners = 2
SPECIFICATION FairSpecP
INVARIANT SignalHeard
INVARIANT WholeServer
PROPERTY CountdownSpec
PROPERTY GracePeriodKept
PROPERTY StopsWhenAsked
PROPERTY ExitsUnlessSignalled
