\* A listener without clients waits for ever.
CHECK_DEADLOCK FALSE
CONSTANT Conns = {c1}
SPECIFICATION FairSpec
PROPERTY StopReachesAll
