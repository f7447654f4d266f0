\* A listener without clients waits for ever.
CHECK_DEADLOCK FALSE
CONSTANT Conns = {c1}
SPECIFICATION FairSpecH
INVARIANT SessionsExist
INVARIANT OnlyUnownedMissed
INVARIANT DeadlineFitsStage
PROPERTY NoLateAccept
PROPERTY ToldSessionsEnd
