\* Every address may be used up.
CHECK_DEADLOCK FALSE
CONSTANT Users = {u1, u2}
CONSTANT NoUser = NoUser
CONSTANT NumSeats = 3
CONSTANT HandCap = 2
CONSTANT InitChips = {7}
CONSTANT Methods = {"play", "watch", "bet", "start", "hit", "stand"}
CONSTANT JoinFirst = TRUE
CONSTANT MaxEpoch = 1
CONSTANT MaxQueue = 1
CONSTANT MaxWager = 5
SYMMETRY Symmetry
SPECIFICATION Spec
INVARIANT OneSeatPerUser
INVARIANT NoMissedUpdate
INVARIANT ChipsConserved
INVARIANT DealsInTurn
