\* Every address may be used up.
CHECK_DEADLOCK FALSE
CONSTANT Users = {u1, u2}
CONSTANT NoUser = NoUser
CONSTANT NumSeats = 3
CONSTANT HandCap = 1
CONSTANT InitChips = {0}
CONSTANT Methods = {"play", "watch"}
CONSTANT JoinFirst = TRUE
CONSTANT MaxEpoch = 1
CONSTANT MaxQueue = 2
CONSTANT MaxWager = 5
SYMMETRY Symmetry
SPECIFICATION Spec
INVARIANT NoDanglingName
