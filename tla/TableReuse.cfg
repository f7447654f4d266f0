\* Every address may be used up.
CHECK_DEADLOCK FALSE
CONSTANT Users = {u1, u2}
CONSTANT NoUser = NoUser
CONSTANT NumSeats = 2
CONSTANT HandCap = 1
CONSTANT InitChips = {0}
CONSTANT Methods = {"play"}
CONSTANT JoinFirst = FALSE
CONSTANT MaxEpoch = 2
CONSTANT MaxQueue = 2
CONSTANT MaxWager = 5
SPECIFICATION FairSpec
PROPERTY OwnSeatOnly
PROPERTY SeatingSpec
PROPERTY SeatFreed
