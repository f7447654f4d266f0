CONSTANT Codes = {1, 14, 2, 13}
CONSTANT Decks = 4
CONSTANT Capacity = 22
SPECIFICATION FairSpec
INVARIANT EvalRight
INVARIANT HandFits
PROPERTY HandEnds
