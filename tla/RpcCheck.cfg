\* A session whose client is gone does nothing more.
CHECK_DEADLOCK FALSE
CONSTANT MaxRequests = 3
SPECIFICATION FairSpec
INVARIANT AnsweredOnce
INVARIANT ExtractRight
PROPERTY RefusedIsNoOp
PROPERTY EventuallyAnswered
