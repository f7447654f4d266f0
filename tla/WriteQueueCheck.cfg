\* The session may fall idle: all messages written, nothing to do.
CHECK_DEADLOCK FALSE
CONSTANT Messages = {m1, m2, m3}
CONSTANT Long = {m3}
CONSTANT Others = 1
CONSTANT MaxHeld = 1
SPECIFICATION FairSpecB
INVARIANT OneWriter
INVARIANT NoStall
INVARIANT NoLossNoDuplicate
INVARIANT CountExact
INVARIANT InOrderWhenShort
PROPERTY MailboxSpec
PROPERTY EventuallyWritten
PROPERTY BufferFreed
