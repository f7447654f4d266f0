CONSTANT Users = {u1, u2}
CONSTANT Channels = {sys, table}
CONSTANT Sys = sys
CONSTANT Tables = {table}
SPECIFICATION FairSpec
INVARIANT MemberExists
INVARIANT ListsAgree
INVARIANT VerifyHolds
INVARIANT MembersNamed
PROPERTY RosterSpec
PROPERTY DisconnectCleansUp
