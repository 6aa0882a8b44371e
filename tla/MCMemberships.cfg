SPECIFICATION ChannelApart
CONSTANTS
  Fds = {4, 5}
  First = a1
  Second = a2
  FirstNick = n1
  SecondNick = n2
  Addrs = {a1, a2, a3, a4}
  Nicks = {n1, n2}
  BadNick = BadNick
  Chans = {c1}
  Keys = {}
  Topics = {}
  Limits = {}
  BadLimit = BadLimit
  NULL = NULL
  MaxTable = 6
INVARIANTS IInv MembersAreLive OneEntryPerMember OneEntryPerAdmin
PROPERTIES OperatorsComeFromMembers LookupIsStable
VIEW Remembered
SYMMETRY AddrSymmetry
CHECK_DEADLOCK FALSE
