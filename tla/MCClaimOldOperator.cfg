SPECIFICATION ChannelSpec
CONSTANTS
  Fds = {4, 5}
  First = a1
  Second = a2
  FirstNick = n1
  SecondNick = n2
  Addrs = {a1, a2, a3}
  Nicks = {n1, n2}
  BadNick = BadNick
  Chans = {c1}
  Keys = {}
  Topics = {}
  Limits = {}
  BadLimit = BadLimit
  NULL = NULL
  MaxTable = 6
INVARIANTS OperatorsAreLoggedIn
CHECK_DEADLOCK FALSE
