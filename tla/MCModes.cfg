SPECIFICATION ChannelSpec
CONSTANTS
  Fds = {4, 5}
  First = a1
  Second = a2
  FirstNick = n1
  SecondNick = n2
  Addrs = {a1, a2, a3}
  Nicks = {n1, n2}
  BadNick = BadNick
  Chans = {c1}
  Keys = {k1}
  Topics = {t1}
  Limits = {1}
  BadLimit = BadLimit
  NULL = NULL
  MaxTable = 4
INVARIANTS ModesHaveArguments
PROPERTIES EntryRespectsModes
VIEW Remembered
CHECK_DEADLOCK FALSE
