SPECIFICATION OrderlySpec
CONSTANTS
  Fds = {4, 5}
  First = a1
  Second = a2
  FirstNick = n1
  SecondNick = n2
  Addrs = {a1, a2, a3, a4}
  Nicks = {n1, n2}
  BadNick = BadNick
  Chans = {c1, c2}
  Keys = {}
  Topics = {}
  Limits = {}
  BadLimit = BadLimit
  NULL = NULL
  MaxTable = 5
INVARIANTS SocketLeadsToOwnClient MembersAreConnected
PROPERTIES ChannelMailIsExact PersonalMailIsExact DeparturesAreAnnounced ActsAsChat
VIEW RememberedQuietly
SYMMETRY Interchangeable
CHECK_DEADLOCK FALSE
