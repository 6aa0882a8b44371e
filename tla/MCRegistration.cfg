SPECIFICATION Spec
CONSTANTS
  Fds = {4, 5}
  Addrs = {a1, a2}
  Nicks = {n1, n2}
  BadNick = BadNick
  Chans = {}
  Keys = {}
  Topics = {}
  Limits = {}
  BadLimit = BadLimit
  NULL = NULL
  MaxTable = 6
SYMMETRY Symmetry
INVARIANTS TypeOK OpenSocketHasClient LoggedIffRegistered UniqueNicks EntriesPaired CleanStop FreesOnceBeforeQuit
PROPERTIES ChangedByItsSocket
CHECK_DEADLOCK FALSE
