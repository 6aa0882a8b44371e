SPECIFICATION Spec
CONSTANTS
  Fds = {4, 5}
  Letters = {Q}
  CR = CR
  LF = LF
  Quit = Q
  Listener = Listener
  NULL = NULL
  Backlog = 2
  BufSize = 2
  MaxEvents = 2
  MaxBytes = 3
PROPERTIES ConnectionStartsEmpty
CHECK_DEADLOCK FALSE
