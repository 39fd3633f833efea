SPECIFICATION Spec
SYMMETRY Symmetry
CONSTANTS
  Channs = {c1, c2}
  Fds = {f1, f2}
  Null = Null
  Types = {"STREAM"}
  Ops = {"connect", "connect_fails", "disconnect", "recv", "send", "listen", "nonblock_fails"}
  Disciplined = TRUE
  MaxCached = 0
INVARIANTS SocketOwner NoUseAfterFree DisListEnds
PROPERTIES ClosedStaysSilent QueueLosesNobody
