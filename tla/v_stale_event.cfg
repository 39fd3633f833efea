SPECIFICATION FairSpec
CONSTANTS
  Channs = {c1, c2}
  Fds = {f1, f2}
  Null = Null
  Types = {"STREAM"}
  Ops = {"connect", "disconnect"}
  Disciplined = TRUE
  MaxCached = 0
PROPERTIES ConnectedIsConnected
