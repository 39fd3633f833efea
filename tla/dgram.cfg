SPECIFICATION Spec
SYMMETRY Symmetry
CONSTANTS
  Channs = {c1, c2}
  Fds = {f1}
  Null = Null
  Types = {"DGRAM"}
  Ops = {"listen", "connect", "recv", "send", "dgram_send", "active_send", "timer"}
  Disciplined = TRUE
  MaxCached = 1
INVARIANTS TypeOK
