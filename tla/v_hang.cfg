SPECIFICATION Spec
SYMMETRY Symmetry
CONSTANTS
  Channs = {c1}
  Fds = {f1}
  Null = Null
  Types = {"STREAM"}
  Ops = {"connect", "send"}
  Disciplined = TRUE
  MaxCached = 1
INVARIANTS NoHang
