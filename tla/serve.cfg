SPECIFICATION Spec
SYMMETRY Symmetry
CONSTANTS
  Channs = {c1, c2}
  Fds = {f1, f2}
  Null = Null
  Types = {"STREAM"}
  Ops = {"listen", "recv", "send", "active_send", "misuse", "disconnect", "fini"}
  Disciplined = FALSE
  MaxCached = 1
INVARIANTS Registered NoStalePointer NoFdLeak SendEventArmed
