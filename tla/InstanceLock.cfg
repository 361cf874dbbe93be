CONSTANTS
  Pids = {p1, p2}
  NoFile = NoFile
  NoPid = NoPid
SPECIFICATION Spec
INVARIANT OneInstance
