SPECIFICATION Spec
CONSTANTS
  Insts = {1, 2, 3}
  Pids = {10, 11}
  Containers = {"c1", "c2"}
  Ticks = {0, 1}
  Nodes <- MCNodes
  None = None
CHECK_DEADLOCK FALSE
INVARIANTS Pinned IncarnationIdentifies
