SPECIFICATION Spec
CONSTANTS
  Routes = {"r1", "r1b", "r2", "r3", "r4", "l1", "n1", "e1"}
  Nlri <- MCNlri
  Mac <- MCMac
  IP <- MCIP
  Vtep <- MCVtep
  Provisioned <- MCProvisioned
  Setups <- MCSetups
  MaxFaults = 1
  None = None
CHECK_DEADLOCK FALSE
INVARIANTS Consistent
