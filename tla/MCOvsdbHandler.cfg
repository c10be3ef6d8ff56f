SPECIFICATION FairSpec
CONSTANTS
  Calls = {"h", "old", "c1", "c2"}
  Self = "h"
  Old = "old"
  Servers = {"s1", "s2"}
  Setups <- MCSetups
  NetNames = {"net", "long", "lon"}
  Net = "net"
  Trunc <- MCTrunc
  Lsps = {"rtA", "rtB", "k8s", "none"}
  Foreign = "br"
  Addrs = {"a1", "a2", "a3", "a4", "a5"}
  Switches = {1, 2, 3, 4, 5}
  Uids = {1, 2, 3, 4, 5}
  None = None
  Nlri <- MCNlri
  Routes = {"r1", "r1b", "r2", "r3", "rx", "l1", "o1", "n1"}
  Kind <- MCKind
  Transit <- MCTransit
  Remote <- MCRemote
  LocalPort <- MCLocalPort
  Addr <- MCAddr
  Attempts = 2
CHECK_DEADLOCK FALSE
 
PROPERTIES AckedVtep  RoutesLearned
