--------------------------- MODULE MCKernelHandler ---------------------------
EXTENDS KernelHandler

\* r1 and r2 are behind one VTEP, r3 behind another; r1b is another path of the NLRI of r1, behind the
\* VTEP of r3; r4 is the MAC of r1 under another NLRI, there too; l1 has no remote VTEP, n1 no provisioned
\* VNI; e1 has no IP.
MCNlri == [r \in Routes |-> IF r = "r1b" THEN "r1" ELSE r]
MCMac == [r \in Routes |->
  CASE r \in {"r1", "r1b", "r4"} -> "m1" [] r = "r2" -> "m2" [] r = "r3" -> "m3" [] r = "l1" -> "m4" [] OTHER -> "m5"]
MCIP == [r \in Routes |->
  CASE r \in {"r1", "r1b", "r4"} -> "i1" [] r = "r2" -> "i2" [] r = "r3" -> "i3" [] r = "l1" -> "i4"
    [] r = "n1" -> "i5" [] OTHER -> None]
MCVtep == [r \in Routes |-> CASE r \in {"r1", "r2", "n1"} -> "vA" [] r \in {"r1b", "r3", "r4"} -> "vB"
  [] r = "e1" -> "vC" [] OTHER -> None]
MCProvisioned == Routes \ {"n1"}

W(rs, c, b) == [routes |-> rs, changes |-> c, breaks |-> b]

\* Routes that share nothing; routes that share a VTEP or a MAC; two paths of one NLRI, alone and beside
\* a route that shares the MAC or the VTEP; a MAC the bridge learns.
MCSetups ==
  { [world |-> W({"r1", "r3", "l1"}, 2, 1), manage |-> FALSE, learns |-> 0],
    [world |-> W({"r1", "r2", "r4"}, 2, 1), manage |-> TRUE, learns |-> 0],
    [world |-> W({"r1", "r1b", "e1"}, 2, 1), manage |-> TRUE, learns |-> 0],
    [world |-> W({"r1", "r1b", "r3"}, 3, 0), manage |-> TRUE, learns |-> 0],
    [world |-> W({"r1", "r1b", "r4"}, 2, 0), manage |-> TRUE, learns |-> 1],
    [world |-> W({"r1", "n1"}, 3, 1), manage |-> TRUE, learns |-> 2] }
=============================================================================
