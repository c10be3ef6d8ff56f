---------------------------- MODULE MCCNIServer ----------------------------
EXTENDS CNIServer

R(k, u, i, n, c, p, s) == [key |-> k, uid |-> u, inc |-> i, ns |-> n, cfg |-> c, name |-> p, ls |-> s]

\* Three sandboxes of one pod, the second with another configuration and logical
\* switch, the third with another interface name, and another endpoint whose port
\* name is cut off to the same 63 bytes.
MCRequests == {R("k1", "u1", "i1", "n1", "c1", "e0", "s1"), R("k1", "u1", "i2", "n2", "c2", "e0", "s2"),
               R("k1", "u1", "i3", "n3", "c1", "e1", "s1"), R("k2", "u2", "i4", "n4", "c1", "e0", "s1")}
CutOff == [p \in {"e0", "e1"} \X {"k1", "k2"} |-> IF p[1] = "e0" THEN "a" ELSE "b"]
OwnName == [k \in {"k1", "k2"} |-> IF k = "k1" THEN "a" ELSE "b"]
====
