--------------------------- MODULE MCOvsdbHandler ---------------------------
EXTENDS OvsdbHandler

\* A short name and a long one with its first 13 characters.
MCTrunc == [n \in NetNames |-> IF n = "long" THEN "lon" ELSE n]

\* One server for every caller; or one each.
MCOne == [c \in Calls |-> "s1"]
MCOwn == [c \in Calls |-> IF c = "c2" THEN "s2" ELSE "s1"]

\* Two clients behind one speaker and one behind another, and the first of them over the other speaker
\* too (r1b); a local client, and its reflection;
\* a route nobody can classify; one of a VNI that is not provisioned.
MCKind == [r \in Routes |->
  CASE r \in {"r1", "r1b", "r2", "r3", "rx"} -> "remote" [] r = "l1" -> "local" [] r = "o1" -> "odd" [] OTHER -> "novni"]
MCNlri == [r \in Routes |-> IF r = "r1b" THEN "r1" ELSE r]
MCTransit == [r \in Routes |-> IF r \in {"r1b", "r3", "rx"} THEN "rtB" ELSE "rtA"]
MCRemote == [r \in Routes |-> IF r \in {"r1b", "r3", "rx"} THEN "vB" ELSE "vA"]
MCAddr == [r \in Routes |->
  CASE r \in {"r1", "r1b"} -> "a1" [] r = "r2" -> "a2" [] r = "r3" -> "a3" [] r = "o1" -> "a5" [] r = "n1" -> "a6" [] OTHER -> "a4"]
MCLocalPort == [r \in Routes |-> IF MCAddr[r] \in {"a4", "a5"} THEN "k8s" ELSE "none"]

W(rs, c, b) == [routes |-> rs, changes |-> c, breaks |-> b]
Nothing == [c \in Calls |-> {}]
R(op, l, n, v, a) == [op |-> op, ls |-> l, lsp |-> n, remote |-> v, addr |-> a]

\* Everything the handler, the network setup and a manual caller ask for, from one caller.
MCAll ==
  [c \in Calls |-> IF c # "c1" THEN {} ELSE
    {R("AddVtep", "net", "rtA", "v1", "-"), R("AddVtep", "net", "rtA", "v2", "-"), R("DelVtep", "net", "rtA", "-", "-"),
     R("AddClient", "net", "rtA", "-", "a1"), R("DelClient", "net", "rtA", "-", "a1"),
     R("AddLogicalSwitchPort", "net", "k8s", "-", "a1"), R("AddLogicalSwitchPort", "net", "k8s", "-", "a2"),
     R("DelLogicalSwitchPort", "net", "k8s", "-", "-"), R("GetVtep", "net", "rtA", "-", "-"),
     R("AddNetwork", "net", "-", "-", "-"), R("GetNetwork", "net", "-", "-", "-"),
     R("GetNetworks", "net", "-", "-", "-"), R("DelNetwork", "net", "-", "-", "-")}]

\* Two callers adding the same VTEP to one network or to two.
MCRace ==
  [c \in Calls |->
    CASE c = "c1" -> {R("AddNetwork", "net", "-", "-", "-"), R("AddVtep", "net", "rtA", "v1", "-")}
      [] c = "c2" -> {R("AddNetwork", "long", "-", "-", "-"), R("GetNetwork", "net", "-", "-", "-"),
                      R("AddVtep", "net", "rtA", "v1", "-"), R("AddVtep", "lon", "rtA", "v1", "-"),
                      R("DelVtep", "net", "rtA", "-", "-")}
      [] OTHER -> {}]

\* Two callers with two addresses for one port.
MCClients ==
  [c \in Calls |->
    CASE c = "c1" -> {R("AddNetwork", "net", "-", "-", "-"), R("AddVtep", "net", "rtA", "v1", "-"),
                      R("AddClient", "net", "rtA", "-", "a1")}
      [] c = "c2" -> {R("AddLogicalSwitchPort", "net", "rtA", "-", "a2"), R("AddClient", "net", "rtA", "-", "a2"),
                      R("DelClient", "net", "rtA", "-", "a2"), R("DelVtep", "net", "rtA", "-", "-")}
      [] OTHER -> {}]

\* Two callers that make, look up and delete one network, one of which puts a VTEP into it.
MCNets ==
  LET nets == {R(op, "net", "-", "-", "-") : op \in {"AddNetwork", "GetNetwork", "DelNetwork"}}
  IN [c \in Calls |-> CASE c = "c1" -> nets \cup {R("AddVtep", "net", "rtA", "v1", "-")} [] c = "c2" -> nets [] OTHER -> {}]

\* A local client that another caller adds and removes.
MCLocal ==
  [c \in Calls |-> IF c # "c1" THEN {} ELSE
    {R("AddLogicalSwitchPort", "net", "k8s", "-", "a4"), R("DelClient", "net", "k8s", "-", "a4")}]

\* Two callers for one local port.
MCPorts ==
  [c \in Calls |->
    CASE c = "c1" -> {R("AddNetwork", "net", "-", "-", "-"), R("AddLogicalSwitchPort", "net", "k8s", "-", "a1")}
      [] c = "c2" -> {R("AddLogicalSwitchPort", "net", "k8s", "-", "a1"), R("DelLogicalSwitchPort", "net", "k8s", "-", "-")}
      [] OTHER -> {}]

\* The handler alone, with routes of two speakers, with two paths of one NLRI or with a local route and
\* its reflection; beside a caller that adds the local client; callers without a handler.
MCSetups ==
  { [server |-> MCOne, reqs |-> Nothing, old |-> {"net"}, lag |-> FALSE, faults |-> 1,
     views |-> {"empty"}, tables |-> {W({"r1", "r2"}, 1, 0), W({"r1"}, 1, 1)}],
    [server |-> MCOne, reqs |-> Nothing, old |-> {}, lag |-> FALSE, faults |-> 0,
     views |-> {"empty"}, tables |-> {W({"r1", "r2", "r3"}, 2, 0), W({"r1", "r2"}, 1, 1)}],
    [server |-> MCOne, reqs |-> Nothing, old |-> {}, lag |-> FALSE, faults |-> 0,
     views |-> {"empty"}, tables |-> {W({"rx", "l1"}, 2, 1), W({"o1", "n1"}, 1, 0)}],
    [server |-> MCOne, reqs |-> Nothing, old |-> {}, lag |-> FALSE, faults |-> 1,
     views |-> {"empty"}, tables |-> {W({"rx", "l1"}, 1, 0)}],
    [server |-> MCOne, reqs |-> Nothing, old |-> {}, lag |-> FALSE, faults |-> 0,
     views |-> {"empty"}, tables |-> {W({"r1", "r1b"}, 2, 1)}],
    [server |-> MCOne, reqs |-> MCLocal, old |-> {}, lag |-> FALSE, faults |-> 0,
     views |-> {"empty"}, tables |-> {W({"rx"}, 1, 0)}],
    [server |-> MCOne, reqs |-> MCAll, old |-> {"net"}, lag |-> FALSE, faults |-> 1,
     views |-> {"rows", "empty"}, tables |-> {}],
    [server |-> MCOne, reqs |-> MCRace, old |-> {"net", "lon"}, lag |-> TRUE, faults |-> 1,
     views |-> {"empty"}, tables |-> {}],
    [server |-> MCOne, reqs |-> MCPorts, old |-> {}, lag |-> TRUE, faults |-> 0,
     views |-> {"empty"}, tables |-> {}],
    [server |-> MCOwn, reqs |-> MCClients, old |-> {}, lag |-> FALSE, faults |-> 0,
     views |-> {"empty"}, tables |-> {}],
    [server |-> MCOne, reqs |-> MCNets, old |-> {}, lag |-> FALSE, faults |-> 0,
     views |-> {"empty"}, tables |-> {}],
    [server |-> MCOwn, reqs |-> MCNets, old |-> {}, lag |-> FALSE, faults |-> 0,
     views |-> {"empty"}, tables |-> {}],
    [server |-> MCOwn, reqs |-> MCRace, old |-> {"net", "lon"}, lag |-> TRUE, faults |-> 0,
     views |-> {"empty"}, tables |-> {}] }
=============================================================================
