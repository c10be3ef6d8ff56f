-------------------------- MODULE MCType2Importer --------------------------
EXTENDS Type2Importer

\* One configured network; VNI 2 has no mapping.
MCNetworks == [n \in {1} |-> [rts |-> {"rt"}, vteps |-> {"v1", "v2"}]]

Plain == [id |-> 0, dest |-> 0, attr |-> 0, withdrawn |-> FALSE, neighbor |-> "peer",
          external |-> TRUE, routeOK |-> TRUE, attrsOK |-> TRUE, stale |-> FALSE, supported |-> TRUE,
          mac |-> "m1", ip |-> "none", vtep |-> "v1", vni |-> 1, rts |-> {"rt"}]

\* A MAC alone, with an address, moved to another VTEP, from a second neighbour
\* and without an importable target; its address at a second MAC; a local, a
\* stale and an ambiguous path; malformed attributes, a malformed local route.
MacOnly   == [Plain EXCEPT !.id = 1, !.dest = 1]
MacMoved  == [Plain EXCEPT !.id = 1, !.dest = 1, !.attr = 1, !.vtep = "v2"]
MacIP     == [Plain EXCEPT !.id = 2, !.dest = 2, !.ip = "i1"]
SecondMac == [Plain EXCEPT !.id = 3, !.dest = 3, !.mac = "m2", !.ip = "i1"]
OtherRT   == [Plain EXCEPT !.id = 4, !.dest = 1, !.rts = {"other"}]
OtherVNI  == [Plain EXCEPT !.id = 5, !.dest = 4, !.mac = "m2", !.vni = 2]
Local     == [Plain EXCEPT !.id = 6, !.dest = 2, !.neighbor = "none", !.external = FALSE]
Stale     == [Plain EXCEPT !.id = 7, !.dest = 5, !.mac = "m2", !.stale = TRUE]
Odd       == [Plain EXCEPT !.id = 8, !.dest = 6, !.neighbor = "none"]
Malformed == [Plain EXCEPT !.id = 9, !.dest = 6, !.attrsOK = FALSE]
BadLocal  == [Local EXCEPT !.id = 10, !.dest = 4, !.routeOK = FALSE]
MCPaths == {MacOnly, MacMoved, MacIP, SecondMac, OtherRT, OtherVNI, Local, Stale, Odd, Malformed, BadLocal}
\* The ones a poll can disagree about from one time to the next.
MCChangingPaths == {MacOnly, MacMoved, MacIP, OtherRT, Malformed}
====
