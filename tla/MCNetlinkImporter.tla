------------------------- MODULE MCNetlinkImporter -------------------------
EXTENDS NetlinkImporter

\* One MAC with an address, moved to another VTEP, and without the address: the
\* first two share a key, all three the FDB slot.
WithIP  == [mac |-> "m1", ip |-> "i1", vtep |-> "v1"]
Moved   == [WithIP EXCEPT !.vtep = "v2"]
MacOnly == [WithIP EXCEPT !.ip = "none"]
MCSnapshots == {{}, {WithIP}, {Moved}, {MacOnly}}
====
