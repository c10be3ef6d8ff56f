-------------------------- MODULE MCType2Exporter --------------------------
EXTENDS Type2Exporter

CONSTANTS k1, k2, a1, a2

Durable == [recovery |-> TRUE, uuids |-> FALSE, late |-> FALSE]

\* The durable exporter with a speaker that hides path UUIDs, as GoBGP does;
\* with one that shows them and may apply an AddPath late; and the exporter
\* without a journal.
AllSetups ==
    { Durable,
      [Durable EXCEPT !.uuids = TRUE, !.late = TRUE],
      [Durable EXCEPT !.recovery = FALSE] }

DurableSetup == {Durable}
====
