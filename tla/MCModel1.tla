------------------------------ MODULE MCModel1 ------------------------------
EXTENDS Model1

E(m, i, v) == [mac |-> m, ip |-> i, vtep |-> v]

\* Ribs that make a tunnel, change it, move it and withdraw it; two MACs with one
\* address are refused.
MCRibs == { {}, {E("m1", "i1", "v1")}, {E("m1", "i1", "v1"), E("m2", "none", "v1")}, {E("m2", "none", "v2")},
            {E("m1", "i1", "v1"), E("m2", "i1", "v1")} }

Bounds(lag, c, a, f, l, r) ==
    [lag |-> lag, changes |-> c, admin |-> a, fails |-> f, lost |-> l, restarts |-> r]

\* An administrator's change with a lost reply and a restart; failures of every kind
\* and no administrator; a copy that lags, with a failure and with an administrator.
MCSetups ==
    { Bounds(FALSE, 1, 1, 0, 1, 1), Bounds(FALSE, 2, 0, 1, 1, 1),
      Bounds(TRUE, 2, 0, 1, 0, 0), Bounds(TRUE, 2, 1, 0, 0, 0) }
====
