-------------------------- MODULE MCCNIContinuity --------------------------
EXTENDS CNIContinuity

R(k, i) == [key |-> k, inc |-> i, ns |-> i]
First == R("p", "s1")
Second == R("p", "s2")
Other == R("q", "s3")
MCRequests == {First, Second, Other}

\* Two sandboxes of one pod, with faults; one of each of two pods, without.
MCScenarios ==
    { [reqs |-> {First, Second}, faults |-> 0], [reqs |-> {First, Other}, faults |-> 2] }
====
