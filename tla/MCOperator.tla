----------------------------- MODULE MCOperator -----------------------------
EXTENDS Operator

\* The node agent in one namespace or in another, and a Deployment alone.
MCDesired == [a |-> {"agent1"}, b |-> {"agent2"}, c |-> {"app"}]
MCAgents == {"agent1", "agent2"}

\* One core that is edited twice; one edited once, through an upgrade or an
\* interrupted reconciliation; two that are created and deleted.
MCScenarios ==
    { [cores |-> <<"a", Gone>>, release |-> 2, edits |-> 0, stops |-> 1],
      [cores |-> <<"c", Gone>>, release |-> 1, edits |-> 1, stops |-> 1],
      [cores |-> <<"a", Gone>>, release |-> 2, edits |-> 1, stops |-> 0],
      [cores |-> <<"c", None>>, release |-> 2, edits |-> 2, stops |-> 1] }
====
