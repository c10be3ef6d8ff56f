------------------------ MODULE MCSpeakerContinuity ------------------------
EXTENDS SpeakerContinuity

\* Two containers whose executables and Kubernetes objects change; one container with three
\* processes and one guard after another.
MCNodes ==
  { [insts |-> {1, 2}, conts |-> {"c1", "c2"}, edits |-> 1, guards |-> 1],
    [insts |-> {1, 2, 3}, conts |-> {"c1"}, edits |-> 0, guards |-> 2] }
=============================================================================
