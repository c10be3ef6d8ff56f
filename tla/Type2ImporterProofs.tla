------------------------ MODULE Type2ImporterProofs ------------------------
(***************************************************************************)
(* Generations of the read-only importer, for any table, policy and number *)
(* of faults: they never go back, and one names one snapshot.              *)
(***************************************************************************)
EXTENDS Type2Importer, TLAPS

Counted == confirmed.gen \in Nat

\* What every step keeps; Publish is the only one that replaces the result, and counts when it does.
Counts ==
    /\ confirmed'.gen \in Nat /\ confirmed'.gen >= confirmed.gen
    /\ confirmed'.gen = confirmed.gen => confirmed'.result = confirmed.result

\* Publish itself.
LEMMA PublishCounts == ASSUME Counted, NEW r, Publish(r) PROVE Counts
  BY DEF Counted, Counts, Publish

\* No step of the importer or the speaker lets a generation go back or change its result.
LEMMA StepCounts == ASSUME Counted, [Next]_vars PROVE Counts
  <1>1. CASE RebindSource
    BY <1>1 DEF RebindSource, Counted, Counts
  <1>2. CASE PollEnds
    <2>1. CASE Uncertain
      BY <2>1 DEF Uncertain, Counted, Counts
    <2>2. ASSUME NEW r, Publish(r) PROVE Counts
      BY <2>2, PublishCounts
    <2>. QED
      BY <1>2, <2>1, <2>2 DEF PollEnds
  <1>3. CASE UNCHANGED confirmed
    BY <1>3 DEF Counted, Counts
  <1>. QED
    BY <1>1, <1>2, <1>3
    DEF Next, Importer, DialFails, NoPoll, ListPath, Recv, PollFails, Uncertain, RibChanges, SpeakerRestarts, vars

\* Poll never publishes different endpoints or issues under a generation it has used, however long it runs.
THEOREM GenerationsNameResults == Spec => GenerationNamesResult
  <1>1. Init => Counted
    BY DEF Init, Counted
  <1>2. Counted /\ [Next]_vars => Counted'
    BY StepCounts DEF Counts, Counted
  <1>3. Counted /\ [Next]_vars =>
          [ /\ confirmed'.gen >= confirmed.gen
            /\ confirmed'.gen = confirmed.gen => confirmed'.result = confirmed.result ]_vars
    BY StepCounts DEF Counts
  <1>. QED
    BY <1>1, <1>2, <1>3, PTL DEF Spec, GenerationNamesResult
=============================================================================
