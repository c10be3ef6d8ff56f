----------------------------- MODULE IntentLog -----------------------------
(***************************************************************************)
(* What the ownership journal promises its callers, without files, locks   *)
(* or processes: a log that records one intent at a time and replaces the  *)
(* acknowledged state only together with that intent.  Interruptions may   *)
(* undo a write nobody was told of, never one somebody was.                *)
(***************************************************************************)
EXTENDS JournalRecord

VARIABLES
    log,      \* the record a process opening the journal would read, or None
    settled,  \* the record that is sure to survive a power cut
    told      \* the last intent a caller was told of

vars == <<log, settled, told>>

TypeOK ==
    /\ log \in Record \cup {None}
    /\ settled \in Record \cup {None}
    /\ told \in Told

Init == log = None /\ settled = None /\ told = NothingTold

\* A journal is created only when no intent can have been lost with an old one.
Create ==
    /\ log = None /\ told = NothingTold
    /\ log' \in Record /\ log' = InitialRecord(log'.dom)
    /\ UNCHANGED <<settled, told>>

RecordIntent(op) ==
    /\ log # None /\ log.pending = None
    /\ log' = WithIntent(log, op)
    /\ UNCHANGED <<settled, told>>

\* An intent that was told to a caller ends only when the caller claims it.
ReplaceState(s) ==
    /\ log # None /\ log.pending # None
    /\ log.pending.seq = told.seq => told.claimed
    /\ log' = WithAcknowledgement(log, s)
    /\ UNCHANGED <<settled, told>>

\* A write becomes durable; if it is an intent its caller may be told.
Settle ==
    /\ log # None
    /\ settled' = log
    /\ \/ told' = told
       \/ log.pending # None /\ told' = ToldIntent(log.pending)
    /\ UNCHANGED log

ClaimResult ==
    /\ log # None /\ log.pending # None
    /\ told' = Claim(told, log.pending.seq)
    /\ UNCHANGED <<log, settled>>

PowerCut ==
    /\ log' \in {log, settled}
    /\ settled' = log'
    /\ UNCHANGED told

\* The evidence is lost altogether; Create then stays disabled for good if
\* any intent was ever told.
Lose ==
    /\ log' = None /\ settled' = None
    /\ UNCHANGED told

Next ==
    \/ Create
    \/ \E op \in Op : RecordIntent(op)
    \/ \E s \in State : ReplaceState(s)
    \/ Settle \/ ClaimResult \/ PowerCut \/ Lose

Spec == Init /\ [][Next]_vars
====
