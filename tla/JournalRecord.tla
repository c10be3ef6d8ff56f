--------------------------- MODULE JournalRecord ---------------------------
(***************************************************************************)
(* The record kept in journal.json (pkg/ownership/journal.go) and the two  *)
(* ways a caller changes it.  Shared by IntentLog, the abstract journal,   *)
(* and Journal, the file protocol that implements it.                      *)
(***************************************************************************)
EXTENDS Naturals

CONSTANTS
    Config,  \* configuration digests a process may be started with
    Op,      \* operations (with their payload) a caller may intend
    State,   \* acknowledged states a caller may commit
    None     \* no journal file; no pending intent; the initial state null

ASSUME NoneAssumption == None \notin Op \cup State

\* Config stands for everything of Domain that outlives a boot: installation,
\* node, network namespace and configuration digest.
Domain == [cfg : Config, boot : Nat]
Intent == [seq : Nat, op : Op]
Record == [dom : Domain, seq : Nat, state : State \cup {None},
           pending : Intent \cup {None}]

ASSUME NoneIsNoRecord == None \notin Record \cup Intent

InitialRecord(d) == [dom |-> d, seq |-> 0, state |-> None, pending |-> None]

\* Begin's next record: the acknowledged state stays beside the new intent.
WithIntent(r, op) ==
    [r EXCEPT !.seq = @ + 1, !.pending = [seq |-> r.seq + 1, op |-> op]]

\* Commit's next record.
WithAcknowledgement(r, s) == [r EXCEPT !.pending = None, !.state = s]

\* What the callers of the journal have been told so far (history): the last
\* intent Begin returned success for, and whether its Commit was called.
Told == { t \in [seq : Nat, op : Op \cup {None}, claimed : BOOLEAN] :
             ~t.claimed => t.op # None }
NothingTold == [seq |-> 0, op |-> None, claimed |-> TRUE]
ToldIntent(i) == [seq |-> i.seq, op |-> i.op, claimed |-> FALSE]
Claim(t, seq) == IF t.seq = seq THEN [t EXCEPT !.claimed = TRUE] ELSE t

\* The record f still accounts for the intent t: nothing older than t, and
\* t itself still pending as long as nobody asked to acknowledge it.
Retains(f, t) ==
    /\ f.seq >= t.seq
    /\ ~t.claimed => f.pending = [seq |-> t.seq, op |-> t.op]
====
