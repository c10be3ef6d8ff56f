------------------------------ MODULE Journal ------------------------------
(***************************************************************************)
(* The durable ownership journal of pkg/ownership/journal.go, shared by    *)
(* the exporter, the importer and the CNI server: one directory holding a  *)
(* lock file and one journal file, replaced by write, fsync, rename and    *)
(* directory fsync.                                                        *)
(*                                                                         *)
(* Each member of Proc is one process that may Open the journal, use it,   *)
(* die and Open it again.  Every system call that another process, a kill  *)
(* or a power cut can tell apart is an action of its own.  The caller is   *)
(* modelled only by what it asks (Begin, Commit, Close) and by what it has *)
(* been told (told): what Begin promises is that the intent is on stable   *)
(* storage before the caller executes the operation.                       *)
(***************************************************************************)
EXTENDS JournalRecord

CONSTANTS
    Proc,      \* processes that may open the journal
    MaxSeq,    \* largest operation sequence number, 2^64 - 1 in the code
    MaxBoot,   \* bound: number of machine restarts
    MaxInode,  \* bound: number of lock files ever created
    Torn       \* a journal file whose contents did not reach the disk

ASSUME TornAssumption == Torn \notin Record \cup {None}
ASSUME BoundAssumption == MaxSeq \in Nat /\ MaxBoot \in Nat /\ MaxInode \in Nat

VARIABLES
    fs,       \* the directory as a running system sees it
    disk,     \* what a power cut is sure to leave of it
    boot,     \* the machine's boot ID
    pc,       \* pc[p]: where p is in Open, persist or between calls
    cfg,      \* cfg[p]: the digest p was started with
    held,     \* held[p]: inode of the lock file p has open
    fresh,    \* fresh[p]: p created the directory (then: the lock file)
    fenced,   \* fenced[p]: j.blocked is set
    rec,      \* rec[p]: j.record
    next,     \* next[p]: the record persist is writing
    call,     \* call[p]: the operation persist is running for
    flushed,  \* flushed[p]: the temporary file's contents were synced
    told      \* the last intent a caller was told is durable (history)

procVars == <<pc, cfg, held, fresh, fenced, rec, next, call, flushed>>
vars == <<fs, disk, boot, procVars, told>>

File == Record \cup {None, Torn}
Directory == [dir : BOOLEAN, ino : Nat, journal : File, flushed : BOOLEAN]

Opening == {"dir", "lock", "held"}
Persisting == {"create", "fsync", "rename", "dirsync"}
Locked == {"held", "idle"} \cup Persisting

\* What Open accepts of a journal file: intact, of this domain, and with a
\* pending intent that carries the record's own sequence number.
Acceptable(f, d) ==
    /\ f \notin {None, Torn}
    /\ f.dom = d
    /\ f.pending # None => f.pending.seq = f.seq /\ f.seq # 0

Init ==
    /\ fs = [dir |-> FALSE, ino |-> 0, journal |-> None, flushed |-> TRUE]
    /\ disk = fs
    /\ boot = 0
    /\ pc = [p \in Proc |-> "down"]
    /\ cfg \in [Proc -> Config]
    /\ held = [p \in Proc |-> 0]
    /\ fresh = [p \in Proc |-> FALSE]
    /\ fenced = [p \in Proc |-> FALSE]
    /\ rec = [p \in Proc |-> None]
    /\ next = [p \in Proc |-> None]
    /\ call = [p \in Proc |-> "open"]
    /\ flushed = [p \in Proc |-> FALSE]
    /\ told = NothingTold

\* The memory of a process that closed the journal or died.
Exit(p) ==
    /\ pc' = [pc EXCEPT ![p] = "down"]
    /\ held' = [held EXCEPT ![p] = 0]
    /\ fresh' = [fresh EXCEPT ![p] = FALSE]
    /\ fenced' = [fenced EXCEPT ![p] = FALSE]
    /\ rec' = [rec EXCEPT ![p] = None]
    /\ next' = [next EXCEPT ![p] = None]
    /\ call' = [call EXCEPT ![p] = "open"]
    /\ flushed' = [flushed EXCEPT ![p] = FALSE]

----------------------------------------------------------------------------
(* Open *)

\* openDirectory: Mkdirat and the parent's fsync when the directory is new.
OpenDirectory(p, c) ==
    /\ pc[p] = "down"
    /\ pc' = [pc EXCEPT ![p] = "dir"]
    /\ cfg' = [cfg EXCEPT ![p] = c]
    /\ fresh' = [fresh EXCEPT ![p] = ~fs.dir]
    /\ fs' = [fs EXCEPT !.dir = TRUE]
    /\ disk' = [disk EXCEPT !.dir = TRUE]
    /\ UNCHANGED <<boot, held, fenced, rec, next, call, flushed, told>>

\* The lock file is created only in a directory this Open created.
CreateLock(p) ==
    /\ pc[p] = "dir" /\ fresh[p] /\ fs.ino = 0
    /\ fs' = [fs EXCEPT !.ino = 1]
    /\ held' = [held EXCEPT ![p] = 1]
    /\ pc' = [pc EXCEPT ![p] = "lock"]
    /\ UNCHANGED <<disk, boot, cfg, fresh, fenced, rec, next, call, flushed, told>>

OpenLock(p) ==
    /\ pc[p] = "dir" /\ fs.ino # 0
    /\ held' = [held EXCEPT ![p] = fs.ino]
    /\ fresh' = [fresh EXCEPT ![p] = FALSE]
    /\ pc' = [pc EXCEPT ![p] = "lock"]
    /\ UNCHANGED <<fs, disk, boot, cfg, fenced, rec, next, call, flushed, told>>

\* flock(LOCK_EX | LOCK_NB) on the inode, then checkLock on the path.
LockFree(p) == \A q \in Proc \ {p} : pc[q] \in Locked => held[q] # held[p]

Flock(p) ==
    /\ pc[p] = "lock"
    /\ LockFree(p)
    /\ held[p] = fs.ino
    /\ pc' = [pc EXCEPT ![p] = "held"]
    /\ UNCHANGED <<fs, disk, boot, cfg, held, fresh, fenced, rec, next, call, flushed, told>>

\* No journal file: only the process that created the lock file initialises.
InitJournal(p) ==
    /\ pc[p] = "held" /\ fresh[p] /\ fs.journal = None
    /\ next' = [next EXCEPT ![p] = InitialRecord([cfg |-> cfg[p], boot |-> boot])]
    /\ call' = [call EXCEPT ![p] = "open"]
    /\ pc' = [pc EXCEPT ![p] = "create"]
    /\ UNCHANGED <<fs, disk, boot, cfg, held, fresh, fenced, rec, flushed, told>>

\* Variant: another domain's journal is taken over instead of refused.
ReadJournalOfAnyDomain(p) ==
    /\ pc[p] = "held" /\ fs.journal \notin {None, Torn}
    /\ rec' = [rec EXCEPT ![p] = [fs.journal EXCEPT !.dom = [cfg |-> cfg[p], boot |-> boot]]]
    /\ fresh' = [fresh EXCEPT ![p] = FALSE]
    /\ pc' = [pc EXCEPT ![p] = "idle"]
    /\ UNCHANGED <<fs, disk, boot, cfg, held, fenced, next, call, flushed, told>>

ReadJournal(p) ==
    /\ pc[p] = "held"
    /\ Acceptable(fs.journal, [cfg |-> cfg[p], boot |-> boot])
    /\ rec' = [rec EXCEPT ![p] = fs.journal]
    /\ fresh' = [fresh EXCEPT ![p] = FALSE]
    /\ pc' = [pc EXCEPT ![p] = "idle"]
    /\ UNCHANGED <<fs, disk, boot, cfg, held, fenced, next, call, flushed, told>>

\* Any refusal or I/O error during Open: what was opened is closed again.
OpenFails(p) ==
    /\ pc[p] \in Opening
    /\ Exit(p)
    /\ UNCHANGED <<fs, disk, boot, cfg, told>>

----------------------------------------------------------------------------
(* Begin, Commit, Close: j.mu is held throughout, so one call at a time. *)

Usable(p) == ~fenced[p] /\ held[p] = fs.ino

Begin(p, op) ==
    /\ pc[p] = "idle" /\ Usable(p)
    /\ rec[p].pending = None
    /\ rec[p].seq # MaxSeq
    /\ next' = [next EXCEPT ![p] = WithIntent(rec[p], op)]
    /\ call' = [call EXCEPT ![p] = "begin"]
    /\ pc' = [pc EXCEPT ![p] = "create"]
    /\ UNCHANGED <<fs, disk, boot, cfg, held, fresh, fenced, rec, flushed, told>>

\* Variant: an acknowledgement clears whatever intent is outstanding.
CommitOfAnySequence(p, seq, s) ==
    /\ pc[p] = "idle" /\ Usable(p)
    /\ rec[p].pending # None
    /\ next' = [next EXCEPT ![p] = WithAcknowledgement(rec[p], s)]
    /\ call' = [call EXCEPT ![p] = "commit"]
    /\ pc' = [pc EXCEPT ![p] = "create"]
    /\ told' = Claim(told, seq)
    /\ UNCHANGED <<fs, disk, boot, cfg, held, fresh, fenced, rec, flushed>>

\* seq is the sequence number the caller acknowledges.
Commit(p, seq, s) ==
    /\ pc[p] = "idle" /\ Usable(p)
    /\ rec[p].pending # None
    /\ rec[p].pending.seq = seq
    /\ next' = [next EXCEPT ![p] = WithAcknowledgement(rec[p], s)]
    /\ call' = [call EXCEPT ![p] = "commit"]
    /\ pc' = [pc EXCEPT ![p] = "create"]
    /\ told' = Claim(told, seq)
    /\ UNCHANGED <<fs, disk, boot, cfg, held, fresh, fenced, rec, flushed>>

\* check() at the head of every call: a replaced lock fences the instance.
CheckLock(p) ==
    /\ pc[p] = "idle" /\ ~fenced[p] /\ held[p] # fs.ino
    /\ fenced' = [fenced EXCEPT ![p] = TRUE]
    /\ UNCHANGED <<fs, disk, boot, pc, cfg, held, fresh, rec, next, call, flushed, told>>

Close(p) ==
    /\ pc[p] = "idle"
    /\ Exit(p)
    /\ UNCHANGED <<fs, disk, boot, cfg, told>>

----------------------------------------------------------------------------
(* persist *)

\* persist's locals are gone when it returns.
Return(p) ==
    /\ pc' = [pc EXCEPT ![p] = "idle"]
    /\ next' = [next EXCEPT ![p] = None]
    /\ call' = [call EXCEPT ![p] = "open"]
    /\ flushed' = [flushed EXCEPT ![p] = FALSE]

\* checkLock again, then an exclusive temporary file is written.
WriteTemp(p) ==
    /\ pc[p] = "create" /\ held[p] = fs.ino
    /\ flushed' = [flushed EXCEPT ![p] = FALSE]
    /\ pc' = [pc EXCEPT ![p] = "fsync"]
    /\ UNCHANGED <<fs, disk, boot, cfg, held, fresh, fenced, rec, next, call, told>>

SyncTemp(p) ==
    /\ pc[p] = "fsync"
    /\ flushed' = [flushed EXCEPT ![p] = TRUE]
    /\ pc' = [pc EXCEPT ![p] = "rename"]
    /\ UNCHANGED <<fs, disk, boot, cfg, held, fresh, fenced, rec, next, call, told>>

Rename(p) ==
    /\ pc[p] = "rename"
    /\ fs' = [fs EXCEPT !.journal = next[p], !.flushed = flushed[p]]
    /\ pc' = [pc EXCEPT ![p] = "dirsync"]
    /\ UNCHANGED <<disk, boot, cfg, held, fresh, fenced, rec, next, call, flushed, told>>

\* Variant: the call returns without the directory fsync.
SyncDirectorySkipped(p) ==
    /\ pc[p] = "dirsync"
    /\ rec' = [rec EXCEPT ![p] = next[p]]
    /\ told' = IF call[p] = "begin" THEN ToldIntent(next[p].pending) ELSE told
    /\ fresh' = [fresh EXCEPT ![p] = FALSE]
    /\ UNCHANGED <<fs, disk, boot, cfg, held, fenced>>
    /\ Return(p)

\* The directory fsync, after which persist and the call around it return.
SyncDirectory(p) ==
    /\ pc[p] = "dirsync"
    /\ disk' = fs
    /\ rec' = [rec EXCEPT ![p] = next[p]]
    /\ told' = IF call[p] = "begin" THEN ToldIntent(next[p].pending) ELSE told
    /\ fresh' = [fresh EXCEPT ![p] = FALSE]
    /\ UNCHANGED <<fs, boot, cfg, held, fenced>>
    /\ Return(p)

\* Variant: a failed write leaves the instance usable.
PersistFailsUnfenced(p) ==
    /\ pc[p] \in Persisting /\ call[p] # "open"
    /\ UNCHANGED <<fs, disk, boot, cfg, held, fresh, fenced, rec, told>>
    /\ Return(p)

\* Any error inside persist sets j.blocked for good; a failing Open closes.
PersistFails(p) ==
    /\ pc[p] \in Persisting /\ call[p] # "open"
    /\ fenced' = [fenced EXCEPT ![p] = TRUE]
    /\ UNCHANGED <<fs, disk, boot, cfg, held, fresh, rec, told>>
    /\ Return(p)

InitFails(p) ==
    /\ pc[p] \in Persisting /\ call[p] = "open"
    /\ Exit(p)
    /\ UNCHANGED <<fs, disk, boot, cfg, told>>

----------------------------------------------------------------------------
(* The environment *)

\* kill -9: the kernel closes the lock; the page cache stays.
ProcessDies(p) ==
    /\ pc[p] # "down"
    /\ Exit(p)
    /\ UNCHANGED <<fs, disk, boot, cfg, told>>

\* Each directory entry reverts to its synced value or keeps its latest one;
\* an entry that survives without its contents is a torn file.
AfterPowerCut(f, d) ==
    { [dir |-> f.dir, ino |-> i, journal |-> j, flushed |-> TRUE] :
        i \in {f.ino, d.ino},
        j \in {d.journal, IF f.flushed THEN f.journal ELSE Torn} }

PowerCut ==
    /\ boot < MaxBoot
    /\ boot' = boot + 1
    /\ fs' \in AfterPowerCut(fs, disk)
    /\ disk' = fs'
    /\ pc' = [p \in Proc |-> "down"]
    /\ held' = [p \in Proc |-> 0]
    /\ fresh' = [p \in Proc |-> FALSE]
    /\ fenced' = [p \in Proc |-> FALSE]
    /\ rec' = [p \in Proc |-> None]
    /\ next' = [p \in Proc |-> None]
    /\ call' = [p \in Proc |-> "open"]
    /\ flushed' = [p \in Proc |-> FALSE]
    /\ UNCHANGED <<cfg, told>>

\* An administrator replaces the lock file.  checkLock cannot see this inside
\* persist, so it is assumed not to happen there ("never unlink an active
\* lock"); everywhere else it may.
ReplaceLock ==
    /\ fs.ino # 0 /\ fs.ino < MaxInode
    /\ \A p \in Proc : pc[p] \notin {"fsync", "rename", "dirsync"}
    /\ fs' = [fs EXCEPT !.ino = @ + 1]
    /\ UNCHANGED <<disk, boot, procVars, told>>

\* The journal file is lost while no process has it open.
LoseJournal ==
    /\ fs.journal # None
    /\ \A p \in Proc : pc[p] = "down"
    /\ fs' = [fs EXCEPT !.journal = None]
    /\ disk' = [disk EXCEPT !.journal = None]
    /\ UNCHANGED <<boot, procVars, told>>

----------------------------------------------------------------------------
Step(p) ==
    \/ \E c \in Config : OpenDirectory(p, c)
    \/ CreateLock(p) \/ OpenLock(p) \/ Flock(p)
    \/ InitJournal(p) \/ ReadJournal(p) \/ OpenFails(p)
    \/ \E op \in Op : Begin(p, op)
    \/ \E s \in State, seq \in 1..MaxSeq : Commit(p, seq, s)
    \/ CheckLock(p) \/ Close(p)
    \/ WriteTemp(p) \/ SyncTemp(p) \/ Rename(p) \/ SyncDirectory(p)
    \/ PersistFails(p) \/ InitFails(p) \/ ProcessDies(p)

Next == (\E p \in Proc : Step(p)) \/ PowerCut \/ ReplaceLock \/ LoseJournal

Spec == Init /\ [][Next]_vars

----------------------------------------------------------------------------
\* The files hold nothing, a torn file or a record; what each process holds in
\* memory has the types of journal.go.
TypeOK ==
    /\ fs \in Directory /\ disk \in Directory
    /\ boot \in Nat
    /\ pc \in [Proc -> {"down"} \cup Opening \cup Locked]
    /\ cfg \in [Proc -> Config]
    /\ held \in [Proc -> Nat]
    /\ fresh \in [Proc -> BOOLEAN]
    /\ fenced \in [Proc -> BOOLEAN]
    /\ rec \in [Proc -> Record \cup {None}]
    /\ next \in [Proc -> Record \cup {None}]
    /\ call \in [Proc -> {"open", "begin", "commit"}]
    /\ flushed \in [Proc -> BOOLEAN]
    /\ told \in Told

\* Once Begin has returned, the journal file, and what a power cut would leave
\* of it, hold that intent until its caller calls Commit for it, whatever dies
\* or is reopened in between (Begin, Commit and persist).
IntentSurvives ==
    fs.journal # None =>
        /\ fs.journal # Torn /\ Retains(fs.journal, told)
        /\ told # NothingTold =>
             disk.journal \notin {None, Torn} /\ Retains(disk.journal, told)

\* An instance that passes check() works on what is in the file: no other
\* instance, dead, fenced or live, has written since (flock and checkLock).
NoLostUpdate ==
    \A p \in Proc : pc[p] = "idle" /\ Usable(p) => rec[p] = fs.journal

\* The journal of one domain is never rewritten for another one (Open).
DomainKept ==
    [][ {fs.journal, fs'.journal} \cap {None, Torn} = {} =>
            fs'.journal.dom = fs.journal.dom ]_vars

Abstract == INSTANCE IntentLog WITH log <- fs.journal, settled <- disk.journal

\* The file protocol of Open, Begin, Commit and persist keeps every promise of
\* IntentLog.
Refinement == Abstract!Spec

----------------------------------------------------------------------------
(* The inductive strengthening the proofs in JournalProofs rest on. *)

Current(p) == held[p] = fs.ino

WellFormed(r) == r.pending # None => r.pending.seq = r.seq

\* Who may hold which lock, and where in Open or persist that lets p be.
LockInv ==
    /\ \A p, q \in Proc :
         p # q /\ pc[p] \in Locked /\ pc[q] \in Locked => held[p] # held[q]
    /\ \A p \in Proc :
         /\ pc[p] \in {"lock"} \cup Locked => held[p] \in 1..fs.ino
         /\ pc[p] \in {"fsync", "rename", "dirsync"} => Current(p)
         /\ pc[p] # "idle" => ~fenced[p]
         /\ fresh[p] /\ pc[p] \in {"lock"} \cup Locked => held[p] = 1

\* Before the first journal exists: one creator, and nothing told to anyone.
FreshInv ==
    /\ ~fs.dir => /\ told = NothingTold /\ fs.ino = 0 /\ fs.journal = None
                  /\ disk.ino = 0 /\ disk.journal = None
                  /\ \A p \in Proc : pc[p] = "down"
    /\ \A p \in Proc : fresh[p] =>
         /\ pc[p] \in Opening \cup Persisting
         /\ pc[p] \in Persisting => call[p] = "open"
         /\ told = NothingTold /\ disk.journal = None
         /\ pc[p] # "dirsync" => fs.journal = None
         /\ \A q \in Proc \ {p} : ~fresh[q] /\ pc[q] \in {"down"} \cup Opening

\* The record persist writes, and the record it is derived from.
WriterOK(p) ==
    /\ pc[p] = "idle" => rec[p] \in Record /\ WellFormed(rec[p])
    /\ pc[p] = "idle" /\ Usable(p) => rec[p] = fs.journal
    /\ pc[p] \in Persisting =>
         /\ next[p] \in Record /\ WellFormed(next[p])
         /\ call[p] = "open" =>
              /\ fresh[p]
              /\ next[p] = InitialRecord(next[p].dom)
         /\ call[p] # "open" => rec[p] \in Record /\ WellFormed(rec[p])
         /\ call[p] = "begin" =>
              /\ rec[p].pending = None
              /\ \E op \in Op : next[p] = WithIntent(rec[p], op)
         /\ call[p] = "commit" =>
              /\ rec[p].pending # None
              /\ \E s \in State : next[p] = WithAcknowledgement(rec[p], s)
              /\ Current(p) /\ rec[p].pending.seq = told.seq => told.claimed
         /\ call[p] # "open" /\ pc[p] # "dirsync" /\ Current(p)
              => rec[p] = fs.journal
         /\ pc[p] = "dirsync" => fs.journal = next[p]
    /\ pc[p] = "rename" => flushed[p]
WriterInv == \A p \in Proc : WriterOK(p)

\* The file, and what a power cut leaves of it, against what was told.
FileInv ==
    /\ fs.flushed /\ disk.flushed
    /\ \A f \in {fs.journal, disk.journal} :
         f # None => f # Torn /\ WellFormed(f) /\ Retains(f, told)
    /\ told # NothingTold /\ fs.journal # None => disk.journal # None
    /\ fs.journal # None /\ disk.journal # None
         => fs.journal.dom = disk.journal.dom

\* All of it: a running writer, the lock it holds, the file and what callers were
\* told agree at every system call of journal.go.
Inv == TypeOK /\ LockInv /\ FreshInv /\ WriterInv /\ FileInv
====
