--------------------------- MODULE JournalProofs ---------------------------
(***************************************************************************)
(* Proofs about Journal, for any set of processes, configurations,         *)
(* operations and states and any bounds: Inv is inductive (one lemma per   *)
(* action), and it yields type correctness, IntentSurvives, NoLostUpdate,  *)
(* DomainKept and the refinement of IntentLog.                             *)
(***************************************************************************)
EXTENDS Journal, TLAPS

\* What Open, Begin and Commit write is a record.
LEMMA RecordTypes ==
    /\ \A d \in Domain : InitialRecord(d) \in Record
    /\ \A r \in Record, op \in Op : WithIntent(r, op) \in Record
    /\ \A r \in Record, s \in State : WithAcknowledgement(r, s) \in Record
<1>1. \A d \in Domain : InitialRecord(d) \in Record
  BY DEF InitialRecord, Record
<1>2. ASSUME NEW r \in Record, NEW op \in Op
      PROVE  WithIntent(r, op) \in Record
  <2>1. [seq |-> r.seq + 1, op |-> op] \in Intent
    BY DEF Record, Intent
  <2>2. r.seq + 1 \in Nat
    BY DEF Record
  <2> QED
    BY <2>1, <2>2, Zenon DEF WithIntent, Record
<1>3. \A r \in Record, s \in State : WithAcknowledgement(r, s) \in Record
  BY Zenon DEF WithAcknowledgement, Record
<1> QED BY <1>1, <1>2, <1>3

\* What a caller is told is a Told value.
LEMMA ToldTypes ==
    /\ NothingTold \in Told
    /\ \A i \in Intent : ToldIntent(i) \in Told
    /\ \A t \in Told, n \in Nat : Claim(t, n) \in Told
BY NoneAssumption, Zenon DEF NothingTold, ToldIntent, Claim, Told, Intent

\* A record with a pending intent retains it once its caller is told.
LEMMA ToldIsRetained ==
    ASSUME NEW r \in Record, NEW op \in Op
    PROVE  Retains(WithIntent(r, op), ToldIntent(WithIntent(r, op).pending))
<1>1. r.seq + 1 \in Nat
  BY DEF Record
<1>2. /\ WithIntent(r, op).seq = r.seq + 1
      /\ WithIntent(r, op).pending = [seq |-> r.seq + 1, op |-> op]
  BY DEF WithIntent, Record
<1>3. ToldIntent(WithIntent(r, op).pending)
        = [seq |-> r.seq + 1, op |-> op, claimed |-> FALSE]
  BY <1>2 DEF ToldIntent
<1> QED
  BY <1>1, <1>2, <1>3 DEF Retains

\* The state before any process has opened the journal.
LEMMA InvInit == Init => Inv
BY BoundAssumption, ToldTypes DEF Init, Inv, TypeOK, LockInv, FreshInv, WriterInv, WriterOK, FileInv, Current, Usable, WellFormed, Retains, NothingTold, Opening, Persisting, Locked, Directory, File

\* A step that leaves process q alone.
Same(q) ==
    /\ pc'[q] = pc[q] /\ held'[q] = held[q] /\ fresh'[q] = fresh[q]
    /\ fenced'[q] = fenced[q] /\ rec'[q] = rec[q] /\ next'[q] = next[q]
    /\ call'[q] = call[q] /\ flushed'[q] = flushed[q]

\* Such a step keeps what holds of q as a writer, unless it changes the file or
\* takes back a claim that q, holding the current lock, relies on.
LEMMA WriterFrame ==
    ASSUME NEW q \in Proc, WriterOK(q), Same(q),
           fs'.ino = fs.ino, fs'.journal = fs.journal,
           \/ told'.seq = told.seq /\ (told.claimed => told'.claimed)
           \/ pc[q] \in Persisting => ~Current(q)
    PROVE  WriterOK(q)'
<1>1. Usable(q)' = Usable(q) /\ Current(q)' = Current(q)
  BY DEF Same, Usable, Current
<1>2. pc[q] \in Persisting /\ call[q] = "commit" /\ Current(q)
        /\ rec[q].pending.seq = told'.seq => told'.claimed
  BY DEF WriterOK
<1> QED
  BY <1>1, <1>2 DEF WriterOK, Same

\* openDirectory: only the first Open is fresh, and nothing was told before it.
LEMMA OpenDirectoryInv ==
    ASSUME Inv, NEW p \in Proc, NEW c \in Config, OpenDirectory(p, c)
    PROVE  Inv'
<1> USE DEF Inv
<1>1. TypeOK'
  BY Zenon DEF OpenDirectory, TypeOK, Opening, Persisting, Locked, Directory, File
<1>2. LockInv'
  BY DEF OpenDirectory, TypeOK, LockInv, Current, Opening, Persisting, Locked, Directory
<1>3. FreshInv'
  <2>1. fs'.dir = TRUE
    BY DEF OpenDirectory, TypeOK, Directory
  <2>2. CASE fs.dir
    BY <2>1, <2>2 DEF OpenDirectory, TypeOK, FreshInv, Opening, Persisting, Directory
  <2>3. CASE ~fs.dir
    <3>1. \A q \in Proc : pc[q] = "down" /\ ~fresh[q]
      BY <2>3 DEF FreshInv, TypeOK, Opening, Persisting
    <3>2. told' = NothingTold /\ fs'.journal = None
      BY <2>3 DEF OpenDirectory, FreshInv, TypeOK, Directory
    <3> QED
      BY <2>1, <3>1, <3>2 DEF OpenDirectory, TypeOK, FreshInv, Opening, Persisting
  <2> QED BY <2>2, <2>3
<1>4. WriterInv'
  BY DEF OpenDirectory, TypeOK, LockInv, WriterInv, WriterOK, Usable, Current, Persisting, Locked
<1>5. FileInv'
  BY DEF OpenDirectory, FileInv
<1> QED BY <1>1, <1>2, <1>3, <1>4, <1>5

\* Creating the lock file: nobody can hold inode 1 yet.
LEMMA CreateLockInv ==
    ASSUME Inv, NEW p \in Proc, CreateLock(p)
    PROVE  Inv'
<1> USE DEF Inv
<1>1. TypeOK'
  BY Zenon DEF CreateLock, TypeOK, Opening, Persisting, Locked, Directory, File
<1>2. LockInv'
  BY DEF CreateLock, TypeOK, LockInv, Current, Opening, Persisting, Locked, Directory
<1>3. FreshInv'
  BY DEF CreateLock, TypeOK, FreshInv, Opening, Persisting
<1>4. WriterInv'
  BY DEF CreateLock, TypeOK, LockInv, WriterInv, WriterOK, Usable, Current, Persisting, Locked
<1>5. FileInv'
  BY DEF CreateLock, FileInv
<1> QED BY <1>1, <1>2, <1>3, <1>4, <1>5

\* Opening an existing lock file gives up freshness.
LEMMA OpenLockInv ==
    ASSUME Inv, NEW p \in Proc, OpenLock(p)
    PROVE  Inv'
<1> USE DEF Inv
<1>1. TypeOK'
  BY Zenon DEF OpenLock, TypeOK, Opening, Persisting, Locked, Directory
<1>2. LockInv'
  BY DEF OpenLock, TypeOK, LockInv, Current, Opening, Persisting, Locked, Directory
<1>3. FreshInv'
  BY DEF OpenLock, TypeOK, FreshInv, Opening, Persisting
<1>4. WriterInv'
  BY DEF OpenLock, TypeOK, LockInv, WriterInv, WriterOK, Usable, Current, Persisting, Locked
<1>5. FileInv'
  BY Zenon DEF OpenLock, FileInv
<1> QED BY <1>1, <1>2, <1>3, <1>4, <1>5

\* flock excludes every holder of the same inode.
LEMMA FlockInv ==
    ASSUME Inv, NEW p \in Proc, Flock(p)
    PROVE  Inv'
<1> USE DEF Inv
<1>1. TypeOK'
  BY Zenon DEF Flock, LockFree, TypeOK, Opening, Persisting, Locked
<1>2. LockInv'
  BY DEF Flock, LockFree, TypeOK, LockInv, Current, Opening, Persisting, Locked
<1>3. FreshInv'
  BY DEF Flock, LockFree, TypeOK, FreshInv, Opening, Persisting
<1>4. WriterInv'
  BY DEF Flock, LockFree, TypeOK, LockInv, WriterInv, WriterOK, Usable, Current, Persisting, Locked
<1>5. FileInv'
  BY Zenon DEF Flock, LockFree, FileInv
<1> QED BY <1>1, <1>2, <1>3, <1>4, <1>5

\* Initialisation starts with the initial record of this domain.
LEMMA InitJournalInv ==
    ASSUME Inv, NEW p \in Proc, InitJournal(p)
    PROVE  Inv'
<1> USE DEF Inv
<1>1. TypeOK'
  <2>1. [cfg |-> cfg[p], boot |-> boot] \in Domain
    BY Zenon DEF TypeOK, Domain
  <2>2. InitialRecord([cfg |-> cfg[p], boot |-> boot]) \in Record
    BY <2>1, RecordTypes, Zenon
  <2> QED
    BY <2>2, Zenon DEF InitJournal, TypeOK, Opening, Persisting, Locked
<1>2. LockInv'
  BY DEF InitJournal, TypeOK, LockInv, Current, Opening, Persisting, Locked
<1>3. FreshInv'
  BY DEF InitJournal, TypeOK, FreshInv, Opening, Persisting
<1>4. WriterInv'
  <2>1. [cfg |-> cfg[p], boot |-> boot] \in Domain
    BY DEF TypeOK, Domain
  <2>2. InitialRecord([cfg |-> cfg[p], boot |-> boot]) \in Record
    BY <2>1, RecordTypes
  <2>3. next'[p] \in Record /\ WellFormed(next'[p]) /\ next'[p] = InitialRecord(next'[p].dom)
    BY <2>2, Zenon DEF InitJournal, TypeOK, WellFormed, InitialRecord
  <2> QED
    BY <2>3, SMTT(30) DEF InitJournal, TypeOK, WriterInv, WriterOK, Usable, Current, Persisting
<1>5. FileInv'
  BY Zenon DEF InitJournal, FileInv
<1> QED BY <1>1, <1>2, <1>3, <1>4, <1>5

\* An accepted journal file becomes the instance's record; no creator is left.
LEMMA ReadJournalInv ==
    ASSUME Inv, NEW p \in Proc, ReadJournal(p)
    PROVE  Inv'
<1> USE DEF Inv
<1>1. TypeOK'
  BY Zenon DEF ReadJournal, Acceptable, TypeOK, Opening, Persisting, Locked, Directory, File
<1>2. LockInv'
  BY DEF ReadJournal, Acceptable, TypeOK, LockInv, Current, Opening, Persisting, Locked
<1>3. FreshInv'
  <2>1. fs.journal # None
    BY Zenon DEF ReadJournal, Acceptable
  <2>2. \A q \in Proc : fresh[q] => pc[q] = "dirsync"
    BY <2>1, Zenon DEF FreshInv
  <2>3. ASSUME NEW q \in Proc, fresh[q]
        PROVE  FALSE
    <3>1. pc[q] = "dirsync" /\ pc[p] = "held" /\ p # q
      BY <2>2, <2>3, Zenon DEF ReadJournal
    <3>2. held[q] = fs.ino /\ held[q] = 1
      BY <2>3, <3>1, Zenon DEF LockInv, Current, Locked, Persisting
    <3>3. held[p] # held[q] /\ held[p] \in 1..fs.ino
      BY <3>1 DEF LockInv, Locked, Persisting
    <3> QED
      BY <3>2, <3>3
  <2> QED
    BY <2>3, Zenon DEF ReadJournal, TypeOK, FreshInv
<1>4. WriterInv'
  <2> SUFFICES ASSUME NEW q \in Proc
               PROVE  WriterOK(q)'
    BY Zenon DEF WriterInv
  <2>1. CASE q = p
    BY <2>1 DEF ReadJournal, Acceptable, TypeOK, WriterOK, Directory, File, FileInv, Persisting
  <2>2. CASE q # p
    <3>1. Same(q)
      BY <2>2, Zenon DEF Same, ReadJournal, TypeOK
    <3>2. fs' = fs /\ told' = told
      BY Zenon DEF ReadJournal
    <3> QED
      BY <3>1, <3>2, WriterFrame, Zenon DEF WriterInv
  <2> QED BY <2>1, <2>2
<1>5. FileInv'
  BY Zenon DEF ReadJournal, Acceptable, FileInv
<1> QED BY <1>1, <1>2, <1>3, <1>4, <1>5

\* A failed Open leaves the files as they are.
LEMMA OpenFailsInv ==
    ASSUME Inv, NEW p \in Proc, OpenFails(p)
    PROVE  Inv'
<1> USE DEF Inv
<1>1. TypeOK'
  BY Zenon DEF OpenFails, Exit, TypeOK, Opening, Persisting, Locked
<1>2. LockInv'
  BY Zenon DEF OpenFails, Exit, TypeOK, LockInv, Current, Opening, Persisting, Locked
<1>3. FreshInv'
  BY DEF OpenFails, Exit, TypeOK, FreshInv, Opening, Persisting
<1>4. WriterInv'
  <2> SUFFICES ASSUME NEW q \in Proc
               PROVE  WriterOK(q)'
    BY DEF WriterInv
  <2>1. CASE q = p
    BY <2>1, Zenon DEF OpenFails, Exit, TypeOK, WriterOK, Persisting
  <2>2. CASE q # p
    <3>1. Same(q)
      BY <2>2 DEF Same, OpenFails, Exit, TypeOK
    <3>2. fs' = fs /\ told' = told
      BY Zenon DEF OpenFails
    <3> QED
      BY <3>1, <3>2, WriterFrame DEF WriterInv
  <2> QED BY <2>1, <2>2
<1>5. FileInv'
  BY Zenon DEF OpenFails, Exit, FileInv
<1> QED BY <1>1, <1>2, <1>3, <1>4, <1>5

\* Begin prepares the record with the intent, from what is in the file.
LEMMA BeginInv ==
    ASSUME Inv, NEW p \in Proc, NEW op \in Op, Begin(p, op)
    PROVE  Inv'
<1> USE DEF Inv
<1>1. TypeOK'
  BY RecordTypes, Zenon DEF Begin, TypeOK, Opening, Persisting, Locked, WriterInv, WriterOK
<1>2. LockInv'
  BY DEF Begin, TypeOK, LockInv, Current, Opening, Persisting, Locked, Usable
<1>3. FreshInv'
  BY DEF Begin, TypeOK, FreshInv, Opening, Persisting
<1>4. WriterInv'
  <2>1. rec[p] \in Record /\ WellFormed(rec[p]) /\ rec[p] = fs.journal
    BY DEF Begin, WriterInv, WriterOK
  <2>2. WithIntent(rec[p], op) \in Record /\ WellFormed(WithIntent(rec[p], op))
    <3>1. WithIntent(rec[p], op) \in Record
      BY <2>1, RecordTypes
    <3>2. WellFormed(WithIntent(rec[p], op))
      BY <2>1, Zenon DEF WithIntent, WellFormed, Record
    <3> QED BY <3>1, <3>2, Zenon
  <2>3. next'[p] = WithIntent(rec[p], op) /\ call'[p] = "begin" /\ pc'[p] = "create"
    BY Zenon DEF Begin, TypeOK
  <2>4. \A q \in Proc \ {p} : Same(q)
    BY DEF Same, Begin, TypeOK
  <2>5. UNCHANGED <<fs, rec, held, fresh, fenced, flushed, told>>
    BY DEF Begin
  <2>6. ASSUME NEW q \in Proc \ {p}
        PROVE  WriterOK(q)'
    BY <2>4, <2>5, WriterFrame, Zenon DEF WriterInv
  <2>7. WriterOK(p)'
    <3>1. rec[p].pending = None
      BY Zenon DEF Begin
    <3> QED
      BY <2>1, <2>2, <2>3, <2>5, <3>1, Zenon DEF WriterOK, Persisting
  <2> QED
    BY <2>6, <2>7, Zenon DEF WriterInv
<1>5. FileInv'
  BY DEF Begin, FileInv
<1> QED BY <1>1, <1>2, <1>3, <1>4, <1>5

\* Commit prepares the record without the intent and marks it claimed.
LEMMA CommitInv ==
    ASSUME Inv, NEW p \in Proc, NEW s \in State, NEW seq \in 1..MaxSeq, Commit(p, seq, s)
    PROVE  Inv'
<1> USE DEF Inv
<1>1. TypeOK'
  <2>1. WithAcknowledgement(rec[p], s) \in Record
    BY RecordTypes, Zenon DEF Commit, WriterInv, WriterOK
  <2>2. told' \in Told
    BY ToldTypes, BoundAssumption, SMTT(30) DEF Commit, TypeOK
  <2> QED
    BY <2>1, <2>2, Zenon DEF Commit, TypeOK, Persisting, Locked
<1>2. LockInv'
  BY SMTT(30) DEF Commit, TypeOK, LockInv, Current, Opening, Persisting, Locked, Usable
<1>3. FreshInv'
  BY DEF Commit, TypeOK, FreshInv, Opening, Persisting
<1>4. WriterInv'
  <2>1. rec[p] \in Record /\ WellFormed(rec[p]) /\ rec[p] = fs.journal
    BY DEF Commit, WriterInv, WriterOK
  <2>2. WithAcknowledgement(rec[p], s) \in Record /\ WellFormed(WithAcknowledgement(rec[p], s))
    <3>1. WithAcknowledgement(rec[p], s) \in Record
      BY <2>1, RecordTypes
    <3>2. WellFormed(WithAcknowledgement(rec[p], s))
      BY <2>1, Zenon DEF WithAcknowledgement, WellFormed, Record
    <3> QED BY <3>1, <3>2, Zenon
  <2>3. next'[p] = WithAcknowledgement(rec[p], s) /\ call'[p] = "commit" /\ pc'[p] = "create"
    BY Zenon DEF Commit, TypeOK
  <2>4. \A q \in Proc \ {p} : Same(q)
    BY Zenon DEF Same, Commit, TypeOK
  <2>5. UNCHANGED <<fs, rec, held, fresh, fenced, flushed>>
    BY DEF Commit
  <2>6. told'.seq = told.seq /\ (told.claimed => told'.claimed)
        /\ (rec[p].pending.seq = told.seq => told'.claimed)
    BY Zenon DEF Commit, Claim, TypeOK, Told
  <2>7. ASSUME NEW q \in Proc \ {p}
        PROVE  WriterOK(q)'
    BY <2>4, <2>5, <2>6, WriterFrame, Zenon DEF WriterInv
  <2>8. WriterOK(p)'
    <3>1. rec[p].pending # None
      BY Zenon DEF Commit
    <3> QED
      BY <2>1, <2>2, <2>3, <2>5, <2>6, <3>1, Zenon DEF WriterOK, Persisting
  <2> QED
    BY <2>7, <2>8, Zenon DEF WriterInv
<1>5. FileInv'
  <2>1. told'.seq = told.seq /\ (told'.claimed \/ told' = told)
    BY Zenon DEF Commit, Claim, TypeOK, Told
  <2>2. \A f : Retains(f, told) => Retains(f, told')
    BY <2>1 DEF Retains
  <2>3. told = NothingTold => told' = NothingTold
    BY DEF Commit, Claim, NothingTold
  <2>4. fs' = fs /\ disk' = disk
    BY Zenon DEF Commit
  <2> QED
    BY <2>2, <2>3, <2>4 DEF FileInv
<1> QED BY <1>1, <1>2, <1>3, <1>4, <1>5, Zenon

\* check() fences an instance whose lock was replaced.
LEMMA CheckLockInv ==
    ASSUME Inv, NEW p \in Proc, CheckLock(p)
    PROVE  Inv'
<1> USE DEF Inv
<1>1. TypeOK'
  BY Zenon DEF CheckLock, TypeOK, Opening, Persisting, Locked
<1>2. LockInv'
  BY Zenon DEF CheckLock, TypeOK, LockInv, Current, Opening, Persisting, Locked
<1>3. FreshInv'
  BY Zenon DEF CheckLock, TypeOK, FreshInv, Opening, Persisting
<1>4. WriterInv'
  <2> SUFFICES ASSUME NEW q \in Proc
               PROVE  WriterOK(q)'
    BY DEF WriterInv
  <2>1. CASE q = p
    BY <2>1, Zenon DEF CheckLock, TypeOK, WriterInv, WriterOK, Usable, Persisting
  <2>2. CASE q # p
    <3>1. Same(q)
      BY <2>2, Zenon DEF Same, CheckLock, TypeOK
    <3>2. fs' = fs /\ told' = told
      BY Zenon DEF CheckLock
    <3> QED
      BY <3>1, <3>2, WriterFrame DEF WriterInv
  <2> QED BY <2>1, <2>2
<1>5. FileInv'
  BY Zenon DEF CheckLock, FileInv
<1> QED BY <1>1, <1>2, <1>3, <1>4, <1>5

\* Close leaves the files as they are.
LEMMA CloseInv ==
    ASSUME Inv, NEW p \in Proc, Close(p)
    PROVE  Inv'
<1> USE DEF Inv
<1>1. TypeOK'
  BY Zenon DEF Close, Exit, TypeOK, Opening, Persisting, Locked
<1>2. LockInv'
  BY Zenon DEF Close, Exit, TypeOK, LockInv, Current, Opening, Persisting, Locked
<1>3. FreshInv'
  BY Zenon DEF Close, Exit, TypeOK, FreshInv, Opening, Persisting
<1>4. WriterInv'
  <2> SUFFICES ASSUME NEW q \in Proc
               PROVE  WriterOK(q)'
    BY DEF WriterInv
  <2>1. CASE q = p
    BY <2>1, Zenon DEF Close, Exit, TypeOK, WriterOK, Persisting
  <2>2. CASE q # p
    <3>1. Same(q)
      BY <2>2 DEF Same, Close, Exit, TypeOK
    <3>2. fs' = fs /\ told' = told
      BY Zenon DEF Close
    <3> QED
      BY <3>1, <3>2, WriterFrame DEF WriterInv
  <2> QED BY <2>1, <2>2
<1>5. FileInv'
  BY Zenon DEF Close, Exit, FileInv
<1> QED BY <1>1, <1>2, <1>3, <1>4, <1>5

\* persist writes only under the current lock.
LEMMA WriteTempInv ==
    ASSUME Inv, NEW p \in Proc, WriteTemp(p)
    PROVE  Inv'
<1> USE DEF Inv
<1>1. TypeOK'
  BY Zenon DEF WriteTemp, TypeOK, Opening, Persisting, Locked
<1>2. LockInv'
  BY Zenon DEF WriteTemp, TypeOK, LockInv, Current, Opening, Persisting, Locked
<1>3. FreshInv'
  BY Zenon DEF WriteTemp, TypeOK, FreshInv, Opening, Persisting
<1>4. WriterInv'
  <2> SUFFICES ASSUME NEW q \in Proc
               PROVE  WriterOK(q)'
    BY DEF WriterInv
  <2>1. CASE q = p
    BY <2>1, Zenon DEF WriteTemp, TypeOK, WriterInv, WriterOK, Current, Persisting
  <2>2. CASE q # p
    <3>1. Same(q)
      BY <2>2, Zenon DEF Same, WriteTemp, TypeOK
    <3>2. fs' = fs /\ told' = told
      BY Zenon DEF WriteTemp
    <3> QED
      BY <3>1, <3>2, WriterFrame DEF WriterInv
  <2> QED BY <2>1, <2>2
<1>5. FileInv'
  BY Zenon DEF WriteTemp, FileInv
<1> QED BY <1>1, <1>2, <1>3, <1>4, <1>5

\* The temporary file is synced before it can be renamed.
LEMMA SyncTempInv ==
    ASSUME Inv, NEW p \in Proc, SyncTemp(p)
    PROVE  Inv'
<1> USE DEF Inv
<1>1. TypeOK'
  BY Zenon DEF SyncTemp, TypeOK, Opening, Persisting, Locked
<1>2. LockInv'
  BY Zenon DEF SyncTemp, TypeOK, LockInv, Current, Opening, Persisting, Locked
<1>3. FreshInv'
  BY Zenon DEF SyncTemp, TypeOK, FreshInv, Opening, Persisting
<1>4. WriterInv'
  <2> SUFFICES ASSUME NEW q \in Proc
               PROVE  WriterOK(q)'
    BY DEF WriterInv
  <2>1. CASE q = p
    BY <2>1, Zenon DEF SyncTemp, TypeOK, WriterInv, WriterOK, Current, Persisting
  <2>2. CASE q # p
    <3>1. Same(q)
      BY <2>2, Zenon DEF Same, SyncTemp, TypeOK
    <3>2. fs' = fs /\ told' = told
      BY Zenon DEF SyncTemp
    <3> QED
      BY <3>1, <3>2, WriterFrame DEF WriterInv
  <2> QED BY <2>1, <2>2
<1>5. FileInv'
  BY Zenon DEF SyncTemp, FileInv
<1> QED BY <1>1, <1>2, <1>3, <1>4, <1>5

\* The renamed record still accounts for everything told to callers.
LEMMA RenameInv ==
    ASSUME Inv, NEW p \in Proc, Rename(p)
    PROVE  Inv'
<1> USE DEF Inv
<1>1. TypeOK'
  BY Zenon DEF Rename, TypeOK, Opening, Persisting, Locked, Directory, File
<1>2. LockInv'
  BY DEF Rename, TypeOK, LockInv, Current, Opening, Persisting, Locked
<1>3. FreshInv'
  BY DEF Rename, TypeOK, FreshInv, Opening, Persisting
<1>4. WriterInv'
  BY DEF Rename, TypeOK, LockInv, WriterInv, WriterOK, Usable, Current, Persisting, Locked
<1>5. FileInv'
  <2>1. fs'.journal = next[p] /\ fs'.flushed = TRUE /\ disk' = disk /\ told' = told
    BY DEF Rename, WriterInv, WriterOK, TypeOK, Directory
  <2>2. next[p] \in Record /\ WellFormed(next[p])
    BY DEF Rename, WriterInv, WriterOK, Persisting
  <2>3. Current(p)
    BY DEF Rename, LockInv
  <2>4. /\ Retains(next[p], told)
        /\ told # NothingTold => disk.journal # None
        /\ disk.journal # None => disk.journal.dom = next[p].dom
    <3>1. CASE call[p] = "open"
      <4>1. fresh[p] /\ next[p] = InitialRecord(next[p].dom)
        BY <3>1, Zenon DEF Rename, WriterInv, WriterOK, Persisting
      <4>2. told = NothingTold /\ disk.journal = None
        BY <4>1, Zenon DEF Rename, FreshInv
      <4> QED
        BY <4>1, <4>2, <2>2, SMTT(30) DEF Retains, NothingTold, InitialRecord, Record
    <3>2. CASE call[p] # "open"
      <4>1. rec[p] = fs.journal /\ rec[p] \in Record /\ WellFormed(rec[p])
        BY <2>3, <3>2, Zenon DEF Rename, WriterInv, WriterOK, Persisting
      <4>2. Retains(rec[p], told) /\ (told # NothingTold => disk.journal # None)
            /\ (disk.journal # None => disk.journal.dom = rec[p].dom)
        BY <4>1, NoneIsNoRecord, Zenon DEF FileInv
      <4>3. CASE call[p] = "begin"
        <5>1. PICK op \in Op : next[p] = WithIntent(rec[p], op)
          BY <4>3, Zenon DEF Rename, WriterInv, WriterOK, Persisting
        <5>2. rec[p].pending = None
          BY <4>3, Zenon DEF Rename, WriterInv, WriterOK, Persisting
        <5>3. ~told.claimed => [seq |-> told.seq, op |-> told.op] \in Intent
          BY DEF TypeOK, Told, Intent
        <5> QED
          BY <4>1, <4>2, <5>1, <5>2, <5>3, NoneIsNoRecord DEF Retains, WithIntent, Record, TypeOK, Told
      <4>4. CASE call[p] = "commit"
        <5>1. PICK s \in State : next[p] = WithAcknowledgement(rec[p], s)
          BY <4>4, Zenon DEF Rename, WriterInv, WriterOK, Persisting
        <5>2. rec[p].pending.seq = told.seq => told.claimed
          BY <2>3, <4>4, Zenon DEF Rename, WriterInv, WriterOK, Persisting
        <5> QED
          BY <4>1, <4>2, <5>1, <5>2 DEF Retains, WithAcknowledgement, Record
      <4> QED
        BY <3>2, <4>3, <4>4, Zenon DEF TypeOK
    <3> QED BY <3>1, <3>2, Zenon
  <2> QED
    BY <2>1, <2>2, <2>4, NoneIsNoRecord, TornAssumption DEF FileInv
<1> QED BY <1>1, <1>2, <1>3, <1>4, <1>5

\* The call returns with its record durable; a Begin tells its caller.
LEMMA SyncDirectoryInv ==
    ASSUME Inv, NEW p \in Proc, SyncDirectory(p)
    PROVE  Inv'
<1> USE DEF Inv
<1>1. TypeOK'
  <2>1. next[p] \in Record
    BY DEF SyncDirectory, WriterInv, WriterOK, Persisting
  <2>2. call[p] = "begin" => next[p].pending \in Intent
    <3> HAVE call[p] = "begin"
    <3>1. PICK op \in Op : next[p] = WithIntent(rec[p], op)
      BY Zenon DEF SyncDirectory, WriterInv, WriterOK, Persisting
    <3>2. rec[p] \in Record
      BY Zenon DEF SyncDirectory, WriterInv, WriterOK, Persisting
    <3> QED
      BY <3>1, <3>2 DEF WithIntent, Record, Intent
  <2>3. told' \in Told
    BY <2>2, ToldTypes, Zenon DEF SyncDirectory, TypeOK
  <2> QED
    BY <2>1, <2>3, Zenon DEF SyncDirectory, Return, TypeOK, Locked
<1>2. LockInv'
  BY Zenon DEF SyncDirectory, Return, TypeOK, LockInv, Current, Opening, Persisting, Locked
<1>3. FreshInv'
  BY Zenon DEF SyncDirectory, Return, TypeOK, FreshInv, Opening, Persisting
<1>4. WriterInv'
  <2> SUFFICES ASSUME NEW q \in Proc
               PROVE  WriterOK(q)'
    BY DEF WriterInv
  <2>1. CASE q = p
    <3>1. pc'[p] = "idle" /\ rec'[p] = next[p] /\ fs' = fs
      BY Zenon DEF SyncDirectory, Return, TypeOK
    <3>2. next[p] \in Record /\ WellFormed(next[p]) /\ fs.journal = next[p]
      BY Zenon DEF SyncDirectory, WriterInv, WriterOK, Persisting
    <3> QED
      BY <2>1, <3>1, <3>2, Zenon DEF WriterOK, Persisting
  <2>2. CASE q # p
    <3>1. Same(q)
      BY <2>2, Zenon DEF Same, SyncDirectory, Return, TypeOK
    <3>2. pc[q] \in Persisting => ~Current(q)
      BY <2>2, Zenon DEF SyncDirectory, LockInv, Current, Locked, Persisting
    <3>3. fs' = fs
      BY Zenon DEF SyncDirectory
    <3> QED
      BY <3>1, <3>2, <3>3, WriterFrame, Zenon DEF WriterInv
  <2> QED BY <2>1, <2>2
<1>5. FileInv'
  <2>1. fs.journal = next[p] /\ next[p] \in Record /\ WellFormed(next[p])
    BY Zenon DEF SyncDirectory, WriterInv, WriterOK, Persisting
  <2>2. fs' = fs /\ disk' = fs
    BY DEF SyncDirectory
  <2>3. Retains(fs.journal, told')
    <3>1. CASE call[p] = "begin"
      <4>1. PICK op \in Op : next[p] = WithIntent(rec[p], op)
        BY <3>1, Zenon DEF SyncDirectory, WriterInv, WriterOK, Persisting
      <4>2. rec[p] \in Record
        BY <3>1, Zenon DEF SyncDirectory, WriterInv, WriterOK, Persisting
      <4>3. told' = ToldIntent(next[p].pending)
        BY <3>1, Zenon DEF SyncDirectory
      <4> QED
        BY <2>1, <4>1, <4>2, <4>3, ToldIsRetained, Zenon
    <3>2. CASE call[p] # "begin"
      BY <2>1, <3>2, NoneIsNoRecord, Zenon DEF SyncDirectory, FileInv
    <3> QED BY <3>1, <3>2, Zenon
  <2> QED
    BY <2>1, <2>2, <2>3, NoneIsNoRecord, TornAssumption, Zenon DEF FileInv
<1> QED BY <1>1, <1>2, <1>3, <1>4, <1>5

\* A failed write fences the instance, whether or not it was renamed.
LEMMA PersistFailsInv ==
    ASSUME Inv, NEW p \in Proc, PersistFails(p)
    PROVE  Inv'
<1> USE DEF Inv
<1>1. TypeOK'
  BY Zenon DEF PersistFails, Return, TypeOK, Opening, Persisting, Locked
<1>2. LockInv'
  BY Zenon DEF PersistFails, Return, TypeOK, LockInv, Current, Opening, Persisting, Locked
<1>3. FreshInv'
  BY Zenon DEF PersistFails, Return, TypeOK, FreshInv, Opening, Persisting
<1>4. WriterInv'
  <2> SUFFICES ASSUME NEW q \in Proc
               PROVE  WriterOK(q)'
    BY DEF WriterInv
  <2>1. CASE q = p
    BY <2>1, Zenon DEF PersistFails, Return, TypeOK, WriterInv, WriterOK, Usable, Persisting
  <2>2. CASE q # p
    <3>1. Same(q)
      BY <2>2, Zenon DEF Same, PersistFails, Return, TypeOK
    <3>2. fs' = fs /\ told' = told
      BY Zenon DEF PersistFails
    <3> QED
      BY <3>1, <3>2, WriterFrame DEF WriterInv
  <2> QED BY <2>1, <2>2
<1>5. FileInv'
  BY Zenon DEF PersistFails, Return, FileInv
<1> QED BY <1>1, <1>2, <1>3, <1>4, <1>5

\* A failed initialisation gives up the lock.
LEMMA InitFailsInv ==
    ASSUME Inv, NEW p \in Proc, InitFails(p)
    PROVE  Inv'
<1> USE DEF Inv
<1>1. TypeOK'
  BY Zenon DEF InitFails, Exit, TypeOK, Opening, Persisting, Locked
<1>2. LockInv'
  BY Zenon DEF InitFails, Exit, TypeOK, LockInv, Current, Opening, Persisting, Locked
<1>3. FreshInv'
  BY SMTT(30) DEF InitFails, Exit, TypeOK, FreshInv, Opening, Persisting
<1>4. WriterInv'
  <2> SUFFICES ASSUME NEW q \in Proc
               PROVE  WriterOK(q)'
    BY DEF WriterInv
  <2>1. CASE q = p
    BY <2>1, Zenon DEF InitFails, Exit, TypeOK, WriterOK, Persisting
  <2>2. CASE q # p
    <3>1. Same(q)
      BY <2>2, Zenon DEF Same, InitFails, Exit, TypeOK
    <3>2. fs' = fs /\ told' = told
      BY Zenon DEF InitFails
    <3> QED
      BY <3>1, <3>2, WriterFrame DEF WriterInv
  <2> QED BY <2>1, <2>2
<1>5. FileInv'
  BY Zenon DEF InitFails, Exit, FileInv
<1> QED BY <1>1, <1>2, <1>3, <1>4, <1>5

\* A killed process leaves the files as they are.
LEMMA ProcessDiesInv ==
    ASSUME Inv, NEW p \in Proc, ProcessDies(p)
    PROVE  Inv'
<1> USE DEF Inv
<1>1. TypeOK'
  BY Zenon DEF ProcessDies, Exit, TypeOK, Opening, Persisting, Locked
<1>2. LockInv'
  BY Zenon DEF ProcessDies, Exit, TypeOK, LockInv, Current, Opening, Persisting, Locked
<1>3. FreshInv'
  BY SMTT(30) DEF ProcessDies, Exit, TypeOK, FreshInv, Opening, Persisting
<1>4. WriterInv'
  <2> SUFFICES ASSUME NEW q \in Proc
               PROVE  WriterOK(q)'
    BY DEF WriterInv
  <2>1. CASE q = p
    BY <2>1, Zenon DEF ProcessDies, Exit, TypeOK, WriterOK, Persisting
  <2>2. CASE q # p
    <3>1. Same(q)
      BY <2>2, Zenon DEF Same, ProcessDies, Exit, TypeOK
    <3>2. fs' = fs /\ told' = told
      BY Zenon DEF ProcessDies
    <3> QED
      BY <3>1, <3>2, WriterFrame DEF WriterInv
  <2> QED BY <2>1, <2>2
<1>5. FileInv'
  BY Zenon DEF ProcessDies, Exit, FileInv
<1> QED BY <1>1, <1>2, <1>3, <1>4, <1>5

\* A power cut leaves either of the two records, and the directory.
LEMMA PowerCutFiles ==
    ASSUME Inv, PowerCut
    PROVE  /\ fs' \in Directory
           /\ fs'.dir = fs.dir /\ fs'.ino \in {fs.ino, disk.ino} /\ fs'.flushed = TRUE
           /\ fs'.journal \in {fs.journal, disk.journal}
           /\ disk' = fs' /\ told' = told
<1>1. PICK i \in {fs.ino, disk.ino},
           j \in {disk.journal, IF fs.flushed THEN fs.journal ELSE Torn} :
           fs' = [dir |-> fs.dir, ino |-> i, journal |-> j, flushed |-> TRUE]
  BY DEF PowerCut, AfterPowerCut
<1>2. fs.flushed
  BY Zenon DEF Inv, FileInv
<1>3. i \in Nat /\ j \in File /\ fs.dir \in BOOLEAN
  BY <1>2, Zenon DEF Inv, TypeOK, Directory, File
<1>4. fs' \in Directory
  BY <1>1, <1>3, Zenon DEF Directory
<1>5. disk' = fs' /\ told' = told
  BY DEF PowerCut
<1> QED
  BY <1>1, <1>2, <1>4, <1>5, Zenon

\* A power cut leaves an intact record that accounts for what was told.
LEMMA PowerCutInv ==
    ASSUME Inv, PowerCut
    PROVE  Inv'
<1> USE DEF Inv
<1>1. TypeOK'
  <2>1. fs' \in Directory /\ disk' \in Directory /\ told' \in Told
    BY PowerCutFiles, Zenon DEF TypeOK
  <2> QED
    BY <2>1 DEF PowerCut, TypeOK
<1>2. LockInv'
  BY DEF PowerCut, LockInv, Persisting, Locked
<1>3. FreshInv'
  <2>1. \A p \in Proc : ~fresh'[p] /\ pc'[p] = "down"
    BY Zenon DEF PowerCut
  <2>2. fs'.dir = fs.dir /\ fs'.ino \in {fs.ino, disk.ino}
        /\ fs'.journal \in {fs.journal, disk.journal} /\ told' = told /\ disk' = fs'
    BY PowerCutFiles, Zenon
  <2>3. ~fs.dir => disk.ino = 0 /\ disk.journal = None
    BY Zenon DEF FreshInv
  <2> QED
    BY <2>1, <2>2, <2>3 DEF FreshInv
<1>4. WriterInv'
  BY Zenon DEF PowerCut, WriterInv, WriterOK, Persisting
<1>5. FileInv'
  <2>1. fs'.journal \in {fs.journal, disk.journal} /\ fs'.flushed = TRUE
        /\ disk' = fs' /\ told' = told
    BY PowerCutFiles, Zenon
  <2> QED
    BY <2>1, Zenon DEF FileInv
<1> QED BY <1>1, <1>2, <1>3, <1>4, <1>5, Zenon

\* A replaced lock file makes every instance stale.
LEMMA ReplaceLockInv ==
    ASSUME Inv, ReplaceLock
    PROVE  Inv'
<1> USE DEF Inv
<1>1. TypeOK'
  <2>1. fs' \in Directory
    BY DEF ReplaceLock, TypeOK, Directory
  <2> QED
    BY <2>1 DEF ReplaceLock, procVars, TypeOK
<1>2. LockInv'
  <2>1. fs'.ino = fs.ino + 1 /\ fs.ino \in Nat
    BY DEF ReplaceLock, TypeOK, Directory
  <2> QED
    BY <2>1 DEF ReplaceLock, procVars, TypeOK, LockInv, Current
<1>3. FreshInv'
  BY DEF ReplaceLock, procVars, TypeOK, FreshInv, Opening, Persisting
<1>4. WriterInv'
  <2>1. fs'.ino = fs.ino + 1 /\ fs.ino \in Nat /\ fs'.journal = fs.journal
    BY DEF ReplaceLock, TypeOK, Directory
  <2>2. ASSUME NEW p \in Proc, pc[p] \in Locked
        PROVE  held[p] # fs'.ino
    <3>1. held[p] \in 1..fs.ino
      BY <2>2 DEF LockInv
    <3> QED BY <2>1, <3>1
  <2> QED
    BY <2>1, <2>2 DEF ReplaceLock, procVars, WriterInv, WriterOK, Usable, Current, Locked, Persisting
<1>5. FileInv'
  BY DEF ReplaceLock, procVars, FileInv
<1> QED BY <1>1, <1>2, <1>3, <1>4, <1>5

\* A lost journal file leaves nothing to be wrong about.
LEMMA LoseJournalInv ==
    ASSUME Inv, LoseJournal
    PROVE  Inv'
<1> USE DEF Inv
<1>1. TypeOK'
  BY Zenon DEF LoseJournal, procVars, TypeOK, Opening, Persisting, Locked, Directory, File
<1>2. LockInv'
  BY Zenon DEF LoseJournal, procVars, TypeOK, LockInv, Current, Opening, Persisting, Locked
<1>3. FreshInv'
  BY DEF LoseJournal, procVars, TypeOK, FreshInv, Opening, Persisting
<1>4. WriterInv'
  BY DEF LoseJournal, procVars, TypeOK, LockInv, WriterInv, WriterOK, Usable, Current, Persisting, Locked
<1>5. FileInv'
  BY DEF LoseJournal, procVars, FileInv
<1> QED BY <1>1, <1>2, <1>3, <1>4, <1>5

----------------------------------------------------------------------------

\* Every step, of any process or of the environment, preserves Inv.
LEMMA InvNext == Inv /\ [Next]_vars => Inv'
<1> SUFFICES ASSUME Inv, [Next]_vars PROVE Inv'
  BY Zenon
<1>1. CASE \E p \in Proc : Step(p)
  <2>1. PICK p \in Proc : Step(p)
    BY <1>1
  <2>2. CASE \E c \in Config : OpenDirectory(p, c)
    BY <2>2, OpenDirectoryInv
  <2>3. CASE \E op \in Op : Begin(p, op)
    BY <2>3, BeginInv
  <2>4. CASE \E s \in State, seq \in 1..MaxSeq : Commit(p, seq, s)
    BY <2>4, CommitInv, Zenon
  <2>5. CASE CreateLock(p) \/ OpenLock(p) \/ Flock(p) \/ InitJournal(p)
             \/ ReadJournal(p) \/ OpenFails(p)
    BY <2>5, CreateLockInv, OpenLockInv, FlockInv, InitJournalInv,
       ReadJournalInv, OpenFailsInv
  <2>6. CASE CheckLock(p) \/ Close(p) \/ ProcessDies(p)
    BY <2>6, CheckLockInv, CloseInv, ProcessDiesInv, Zenon
  <2>7. CASE WriteTemp(p) \/ SyncTemp(p) \/ Rename(p) \/ SyncDirectory(p)
             \/ PersistFails(p) \/ InitFails(p)
    BY <2>7, WriteTempInv, SyncTempInv, RenameInv, SyncDirectoryInv,
       PersistFailsInv, InitFailsInv
  <2> QED
    BY <2>1, <2>2, <2>3, <2>4, <2>5, <2>6, <2>7 DEF Step
<1>2. CASE PowerCut
  BY <1>2, PowerCutInv
<1>3. CASE ReplaceLock
  BY <1>3, ReplaceLockInv, Zenon
<1>4. CASE LoseJournal
  BY <1>4, LoseJournalInv
<1>5. CASE UNCHANGED vars
  <2> USE <1>5 DEF vars, procVars
  <2>1. TypeOK'
    BY Zenon DEF Inv, TypeOK
  <2>2. LockInv'
    BY Zenon DEF Inv, LockInv, Current
  <2>3. FreshInv'
    BY Zenon DEF Inv, FreshInv
  <2>4. WriterInv'
    BY WriterFrame, Zenon DEF Inv, WriterInv, Same
  <2>5. FileInv'
    BY Zenon DEF Inv, FileInv
  <2> QED BY <2>1, <2>2, <2>3, <2>4, <2>5, Zenon DEF Inv
<1> QED
  BY <1>1, <1>2, <1>3, <1>4, <1>5 DEF Next

\* Inv holds in every reachable state of the file protocol.
THEOREM Invariance == Spec => []Inv
BY InvInit, InvNext, PTL DEF Spec

\* The journal's files and instances always have their types.
THEOREM TypeCorrect == Spec => []TypeOK
<1>1. Inv => TypeOK
  BY Zenon DEF Inv
<1> QED
  BY Invariance, <1>1, PTL

\* An intent Begin returned success for survives every crash, reopening and
\* power cut until its caller calls Commit (persist's fsync and rename order).
THEOREM IntentSurvival == Spec => []IntentSurvives
<1>1. Inv => IntentSurvives
  BY Zenon DEF Inv, FileInv, IntentSurvives
<1> QED
  BY Invariance, <1>1, PTL

\* No instance that passes check() works on a record another one replaced.
THEOREM SingleWriter == Spec => []NoLostUpdate
<1>1. Inv => NoLostUpdate
  BY Zenon DEF Inv, WriterInv, WriterOK, NoLostUpdate
<1> QED
  BY Invariance, <1>1, PTL

\* How a step may change the journal file and what is sure of it: not at all,
\* by a persist of p, by a power cut, or by losing it.
LEMMA FileSteps ==
    ASSUME Inv, [Next]_vars
    PROVE  \/ UNCHANGED <<fs.journal, disk.journal, told>>
           \/ \E p \in Proc : Rename(p) \/ SyncDirectory(p)
           \/ \E p \in Proc, s \in State, seq \in 1..MaxSeq : Commit(p, seq, s)
           \/ PowerCut \/ LoseJournal
<1>1. CASE \E p \in Proc : Step(p)
  <2>. PICK p \in Proc : Step(p)
    BY <1>1
  <2>. DEFINE Kept == UNCHANGED <<fs.journal, disk.journal, told>>
  <2>1. ASSUME NEW c \in Config, OpenDirectory(p, c) PROVE Kept
    BY <2>1, Zenon DEF OpenDirectory, Inv, TypeOK, Directory
  <2>2. CASE CreateLock(p)
    BY <2>2, Zenon DEF CreateLock, Inv, TypeOK, Directory
  <2>3. CASE OpenLock(p) \/ Flock(p) \/ InitJournal(p) \/ ReadJournal(p) \/ OpenFails(p) \/ CheckLock(p) \/ Close(p)
    BY <2>3, Zenon DEF OpenLock, Flock, InitJournal, ReadJournal, OpenFails, CheckLock, Close, Exit
  <2>4. ASSUME NEW op \in Op, Begin(p, op) PROVE Kept
    BY <2>4, Zenon DEF Begin
  <2>5. CASE WriteTemp(p) \/ SyncTemp(p) \/ PersistFails(p) \/ InitFails(p) \/ ProcessDies(p)
    BY <2>5 DEF WriteTemp, SyncTemp, PersistFails, InitFails, ProcessDies, Exit
  <2>. QED
    BY <2>1, <2>2, <2>3, <2>4, <2>5, Zenon DEF Step
<1>2. CASE ReplaceLock
  BY <1>2, Zenon DEF ReplaceLock, Inv, TypeOK, Directory
<1>3. CASE UNCHANGED vars
  BY <1>3, Zenon DEF vars
<1> QED
  BY <1>1, <1>2, <1>3, Zenon DEF Next

\* The record a rename puts in place, by the call it belongs to.
LEMMA RenamedRecord ==
    ASSUME Inv, NEW p \in Proc, Rename(p)
    PROVE  /\ fs'.journal = next[p] /\ next[p] \in Record
           /\ UNCHANGED <<disk.journal, told>>
           /\ \/ /\ fs.journal = None /\ told = NothingTold
                 /\ next[p] = InitialRecord(next[p].dom)
              \/ /\ fs.journal \in Record /\ fs.journal.pending = None
                 /\ \E op \in Op : next[p] = WithIntent(fs.journal, op)
              \/ /\ fs.journal \in Record /\ fs.journal.pending # None
                 /\ fs.journal.pending.seq = told.seq => told.claimed
                 /\ \E s \in State : next[p] = WithAcknowledgement(fs.journal, s)
<1>1. fs'.journal = next[p] /\ next[p] \in Record /\ UNCHANGED <<disk.journal, told>>
  BY Zenon DEF Rename, Inv, TypeOK, Directory, WriterInv, WriterOK, Persisting
<1>2. Current(p)
  BY DEF Rename, Inv, LockInv
<1>3. CASE call[p] = "open"
  BY <1>1, <1>3, Zenon DEF Rename, Inv, WriterInv, WriterOK, FreshInv, Persisting
<1>4. CASE call[p] = "begin"
  BY <1>1, <1>2, <1>4, Zenon DEF Rename, Inv, WriterInv, WriterOK, Persisting
<1>5. CASE call[p] = "commit"
  BY <1>1, <1>2, <1>5, Zenon DEF Rename, Inv, WriterInv, WriterOK, Persisting
<1> QED
  BY <1>1, <1>3, <1>4, <1>5, Zenon DEF Inv, TypeOK

\* A journal written for one domain is never rewritten for another: the only
\* writer of the file carries over the domain it read.
THEOREM DomainsKept == Spec => DomainKept
<1>1. Inv /\ [Next]_vars =>
        [{fs.journal, fs'.journal} \cap {None, Torn} = {}
            => fs'.journal.dom = fs.journal.dom]_vars
  <2> SUFFICES ASSUME Inv, [Next]_vars,
                      fs.journal \notin {None, Torn}, fs'.journal \notin {None, Torn}
               PROVE  fs'.journal.dom = fs.journal.dom
    BY Zenon
  <2>1. CASE UNCHANGED <<fs.journal, disk.journal, told>>
    BY <2>1
  <2>2. ASSUME NEW p \in Proc, Rename(p)
        PROVE  fs'.journal.dom = fs.journal.dom
    <3>1. fs'.journal = next[p] /\ next[p].dom = fs.journal.dom
      <4>1. fs.journal \in Record => /\ \A op \in Op : WithIntent(fs.journal, op).dom = fs.journal.dom
                                     /\ \A s \in State :
                                          WithAcknowledgement(fs.journal, s).dom = fs.journal.dom
        BY Zenon DEF WithIntent, WithAcknowledgement, Record
      <4> QED
        BY <2>2, <4>1, RenamedRecord
    <3> QED BY <3>1
  <2>3. CASE \E p \in Proc : SyncDirectory(p)
    BY <2>3, Zenon DEF SyncDirectory
  <2>4. CASE \E p \in Proc, s \in State, seq \in 1..MaxSeq : Commit(p, seq, s)
    BY <2>4, Zenon DEF Commit
  <2>5. CASE PowerCut
    <3>1. fs'.journal \in {fs.journal, disk.journal}
      BY <2>5, PowerCutFiles
    <3> QED
      BY <3>1, Zenon DEF Inv, FileInv
  <2>6. CASE LoseJournal
    BY <2>6 DEF LoseJournal, Inv, TypeOK, Directory
  <2> QED
    BY FileSteps, <2>1, <2>2, <2>3, <2>4, <2>5, <2>6, Zenon
<1> QED
  BY Invariance, <1>1, PTL DEF Spec, DomainKept

\* The file protocol implements the abstract intent log: callers may reason
\* about the journal as one record that Begin and Commit change atomically.
THEOREM JournalImplementsIntentLog == Spec => Refinement
<1>1. Init => Abstract!Init
  BY DEF Init, Abstract!Init, NothingTold, Abstract!NothingTold
<1>2. Inv /\ [Next]_vars => [Abstract!Next]_(Abstract!vars)
  <2> SUFFICES ASSUME Inv, [Next]_vars
               PROVE  [Abstract!Next]_(Abstract!vars)
    BY Zenon
  <2>1. CASE UNCHANGED <<fs.journal, disk.journal, told>>
    BY <2>1, Zenon DEF Abstract!vars
  <2>2. ASSUME NEW p \in Proc, Rename(p)
        PROVE  Abstract!Next
    <3> USE <2>2, RenamedRecord, NoneIsNoRecord
    <3>1. CASE fs.journal = None
      <4>1. Abstract!Create
        BY <3>1, Zenon DEF Abstract!Create, Abstract!NothingTold, NothingTold, Abstract!Record, Record,
           Abstract!Domain, Domain, Abstract!Intent, Intent, Abstract!InitialRecord, InitialRecord
      <4> QED BY <4>1, Zenon DEF Abstract!Next
    <3>2. CASE fs.journal # None /\ fs.journal.pending = None
      <4>1. PICK op \in Op : next[p] = WithIntent(fs.journal, op)
        BY <3>2, Zenon
      <4>2. Abstract!RecordIntent(op)
        BY <3>2, <4>1, Zenon DEF Abstract!RecordIntent, Abstract!WithIntent, WithIntent
      <4> QED BY <4>2, Zenon DEF Abstract!Next
    <3>3. CASE fs.journal # None /\ fs.journal.pending # None
      <4>1. PICK s \in State : next[p] = WithAcknowledgement(fs.journal, s)
        BY <3>3, Zenon
      <4>2. Abstract!ReplaceState(s)
        BY <3>3, <4>1, Zenon DEF Abstract!ReplaceState, Abstract!WithAcknowledgement, WithAcknowledgement
      <4> QED BY <4>2, Zenon DEF Abstract!Next
    <3> QED BY <3>1, <3>2, <3>3, Zenon
  <2>3. ASSUME NEW p \in Proc, SyncDirectory(p)
        PROVE  Abstract!Settle
    <3>1. fs.journal = next[p] /\ next[p] \in Record
      BY <2>3, Zenon DEF SyncDirectory, Inv, WriterInv, WriterOK, Persisting
    <3>2. fs'.journal = fs.journal /\ disk'.journal = fs.journal
      BY <2>3, Zenon DEF SyncDirectory
    <3>3. CASE call[p] = "begin"
      <4>1. PICK op \in Op : next[p] = WithIntent(rec[p], op)
        BY <2>3, <3>3, Zenon DEF SyncDirectory, Inv, WriterInv, WriterOK, Persisting
      <4>2. rec[p] \in Record
        BY <2>3, <3>3, Zenon DEF SyncDirectory, Inv, WriterInv, WriterOK, Persisting
      <4>3. next[p].pending \in Intent
        BY <4>1, <4>2 DEF WithIntent, Record, Intent
      <4>4. told' = ToldIntent(fs.journal.pending)
        BY <2>3, <3>1, <3>3, Zenon DEF SyncDirectory
      <4> QED
        BY <3>1, <3>2, <4>3, <4>4, NoneIsNoRecord, Zenon DEF Abstract!Settle, Abstract!ToldIntent, ToldIntent
    <3>4. CASE call[p] # "begin"
      BY <2>3, <3>1, <3>2, <3>4, NoneIsNoRecord, Zenon DEF SyncDirectory, Abstract!Settle
    <3> QED BY <3>3, <3>4, Zenon
  <2>4. ASSUME NEW p \in Proc, NEW s \in State, NEW seq \in 1..MaxSeq, Commit(p, seq, s)
        PROVE  Abstract!ClaimResult
    <3>1. fs.journal = rec[p] /\ rec[p] \in Record
      BY <2>4, Zenon DEF Commit, Inv, WriterInv, WriterOK
    <3> QED
      BY <2>4, <3>1, NoneIsNoRecord, Zenon DEF Commit, Abstract!ClaimResult, Abstract!Claim, Claim
  <2>5. CASE PowerCut
    <3>1. /\ fs'.journal \in {fs.journal, disk.journal}
          /\ disk' = fs' /\ told' = told
      BY <2>5, PowerCutFiles, Zenon
    <3> QED
      BY <3>1, Zenon DEF Abstract!Next, Abstract!PowerCut
  <2>6. CASE LoseJournal
    BY <2>6 DEF LoseJournal, Inv, TypeOK, Directory, Abstract!Next, Abstract!Lose
  <2> QED
    BY FileSteps, <2>1, <2>2, <2>3, <2>4, <2>5, <2>6, Zenon DEF Abstract!Next
<1> QED
  BY <1>1, <1>2, Invariance, PTL DEF Spec, Refinement, Abstract!Spec
====
