----------------------- MODULE NetlinkImporterProofs -----------------------
(***************************************************************************)
(* No kernel entry of the netlink importer is ever orphaned, for any       *)
(* endpoints, kernel slots, faults, timeouts and restarts.                 *)
(***************************************************************************)
EXTENDS NetlinkImporter, TLAPS

Mine(t) == kernel[t] # None /\ kernel[t].mine

\* A confirmed object of state s describes what slot t holds.
Covers(s, t) ==
    \E k \in Key, o \in Obj :
        /\ s.receipts[k] # None /\ s.receipts[k].obj[o] = "confirmed"
        /\ Slot(s.receipts[k].ep, o) = t /\ Value(s.receipts[k].ep, o) = kernel[t].val

Types ==
    /\ rib \in Snapshots
    /\ kernel = [s \in Slots |-> kernel[s]]
    /\ dev \in Nat
    /\ mem \in StateRec
    /\ disk \in [bound : {disk.bound}, state : StateRec \cup {None}, quarantine : BOOLEAN,
                 pending : Intents \cup {None}]
    /\ active \in [Key -> RouteRec \cup {None}] /\ epoch \in Nat
    /\ cur \in [key : Key \cup {None}, obj : Obj]

Saving == {"checkpoint", "checkpoint-commit"}
Adds == {"add-send", "add-confirm", "add-ack"}
Deletes == {"delete-read", "delete-send", "delete-confirm", "delete-ack"}

\* The route being worked on has a receipt, and the object belongs to it.
Working ==
    /\ pc \in Saving => next \in {"mark", "idle", "withdraw", "delete", "apply"}
    /\ (pc \in Adds \cup Deletes \cup {"add", "delete", "withdrawn"} \/ (pc \in Saving /\ next = "delete")) =>
         cur.key \in Key /\ mem.receipts[cur.key] \in ReceiptRec
    /\ pc \in Adds \cup Deletes \cup {"add"} => cur.obj \in Objects(Receipt.ep)
    /\ (pc \in Adds \cup {"add", "apply"} \/ (pc \in Saving /\ next = "apply")) =>
         todo \subseteq { KeyOf(e) : e \in mem.eps }

\* Only objects that an endpoint has are ever confirmed.
Sane(s) == \A k \in Key, o \in Obj :
    s.receipts[k] # None /\ s.receipts[k].obj[o] = "confirmed" => o \in Objects(s.receipts[k].ep)
SaneStates == Sane(mem) /\ (disk.state # None => Sane(disk.state))

\* A withdrawal leaves no confirmed object behind.
Withdrawing ==
    /\ pc \in Saving /\ next = "delete" => cur.obj = "nbr"
    /\ pc \in Deletes \cup {"delete"} /\ cur.obj = "fdb" => Receipt.obj["nbr"] # "confirmed"
    /\ pc = "delete-ack" => Status # "confirmed" /\ ~Mine(Entry)
    /\ pc = "withdrawn" => \A o \in Obj : Receipt.obj[o] # "confirmed"

Adding(t) == disk.pending = [op |-> "add", slot |-> t]
Deleting(t) == disk.pending = [op |-> "delete", slot |-> t]

\* The intent on disk is the one of the operation in progress.
Intended ==
    /\ pc \in Adds => Adding(Entry)
    /\ pc \in Deletes => Deleting(Entry)
    /\ pc = "checkpoint-commit" => disk.pending = [op |-> "checkpoint"]

\* What the journal promises, ...
OnDisk == \A t \in Slots : Mine(t) => \/ disk.state # None /\ Covers(disk.state, t)
                                      \/ Adding(t)
\* ... what memory knows, apart from the slot of an outstanding intent, ...
InMemory == pc # "down" => \A t \in Slots : Mine(t) => Covers(mem, t) \/ Adding(t) \/ Deleting(t)
\* ... and that an addition is acknowledged with its receipt.
Added == pc = "add-ack" => (Mine(Entry) => Covers(mem, Entry))

IInv == Types /\ Working /\ SaneStates /\ Withdrawing /\ Intended /\ OnDisk /\ InMemory /\ Added
-----------------------------------------------------------------------------

\* Covering is what the receipts confirm.
LEMMA CoversConfirmed ==
  ASSUME NEW s, NEW t, Covers(s, t) PROVE [slot |-> t, val |-> kernel[t].val] \in Confirmed(s)
  <1>1. PICK k \in Key, o \in Obj : /\ s.receipts[k] # None /\ s.receipts[k].obj[o] = "confirmed"
                                    /\ Slot(s.receipts[k].ep, o) = t /\ Value(s.receipts[k].ep, o) = kernel[t].val
    BY DEF Covers
  <1>2. s.receipts[k] \in ReceiptsOf(s)
    BY <1>1, Zenon DEF ReceiptsOf
  <1>. QED
    BY <1>1, <1>2 DEF Confirmed

LEMMA EntryInSlots == ASSUME IInv, pc \in Adds \cup Deletes \cup {"add"} PROVE Entry \in Slots
  BY DEF IInv, Working, Receipt, ReceiptRec, Entry, Slots

\* A change of one status changes nothing else.
Changed(st) ==
    /\ mem' \in StateRec /\ mem'.eps = mem.eps
    /\ \A k \in Key : k # cur.key => mem'.receipts[k] = mem.receipts[k]
    /\ mem'.receipts[cur.key] \in ReceiptRec
    /\ mem'.receipts[cur.key].ep = mem.receipts[cur.key].ep
    /\ \A o \in Obj : mem'.receipts[cur.key].obj[o] = IF o = cur.obj THEN st ELSE mem.receipts[cur.key].obj[o]

LEMMA SetStatusChanges ==
  ASSUME Types, cur.key \in Key, mem.receipts[cur.key] \in ReceiptRec, NEW st \in ObjStatus, SetStatus(st)
  PROVE  Changed(st)
  <1>. DEFINE r == mem.receipts[cur.key]
              ob == [r.obj EXCEPT ![cur.obj] = st]
              new == [r EXCEPT !.obj = ob]
              rs == [mem.receipts EXCEPT ![cur.key] = new]
  <1>0. mem \in StateRec /\ cur.obj \in Obj
    BY DEF Types
  <1>1. mem' = [mem EXCEPT !.receipts = rs]
    BY Zenon DEF SetStatus
  <1>2. ob \in [Obj -> ObjStatus] /\ \A o \in Obj : ob[o] = IF o = cur.obj THEN st ELSE r.obj[o]
    BY <1>0, Zenon DEF ReceiptRec
  <1>. HIDE DEF ob
  <1>3. new \in ReceiptRec /\ new.ep = r.ep /\ new.obj = ob
    BY <1>2 DEF ReceiptRec
  <1>. HIDE DEF new
  <1>4. /\ rs \in [Key -> ReceiptRec \cup {None}] /\ rs[cur.key] = new
        /\ \A k \in Key : k # cur.key => rs[k] = mem.receipts[k]
    BY <1>0, <1>3 DEF StateRec
  <1>. HIDE DEF rs
  <1>5. mem' \in StateRec /\ mem'.eps = mem.eps /\ mem'.receipts = rs
    BY <1>0, <1>1, <1>4 DEF StateRec
  <1>. QED
    BY <1>2, <1>3, <1>4, <1>5 DEF Changed

-----------------------------------------------------------------------------
(* What a step keeps *)

\* An intent names the operation and the slot.
LEMMA IntentFields ==
  ASSUME NEW t
  PROVE  /\ Adding(t) => disk.pending.op = "add" /\ disk.pending.slot = t
         /\ Deleting(t) => disk.pending.op = "delete" /\ disk.pending.slot = t
  BY DEF Adding, Deleting

\* The journal's promise depends on its state and intent and on the kernel.
LEMMA DiskKept ==
  ASSUME IInv, UNCHANGED kernel, disk'.state = disk.state, disk'.pending = disk.pending
  PROVE  OnDisk' /\ (disk'.state # None => Sane(disk.state)')
  <1>1. \A t \in Slots : /\ Mine(t)' <=> Mine(t)
                         /\ Adding(t)' <=> Adding(t)
                         /\ Covers(disk.state, t)' <=> Covers(disk.state, t)
    BY DEF Mine, Adding, Covers
  <1>2. OnDisk'
    BY <1>1 DEF IInv, OnDisk
  <1>3. Sane(disk.state)' <=> Sane(disk.state)
    BY DEF Sane
  <1>. QED
    BY <1>2, <1>3, Zenon DEF IInv, SaneStates

\* Memory goes on covering what it covered.
LEMMA MemoryKept ==
  ASSUME IInv, pc # "down", UNCHANGED kernel, disk'.pending = disk.pending,
         \A t \in Slots : Covers(mem, t) => Covers(mem, t)'
  PROVE  InMemory'
  <1>1. \A t \in Slots : /\ Mine(t)' <=> Mine(t)
                         /\ Adding(t)' <=> Adding(t)
                         /\ Deleting(t)' <=> Deleting(t)
    BY DEF Mine, Adding, Deleting
  <1>. QED
    BY <1>1 DEF IInv, InMemory

\* Only endpoint and status of a receipt matter.
LEMMA ReceiptsKept ==
  ASSUME UNCHANGED kernel,
         \A k \in Key : /\ mem.receipts[k] = None <=> mem'.receipts[k] = None
                        /\ mem'.receipts[k].ep = mem.receipts[k].ep
                        /\ mem'.receipts[k].obj = mem.receipts[k].obj
  PROVE  (Sane(mem) => Sane(mem)') /\ \A t \in Slots : Covers(mem, t) => Covers(mem, t)'
  <1>1. Sane(mem) => Sane(mem)'
    BY Zenon DEF Sane
  <1>2. \A t \in Slots : Covers(mem, t) => Covers(mem, t)'
    BY DEF Covers
  <1>. QED
    BY <1>1, <1>2, Zenon

\* What the journal's state covers in a slot that stays as it is.
LEMMA StateCovers ==
  ASSUME NEW t, kernel'[t] = kernel[t], disk'.state = disk.state
  PROVE  Covers(disk.state, t)' <=> Covers(disk.state, t)
  BY Zenon DEF Covers

\* Receipts without a confirmed object cover nothing.
LEMMA ConfirmedKept ==
  ASSUME UNCHANGED kernel,
         \A k \in Key : \/ mem'.receipts[k] = mem.receipts[k]
                        \/ mem.receipts[k] = None
                        \/ \A o \in Obj : mem.receipts[k].obj[o] # "confirmed"
  PROVE  \A t \in Slots : Covers(mem, t) => Covers(mem, t)'
  <1>. SUFFICES ASSUME NEW t \in Slots, Covers(mem, t) PROVE Covers(mem, t)'
    BY Zenon
  <1>1. PICK k \in Key, o \in Obj :
           /\ mem.receipts[k] # None /\ mem.receipts[k].obj[o] = "confirmed"
           /\ Slot(mem.receipts[k].ep, o) = t /\ Value(mem.receipts[k].ep, o) = kernel[t].val
    BY Zenon DEF Covers
  <1>2. mem'.receipts[k] = mem.receipts[k]
    BY <1>1
  <1>. QED
    BY <1>1, <1>2, Zenon DEF Covers

\* A step that leaves kernel and journal alone and keeps what memory covers.
LEMMA PromisesKept ==
  ASSUME IInv, pc # "down", UNCHANGED <<kernel, disk>>, Sane(mem)',
         \A t \in Slots : Covers(mem, t) => Covers(mem, t)'
  PROVE  SaneStates' /\ OnDisk' /\ InMemory'
  <1>1. OnDisk' /\ (disk'.state # None => Sane(disk.state)')
    BY DiskKept
  <1>2. InMemory'
    BY MemoryKept
  <1>. QED
    BY <1>1, <1>2 DEF SaneStates

\* A step that leaves kernel, journal and receipts alone.
LEMMA NothingTouched ==
  ASSUME IInv, pc # "down", UNCHANGED <<kernel, disk>>, mem'.receipts = mem.receipts
  PROVE  SaneStates' /\ OnDisk' /\ InMemory'
  <1>1. (Sane(mem) => Sane(mem)') /\ \A t \in Slots : Covers(mem, t) => Covers(mem, t)'
    BY ReceiptsKept, Zenon
  <1>2. Sane(mem)
    BY Zenon DEF IInv, SaneStates
  <1>. QED
    BY <1>1, <1>2, PromisesKept

\* Before the first start nothing is in the kernel or on disk.
LEMMA InitIInv == Init => IInv
  <1>. SUFFICES ASSUME Init PROVE IInv
    BY Zenon
  <1>1. EmptyState \in StateRec /\ Sane(EmptyState)
    BY Zenon DEF EmptyState, NoReceipts, StateRec, Sane
  <1>2. Types
    BY <1>1 DEF Init, Types, EmptyDisk, NoReceipts, NoWork, Obj
  <1>3. \A t \in Slots : ~Mine(t)
    BY DEF Init, Mine
  <1>. QED
    BY <1>1, <1>2, <1>3 DEF Init, IInv, Working, SaneStates, Withdrawing, Intended, OnDisk, InMemory, Added,
       Adds, Deletes, Saving, EmptyDisk

\* A step of the surroundings leaves the importer's entries as they are, or removes them.
Shrinks ==
    /\ rib' \in Snapshots /\ dev' \in Nat
    /\ kernel' = [s \in Slots |-> kernel'[s]]
    /\ \A t \in Slots : Mine(t)' => Mine(t) /\ kernel'[t] = kernel[t]

LEMMA ShrinkIInv == ASSUME IInv, Shrinks, UNCHANGED <<store, procVars>> PROVE IInv'
  <1>. USE DEF store, procVars, routeVars
  <1>1. Types' /\ Working' /\ SaneStates' /\ Intended'
    BY DEF IInv, Types, Working, SaneStates, Sane, Intended, Shrinks, Receipt, Adding, Deleting, Entry
  <1>2. \A t \in Slots : Mine(t)' => /\ Covers(mem, t) => Covers(mem, t)'
                                     /\ Covers(disk.state, t) => Covers(disk.state, t)'
    BY Zenon DEF Shrinks, Covers
  <1>3. Withdrawing'
    BY EntryInSlots, Zenon DEF IInv, Withdrawing, Shrinks, Receipt, Status, Entry, Deletes
  <1>4. OnDisk' /\ InMemory'
    BY <1>2, Zenon DEF IInv, OnDisk, InMemory, Shrinks, Adding, Deleting
  <1>5. Added'
    BY <1>2, EntryInSlots, Zenon DEF IInv, Added, Shrinks, Entry, Receipt, Adds
  <1>. QED
    BY <1>1, <1>3, <1>4, <1>5, Zenon DEF IInv

\* A dead process leaves what the journal promises.
LEMMA CrashIInv == ASSUME IInv, Crash PROVE IInv'
  <1>1. EmptyState \in StateRec /\ Sane(EmptyState)
    BY Zenon DEF EmptyState, NoReceipts, StateRec, Sane
  <1>2. Types'
    BY <1>1, Zenon DEF IInv, Types, Crash, store, NoReceipts, NoWork, Obj
  <1>3. SaneStates'
    BY <1>1, Zenon DEF IInv, SaneStates, Sane, Crash, store
  <1>4. OnDisk'
    BY DEF IInv, OnDisk, Mine, Covers, Adding, Crash, store
  <1>. QED
    BY <1>2, <1>3, <1>4, Zenon DEF IInv, Crash, Working, Withdrawing, Intended, InMemory, Added, Adds, Deletes, Saving

LEMMA EnvironmentIInv == ASSUME IInv, Environment PROVE IInv'
  <1>1. CASE Crash
    BY <1>1, CrashIInv, Zenon
  <1>2. CASE DeviceReplaced
    BY <1>2, ShrinkIInv DEF DeviceReplaced, Shrinks, Mine, IInv, Types
  <1>3. CASE ForeignAdds
    <2>1. PICK s \in Slots : kernel' = [kernel EXCEPT ![s] = [val |-> Foreign, mine |-> FALSE]]
      BY <1>3, Zenon DEF ForeignAdds
    <2>2. kernel' = [t \in Slots |-> IF t = s THEN [val |-> Foreign, mine |-> FALSE] ELSE kernel[t]]
      BY <2>1, Zenon DEF IInv, Types
    <2>3. Shrinks
      BY <1>3, <2>2, Zenon DEF ForeignAdds, Shrinks, Mine, IInv, Types
    <2>. QED
      BY <1>3, <2>3, ShrinkIInv, Zenon DEF ForeignAdds
  <1>4. CASE ForeignDeletes
    <2>1. PICK s \in Slots : kernel' = [kernel EXCEPT ![s] = None]
      BY <1>4, Zenon DEF ForeignDeletes
    <2>2. kernel' = [t \in Slots |-> IF t = s THEN None ELSE kernel[t]]
      BY <2>1 DEF IInv, Types
    <2>3. Shrinks
      BY <1>4, <2>2, Zenon DEF ForeignDeletes, Shrinks, Mine, IInv, Types
    <2>. QED
      BY <1>4, <2>3, ShrinkIInv DEF ForeignDeletes
  <1>5. CASE SwitchChanges
    BY <1>5, ShrinkIInv, Zenon DEF SwitchChanges, Shrinks, Mine, IInv, Types
  <1>6. CASE RibChanges
    BY <1>6, ShrinkIInv, Zenon DEF RibChanges, Shrinks, Mine, IInv, Types
  <1>. QED
    BY <1>1, <1>2, <1>3, <1>4, <1>5, <1>6, Zenon DEF Environment
-----------------------------------------------------------------------------
(* Steps of the process *)

Resting == {"down", "idle", "blocked", "mark", "verify", "withdraw"}

\* Between operations only the types and the two promises are left to show.
LEMMA RestIInv ==
  ASSUME pc' \in Resting, Types', SaneStates', OnDisk', InMemory' PROVE IInv'
  BY Zenon DEF IInv, Working, Withdrawing, Intended, Added, Resting, Adds, Deletes, Saving

\* The end of an operation or a tick that touches neither storage nor kernel.
LEMMA QuietIInv ==
  ASSUME IInv, pc # "down", pc' \in Resting, UNCHANGED <<rib, kernel, dev, mem, disk>>,
         active' \in [Key -> RouteRec \cup {None}], epoch' \in Nat, cur' \in [key : Key \cup {None}, obj : Obj]
  PROVE  IInv'
  <1>1. Types'
    BY DEF IInv, Types
  <1>. QED
    BY <1>1, NothingTouched, RestIInv, Zenon

\* The start of an operation: its intent is outstanding.
Begun(i) ==
    /\ disk' \in [bound : {disk'.bound}, state : StateRec \cup {None}, quarantine : BOOLEAN,
                  pending : Intents \cup {None}]
    /\ disk'.pending = i /\ disk'.state = disk.state

LEMMA Begins ==
  ASSUME IInv, NEW i \in Intents, disk.pending = None, disk' = [disk EXCEPT !.pending = i], kernel' = kernel
  PROVE  Begun(i) /\ OnDisk' /\ (pc # "down" => \A t \in Slots : Mine(t) => Covers(mem, t))
  <1>1. Begun(i)
    BY DEF Begun, IInv, Types
  <1>2. None \notin Intents
    BY NoneAssumption
  <1>3. \A t \in Slots : ~Adding(t) /\ ~Deleting(t)
    BY <1>2 DEF Adding, Deleting, Intents
  <1>4. OnDisk'
    BY <1>1, <1>3, Zenon DEF IInv, OnDisk, Begun, Mine, Covers
  <1>. QED
    BY <1>1, <1>3, <1>4, Zenon DEF IInv, InMemory

LEMMA BegunKeeps ==
  ASSUME IInv, pc # "down", NEW i, Begun(i), UNCHANGED <<rib, kernel, dev, mem, active, epoch, cur>>,
         \A t \in Slots : Mine(t) => Covers(mem, t)
  PROVE  Types' /\ SaneStates' /\ InMemory'
  <1>1. Types'
    BY Zenon DEF Begun, IInv, Types
  <1>2. SaneStates'
    BY Zenon DEF Begun, IInv, SaneStates, Sane
  <1>3. InMemory'
    BY DEF InMemory, Mine, Covers
  <1>. QED
    BY <1>1, <1>2, <1>3, Zenon

\* A journal error at the start blocks the backend.
LEMMA BeginFailsIInv ==
  ASSUME IInv, pc # "down", NEW i \in Intents, disk.pending = None, disk' \in {disk, [disk EXCEPT !.pending = i]},
         pc' = "blocked", UNCHANGED <<rib, kernel, dev, mem, active, epoch, cur>>
  PROVE  IInv'
  <1>1. CASE disk' = disk
    BY <1>1, QuietIInv DEF IInv, Types, Resting
  <1>2. CASE disk' = [disk EXCEPT !.pending = i]
    <2>1. Begun(i) /\ OnDisk' /\ \A t \in Slots : Mine(t) => Covers(mem, t)
      BY <1>2, Begins
    <2>2. Types' /\ SaneStates' /\ InMemory'
      BY <2>1, BegunKeeps
    <2>. QED
      BY <2>1, <2>2, RestIInv DEF Resting
  <1>. QED
    BY <1>1, <1>2, Zenon

\* The end of an operation: memory, which covers everything, becomes the state.
Acknowledged ==
    /\ disk' \in [bound : {disk'.bound}, state : StateRec \cup {None}, quarantine : BOOLEAN,
                  pending : Intents \cup {None}]
    /\ disk'.state = mem
    /\ \A t \in Slots : Mine(t)' => Covers(mem, t)'
    /\ OnDisk' /\ SaneStates'

LEMMA Acknowledges ==
  ASSUME IInv, disk' = [disk EXCEPT !.pending = None, !.state = mem], UNCHANGED <<kernel, mem>>,
         \A t \in Slots : Mine(t) => Covers(mem, t)
  PROVE  Acknowledged
  <1>1. disk' \in [bound : {disk'.bound}, state : StateRec \cup {None}, quarantine : BOOLEAN,
                   pending : Intents \cup {None}]
        /\ disk'.state = mem /\ mem # None
    BY NoneAssumption, Zenon DEF IInv, Types
  <1>2. \A t \in Slots : Mine(t)' => Covers(mem, t)'
    BY Zenon DEF Mine, Covers
  <1>3. OnDisk'
    BY <1>1 DEF OnDisk, Mine, Covers
  <1>4. SaneStates'
    BY <1>1 DEF IInv, SaneStates, Sane
  <1>. QED
    BY <1>1, <1>2, <1>3, <1>4, Zenon DEF Acknowledged

LEMMA AckFailsIInv ==
  ASSUME IInv, pc # "down", disk' \in {disk, [disk EXCEPT !.pending = None, !.state = mem]}, pc' = "blocked",
         UNCHANGED <<rib, kernel, dev, mem, active, epoch, cur>>, \A t \in Slots : Mine(t) => Covers(mem, t)
  PROVE  IInv'
  <1>1. CASE disk' = disk
    BY <1>1, QuietIInv DEF IInv, Types, Resting
  <1>2. CASE disk' = [disk EXCEPT !.pending = None, !.state = mem]
    <2>1. Acknowledged
      BY <1>2, Acknowledges, Zenon
    <2>2. Types' /\ InMemory'
      BY <2>1, Zenon DEF Acknowledged, IInv, Types, InMemory
    <2>. QED
      BY <2>1, <2>2, RestIInv DEF Resting, Acknowledged
  <1>. QED
    BY <1>1, <1>2, Zenon
\* A checkpoint between operations.
LEMMA SavingIInv ==
  ASSUME pc' = "checkpoint", next' \in {"mark", "idle", "withdraw"}, Types', SaneStates', OnDisk', InMemory' PROVE IInv'
  BY DEF IInv, Working, Withdrawing, Intended, Added, Adds, Deletes, Saving

\* What a start finds covers every entry: no intent is outstanding.
LEMMA FoundCovers ==
  ASSUME IInv, UseRecovery, Opens
  PROVE  Found \in StateRec /\ Sane(Found) /\ \A t \in Slots : Mine(t) => Covers(Found, t)
  <1>1. None \notin Intents /\ disk.pending = None
    BY NoneAssumption, Zenon DEF Opens
  <1>2. \A t \in Slots : ~Adding(t)
    BY <1>1 DEF Adding, Intents
  <1>3. CASE disk.state = None
    <2>1. Found = [EmptyState EXCEPT !.dev = dev] /\ \A t \in Slots : ~Mine(t)
      BY <1>2, <1>3, Zenon DEF Found, IInv, OnDisk
    <2>2. Found \in StateRec /\ Found.receipts = NoReceipts
      BY <2>1, Zenon DEF EmptyState, NoReceipts, StateRec, IInv, Types
    <2>. QED
      BY <2>1, <2>2 DEF Sane, NoReceipts
  <1>4. CASE disk.state # None
    BY <1>2, <1>4 DEF Found, IInv, OnDisk, SaneStates, Types
  <1>. QED
    BY <1>3, <1>4

LEMMA StartIInv == ASSUME IInv, UseRecovery, Start \/ StartQuarantines PROVE IInv'
  <1>0. Found \in StateRec /\ Sane(Found) /\ (\A t \in Slots : Mine(t) => Covers(Found, t)) /\ Found # None
    BY FoundCovers, NoneAssumption, Zenon DEF Start, StartQuarantines
  <1>1. CASE Start
    <2>1. UNCHANGED <<rib, kernel, dev, active, epoch, cur>> /\ mem' = Found /\ disk' = [disk EXCEPT !.bound = switch]
      BY <1>1 DEF Start, routeVars
    <2>2. disk' \in [bound : {disk'.bound}, state : StateRec \cup {None}, quarantine : BOOLEAN,
                     pending : Intents \cup {None}]
          /\ disk'.state = disk.state /\ disk'.pending = disk.pending
      BY <2>1, Zenon DEF IInv, Types
    <2>3. Types' /\ SaneStates' /\ OnDisk' /\ InMemory'
      <3>1. Types'
        BY <1>0, <2>1, <2>2, Zenon DEF IInv, Types
      <3>2. OnDisk' /\ (disk'.state # None => Sane(disk.state)')
        BY <2>1, <2>2, DiskKept, Zenon
      <3>3. SaneStates'
        BY <1>0, <2>1, <3>2, Zenon DEF SaneStates, Sane
      <3>4. InMemory'
        BY <1>0, <2>1, Zenon DEF InMemory, Mine, Covers
      <3>. QED
        BY <3>1, <3>2, <3>3, <3>4, Zenon
    <2>4. pc' = "verify" \/ (pc' = "checkpoint" /\ next' = "mark")
      BY <1>1, Zenon DEF Start, Checkpoint
    <2>. QED
      BY <2>3, <2>4, RestIInv, SavingIInv, Zenon DEF Resting
  <1>2. CASE StartQuarantines
    <2>1. UNCHANGED <<rib, kernel, dev, mem, active, epoch, cur, pc>>
          /\ disk' = [disk EXCEPT !.bound = switch, !.quarantine = TRUE, !.state = Found]
      BY <1>2 DEF StartQuarantines, envVars, procVars, routeVars
    <2>2. disk' \in [bound : {disk'.bound}, state : StateRec \cup {None}, quarantine : BOOLEAN,
                     pending : Intents \cup {None}]
          /\ disk'.state = Found
      BY <1>0, <2>1, Zenon DEF IInv, Types
    <2>3. Types' /\ SaneStates' /\ OnDisk' /\ InMemory'
      <3>1. Types'
        BY <1>0, <2>1, <2>2, Zenon DEF IInv, Types
      <3>2. SaneStates'
        BY <1>0, <2>1, <2>2, Zenon DEF IInv, SaneStates, Sane
      <3>3. OnDisk'
        BY <1>0, <2>1, <2>2 DEF OnDisk, Mine, Covers
      <3>4. InMemory'
        BY <1>2, <2>1, Zenon DEF InMemory, StartQuarantines
      <3>. QED
        BY <3>1, <3>2, <3>3, <3>4, Zenon
    <2>4. pc' = "down"
      BY <1>2, <2>1, Zenon DEF StartQuarantines
    <2>. QED
      BY <2>3, <2>4, RestIInv, Zenon DEF Resting
  <1>. QED
    BY <1>1, <1>2

LEMMA CreateMarkerIInv == ASSUME IInv, CreateMarker PROVE IInv'
  BY QuietIInv DEF CreateMarker, envVars, routeVars, Resting, IInv, Types

\* verifyRecovered keeps the claim to what it reads back.
LEMMA VerifiedKeeps ==
  ASSUME NEW r \in ReceiptRec
  PROVE  /\ Verified(r) \in ReceiptRec /\ Verified(r).ep = r.ep
         /\ \A o \in Obj : Verified(r).obj[o] = "confirmed" => r.obj[o] = "confirmed"
         /\ \A o \in Obj : r.obj[o] = "confirmed" /\ Held(r.ep, o) => Verified(r).obj[o] = "confirmed"
  <1>. DEFINE ob == [o \in Obj |-> IF o \notin Objects(r.ep) \/ (r.obj[o] = "confirmed" /\ Held(r.ep, o)) THEN r.obj[o]
                                   ELSE IF r.retiring THEN "absent" ELSE "unattempted"]
  <1>1. Verified(r) = [r EXCEPT !.obj = ob]
    BY DEF Verified
  <1>2. ob \in [Obj -> ObjStatus]
    BY Zenon DEF ReceiptRec, ObjStatus
  <1>3. \A o \in Obj : /\ ob[o] = "confirmed" => r.obj[o] = "confirmed"
                       /\ r.obj[o] = "confirmed" /\ Held(r.ep, o) => ob[o] = "confirmed"
    OBVIOUS
  <1>. HIDE DEF ob
  <1>4. Verified(r) \in ReceiptRec /\ Verified(r).ep = r.ep /\ Verified(r).obj = ob
    BY <1>1, <1>2, Zenon DEF ReceiptRec
  <1>. QED
    BY <1>3, <1>4, Zenon

LEMMA VerifyIInv == ASSUME IInv, Verify PROVE IInv'
  <1>1. CASE Block
    BY <1>1, QuietIInv, Zenon DEF Verify, Block, envVars, store, routeVars, Resting, IInv, Types
  <1>2. CASE ~Block
    <2>. DEFINE rs == [k \in Key |-> IF mem.receipts[k] = None THEN None ELSE Verified(mem.receipts[k])]
    <2>1. /\ mem' = [mem EXCEPT !.receipts = rs] /\ active' = Restored(rs)
          /\ epoch' \in { mem.latest[k] : k \in Key } \cup {0}
          /\ UNCHANGED <<rib, kernel, dev, disk, cur>> /\ pc # "down"
          /\ pc' = "checkpoint" /\ next' = "idle"
      BY <1>2, Zenon DEF Verify, envVars, store, Checkpoint
    <2>2. mem \in StateRec /\ \A k \in Key : mem.receipts[k] # None => mem.receipts[k] \in ReceiptRec
      BY Zenon DEF IInv, Types, StateRec
    <2>3. \A k \in Key : mem.receipts[k] # None => rs[k] \in ReceiptRec
      BY <2>2, VerifiedKeeps, Zenon
    <2>4. /\ rs \in [Key -> ReceiptRec \cup {None}]
          /\ \A k \in Key : mem.receipts[k] = None => rs[k] = None
          /\ \A k \in Key : mem.receipts[k] # None => rs[k] = Verified(mem.receipts[k])
      BY <2>3
    <2>. HIDE DEF rs
    <2>5. mem' \in StateRec /\ mem'.receipts = rs
      BY <2>1, <2>2, <2>4, Zenon DEF StateRec
    <2>6. active' \in [Key -> RouteRec \cup {None}] /\ epoch' \in Nat
      BY <2>1, <2>2, <2>4 DEF Restored, RouteOf, RouteRec, ReceiptRec, StateRec
    <2>7. Types'
      BY <2>1, <2>5, <2>6, Zenon DEF IInv, Types
    <2>8. SaneStates'
      BY <2>1, <2>2, <2>4, <2>5, VerifiedKeeps DEF IInv, SaneStates, Sane
    <2>9. OnDisk'
      BY <2>1, Zenon DEF IInv, OnDisk, Mine, Covers, Adding
    <2>10. InMemory'
      <3>1. ASSUME NEW t \in Slots, Mine(t), Covers(mem, t) PROVE Covers(mem, t)'
        <4>1. PICK k \in Key, o \in Obj :
                 /\ mem.receipts[k] # None /\ mem.receipts[k].obj[o] = "confirmed"
                 /\ Slot(mem.receipts[k].ep, o) = t /\ Value(mem.receipts[k].ep, o) = kernel[t].val
          BY <3>1, Zenon DEF Covers
        <4>2. Held(mem.receipts[k].ep, o)
          BY <3>1, <4>1, Zenon DEF Mine, Held
        <4>3. rs[k] \in ReceiptRec /\ rs[k].ep = mem.receipts[k].ep /\ rs[k].obj[o] = "confirmed"
          BY <2>2, <2>4, <4>1, <4>2, VerifiedKeeps
        <4>4. rs[k] # None
          BY <4>3, NoneAssumption, Zenon
        <4>. QED
          BY <2>1, <2>5, <4>1, <4>3, <4>4, Zenon DEF Covers
      <3>. QED
        BY <2>1, <3>1, Zenon DEF IInv, InMemory, Mine, Adding, Deleting
    <2>. QED
      BY <2>1, <2>7, <2>8, <2>9, <2>10, SavingIInv, Zenon
  <1>. QED
    BY <1>1, <1>2, Zenon
-----------------------------------------------------------------------------
(* Checkpoints, quarantine and the tick *)

LEMMA CheckpointBeginIInv == ASSUME IInv, UseRecovery, CheckpointBegin PROVE IInv'
  <1>. DEFINE i == [op |-> "checkpoint"]
  <1>0. /\ i \in Intents /\ pc = "checkpoint"
        /\ UNCHANGED <<rib, kernel, dev, next, mem, active, epoch, todo, cur>>
    BY Zenon DEF CheckpointBegin, Intents, Intend, Persist, Block, envVars, routeVars
  <1>1. CASE disk' = disk /\ pc' = "blocked"
    BY <1>0, <1>1, QuietIInv, Zenon DEF IInv, Types, Resting
  <1>2. CASE disk.pending = None /\ disk' \in {disk, [disk EXCEPT !.pending = i]} /\ pc' = "blocked"
    BY <1>0, <1>2, BeginFailsIInv, Zenon
  <1>3. CASE disk.pending = None /\ disk' = [disk EXCEPT !.pending = i] /\ pc' = "checkpoint-commit"
    <2>1. Begun(i) /\ OnDisk' /\ \A t \in Slots : Mine(t) => Covers(mem, t)
      BY <1>0, <1>3, Begins, Zenon
    <2>2. Types' /\ SaneStates' /\ InMemory'
      BY <1>0, <2>1, BegunKeeps, Zenon
    <2>3. Working' /\ Withdrawing' /\ Intended' /\ Added'
      BY <1>0, <1>3, <2>1, Zenon
      DEF IInv, Working, Withdrawing, Intended, Added, Adds, Deletes, Saving, Begun, Receipt
    <2>. QED
      BY <2>1, <2>2, <2>3, Zenon DEF IInv
  <1>. QED
    BY <1>1, <1>2, <1>3, Zenon DEF CheckpointBegin, Intend, Persist, Block

LEMMA CheckpointCommitIInv == ASSUME IInv, UseRecovery, CheckpointCommit PROVE IInv'
  <1>0. pc = "checkpoint-commit" /\ UNCHANGED <<rib, kernel, dev, mem, active, epoch, todo, cur>>
    BY Zenon DEF CheckpointCommit, Acknowledge, Persist, Block, envVars, routeVars
  <1>1. \A t \in Slots : ~Adding(t) /\ ~Deleting(t)
    <2>1. disk.pending.op = "checkpoint"
      BY <1>0 DEF IInv, Intended
    <2>. QED
      BY <2>1 DEF Adding, Deleting
  <1>2. \A t \in Slots : Mine(t) => Covers(mem, t)
    BY <1>0, <1>1 DEF IInv, InMemory
  <1>3. CASE disk' \in {disk, [disk EXCEPT !.pending = None, !.state = mem]} /\ pc' = "blocked"
    BY <1>0, <1>2, <1>3, AckFailsIInv, Zenon
  <1>4. CASE disk' = [disk EXCEPT !.pending = None, !.state = mem] /\ pc' = next
    <2>1. Acknowledged
      BY <1>0, <1>2, <1>4, Acknowledges, Zenon
    <2>2. Types' /\ SaneStates' /\ OnDisk' /\ InMemory'
      BY <1>0, <2>1, Zenon DEF Acknowledged, IInv, Types, InMemory
    <2>3. pc' \in Resting \cup {"delete", "apply"}
      BY <1>0, <1>4, Zenon DEF IInv, Working, Saving, Resting
    <2>4. Working' /\ Withdrawing' /\ Intended' /\ Added'
      BY <1>0, <1>4, <2>3, Zenon
      DEF IInv, Working, Withdrawing, Intended, Added, Adds, Deletes, Saving, Receipt, Resting
    <2>. QED
      BY <2>2, <2>4 DEF IInv
  <1>. QED
    BY <1>3, <1>4, Zenon DEF CheckpointCommit, Acknowledge, Persist, Block

LEMMA QuarantineIInv == ASSUME IInv, Quarantine PROVE IInv'
  <1>0. /\ pc = "blocked" /\ disk.pending = None
        /\ UNCHANGED <<rib, kernel, dev, pc, mem, active, epoch, cur>>
    BY DEF Quarantine, envVars, procVars, routeVars
  <1>1. CASE disk' = [disk EXCEPT !.pending = [op |-> "checkpoint"]]
    BY <1>0, <1>1, BeginFailsIInv, Zenon DEF Intents
  <1>2. CASE disk' = [disk EXCEPT !.quarantine = TRUE, !.state = mem]
    <2>1. None \notin Intents /\ None \notin StateRec
      BY NoneAssumption, Zenon
    <2>2. \A t \in Slots : ~Adding(t) /\ ~Deleting(t)
      BY <1>0, <2>1 DEF Adding, Deleting, Intents
    <2>3. disk' \in [bound : {disk'.bound}, state : StateRec \cup {None}, quarantine : BOOLEAN,
                     pending : Intents \cup {None}]
          /\ disk'.state = mem /\ disk'.state # None
      BY <1>2, <2>1, Zenon DEF IInv, Types
    <2>4. Types' /\ SaneStates' /\ OnDisk' /\ InMemory'
      <3>1. Types'
        BY <1>0, <2>3, Zenon DEF IInv, Types
      <3>2. SaneStates'
        BY <1>0, <2>3 DEF IInv, SaneStates, Sane
      <3>3. \A t \in Slots : Mine(t) => Covers(mem, t)
        BY <1>0, <2>2, Zenon DEF IInv, InMemory
      <3>4. OnDisk' /\ InMemory'
        BY <1>0, <2>3, <3>3 DEF OnDisk, InMemory, Mine, Covers
      <3>. QED
        BY <3>1, <3>2, <3>4, Zenon
    <2>. QED
      BY <1>0, <2>4, RestIInv, Zenon DEF Resting
  <1>. QED
    BY <1>1, <1>2, Zenon DEF Quarantine

LEMMA TickIInv == ASSUME IInv, MappingRefused \/ PollFails \/ PollDiffers \/ PollConfirms PROVE IInv'
  <1>1. CASE MappingRefused \/ PollFails \/ PollDiffers
    BY <1>1, QuietIInv, Zenon
    DEF MappingRefused, PollFails, PollDiffers, Ticks, envVars, store, routeVars, Resting, IInv, Types
  <1>2. CASE PollConfirms
    <2>1. /\ UNCHANGED <<rib, kernel, dev, disk, active, epoch, cur>> /\ pc # "down"
          /\ pc' = "checkpoint" /\ next' = "withdraw"
      BY <1>2, Zenon DEF PollConfirms, Ticks, Checkpoint, envVars, store, routeVars
    <2>2. rib \in SUBSET Endpoint /\ mem \in StateRec
      BY DEF IInv, Types, Endpoint
    <2>. DEFINE g == mem.gen + (IF mem.eps = rib THEN 0 ELSE 1)
    <2>g. g \in Nat /\ mem' = [mem EXCEPT !.eps = rib, !.gen = g]
      BY <1>2, <2>2 DEF PollConfirms, StateRec
    <2>. HIDE DEF g
    <2>3. mem' \in StateRec /\ mem'.receipts = mem.receipts
      BY <2>2, <2>g, Zenon DEF StateRec
    <2>4. Types' /\ SaneStates' /\ OnDisk' /\ InMemory'
      <3>1. Types'
        BY <2>1, <2>3, Zenon DEF IInv, Types
      <3>. QED
        BY <2>1, <2>3, <3>1, NothingTouched, Zenon
    <2>. QED
      BY <2>1, <2>4, SavingIInv, Zenon
  <1>. QED
    BY <1>1, <1>2, Zenon
-----------------------------------------------------------------------------
(* Withdrawals *)

LEMMA WithdrawRouteIInv == ASSUME IInv, WithdrawRoute PROVE IInv'
  <1>0. pc = "withdraw" /\ UNCHANGED <<rib, kernel, dev, disk, epoch>>
    BY Zenon DEF WithdrawRoute, envVars, store
  <1>1. PICK k \in ToWithdraw :
          /\ active' = [active EXCEPT ![k].retiring = TRUE]
          /\ \/ pc' = "idle" /\ UNCHANGED <<mem, cur>>
             \/ /\ mem.receipts[k] # None
                /\ mem' = [mem EXCEPT !.receipts[k].retiring = TRUE]
                /\ cur' = [key |-> k, obj |-> "nbr"]
                /\ pc' = "checkpoint" /\ next' = "delete"
    BY Zenon DEF WithdrawRoute, Checkpoint, FirstToDelete
  <1>2. k \in Key /\ active[k] \in RouteRec
    BY DEF ToWithdraw, IInv, Types
  <1>3. active' \in [Key -> RouteRec \cup {None}]
    <2>. DEFINE r == [active[k] EXCEPT !.retiring = TRUE]
    <2>1. r \in RouteRec /\ active' = [active EXCEPT ![k] = r]
      BY <1>1, <1>2, Zenon DEF RouteRec
    <2>. HIDE DEF r
    <2>. QED
      BY <2>1, Zenon DEF IInv, Types
  <1>4. CASE pc' = "idle" /\ UNCHANGED <<mem, cur>>
    BY <1>0, <1>3, <1>4, QuietIInv, Zenon DEF IInv, Types, Resting
  <1>5. CASE /\ mem.receipts[k] # None
             /\ mem' = [mem EXCEPT !.receipts[k].retiring = TRUE]
             /\ cur' = [key |-> k, obj |-> "nbr"]
             /\ pc' = "checkpoint" /\ next' = "delete"
    <2>. DEFINE r == [mem.receipts[k] EXCEPT !.retiring = TRUE]
                rs == [mem.receipts EXCEPT ![k] = r]
    <2>1. mem \in StateRec /\ mem.receipts[k] \in ReceiptRec
      BY <1>2, <1>5, Zenon DEF IInv, Types, StateRec
    <2>2. r \in ReceiptRec /\ r.ep = mem.receipts[k].ep /\ r.obj = mem.receipts[k].obj
      BY <2>1, Zenon DEF ReceiptRec
    <2>3. mem' = [mem EXCEPT !.receipts = rs]
      BY <1>5, Zenon
    <2>. HIDE DEF r
    <2>4. rs \in [Key -> ReceiptRec \cup {None}] /\ rs[k] = r /\ \A j \in Key : j # k => rs[j] = mem.receipts[j]
      BY <1>2, <2>1, <2>2, Zenon DEF StateRec
    <2>. HIDE DEF rs
    <2>5. mem' \in StateRec /\ mem'.receipts = rs
      BY <2>1, <2>3, <2>4, Zenon DEF StateRec
    <2>6. Types'
      BY <1>0, <1>2, <1>3, <1>5, <2>5, Zenon DEF IInv, Types, Obj
    <2>7. r # None
      BY <2>2, NoneAssumption
    <2>8. \A j \in Key : /\ mem.receipts[j] = None <=> mem'.receipts[j] = None
                         /\ mem'.receipts[j].ep = mem.receipts[j].ep /\ mem'.receipts[j].obj = mem.receipts[j].obj
      BY <1>5, <2>2, <2>4, <2>5, <2>7, Zenon
    <2>9. SaneStates' /\ OnDisk' /\ InMemory'
      <3>1. Sane(mem)
        BY Zenon DEF IInv, SaneStates
      <3>2. Sane(mem)' /\ \A t \in Slots : Covers(mem, t) => Covers(mem, t)'
        BY <1>0, <2>8, <3>1, ReceiptsKept, Zenon
      <3>. QED
        BY <1>0, <3>2, PromisesKept, Zenon
    <2>10. Working' /\ Withdrawing' /\ Intended' /\ Added'
      BY <1>2, <1>5, <2>2, <2>4, <2>5, Zenon DEF Working, Withdrawing, Intended, Added, Adds, Deletes, Saving
    <2>. QED
      BY <2>6, <2>9, <2>10, Zenon DEF IInv
  <1>. QED
    BY <1>1, <1>4, <1>5, Zenon

LEMMA WithdrawTimesOutIInv == ASSUME IInv, WithdrawTimesOut PROVE IInv'
  <1>1. PICK k \in ToWithdraw : active' = [active EXCEPT ![k].retiring = TRUE]
    BY Zenon DEF WithdrawTimesOut
  <1>2. k \in Key /\ active[k] \in RouteRec
    BY DEF ToWithdraw, IInv, Types
  <1>3. active' \in [Key -> RouteRec \cup {None}]
    <2>. DEFINE r == [active[k] EXCEPT !.retiring = TRUE]
    <2>1. r \in RouteRec /\ active' = [active EXCEPT ![k] = r]
      BY <1>1, <1>2, Zenon DEF RouteRec
    <2>. HIDE DEF r
    <2>. QED
      BY <2>1, Zenon DEF IInv, Types
  <1>. QED
    BY <1>3, QuietIInv, Zenon DEF WithdrawTimesOut, envVars, store, IInv, Types, Resting

LEMMA NothingToWithdrawIInv == ASSUME IInv, NothingToWithdraw PROVE IInv'
  <1>0. /\ UNCHANGED <<rib, kernel, dev, disk, mem, active, epoch, cur>> /\ pc = "withdraw" /\ pc' = "apply"
        /\ todo' = { KeyOf(e) : e \in mem.eps }
    BY Zenon DEF NothingToWithdraw, envVars, store
  <1>1. Types' /\ SaneStates' /\ OnDisk' /\ InMemory'
    <2>1. Types'
      BY <1>0 DEF IInv, Types
    <2>. QED
      BY <1>0, <2>1, NothingTouched, Zenon
  <1>2. Working' /\ Withdrawing' /\ Intended' /\ Added'
    BY <1>0, Zenon DEF Working, Withdrawing, Intended, Added, Adds, Deletes, Saving
  <1>. QED
    BY <1>1, <1>2, Zenon DEF IInv

\* The step from one object to the next, once the first is not confirmed any more.
LEMMA AfterDeleteIInv ==
  ASSUME IInv, pc \in {"delete", "delete-ack"}, AfterDelete,
         mem'.receipts[cur.key] \in ReceiptRec, mem'.receipts[cur.key].obj[cur.obj] # "confirmed",
         \A o \in Obj : o # cur.obj => mem'.receipts[cur.key].obj[o] = mem.receipts[cur.key].obj[o],
         Types', SaneStates', OnDisk', InMemory'
  PROVE  IInv'
  <1>1. cur \in [key : Key \cup {None}, obj : Obj] /\ cur.key \in Key
    BY Zenon DEF IInv, Types, Working, Deletes
  <1>2. CASE cur.obj = "nbr"
    <2>1. pc' = "delete" /\ cur' = [cur EXCEPT !.obj = "fdb"]
      BY <1>2, Zenon DEF AfterDelete, FirstToDelete, Obj
    <2>2. cur'.key = cur.key /\ cur'.obj = "fdb"
      BY <1>1, <2>1, Zenon
    <2>3. Working' /\ Withdrawing' /\ Intended' /\ Added'
      BY <1>1, <1>2, <2>1, <2>2, Zenon DEF Working, Withdrawing, Intended, Added, Adds, Deletes, Saving, Receipt
    <2>. QED
      BY <2>3, Zenon DEF IInv
  <1>3. CASE cur.obj = "fdb"
    <2>1. pc' = "withdrawn" /\ cur' = cur
      BY <1>3, Zenon DEF AfterDelete, FirstToDelete
    <2>2. \A o \in Obj : mem'.receipts[cur.key].obj[o] # "confirmed"
      BY <1>3, Zenon DEF IInv, Withdrawing, Receipt, Obj, Deletes
    <2>3. Working' /\ Withdrawing' /\ Intended' /\ Added'
      BY <1>1, <2>1, <2>2, Zenon DEF Working, Withdrawing, Intended, Added, Adds, Deletes, Saving, Receipt
    <2>. QED
      BY <2>3 DEF IInv
  <1>. QED
    BY <1>1, <1>2, <1>3, Zenon DEF Obj
\* A change of one status keeps what the other objects cover.
LEMMA StatusKeeps ==
  ASSUME IInv, cur.key \in Key, mem.receipts[cur.key] \in ReceiptRec, NEW st \in ObjStatus, Changed(st),
         st = "confirmed" => cur.obj \in Objects(Receipt.ep)
  PROVE  /\ Sane(mem)'
         /\ \A t \in Slots : /\ kernel'[t] = kernel[t] /\ Covers(mem, t)
                             /\ t # Entry \/ Status # "confirmed"
                             => Covers(mem, t)'
  <1>0. None \notin ReceiptRec
    BY NoneAssumption, Zenon
  <1>1. Sane(mem)'
    <2>. SUFFICES ASSUME NEW k \in Key, NEW o \in Obj,
                         mem'.receipts[k] # None, mem'.receipts[k].obj[o] = "confirmed"
                  PROVE  o \in Objects(mem'.receipts[k].ep)
      BY Zenon DEF Sane
    <2>1. CASE k # cur.key
      BY <2>1, Zenon DEF IInv, SaneStates, Sane, Changed
    <2>2. CASE k = cur.key /\ o = cur.obj
      BY <2>2, Zenon DEF Changed, Receipt
    <2>3. CASE k = cur.key /\ o # cur.obj
      BY <1>0, <2>3, Zenon DEF IInv, SaneStates, Sane, Changed
    <2>. QED
      BY <2>1, <2>2, <2>3, Zenon
  <1>2. ASSUME NEW t \in Slots, kernel'[t] = kernel[t], Covers(mem, t), t # Entry \/ Status # "confirmed"
        PROVE  Covers(mem, t)'
    <2>1. PICK k \in Key, o \in Obj :
             /\ mem.receipts[k] # None /\ mem.receipts[k].obj[o] = "confirmed"
             /\ Slot(mem.receipts[k].ep, o) = t /\ Value(mem.receipts[k].ep, o) = kernel[t].val
      BY <1>2, Zenon DEF Covers
    <2>2. k # cur.key \/ o # cur.obj
      BY <1>2, <2>1, Zenon DEF Entry, Status, Receipt
    <2>3. /\ mem'.receipts[k] # None /\ mem'.receipts[k].obj[o] = "confirmed"
          /\ mem'.receipts[k].ep = mem.receipts[k].ep
      BY <1>0, <2>1, <2>2, Zenon DEF Changed
    <2>. QED
      BY <1>2, <2>1, <2>3, Zenon DEF Covers
  <1>. QED
    BY <1>1, <1>2, Zenon

LEMMA DeleteUnconfirmedIInv == ASSUME IInv, DeleteUnconfirmed PROVE IInv'
  <1>0. /\ pc = "delete" /\ UNCHANGED <<rib, kernel, dev, disk, active, epoch>>
        /\ cur.key \in Key /\ cur.obj \in Obj /\ mem.receipts[cur.key] \in ReceiptRec
    BY Zenon DEF DeleteUnconfirmed, envVars, store, routeVars, IInv, Types, Working
  <1>1. CASE (cur.obj \notin Objects(Receipt.ep) \/ Status = "absent") /\ AfterDelete /\ UNCHANGED mem
    <2>1. Status # "confirmed"
      BY <1>0, <1>1, NoneAssumption, Zenon DEF IInv, SaneStates, Sane, Receipt, Status
    <2>2. cur' \in [key : Key \cup {None}, obj : Obj]
      BY <1>1, Zenon DEF AfterDelete, IInv, Types
    <2>3. Types' /\ SaneStates' /\ OnDisk' /\ InMemory'
      <3>1. Types'
        BY <1>0, <1>1, <2>2, Zenon DEF IInv, Types
      <3>. QED
        BY <1>0, <1>1, <3>1, NothingTouched, Zenon
    <2>. QED
      BY <1>0, <1>1, <2>1, <2>3, AfterDeleteIInv, Zenon DEF Receipt, Status
  <1>2. CASE Status \in {"failed", "unattempted"} /\ SetStatus("absent") /\ AfterDelete
    <2>1. Changed("absent")
      BY <1>0, <1>2, SetStatusChanges, Zenon DEF ObjStatus, IInv
    <2>2. cur' \in [key : Key \cup {None}, obj : Obj]
      BY <1>2, Zenon DEF AfterDelete, IInv, Types
    <2>3. Sane(mem)' /\ \A t \in Slots : Covers(mem, t) => Covers(mem, t)'
      BY <1>0, <1>2, <2>1, StatusKeeps, Zenon DEF ObjStatus
    <2>4. Types' /\ SaneStates' /\ OnDisk' /\ InMemory'
      <3>1. Types'
        BY <1>0, <2>1, <2>2, Zenon DEF IInv, Types, Changed
      <3>2. SaneStates'
        BY <1>0, <2>3, Zenon DEF IInv, SaneStates, Sane
      <3>3. OnDisk'
        BY <1>0, DiskKept, Zenon
      <3>4. InMemory'
        BY <1>0, <2>3, MemoryKept, Zenon
      <3>. QED
        BY <3>1, <3>2, <3>3, <3>4, Zenon
    <2>. QED
      BY <1>0, <1>2, <2>1, <2>4, AfterDeleteIInv, Zenon DEF Changed
  <1>3. CASE pc' \in {"blocked", "idle"} /\ UNCHANGED <<mem, cur>>
    BY <1>0, <1>3, QuietIInv, Zenon DEF IInv, Types, Resting
  <1>. QED
    BY <1>1, <1>2, <1>3 DEF DeleteUnconfirmed

LEMMA DeleteBeginIInv == ASSUME IInv, UseRecovery, DeleteBegin PROVE IInv'
  <1>. DEFINE i == [op |-> "delete", slot |-> Entry]
  <1>0. /\ pc = "delete" /\ UNCHANGED <<rib, kernel, dev, mem, active, epoch, todo, cur>>
        /\ cur.key \in Key /\ mem.receipts[cur.key] \in ReceiptRec /\ cur.obj \in Objects(Receipt.ep)
    BY Zenon DEF DeleteBegin, Intend, Persist, Block, Stay, envVars, routeVars, IInv, Working
  <1>1. Entry \in Slots
    BY <1>0 DEF Receipt, ReceiptRec, Entry, Slots
  <1>2. i \in Intents
    BY <1>1, Zenon DEF Intents
  <1>. HIDE DEF i
  <1>3. CASE disk' = disk /\ pc' = "blocked"
    BY <1>0, <1>3, QuietIInv, Zenon DEF IInv, Types, Resting
  <1>4. CASE disk.pending = None /\ disk' \in {disk, [disk EXCEPT !.pending = i]} /\ pc' = "blocked"
    BY <1>0, <1>2, <1>4, BeginFailsIInv, Zenon
  <1>5. CASE disk.pending = None /\ disk' = [disk EXCEPT !.pending = i] /\ pc' = "delete-read"
    <2>1. Begun(i) /\ OnDisk' /\ \A t \in Slots : Mine(t) => Covers(mem, t)
      BY <1>0, <1>2, <1>5, Begins, Zenon
    <2>2. Types' /\ SaneStates' /\ InMemory'
      BY <1>0, <2>1, BegunKeeps, Zenon
    <2>3. Working' /\ Withdrawing' /\ Intended' /\ Added'
      BY <1>0, <1>5, <2>1, Zenon
      DEF IInv, Working, Withdrawing, Intended, Added, Adds, Deletes, Saving, Begun, Receipt, Entry, Deleting, i
    <2>. QED
      BY <2>1, <2>2, <2>3, Zenon DEF IInv
  <1>. QED
    BY <1>3, <1>4, <1>5, Zenon DEF DeleteBegin, Intend, Persist, Block, i

LEMMA DeleteReadIInv == ASSUME IInv, DeleteRead PROVE IInv'
  <1>0. /\ pc = "delete-read" /\ UNCHANGED <<rib, kernel, dev, disk, mem, active, epoch, todo, cur>>
        /\ cur.key \in Key /\ mem.receipts[cur.key] \in ReceiptRec /\ cur.obj \in Objects(Receipt.ep)
    BY Zenon DEF DeleteRead, Block, Stay, store, routeVars, IInv, Working, Deletes
  <1>1. CASE pc' = "blocked"
    BY <1>0, <1>1, QuietIInv, Zenon DEF IInv, Types, Resting
  <1>2. CASE pc' = "delete-send"
    <2>1. Types'
      BY <1>0, Zenon DEF IInv, Types
    <2>2. SaneStates' /\ OnDisk' /\ InMemory'
      BY <1>0, <2>1, NothingTouched, Zenon
    <2>3. Working' /\ Withdrawing' /\ Intended' /\ Added'
      BY <1>0, <1>2, Zenon
      DEF IInv, Working, Withdrawing, Intended, Added, Adds, Deletes, Saving, Receipt, Entry, Deleting
    <2>. QED
      BY <2>1, <2>2, <2>3, Zenon DEF IInv
  <1>. QED
    BY <1>1, <1>2, Zenon DEF DeleteRead, Block

LEMMA DeleteSendIInv == ASSUME IInv, UseRecovery, DeleteSend PROVE IInv'
  <1>0. /\ pc = "delete-send" /\ UNCHANGED <<rib, dev, disk, active, epoch, todo, cur>>
        /\ cur.key \in Key /\ mem.receipts[cur.key] \in ReceiptRec /\ cur.obj \in Objects(Receipt.ep)
    BY Zenon DEF DeleteSend, Block, Stay, store, routeVars, IInv, Working, Deletes
  <1>1. Entry \in Slots /\ Deleting(Entry)
    BY <1>0, EntryInSlots, Zenon DEF IInv, Intended, Deletes
  <1>2. CASE kernel' = kernel /\ pc' = "blocked" /\ mem' = mem
    BY <1>0, <1>2, QuietIInv, Zenon DEF IInv, Types, Resting
  <1>3. CASE kernel' \in {kernel, [kernel EXCEPT ![Entry] = None]} /\ pc' \in {"delete-confirm", "blocked"}
             /\ (mem' = mem \/ (SetStatus("unknown") /\ pc' = "blocked"))
    <2>1. /\ kernel' = [t \in Slots |-> kernel'[t]]
          /\ \A t \in Slots : Mine(t)' => Mine(t) /\ kernel'[t] = kernel[t]
      BY <1>1, <1>3, Zenon DEF IInv, Types, Mine
    <2>2. mem' = mem \/ (Changed("unknown") /\ pc' = "blocked")
      BY <1>0, <1>3, SetStatusChanges, Zenon DEF ObjStatus, IInv
    <2>3. Sane(mem)' /\ \A t \in Slots : t # Entry /\ Mine(t)' /\ Covers(mem, t) => Covers(mem, t)'
      <3>1. CASE mem' = mem
        BY <2>1, <3>1, Zenon DEF IInv, SaneStates, Sane, Covers
      <3>2. CASE Changed("unknown")
        BY <1>0, <2>1, <3>2, StatusKeeps, Zenon DEF ObjStatus
      <3>. QED
        BY <2>2, <3>1, <3>2, Zenon
    <2>4. Types'
      BY <1>0, <2>1, <2>2, Zenon DEF IInv, Types, Changed
    <2>5. SaneStates'
      BY <1>0, <2>3, Zenon DEF IInv, SaneStates, Sane
    <2>6. OnDisk'
      <3>1. \A t \in Slots : Mine(t)' => Mine(t) /\ (Covers(disk.state, t)' <=> Covers(disk.state, t))
        BY <1>0, <2>1, StateCovers, Zenon
      <3>. QED
        BY <1>0, <3>1, Zenon DEF IInv, OnDisk, Adding
    <2>7. InMemory'
      BY <1>0, <1>1, <2>1, <2>3, Zenon DEF IInv, InMemory, Adding, Deleting
    <2>8. CASE pc' = "blocked"
      BY <2>4, <2>5, <2>6, <2>7, <2>8, RestIInv, Zenon DEF Resting
    <2>9. CASE pc' = "delete-confirm" /\ mem' = mem
      <3>1. Working' /\ Withdrawing' /\ Intended' /\ Added'
        BY <1>0, <1>1, <2>9, Zenon
        DEF IInv, Working, Withdrawing, Intended, Added, Adds, Deletes, Saving, Receipt, Entry, Deleting
      <3>. QED
        BY <2>4, <2>5, <2>6, <2>7, <3>1, Zenon DEF IInv
    <2>. QED
      BY <1>3, <2>2, <2>8, <2>9, Zenon
  <1>. QED
    BY <1>2, <1>3, Zenon DEF DeleteSend, Block
LEMMA DeleteConfirmIInv == ASSUME IInv, DeleteConfirm PROVE IInv'
  <1>0. /\ pc = "delete-confirm" /\ UNCHANGED <<rib, kernel, dev, disk, active, epoch, todo, cur>>
        /\ cur.key \in Key /\ mem.receipts[cur.key] \in ReceiptRec /\ cur.obj \in Objects(Receipt.ep)
    BY Zenon DEF DeleteConfirm, Stay, envVars, store, routeVars, IInv, Working, Deletes
  <1>1. Entry \in Slots /\ Deleting(Entry)
    BY <1>0, EntryInSlots, Zenon DEF IInv, Intended, Deletes
  <1>2. PICK st \in {"absent", "unknown"} : SetStatus(st) /\ pc' = (IF st = "absent" THEN "delete-ack" ELSE "blocked")
                                            /\ (st = "absent" => Absent)
    BY Zenon DEF DeleteConfirm
  <1>3. st \in ObjStatus /\ Changed(st)
    BY <1>0, <1>2, SetStatusChanges, Zenon DEF ObjStatus, IInv
  <1>4. Sane(mem)' /\ \A t \in Slots : t # Entry /\ Covers(mem, t) => Covers(mem, t)'
    BY <1>0, <1>2, <1>3, StatusKeeps, Zenon
  <1>5. Types'
    BY <1>0, <1>3, Zenon DEF IInv, Types, Changed
  <1>6. SaneStates'
    BY <1>0, <1>4, Zenon DEF IInv, SaneStates, Sane
  <1>7. OnDisk'
    BY <1>0, DiskKept, Zenon
  <1>8. InMemory'
    BY <1>0, <1>1, <1>4, Zenon DEF IInv, InMemory, Mine, Adding, Deleting
  <1>9. CASE pc' = "blocked"
    BY <1>5, <1>6, <1>7, <1>8, <1>9, RestIInv, Zenon DEF Resting
  <1>10. CASE st = "absent" /\ pc' = "delete-ack"
    <2>1. ~Mine(Entry)
      BY <1>2, <1>10, Zenon DEF Absent, Free, Mine, Entry
    <2>2. Entry' = Entry /\ Receipt' \in ReceiptRec /\ Receipt'.ep = Receipt.ep /\ cur.obj \in Obj
      BY <1>0, <1>3, Zenon DEF Entry, Receipt, Changed, IInv, Types
    <2>3. Receipt'.obj[cur.obj] = "absent" /\ (cur.obj = "fdb" => Receipt'.obj["nbr"] # "confirmed")
      BY <1>0, <1>3, <1>10, <2>2, Zenon DEF Changed, Receipt, IInv, Withdrawing, Deletes, Obj
    <2>4. Working' /\ Withdrawing' /\ Intended' /\ Added'
      BY <1>0, <1>1, <1>10, <2>1, <2>2, <2>3, Zenon
      DEF IInv, Working, Withdrawing, Intended, Added, Adds, Deletes, Saving, Deleting, Mine, Receipt, Status
    <2>. QED
      BY <1>5, <1>6, <1>7, <1>8, <2>4, Zenon DEF IInv
  <1>. QED
    BY <1>2, <1>9, <1>10, Zenon

LEMMA DeleteAckIInv == ASSUME IInv, UseRecovery, DeleteAck PROVE IInv'
  <1>0. /\ pc = "delete-ack" /\ UNCHANGED <<rib, kernel, dev, mem, active, epoch, todo>>
        /\ cur.key \in Key /\ mem.receipts[cur.key] \in ReceiptRec
    BY Zenon DEF DeleteAck, Acknowledge, Persist, Block, envVars, routeVars, IInv, Working, Deletes
  <1>1. \A t \in Slots : Mine(t) => Covers(mem, t)
    <2>1. Deleting(Entry) /\ ~Mine(Entry)
      BY <1>0, Zenon DEF IInv, Intended, Withdrawing, Deletes
    <2>2. disk.pending.op = "delete" /\ disk.pending.slot = Entry
      BY <2>1 DEF Deleting
    <2>3. \A t \in Slots : ~Adding(t) /\ (Deleting(t) => t = Entry)
      BY <2>2, IntentFields, Zenon
    <2>. QED
      BY <1>0, <2>1, <2>3, Zenon DEF IInv, InMemory
  <1>2. CASE disk' \in {disk, [disk EXCEPT !.pending = None, !.state = mem]} /\ pc' = "blocked" /\ UNCHANGED cur
    BY <1>0, <1>1, <1>2, AckFailsIInv, Zenon
  <1>3. CASE disk' = [disk EXCEPT !.pending = None, !.state = mem] /\ AfterDelete
    <2>1. Acknowledged
      BY <1>0, <1>1, <1>3, Acknowledges, Zenon
    <2>2. cur' \in [key : Key \cup {None}, obj : Obj]
      BY <1>3, Zenon DEF AfterDelete, IInv, Types
    <2>3. Types' /\ SaneStates' /\ OnDisk' /\ InMemory'
      BY <1>0, <2>1, <2>2, Zenon DEF Acknowledged, IInv, Types, InMemory
    <2>4. Status # "confirmed"
      BY <1>0, Zenon DEF IInv, Withdrawing
    <2>. QED
      BY <1>0, <1>3, <2>3, <2>4, AfterDeleteIInv, Zenon DEF Status, Receipt
  <1>. QED
    BY <1>2, <1>3, Zenon DEF DeleteAck, Acknowledge, Persist, Block

LEMMA WithdrawnIInv == ASSUME IInv, Withdrawn PROVE IInv'
  <1>0. /\ pc = "withdrawn" /\ UNCHANGED <<rib, kernel, dev, disk, epoch>>
        /\ pc' = "checkpoint" /\ next' = "withdraw" /\ cur' = NoWork
        /\ cur.key \in Key /\ mem \in StateRec /\ active' = [active EXCEPT ![cur.key] = None]
    BY DEF Withdrawn, Checkpoint, envVars, store, IInv, Types, Working
  <1>. DEFINE rs == [mem.receipts EXCEPT ![cur.key] = None]
  <1>1. mem' = [mem EXCEPT !.receipts = rs]
    BY Zenon DEF Withdrawn
  <1>2. /\ rs \in [Key -> ReceiptRec \cup {None}] /\ rs[cur.key] = None
        /\ \A k \in Key : k # cur.key => rs[k] = mem.receipts[k]
    BY <1>0, Zenon DEF StateRec
  <1>. HIDE DEF rs
  <1>3. mem' \in StateRec /\ mem'.receipts = rs
    BY <1>0, <1>1, <1>2, Zenon DEF StateRec
  <1>4. \A t \in Slots : Covers(mem, t) => Covers(mem, t)'
    <2>1. \A o \in Obj : mem.receipts[cur.key].obj[o] # "confirmed"
      BY <1>0, Zenon DEF IInv, Withdrawing, Receipt
    <2>. QED
      BY <1>0, <1>2, <1>3, <2>1, ConfirmedKept, Zenon
  <1>5. Types'
    BY <1>0, <1>3, Zenon DEF IInv, Types, NoWork, Obj
  <1>6. SaneStates'
    BY <1>0, <1>2, <1>3, Zenon DEF IInv, SaneStates, Sane
  <1>7. OnDisk'
    BY <1>0, DiskKept, Zenon
  <1>8. InMemory'
    BY <1>0, <1>4, MemoryKept, Zenon
  <1>. QED
    BY <1>0, <1>5, <1>6, <1>7, <1>8, SavingIInv, Zenon
-----------------------------------------------------------------------------
(* Additions *)

\* The route of a desired key.
LEMMA RouteTyped ==
  ASSUME IInv, pc = "apply", NEW k \in todo
  PROVE  /\ k \in Key /\ Route(k) \in RouteRec
         /\ Activate(k) => active' \in [Key -> RouteRec \cup {None}] /\ epoch' \in Nat
  <1>1. k \in { KeyOf(e) : e \in mem.eps } /\ mem.eps \subseteq Endpoint /\ mem.gen \in Nat /\ epoch \in Nat
        /\ active \in [Key -> RouteRec \cup {None}]
    BY Zenon DEF IInv, Working, Types, StateRec
  <1>2. k \in Key
    BY <1>1, Zenon DEF Key
  <1>3. Wanted(k) \in mem.eps
    BY <1>1, Zenon DEF Wanted
  <1>4. Route(k) \in RouteRec
    <2>1. NewRoute(k) \in RouteRec
      BY <1>1, <1>3 DEF NewRoute, RouteRec
    <2>2. active[k] = None \/ active[k] \in RouteRec
      BY <1>1, <1>2
    <2>. QED
      BY <2>1, <2>2, Zenon DEF Route
  <1>. QED
    BY <1>1, <1>2, <1>4 DEF Activate

LEMMA ApplyRouteIInv == ASSUME IInv, ApplyRoute PROVE IInv'
  <1>0. pc = "apply" /\ UNCHANGED <<rib, kernel, dev, disk, next>> /\ mem \in StateRec
    BY Zenon DEF ApplyRoute, envVars, store, IInv, Types
  <1>1. PICK k \in todo :
          /\ Activate(k) /\ todo' = todo \ {k}
          /\ \/ pc' = "idle" /\ UNCHANGED <<mem, cur>>
             \/ /\ mem' = IF mem.receipts[k] # None THEN mem
                          ELSE [mem EXCEPT !.receipts[k] = NewReceipt(Route(k)), !.latest[k] = Route(k).inc]
                /\ cur' = [key |-> k, obj |-> "fdb"] /\ pc' = "add"
    BY Zenon DEF ApplyRoute
  <1>2. k \in Key /\ Route(k) \in RouteRec /\ active' \in [Key -> RouteRec \cup {None}] /\ epoch' \in Nat
    BY <1>0, <1>1, RouteTyped, Zenon
  <1>3. CASE pc' = "idle" /\ UNCHANGED <<mem, cur>>
    BY <1>0, <1>2, <1>3, QuietIInv, Zenon DEF IInv, Types, Resting
  <1>4. CASE /\ mem' = IF mem.receipts[k] # None THEN mem
                       ELSE [mem EXCEPT !.receipts[k] = NewReceipt(Route(k)), !.latest[k] = Route(k).inc]
             /\ cur' = [key |-> k, obj |-> "fdb"] /\ pc' = "add"
    <2>. DEFINE r == NewReceipt(Route(k))
                rs == [mem.receipts EXCEPT ![k] = r]
                la == [mem.latest EXCEPT ![k] = Route(k).inc]
    <2>1. r \in ReceiptRec /\ \A o \in Obj : r.obj[o] # "confirmed"
      BY <1>2, Zenon DEF NewReceipt, ReceiptRec, RouteRec, ObjStatus
    <2>2. r # None
      BY <2>1, NoneAssumption, Zenon
    <2>. HIDE DEF r
    <2>3. /\ rs \in [Key -> ReceiptRec \cup {None}] /\ rs[k] = r
          /\ \A j \in Key : j # k => rs[j] = mem.receipts[j]
      BY <1>0, <1>2, <2>1, Zenon DEF StateRec
    <2>4. la \in [Key -> Nat]
      BY <1>0, <1>2, Zenon DEF StateRec, RouteRec
    <2>5. mem.receipts[k] = None => mem' = [mem EXCEPT !.receipts = rs, !.latest = la]
      BY <1>4 DEF r
    <2>. HIDE DEF rs, la
    <2>6. mem.receipts[k] = None => mem' \in StateRec /\ mem'.receipts = rs /\ mem'.eps = mem.eps
      BY <1>0, <2>3, <2>4, <2>5, Zenon DEF StateRec
    <2>7. mem' \in StateRec /\ mem'.eps = mem.eps /\ mem'.receipts[k] \in ReceiptRec
      BY <1>0, <1>2, <1>4, <2>1, <2>3, <2>6, Zenon DEF StateRec
    <2>8. \A t \in Slots : Covers(mem, t) => Covers(mem, t)'
      <3>1. CASE mem.receipts[k] # None
        BY <1>0, <1>4, <3>1, ConfirmedKept, Zenon
      <3>2. CASE mem.receipts[k] = None
        BY <1>0, <2>3, <2>6, <3>2, ConfirmedKept, Zenon
      <3>. QED
        BY <3>1, <3>2, Zenon
    <2>9. Sane(mem)'
      <3>1. CASE mem.receipts[k] # None
        BY <1>4, <3>1, Zenon DEF IInv, SaneStates, Sane
      <3>2. CASE mem.receipts[k] = None
        BY <2>1, <2>3, <2>6, <3>2, Zenon DEF IInv, SaneStates, Sane
      <3>. QED
        BY <3>1, <3>2, Zenon
    <2>10. Types'
      BY <1>0, <1>2, <1>4, <2>7, Zenon DEF IInv, Types, Obj
    <2>11. SaneStates'
      BY <1>0, <2>9, Zenon DEF IInv, SaneStates, Sane
    <2>12. OnDisk'
      BY <1>0, DiskKept, Zenon
    <2>13. InMemory'
      BY <1>0, <2>8, MemoryKept, Zenon
    <2>14. Working'
      BY <1>0, <1>1, <1>2, <1>4, <2>7, Zenon DEF IInv, Working, Receipt, Objects, Obj, Adds, Deletes, Saving
    <2>15. Withdrawing' /\ Intended' /\ Added'
      BY <1>4, Zenon DEF Withdrawing, Intended, Added, Adds, Deletes, Saving
    <2>. QED
      BY <2>10, <2>11, <2>12, <2>13, <2>14, <2>15, Zenon DEF IInv
  <1>. QED
    BY <1>1, <1>3, <1>4, Zenon

LEMMA ApplyTimesOutIInv == ASSUME IInv, ApplyTimesOut PROVE IInv'
  <1>1. PICK k \in todo : Activate(k)
    BY Zenon DEF ApplyTimesOut
  <1>2. active' \in [Key -> RouteRec \cup {None}] /\ epoch' \in Nat
    BY <1>1, RouteTyped DEF ApplyTimesOut
  <1>. QED
    BY <1>2, QuietIInv, Zenon DEF ApplyTimesOut, envVars, store, Resting, IInv, Types

\* The step from one object of the route to the next, or to the checkpoint.
LEMMA AfterAddIInv ==
  ASSUME IInv, pc \in {"add", "add-ack"}, AfterAdd, UNCHANGED <<mem, todo>>,
         Types', SaneStates', OnDisk', InMemory'
  PROVE  IInv'
  <1>1. /\ cur \in [key : Key \cup {None}, obj : Obj] /\ cur.key \in Key /\ Receipt \in ReceiptRec
        /\ todo' \subseteq { KeyOf(e) : e \in mem'.eps }
    BY Zenon DEF IInv, Types, Working, Adds, Receipt
  <1>2. CASE pc' = "add" /\ cur' = [cur EXCEPT !.obj = "nbr"] /\ "nbr" \in Objects(Receipt.ep)
    <2>1. cur'.key = cur.key /\ cur'.obj = "nbr"
      BY <1>1, <1>2, Zenon
    <2>2. Working' /\ Withdrawing' /\ Intended' /\ Added'
      BY <1>1, <1>2, <2>1, Zenon DEF Working, Withdrawing, Intended, Added, Adds, Deletes, Saving, Receipt
    <2>. QED
      BY <2>2 DEF IInv
  <1>3. CASE pc' = "checkpoint" /\ next' = "apply"
    <2>1. Working' /\ Withdrawing' /\ Intended' /\ Added'
      BY <1>1, <1>3, Zenon DEF Working, Withdrawing, Intended, Added, Adds, Deletes, Saving
    <2>. QED
      BY <2>1 DEF IInv
  <1>. QED
    BY <1>2, <1>3, Zenon DEF AfterAdd, Checkpoint

LEMMA AddConfirmedIInv == ASSUME IInv, AddConfirmed PROVE IInv'
  <1>0. pc = "add" /\ UNCHANGED <<rib, kernel, dev, disk, mem, active, epoch, todo>>
    BY Zenon DEF AddConfirmed, Block, envVars, store, routeVars
  <1>1. CASE Block
    BY <1>0, <1>1, QuietIInv, Zenon DEF Block, IInv, Types, Resting
  <1>2. CASE AfterAdd
    <2>1. cur' \in [key : Key \cup {None}, obj : Obj]
      BY <1>2 DEF AfterAdd, IInv, Types, NoWork, Obj
    <2>2. Types' /\ SaneStates' /\ OnDisk' /\ InMemory'
      <3>1. Types'
        BY <1>0, <2>1, Zenon DEF IInv, Types
      <3>. QED
        BY <1>0, <3>1, NothingTouched, Zenon
    <2>. QED
      BY <1>0, <1>2, <2>2, AfterAddIInv, Zenon
  <1>. QED
    BY <1>1, <1>2, Zenon DEF AddConfirmed
LEMMA AddBeginIInv == ASSUME IInv, UseRecovery, AddBegin PROVE IInv'
  <1>. DEFINE i == [op |-> "add", slot |-> Entry]
  <1>0. /\ pc = "add" /\ UNCHANGED <<rib, kernel, dev, active, epoch, todo, cur>> /\ Status # "confirmed"
        /\ cur.key \in Key /\ mem.receipts[cur.key] \in ReceiptRec /\ cur.obj \in Objects(Receipt.ep)
    BY Zenon DEF AddBegin, Intend, Persist, Block, Stay, envVars, routeVars, IInv, Working
  <1>1. Entry \in Slots
    BY <1>0, EntryInSlots, Zenon
  <1>2. i \in Intents
    BY <1>1, Zenon DEF Intents
  <1>. HIDE DEF i
  <1>3. CASE disk' = disk /\ pc' = "blocked" /\ mem' = mem
    BY <1>0, <1>3, QuietIInv, Zenon DEF IInv, Types, Resting
  <1>4. CASE disk.pending = None /\ disk' \in {disk, [disk EXCEPT !.pending = i]} /\ pc' = "blocked" /\ mem' = mem
    BY <1>0, <1>2, <1>4, BeginFailsIInv, Zenon
  <1>5. CASE disk.pending = None /\ disk' = [disk EXCEPT !.pending = i] /\ pc' = "add-send" /\ SetStatus("pending")
    <2>1. Begun(i) /\ OnDisk' /\ \A t \in Slots : Mine(t) => Covers(mem, t)
      BY <1>0, <1>2, <1>5, Begins, Zenon
    <2>2. Changed("pending")
      BY <1>0, <1>5, SetStatusChanges, Zenon DEF ObjStatus, IInv
    <2>3. Sane(mem)' /\ \A t \in Slots : Covers(mem, t) => Covers(mem, t)'
      BY <1>0, <2>2, StatusKeeps, Zenon DEF ObjStatus
    <2>4. Types'
      BY <1>0, <2>1, <2>2, Zenon DEF Begun, IInv, Types, Changed
    <2>5. SaneStates'
      BY <2>1, <2>3, Zenon DEF IInv, SaneStates, Sane, Begun
    <2>6. InMemory'
      BY <1>0, <2>1, <2>3, Zenon DEF InMemory, Mine
    <2>7. Entry' = Entry /\ Receipt' \in ReceiptRec /\ Receipt'.ep = Receipt.ep /\ mem'.eps = mem.eps
      BY <1>0, <2>2, Zenon DEF Entry, Receipt, Changed
    <2>8. Adding(Entry)'
      BY <2>1, <2>7, Zenon DEF Begun, Adding, i
    <2>9. Working' /\ Withdrawing' /\ Intended' /\ Added'
      BY <1>0, <1>5, <2>7, <2>8, Zenon
      DEF IInv, Working, Withdrawing, Intended, Added, Adds, Deletes, Saving, Receipt
    <2>. QED
      BY <2>1, <2>4, <2>5, <2>6, <2>9, Zenon DEF IInv
  <1>. QED
    BY <1>3, <1>4, <1>5, Zenon DEF AddBegin, Intend, Persist, Block, i

LEMMA AddSendIInv == ASSUME IInv, UseRecovery, AddSend PROVE IInv'
  <1>0. /\ pc = "add-send" /\ UNCHANGED <<rib, dev, disk, active, epoch, todo, cur>>
        /\ cur.key \in Key /\ mem.receipts[cur.key] \in ReceiptRec /\ cur.obj \in Objects(Receipt.ep)
    BY Zenon DEF AddSend, Block, Stay, store, routeVars, IInv, Working, Adds
  <1>1. Entry \in Slots /\ Adding(Entry)
    BY <1>0, EntryInSlots, Zenon DEF IInv, Intended, Adds
  <1>2. CASE kernel' = kernel /\ pc' = "blocked" /\ mem' = mem
    BY <1>0, <1>2, QuietIInv, Zenon DEF IInv, Types, Resting
  <1>3. CASE kernel' \in {kernel, [kernel EXCEPT ![Entry] = MyEntry]} /\ pc' \in {"add-confirm", "blocked"}
             /\ (mem' = mem \/ (SetStatus("unknown") /\ pc' = "blocked"))
    <2>1. /\ kernel' = [t \in Slots |-> kernel'[t]]
          /\ \A t \in Slots : t # Entry => kernel'[t] = kernel[t]
      BY <1>1, <1>3, Zenon DEF IInv, Types
    <2>2. mem' = mem \/ (Changed("unknown") /\ pc' = "blocked")
      BY <1>0, <1>3, SetStatusChanges, Zenon DEF ObjStatus, IInv
    <2>3. Sane(mem)' /\ \A t \in Slots : t # Entry /\ Covers(mem, t) => Covers(mem, t)'
      <3>1. CASE mem' = mem
        BY <2>1, <3>1, Zenon DEF IInv, SaneStates, Sane, Covers
      <3>2. CASE Changed("unknown")
        BY <1>0, <2>1, <3>2, StatusKeeps, Zenon DEF ObjStatus
      <3>. QED
        BY <2>2, <3>1, <3>2, Zenon
    <2>4. Types'
      BY <1>0, <2>1, <2>2, Zenon DEF IInv, Types, Changed
    <2>5. SaneStates'
      BY <1>0, <2>3, Zenon DEF IInv, SaneStates, Sane
    <2>6. OnDisk'
      <3>1. \A t \in Slots : t # Entry => /\ Mine(t)' <=> Mine(t)
                                          /\ Covers(disk.state, t)' <=> Covers(disk.state, t)
        BY <1>0, <2>1, StateCovers, Zenon DEF Mine
      <3>. QED
        BY <1>0, <1>1, <3>1, Zenon DEF IInv, OnDisk, Adding
    <2>7. InMemory'
      BY <1>0, <1>1, <2>1, <2>3, Zenon DEF IInv, InMemory, Mine, Adding, Deleting
    <2>8. CASE pc' = "blocked"
      BY <2>4, <2>5, <2>6, <2>7, <2>8, RestIInv, Zenon DEF Resting
    <2>9. CASE pc' = "add-confirm" /\ mem' = mem
      <3>1. Working' /\ Withdrawing' /\ Intended' /\ Added'
        BY <1>0, <1>1, <2>9, Zenon
        DEF IInv, Working, Withdrawing, Intended, Added, Adds, Deletes, Saving, Receipt, Entry, Adding
      <3>. QED
        BY <2>4, <2>5, <2>6, <2>7, <3>1, Zenon DEF IInv
    <2>. QED
      BY <1>3, <2>2, <2>8, <2>9, Zenon
  <1>. QED
    BY <1>2, <1>3, Zenon DEF AddSend, Block

LEMMA AddConfirmIInv == ASSUME IInv, AddConfirm PROVE IInv'
  <1>0. /\ pc = "add-confirm" /\ UNCHANGED <<rib, kernel, dev, disk, active, epoch, todo, cur>>
        /\ cur.key \in Key /\ mem.receipts[cur.key] \in ReceiptRec /\ cur.obj \in Objects(Receipt.ep)
    BY Zenon DEF AddConfirm, Stay, envVars, store, routeVars, IInv, Working, Adds
  <1>1. Entry \in Slots /\ Adding(Entry)
    BY <1>0, EntryInSlots, Zenon DEF IInv, Intended, Adds
  <1>2. PICK st \in {"confirmed", "unknown"} :
          SetStatus(st) /\ pc' = (IF st = "confirmed" THEN "add-ack" ELSE "blocked") /\ (st = "confirmed" => Here)
    BY Zenon DEF AddConfirm
  <1>3. st \in ObjStatus /\ Changed(st)
    BY <1>0, <1>2, SetStatusChanges, Zenon DEF ObjStatus, IInv
  <1>4. Sane(mem)' /\ \A t \in Slots : t # Entry /\ Covers(mem, t) => Covers(mem, t)'
    BY <1>0, <1>2, <1>3, StatusKeeps, Zenon
  <1>5. Types'
    BY <1>0, <1>3, Zenon DEF IInv, Types, Changed
  <1>6. SaneStates'
    BY <1>0, <1>4, Zenon DEF IInv, SaneStates, Sane
  <1>7. OnDisk'
    BY <1>0, DiskKept, Zenon
  <1>8. InMemory'
    BY <1>0, <1>1, <1>4, Zenon DEF IInv, InMemory, Mine, Adding, Deleting
  <1>9. CASE pc' = "blocked"
    BY <1>5, <1>6, <1>7, <1>8, <1>9, RestIInv, Zenon DEF Resting
  <1>10. CASE st = "confirmed" /\ pc' = "add-ack"
    <2>1. /\ Entry' = Entry /\ Receipt' \in ReceiptRec /\ Receipt'.ep = Receipt.ep /\ cur.obj \in Obj
          /\ Receipt'.obj[cur.obj] = "confirmed" /\ mem'.eps = mem.eps
      BY <1>0, <1>3, <1>10, Zenon DEF Entry, Receipt, Changed, IInv, Types
    <2>2. Covers(mem, Entry)'
      <3>1. Slot(Receipt.ep, cur.obj) = Entry /\ Value(Receipt.ep, cur.obj) = kernel[Entry].val
        BY <1>2, <1>10, Zenon DEF Here, Held, Entry
      <3>2. Receipt' # None /\ Receipt' = mem'.receipts[cur.key]
        BY <1>0, <2>1, NoneAssumption, Zenon DEF Receipt
      <3>. QED
        BY <1>0, <2>1, <3>1, <3>2, Zenon DEF Covers
    <2>3. Working' /\ Withdrawing' /\ Intended' /\ Added'
      BY <1>0, <1>1, <1>10, <2>1, <2>2, Zenon
      DEF IInv, Working, Withdrawing, Intended, Added, Adds, Deletes, Saving, Adding, Receipt
    <2>. QED
      BY <1>5, <1>6, <1>7, <1>8, <2>3, Zenon DEF IInv
  <1>. QED
    BY <1>2, <1>9, <1>10, Zenon

LEMMA AddAckIInv == ASSUME IInv, UseRecovery, AddAck PROVE IInv'
  <1>0. pc = "add-ack" /\ UNCHANGED <<rib, kernel, dev, mem, active, epoch, todo>>
    BY Zenon DEF AddAck, Acknowledge, Persist, Block, envVars, routeVars
  <1>1. \A t \in Slots : Mine(t) => Covers(mem, t)
    <2>1. Adding(Entry) /\ (Mine(Entry) => Covers(mem, Entry))
      BY <1>0, Zenon DEF IInv, Intended, Added, Adds
    <2>2. disk.pending.op = "add" /\ disk.pending.slot = Entry
      BY <2>1, IntentFields, Zenon
    <2>3. \A t \in Slots : ~Deleting(t) /\ (Adding(t) => t = Entry)
      BY <2>2, IntentFields, Zenon
    <2>. QED
      BY <1>0, <2>1, <2>3, Zenon DEF IInv, InMemory
  <1>2. CASE disk' \in {disk, [disk EXCEPT !.pending = None, !.state = mem]} /\ pc' = "blocked" /\ UNCHANGED cur
    BY <1>0, <1>1, <1>2, AckFailsIInv, Zenon
  <1>3. CASE disk' = [disk EXCEPT !.pending = None, !.state = mem] /\ AfterAdd
    <2>1. Acknowledged
      BY <1>0, <1>1, <1>3, Acknowledges, Zenon
    <2>2. cur' \in [key : Key \cup {None}, obj : Obj]
      BY <1>3 DEF AfterAdd, IInv, Types, NoWork, Obj
    <2>3. Types' /\ SaneStates' /\ OnDisk' /\ InMemory'
      BY <1>0, <2>1, <2>2, Zenon DEF Acknowledged, IInv, Types, InMemory
    <2>. QED
      BY <1>0, <1>3, <2>3, AfterAddIInv, Zenon
  <1>. QED
    BY <1>2, <1>3, Zenon DEF AddAck, Acknowledge, Persist, Block

\* A failed check and a missed deadline end the tick and touch nothing.
LEMMA GivesUpIInv == ASSUME IInv, AllApplied \/ CheckFails \/ TimesOut PROVE IInv'
  BY QuietIInv, Zenon DEF AllApplied, CheckFails, TimesOut, Checking, Block, envVars, store, routeVars, Resting, IInv, Types

-----------------------------------------------------------------------------
(* The theorem *)

LEMMA ProcessIInv == ASSUME IInv, UseRecovery, Process PROVE IInv'
  BY StartIInv, CreateMarkerIInv, VerifyIInv, CheckpointBeginIInv, CheckpointCommitIInv, QuarantineIInv,
     TickIInv, WithdrawRouteIInv, NothingToWithdrawIInv, WithdrawTimesOutIInv, DeleteUnconfirmedIInv,
     DeleteBeginIInv, DeleteReadIInv, DeleteSendIInv,
     DeleteConfirmIInv, DeleteAckIInv, WithdrawnIInv, ApplyRouteIInv, ApplyTimesOutIInv, AddConfirmedIInv,
     AddBeginIInv, AddSendIInv, AddConfirmIInv, AddAckIInv, GivesUpIInv
  DEF Process

\* The configuration is what it was.
LEMMA RecoveryStays == ASSUME [Next]_vars PROVE UNCHANGED UseRecovery
  <1>. USE DEF budgets, Fault, NoFault
  <1>1. CASE UNCHANGED vars
    BY <1>1, Zenon DEF vars
  <1>2. CASE Environment
    BY <1>2, Zenon DEF Environment, Crash, DeviceReplaced, ForeignAdds, ForeignDeletes, SwitchChanges, RibChanges
  <1>3. ASSUME NEW j, NEW T, Persist(j, T) PROVE UNCHANGED UseRecovery
    BY <1>3 DEF Persist
  <1>4. ASSUME NEW i, NEW T, Intend(i, T) PROVE UNCHANGED UseRecovery
    BY <1>3, <1>4, Zenon DEF Intend
  <1>5. ASSUME NEW T, Acknowledge(T) PROVE UNCHANGED UseRecovery
    BY <1>3, <1>5, Zenon DEF Acknowledge
  <1>6. CASE CheckpointBegin \/ DeleteBegin \/ AddBegin
    BY <1>4, <1>6, Zenon DEF CheckpointBegin, DeleteBegin, AddBegin
  <1>7. CASE CheckpointCommit \/ DeleteAck \/ AddAck
    BY <1>5, <1>7, Zenon DEF CheckpointCommit, DeleteAck, AddAck
  <1>8. CASE Start \/ StartQuarantines \/ CreateMarker \/ Verify \/ Quarantine
    BY <1>8, Zenon DEF Start, StartQuarantines, CreateMarker, Verify, Quarantine
  <1>9. CASE MappingRefused \/ PollFails \/ PollDiffers \/ PollConfirms
    BY <1>9, Zenon DEF MappingRefused, PollFails, PollDiffers, PollConfirms
  <1>10. CASE WithdrawRoute \/ WithdrawTimesOut \/ NothingToWithdraw \/ DeleteUnconfirmed
    BY <1>10, Zenon DEF WithdrawRoute, WithdrawTimesOut, NothingToWithdraw, DeleteUnconfirmed
  <1>13. CASE DeleteRead \/ DeleteSend \/ DeleteConfirm \/ Withdrawn
    BY <1>13, Zenon DEF DeleteRead, DeleteSend, DeleteConfirm, Withdrawn
  <1>11. CASE ApplyRoute \/ ApplyTimesOut \/ AllApplied \/ AddConfirmed \/ AddSend \/ AddConfirm
    BY <1>11, Zenon DEF ApplyRoute, ApplyTimesOut, AllApplied, AddConfirmed, AddSend, AddConfirm
  <1>12. CASE CheckFails \/ TimesOut
    BY <1>12 DEF CheckFails, TimesOut
  <1>. QED
    BY <1>1, <1>2, <1>6, <1>7, <1>8, <1>9, <1>10, <1>11, <1>12, <1>13, Zenon DEF Next, Process

\* With a Recovery section the promises of journal and memory hold for ever.
THEOREM IInvHolds == Spec => [](UseRecovery => IInv)
  <1>1. Init => (UseRecovery => IInv)
    BY InitIInv, Zenon
  <1>2. (UseRecovery => IInv) /\ [Next]_vars => (UseRecovery => IInv)'
    <2>. SUFFICES ASSUME UseRecovery => IInv, [Next]_vars, UseRecovery' PROVE IInv'
      BY Zenon
    <2>1. UseRecovery /\ IInv
      BY RecoveryStays, Zenon
    <2>2. CASE UNCHANGED vars
      <3>1. Shrinks
        BY <2>1, <2>2, Zenon DEF vars, envVars, Shrinks, IInv, Types, Mine
      <3>. QED
        BY <2>1, <2>2, <3>1, ShrinkIInv, Zenon DEF vars
    <2>. QED
      BY <2>1, <2>2, ProcessIInv, EnvironmentIInv, Zenon DEF Next
  <1>. QED
    BY <1>1, <1>2, PTL DEF Spec

\* The entries ownedApply created are never orphaned: through crashes, lost
\* replies, timeouts, journal errors, device and foreign changes and quarantine
\* the journal describes each of them by a confirmed receipt or by its intent.
THEOREM EntriesAccounted == Spec => []OwnEntriesAccounted
  <1>1. (UseRecovery => IInv) => OwnEntriesAccounted
    <2>. SUFFICES ASSUME IInv, NEW s \in Slots, kernel[s] # None /\ kernel[s].mine
                  PROVE  \/ disk.state # None /\ [slot |-> s, val |-> kernel[s].val] \in Confirmed(disk.state)
                         \/ disk.pending # None /\ disk.pending.op = "add" /\ disk.pending.slot = s
      BY Zenon DEF OwnEntriesAccounted
    <2>1. (disk.state # None /\ Covers(disk.state, s)) \/ Adding(s)
      BY Zenon DEF IInv, OnDisk, Mine
    <2>2. ASSUME Adding(s) PROVE disk.pending # None /\ disk.pending.op = "add" /\ disk.pending.slot = s
      <3>1. [op |-> "add", slot |-> s] \in Intents
        BY DEF Intents
      <3>. QED
        BY <2>2, <3>1, IntentFields, NoneAssumption, Zenon DEF Adding
    <2>. QED
      BY <2>1, <2>2, CoversConfirmed, Zenon
  <1>. QED
    BY <1>1, IInvHolds, PTL
-----------------------------------------------------------------------------
(* Receipts, routes and entries of others, with and without a Recovery section *)

\* Receipts of a state are filed under their keys with the newest incarnation, and do not share a kernel slot.
Filed(s) ==
    /\ s.eps \in Snapshots \cup {{}} /\ (s.eps # {} => s.gen # 0)
    /\ \A k \in Key : s.receipts[k] # None =>
         /\ KeyOf(s.receipts[k].ep) = k /\ s.receipts[k].inc = s.latest[k] /\ s.receipts[k].inc # 0
         /\ s.receipts[k].gen # 0 /\ s.receipts[k].gen <= s.gen
Disjoint(e, f) == \A o \in Objects(e), p \in Objects(f) : Slot(e, o) # Slot(f, p)
Apart(s) == \A j, k \in Key : s.receipts[j] # None /\ s.receipts[k] # None /\ j # k =>
    Disjoint(s.receipts[j].ep, s.receipts[k].ep)
Good(s) == Filed(s) /\ Apart(s)

Routed ==
    /\ todo \subseteq Key
    /\ \A k \in Key : active[k] # None =>
         KeyOf(active[k].ep) = k /\ active[k].inc # 0 /\ active[k].gen # 0 /\ active[k].gen <= mem.gen

\* Once the receipts are restored, each has its route.
Serving == pc \notin {"down", "mark", "verify", "blocked"} /\ ~(pc \in Saving /\ next = "mark")
Linked == \A k \in Key :
    /\ Serving => (mem.receipts[k] # None => active[k] # None /\ active[k].ep = mem.receipts[k].ep)
    /\ Serving \/ pc = "blocked" \/ active[k] = None

\* While routes are applied, every route is one of the snapshot.
Applies == pc \in Adds \cup {"add", "apply"} \/ (pc \in Saving /\ next = "apply")
Applying == Applies => \A k \in Key : active[k] # None => active[k].ep \in mem.eps

\* An object of an unknown outcome.
Open(s, k, o) ==
    s.receipts[k] # None /\ o \in Objects(s.receipts[k].ep) /\ s.receipts[k].obj[o] \in {"pending", "unknown"}
Intending == Adds \cup Deletes \cup {"checkpoint-commit"}
SettledMem == pc \notin {"down", "blocked"} => \A k \in Key, o \in Obj : Open(mem, k, o) =>
    \/ pc \in {"add-send", "add-confirm"} /\ k = cur.key /\ o = cur.obj
    \/ disk.pending # None /\ pc \notin Intending
SettledDisk == disk.state # None /\ disk.pending = None /\ ~disk.quarantine => \A k \in Key, o \in Obj : ~Open(disk.state, k, o)

Foreigners == \A t \in Slots : kernel[t] # None => kernel[t].mine \in BOOLEAN /\ (~kernel[t].mine => kernel[t].val = Foreign)

MemShape == Good(mem) /\ Routed /\ Linked /\ Applying /\ (UseRecovery => SettledMem)
DiskShape == /\ disk.state # None => Good(disk.state)
             /\ IF UseRecovery THEN SettledDisk ELSE disk.state = None

Shape == Types /\ Working /\ MemShape /\ DiskShape /\ Foreigners

\* A state that has at most the receipts it had, of the same endpoints and incarnations.
Refiled ==
    /\ mem'.eps = mem.eps /\ mem'.gen = mem.gen
    /\ \A k \in Key : mem'.receipts[k] # None =>
         /\ mem.receipts[k] # None /\ mem'.receipts[k].ep = mem.receipts[k].ep
         /\ mem'.receipts[k].inc = mem.receipts[k].inc /\ mem'.receipts[k].gen = mem.receipts[k].gen
         /\ mem'.latest[k] = mem.latest[k]

LEMMA RefiledGood == ASSUME Good(mem), Refiled PROVE Good(mem)'
  <1>1. Filed(mem)'
    BY Zenon DEF Refiled, Good, Filed
  <1>2. Apart(mem)'
    BY Zenon DEF Refiled, Good, Apart
  <1>. QED
    BY <1>1, <1>2, Zenon DEF Good

LEMMA StatusRefiled ==
  ASSUME Types, cur.key \in Key, mem.receipts[cur.key] \in ReceiptRec, NEW st \in ObjStatus, SetStatus(st)
  PROVE  Refiled
  <1>. DEFINE r == mem.receipts[cur.key]
              new == [r EXCEPT !.obj = [r.obj EXCEPT ![cur.obj] = st]]
              rs == [mem.receipts EXCEPT ![cur.key] = new]
  <1>1. mem \in StateRec /\ mem' = [mem EXCEPT !.receipts = rs]
    BY Zenon DEF SetStatus, Types
  <1>2. new.ep = r.ep /\ new.inc = r.inc /\ new.gen = r.gen
    BY DEF ReceiptRec
  <1>. HIDE DEF new
  <1>3. rs[cur.key] = new /\ \A k \in Key : k # cur.key => rs[k] = mem.receipts[k]
    BY <1>1 DEF StateRec
  <1>. HIDE DEF rs
  <1>4. mem'.receipts = rs /\ mem'.eps = mem.eps /\ mem'.gen = mem.gen /\ mem'.latest = mem.latest
    BY <1>1 DEF StateRec
  <1>. QED
    BY <1>2, <1>3, <1>4, NoneAssumption, Zenon DEF Refiled

LEMMA DiskLeft == ASSUME Shape, UNCHANGED <<disk, UseRecovery>> PROVE DiskShape'
  BY Zenon DEF Shape, DiskShape, SettledDisk

LEMMA ForeignLeft == ASSUME Shape, UNCHANGED kernel PROVE Foreigners'
  BY Zenon DEF Shape, Foreigners

\* Routes and memory as they were.
LEMMA MemLeft == ASSUME Shape, UNCHANGED <<mem, active>>, todo' \in {todo, {}} PROVE Good(mem)' /\ Routed'
  BY Zenon DEF Shape, MemShape, Good, Filed, Apart, Routed

\* Between operations.
LEMMA RestShape ==
  ASSUME pc' \in Resting, Types', Good(mem)', Routed', Linked', UseRecovery' => SettledMem', DiskShape', Foreigners'
  PROVE  Shape'
  <1>1. Working' /\ Applying'
    BY Zenon DEF Working, Applying, Applies, Resting, Adds, Deletes, Saving
  <1>. QED
    BY <1>1, Zenon DEF Shape, MemShape

LEMMA QuietShape ==
  ASSUME Shape, pc \notin {"down", "blocked"}, pc' \in Resting, UNCHANGED <<rib, kernel, dev, mem, active, epoch, disk, UseRecovery>>,
         todo' \in {todo, {}}, cur' \in [key : Key \cup {None}, obj : Obj], pc' \in {"blocked", "mark", "verify", "down"} \/ Serving,
         pc' \in {"mark", "verify", "down"} => ~Serving,
         UseRecovery => pc' = "blocked" \/ pc \notin {"add-send", "add-confirm"} \/ disk.pending # None
  PROVE  Shape'
  <1>1. Types'
    BY Zenon DEF Shape, Types
  <1>2. Linked'
    BY Zenon DEF Shape, MemShape, Linked, Serving, Resting, Saving
  <1>3. UseRecovery => SettledMem'
    BY Zenon DEF Shape, MemShape, SettledMem, Open, Resting, Intending, Adds, Deletes
  <1>. QED
    BY <1>1, <1>2, <1>3, MemLeft, DiskLeft, ForeignLeft, RestShape, Zenon

\* An error blocks the backend, whatever it left of the journal.
LEMMA BlockShape ==
  ASSUME Shape, pc' = "blocked", UNCHANGED <<rib, kernel, dev, mem, active, epoch, todo, cur>>, DiskShape',
         disk' \in [bound : {disk'.bound}, state : StateRec \cup {None}, quarantine : BOOLEAN, pending : Intents \cup {None}]
  PROVE  Shape'
  <1>1. Types'
    BY Zenon DEF Shape, Types
  <1>2. Linked' /\ SettledMem'
    BY Zenon DEF Linked, Serving, SettledMem
  <1>. QED
    BY <1>1, <1>2, MemLeft, ForeignLeft, RestShape, Zenon DEF Resting

\* What Begin and Commit leave on disk.
LEMMA DiskBegun ==
  ASSUME Shape, NEW i \in Intents, disk.pending = None \/ ~UseRecovery,
         disk' \in {disk, IF UseRecovery THEN [disk EXCEPT !.pending = i] ELSE disk}, UNCHANGED UseRecovery
  PROVE  /\ DiskShape'
         /\ disk' \in [bound : {disk'.bound}, state : StateRec \cup {None}, quarantine : BOOLEAN, pending : Intents \cup {None}]
  <1>1. CASE disk' = disk
    BY <1>1, DiskLeft, Zenon DEF Shape, Types
  <1>2. CASE UseRecovery /\ disk' = [disk EXCEPT !.pending = i]
    <2>1. disk'.state = disk.state /\ disk'.pending = i /\ i # None
      BY <1>2, NoneAssumption, Zenon DEF Shape, Types
    <2>2. disk' \in [bound : {disk'.bound}, state : StateRec \cup {None}, quarantine : BOOLEAN, pending : Intents \cup {None}]
      BY <1>2, Zenon DEF Shape, Types
    <2>. QED
      BY <1>2, <2>1, <2>2, Zenon DEF Shape, DiskShape, SettledDisk
  <1>. QED
    BY <1>1, <1>2, Zenon

LEMMA DiskAcknowledged ==
  ASSUME Shape, disk' \in {disk, IF UseRecovery THEN [disk EXCEPT !.pending = None, !.state = mem] ELSE disk}, UNCHANGED UseRecovery,
         UseRecovery => \A k \in Key, o \in Obj : ~Open(mem, k, o)
  PROVE  /\ DiskShape'
         /\ disk' \in [bound : {disk'.bound}, state : StateRec \cup {None}, quarantine : BOOLEAN, pending : Intents \cup {None}]
  <1>1. CASE disk' = disk
    BY <1>1, DiskLeft, Zenon DEF Shape, Types
  <1>2. CASE UseRecovery /\ disk' = [disk EXCEPT !.pending = None, !.state = mem]
    <2>1. disk'.state = mem /\ Good(mem)
      BY <1>2, Zenon DEF Shape, Types, MemShape
    <2>2. disk' \in [bound : {disk'.bound}, state : StateRec \cup {None}, quarantine : BOOLEAN, pending : Intents \cup {None}]
      BY <1>2, Zenon DEF Shape, Types
    <2>. QED
      BY <1>2, <2>1, <2>2, Zenon DEF DiskShape, SettledDisk, Open
  <1>. QED
    BY <1>1, <1>2, Zenon

LEMMA EmptyGood == EmptyState \in StateRec /\ Good(EmptyState)
  <1>1. EmptyState \in StateRec
    BY Zenon DEF EmptyState, NoReceipts, StateRec
  <1>2. EmptyState.eps = {} /\ EmptyState.receipts = NoReceipts
    BY DEF EmptyState
  <1>3. \A k \in Key : EmptyState.receipts[k] = None
    BY <1>2, Zenon DEF NoReceipts
  <1>. QED
    BY <1>1, <1>2, <1>3, Zenon DEF Good, Filed, Apart

LEMMA InitShape == Init => Shape
  <1>. SUFFICES ASSUME Init PROVE Shape
    BY Zenon
  <1>1. Types
    BY InitIInv, Zenon DEF IInv
  <1>2. Good(mem)
    BY EmptyGood, Zenon DEF Init
  <1>3. Routed /\ Linked
    BY Zenon DEF Init, NoReceipts, Routed, Linked, Serving
  <1>4. DiskShape
    BY DEF Init, EmptyDisk, DiskShape, SettledDisk
  <1>5. Foreigners
    BY Zenon DEF Init, Foreigners
  <1>. QED
    BY <1>1, <1>2, <1>3, <1>4, <1>5, Zenon
    DEF Init, Shape, MemShape, Working, Applying, Applies, SettledMem, Saving, Adds, Deletes

\* A step of the surroundings.
LEMMA OutsideShape ==
  ASSUME Shape, rib' \in Snapshots, dev' \in Nat, kernel' = [s \in Slots |-> kernel'[s]], Foreigners',
         UNCHANGED <<store, procVars, UseRecovery>>
  PROVE  Shape'
  <1>. USE DEF store, procVars, routeVars
  <1>1. Types' /\ Working'
    BY Zenon DEF Shape, Types, Working, Receipt
  <1>2. Good(mem)' /\ Routed' /\ DiskShape'
    BY MemLeft, DiskLeft, Zenon
  <1>3. Linked' /\ Applying' /\ (UseRecovery' => SettledMem')
    BY Zenon DEF Shape, MemShape, Linked, Serving, Applying, Applies, SettledMem, Open
  <1>. QED
    BY <1>1, <1>2, <1>3, Zenon DEF Shape, MemShape

LEMMA CrashShape == ASSUME Shape, Crash PROVE Shape'
  <1>0. UNCHANGED <<rib, kernel, dev, disk, UseRecovery>>
    BY Zenon DEF Crash, Fault, store
  <1>1. Types'
    BY EmptyGood, Zenon DEF Shape, Types, Crash, store, NoReceipts, NoWork, Obj
  <1>2. Good(mem)'
    BY EmptyGood, Zenon DEF Crash
  <1>3. Routed' /\ Linked' /\ SettledMem'
    BY Zenon DEF Crash, NoReceipts, Routed, Linked, Serving, SettledMem
  <1>. QED
    BY <1>0, <1>1, <1>2, <1>3, DiskLeft, ForeignLeft, RestShape, Zenon DEF Crash, Resting

LEMMA EnvironmentShape == ASSUME Shape, Environment PROVE Shape'
  <1>1. CASE Crash
    BY <1>1, CrashShape, Zenon
  <1>2. CASE DeviceReplaced
    <2>1. Foreigners' /\ kernel' = [s \in Slots |-> kernel'[s]]
      BY <1>2, Zenon DEF DeviceReplaced, Foreigners
    <2>. QED
      BY <1>2, <2>1, OutsideShape DEF DeviceReplaced, Fault, Shape, Types
  <1>3. CASE ForeignAdds
    <2>1. PICK s \in Slots : kernel' = [kernel EXCEPT ![s] = [val |-> Foreign, mine |-> FALSE]]
      BY <1>3, Zenon DEF ForeignAdds
    <2>2. kernel' = [t \in Slots |-> IF t = s THEN [val |-> Foreign, mine |-> FALSE] ELSE kernel[t]]
      BY <2>1, Zenon DEF Shape, Types
    <2>3. Foreigners' /\ kernel' = [t \in Slots |-> kernel'[t]]
      BY <2>2, Zenon DEF Shape, Foreigners
    <2>. QED
      BY <1>3, <2>3, OutsideShape, Zenon DEF ForeignAdds, Fault, Shape, Types
  <1>4. CASE ForeignDeletes
    <2>1. PICK s \in Slots : kernel' = [kernel EXCEPT ![s] = None]
      BY <1>4, Zenon DEF ForeignDeletes
    <2>2. kernel' = [t \in Slots |-> IF t = s THEN None ELSE kernel[t]]
      BY <2>1, Zenon DEF Shape, Types
    <2>3. Foreigners' /\ kernel' = [t \in Slots |-> kernel'[t]]
      BY <2>2, Zenon DEF Shape, Foreigners
    <2>. QED
      BY <1>4, <2>3, OutsideShape, Zenon DEF ForeignDeletes, Fault, Shape, Types
  <1>5. CASE SwitchChanges
    BY <1>5, ForeignLeft, OutsideShape, Zenon DEF SwitchChanges, Fault, Shape, Types
  <1>6. CASE RibChanges
    BY <1>6, ForeignLeft, OutsideShape, Zenon DEF RibChanges, Shape, Types
  <1>. QED
    BY <1>1, <1>2, <1>3, <1>4, <1>5, <1>6, Zenon DEF Environment

\* What a start reads from the journal.
LEMMA FoundGood ==
  ASSUME Shape, pc = "down", Opens
  PROVE  /\ Found \in StateRec /\ Found # None /\ Good(Found)
         /\ UseRecovery => \A k \in Key, o \in Obj : ~Open(Found, k, o)
  <1>1. CASE disk.state = None
    <2>1. Found = [EmptyState EXCEPT !.dev = dev] /\ dev \in Nat
      BY <1>1, Zenon DEF Found, Shape, Types
    <2>2. Found \in StateRec /\ Found.receipts = NoReceipts /\ Found.eps = {}
      BY <2>1, Zenon DEF EmptyState, NoReceipts, StateRec
    <2>3. \A k \in Key : Found.receipts[k] = None
      BY <2>2, Zenon DEF NoReceipts
    <2>. QED
      BY <2>2, <2>3, NoneAssumption, Zenon DEF Good, Filed, Apart, Open
  <1>2. CASE disk.state # None
    <2>1. Found = disk.state /\ disk.state \in StateRec
      BY <1>2, Zenon DEF Found, Shape, Types
    <2>. QED
      BY <1>2, <2>1, Zenon DEF Opens, Shape, DiskShape, SettledDisk
  <1>. QED
    BY <1>1, <1>2, Zenon

LEMMA StartShape == ASSUME Shape, Start \/ StartQuarantines, UNCHANGED UseRecovery PROVE Shape'
  <1>0. /\ pc = "down" /\ UNCHANGED <<rib, kernel, dev, active, epoch, todo, cur>>
        /\ Found \in StateRec /\ Found # None /\ Good(Found)
        /\ UseRecovery => \A k \in Key, o \in Obj : ~Open(Found, k, o)
    BY FoundGood, Zenon DEF Start, StartQuarantines, envVars, procVars, routeVars
  <1>a. \A k \in Key : active[k] = None
    BY <1>0, Zenon DEF Shape, MemShape, Linked, Serving
  <1>b. Routed'
    BY <1>0, <1>a, Zenon DEF Shape, MemShape, Routed
  <1>1. CASE Start
    <2>1. mem' = Found /\ disk' = IF UseRecovery THEN [disk EXCEPT !.bound = switch] ELSE disk
      BY <1>1, Zenon DEF Start
    <2>2. disk' \in [bound : {disk'.bound}, state : StateRec \cup {None}, quarantine : BOOLEAN, pending : Intents \cup {None}]
          /\ disk'.state = disk.state /\ disk'.pending = disk.pending /\ disk'.quarantine = disk.quarantine
      BY <2>1, Zenon DEF Shape, Types
    <2>3. Types'
      BY <1>0, <2>1, <2>2, Zenon DEF Shape, Types
    <2>4. DiskShape' /\ Foreigners'
      BY <1>0, <2>2, ForeignLeft, Zenon DEF Shape, DiskShape, SettledDisk
    <2>5. Good(mem)'
      BY <1>0, <2>1, Zenon
    <2>6. pc' = "verify" \/ (pc' = "checkpoint" /\ next' = "mark")
      BY <1>1, Zenon DEF Start, Checkpoint
    <2>7. Linked' /\ (UseRecovery' => SettledMem')
      BY <1>0, <1>a, <2>1, <2>6, Zenon DEF Linked, Serving, Saving, SettledMem
    <2>8. Working' /\ Applying'
      BY <2>6, Zenon DEF Working, Applying, Applies, Saving, Adds, Deletes
    <2>. QED
      BY <1>b, <2>3, <2>4, <2>5, <2>7, <2>8, Zenon DEF Shape, MemShape
  <1>2. CASE StartQuarantines
    <2>1. UNCHANGED <<mem, pc>> /\ disk' = [disk EXCEPT !.bound = switch, !.quarantine = TRUE, !.state = Found]
      BY <1>2, Zenon DEF StartQuarantines, procVars
    <2>2. disk' \in [bound : {disk'.bound}, state : StateRec \cup {None}, quarantine : BOOLEAN, pending : Intents \cup {None}]
          /\ disk'.state = Found /\ disk'.quarantine
      BY <1>0, <2>1, Zenon DEF Shape, Types
    <2>3. Types'
      BY <1>0, <2>1, <2>2, Zenon DEF Shape, Types
    <2>4. DiskShape' /\ Foreigners'
      BY <1>0, <1>2, <2>2, ForeignLeft, Zenon DEF DiskShape, SettledDisk, StartQuarantines
    <2>5. Linked' /\ SettledMem' /\ Good(mem)'
      BY <1>0, <1>a, <2>1, MemLeft, Zenon DEF Linked, Serving, SettledMem
    <2>. QED
      BY <1>0, <1>b, <2>1, <2>3, <2>4, <2>5, RestShape, Zenon DEF Resting
  <1>. QED
    BY <1>1, <1>2, Zenon

LEMMA CreateMarkerShape == ASSUME Shape, CreateMarker PROVE Shape'
  BY QuietShape, Zenon
  DEF CreateMarker, Fault, NoFault, budgets, envVars, routeVars, Resting, Shape, Types, Serving

LEMMA VerifiedSettles ==
  ASSUME NEW r \in ReceiptRec
  PROVE  /\ Verified(r).ep = r.ep /\ Verified(r).inc = r.inc /\ Verified(r).gen = r.gen
         /\ \A o \in Objects(r.ep) : Verified(r).obj[o] \notin {"pending", "unknown"}
  <1>. DEFINE ob == [o \in Obj |-> IF o \notin Objects(r.ep) \/ (r.obj[o] = "confirmed" /\ Held(r.ep, o)) THEN r.obj[o]
                                   ELSE IF r.retiring THEN "absent" ELSE "unattempted"]
  <1>1. Verified(r) = [r EXCEPT !.obj = ob]
    BY DEF Verified
  <1>2. \A o \in Objects(r.ep) : ob[o] \notin {"pending", "unknown"}
    BY DEF Objects
  <1>. HIDE DEF ob
  <1>3. Verified(r).ep = r.ep /\ Verified(r).inc = r.inc /\ Verified(r).gen = r.gen /\ Verified(r).obj = ob
    BY <1>1, Zenon DEF ReceiptRec
  <1>. QED
    BY <1>2, <1>3, Zenon

LEMMA VerifyShape == ASSUME Shape, Verify PROVE Shape'
  <1>0. pc = "verify" /\ UNCHANGED <<rib, kernel, dev, disk, todo, cur, UseRecovery>>
    BY Zenon DEF Verify, Block, envVars, budgets, store, routeVars
  <1>1. CASE Block
    BY <1>0, <1>1, QuietShape, Zenon DEF Block, routeVars, Resting, Shape, Types
  <1>2. CASE ~Block
    <2>. DEFINE rs == [k \in Key |-> IF mem.receipts[k] = None THEN None ELSE Verified(mem.receipts[k])]
    <2>1. /\ mem' = [mem EXCEPT !.receipts = rs] /\ active' = Restored(rs)
          /\ epoch' \in { mem.latest[k] : k \in Key } \cup {0}
          /\ pc' = "checkpoint" /\ next' = "idle"
      BY <1>2, Zenon DEF Verify, Checkpoint
    <2>2. mem \in StateRec /\ \A k \in Key : mem.receipts[k] # None => mem.receipts[k] \in ReceiptRec
      BY Zenon DEF Shape, Types, StateRec
    <2>3. \A k \in Key : mem.receipts[k] # None => rs[k] \in ReceiptRec
      BY <2>2, VerifiedKeeps, Zenon
    <2>4. /\ rs \in [Key -> ReceiptRec \cup {None}]
          /\ \A k \in Key : mem.receipts[k] = None => rs[k] = None
          /\ \A k \in Key : mem.receipts[k] # None => rs[k] = Verified(mem.receipts[k])
      BY <2>3
    <2>. HIDE DEF rs
    <2>5. mem' \in StateRec /\ mem'.receipts = rs /\ mem'.eps = mem.eps /\ mem'.gen = mem.gen /\ mem'.latest = mem.latest
      BY <2>1, <2>2, <2>4, Zenon DEF StateRec
    <2>6. ASSUME NEW k \in Key, rs[k] # None
          PROVE  /\ mem.receipts[k] # None /\ rs[k].ep = mem.receipts[k].ep
                 /\ rs[k].inc = mem.receipts[k].inc /\ rs[k].gen = mem.receipts[k].gen
                 /\ \A o \in Objects(rs[k].ep) : rs[k].obj[o] \notin {"pending", "unknown"}
      <3>1. mem.receipts[k] \in ReceiptRec /\ mem.receipts[k] # None /\ rs[k] = Verified(mem.receipts[k])
        BY <2>2, <2>4, <2>6, Zenon
      <3>. QED
        BY <3>1, VerifiedSettles, Zenon
    <2>7. Good(mem)'
      <3>1. Refiled
        BY <2>5, <2>6, Zenon DEF Refiled
      <3>. QED
        BY <3>1, RefiledGood, Zenon DEF Shape, MemShape
    <2>8. \A k \in Key : /\ rs[k] = None => active'[k] = None
                         /\ rs[k] # None => active'[k] = RouteOf(rs[k]) /\ active'[k] \in RouteRec
      BY <2>1, <2>4, Zenon DEF Restored, RouteOf, RouteRec, ReceiptRec
    <2>9. \A k \in Key : rs[k] # None => active'[k].ep = rs[k].ep /\ active'[k].inc = rs[k].inc /\ active'[k].gen = rs[k].gen
      <3>1. \A x \in ReceiptRec : RouteOf(x).ep = x.ep /\ RouteOf(x).inc = x.inc /\ RouteOf(x).gen = x.gen
        BY Zenon DEF RouteOf
      <3>. QED
        BY <2>4, <2>8, <3>1, Zenon
    <2>10. active' \in [Key -> RouteRec \cup {None}] /\ epoch' \in Nat
      BY <2>1, <2>2, <2>4 DEF Restored, RouteOf, RouteRec, ReceiptRec, StateRec
    <2>11. Types'
      BY <1>0, <2>1, <2>5, <2>10, Zenon DEF Shape, Types
    <2>12. Routed'
      <3>1. \A k \in Key : rs[k] # None => KeyOf(rs[k].ep) = k /\ rs[k].inc # 0 /\ rs[k].gen # 0 /\ rs[k].gen <= mem'.gen
        BY <2>5, <2>7, Zenon DEF Good, Filed
      <3>. QED
        BY <1>0, <2>8, <2>9, <3>1, Zenon DEF Shape, MemShape, Routed
    <2>13. Linked'
      BY <2>1, <2>5, <2>8, <2>9, NoneAssumption, Zenon DEF Linked, Serving, Saving
    <2>14. SettledMem'
      BY <2>5, <2>6, Zenon DEF SettledMem, Open
    <2>15. Working' /\ Applying'
      BY <2>1, Zenon DEF Working, Applying, Applies, Saving, Adds, Deletes
    <2>. QED
      BY <1>0, <2>7, <2>11, <2>12, <2>13, <2>14, <2>15, DiskLeft, ForeignLeft, Zenon DEF Shape, MemShape
  <1>. QED
    BY <1>1, <1>2, Zenon

LEMMA BeginFailsShape ==
  ASSUME Shape, NEW i \in Intents, pc' = "blocked", UNCHANGED <<rib, kernel, dev, mem, active, epoch, todo, cur, UseRecovery>>,
         disk' = disk \/ (UseRecovery /\ disk.pending = None /\ disk' \in {disk, [disk EXCEPT !.pending = i]})
  PROVE  Shape'
  <1>1. /\ DiskShape'
        /\ disk' \in [bound : {disk'.bound}, state : StateRec \cup {None}, quarantine : BOOLEAN, pending : Intents \cup {None}]
    <2>1. CASE disk' = disk
      BY <2>1, DiskLeft, Zenon DEF Shape, Types
    <2>2. CASE UseRecovery /\ disk.pending = None /\ disk' = [disk EXCEPT !.pending = i]
      BY <2>2, DiskBegun, Zenon
    <2>. QED
      BY <2>1, <2>2, Zenon
  <1>. QED
    BY <1>1, BlockShape, Zenon

LEMMA AckFailsShape ==
  ASSUME Shape, pc' = "blocked", UNCHANGED <<rib, kernel, dev, mem, active, epoch, todo, cur, UseRecovery>>, UseRecovery,
         disk' \in {disk, [disk EXCEPT !.pending = None, !.state = mem]}, \A k \in Key, o \in Obj : ~Open(mem, k, o)
  PROVE  Shape'
  <1>1. /\ DiskShape'
        /\ disk' \in [bound : {disk'.bound}, state : StateRec \cup {None}, quarantine : BOOLEAN, pending : Intents \cup {None}]
    BY DiskAcknowledged, Zenon
  <1>. QED
    BY <1>1, BlockShape, Zenon

\* An operation goes on: routes and receipts as they were.
LEMMA SteadyShape ==
  ASSUME Shape, UNCHANGED <<rib, dev, mem, active, epoch, todo, UseRecovery>>,
         kernel' = [s \in Slots |-> kernel'[s]], Foreigners',
         disk' \in [bound : {disk'.bound}, state : StateRec \cup {None}, quarantine : BOOLEAN, pending : Intents \cup {None}],
         cur' \in [key : Key \cup {None}, obj : Obj], DiskShape', Working',
         pc' # "blocked", pc # "blocked", Serving' <=> Serving, Applies' => Applies, UseRecovery => SettledMem'
  PROVE  Shape'
  <1>1. Types'
    BY Zenon DEF Shape, Types
  <1>2. Good(mem)' /\ Routed'
    BY MemLeft, Zenon
  <1>3. Linked' /\ Applying'
    BY Zenon DEF Shape, MemShape, Linked, Applying
  <1>. QED
    BY <1>1, <1>2, <1>3, Zenon DEF Shape, MemShape

LEMMA CheckpointBeginShape == ASSUME Shape, CheckpointBegin, UNCHANGED UseRecovery PROVE Shape'
  <1>. DEFINE i == [op |-> "checkpoint"]
  <1>0. /\ i \in Intents /\ pc = "checkpoint"
        /\ UNCHANGED <<rib, kernel, dev, next, mem, active, epoch, todo, cur>>
    BY Zenon DEF CheckpointBegin, Intents, Intend, Persist, Block, envVars, routeVars
  <1>1. CASE /\ pc' = "blocked"
             /\ disk' = disk \/ (UseRecovery /\ disk.pending = None /\ disk' \in {disk, [disk EXCEPT !.pending = i]})
    BY <1>0, <1>1, BeginFailsShape, Zenon
  <1>2. CASE /\ pc' = "checkpoint-commit" /\ disk' = (IF UseRecovery THEN [disk EXCEPT !.pending = i] ELSE disk)
             /\ disk.pending = None \/ ~UseRecovery
    <2>1. /\ DiskShape'
          /\ disk' \in [bound : {disk'.bound}, state : StateRec \cup {None}, quarantine : BOOLEAN, pending : Intents \cup {None}]
      BY <1>0, <1>2, DiskBegun, Zenon
    <2>2. Working'
      BY <1>0, <1>2, Zenon DEF Shape, Working, Saving, Adds, Deletes, Receipt
    <2>3. UseRecovery => SettledMem'
      BY <1>0, <1>2, Zenon DEF Shape, MemShape, SettledMem, Open, Intending, Adds, Deletes
    <2>4. (Serving' <=> Serving) /\ (Applies' => Applies)
      BY <1>0, <1>2, Zenon DEF Serving, Applies, Saving, Adds
    <2>. QED
      BY <1>0, <1>2, <2>1, <2>2, <2>3, <2>4, ForeignLeft, SteadyShape, Zenon DEF Shape, Types
  <1>. QED
    BY <1>1, <1>2, Zenon DEF CheckpointBegin, Intend, Persist, Block

LEMMA CheckpointCommitShape == ASSUME Shape, CheckpointCommit, UNCHANGED UseRecovery PROVE Shape'
  <1>0. pc = "checkpoint-commit" /\ UNCHANGED <<rib, kernel, dev, mem, active, epoch, todo, cur>>
    BY Zenon DEF CheckpointCommit, Acknowledge, Persist, Block, envVars, routeVars
  <1>1. UseRecovery => \A k \in Key, o \in Obj : ~Open(mem, k, o)
    BY <1>0, Zenon DEF Shape, MemShape, SettledMem, Intending
  <1>2. CASE pc' = "blocked" /\ UseRecovery /\ disk' \in {disk, [disk EXCEPT !.pending = None, !.state = mem]}
    BY <1>0, <1>1, <1>2, AckFailsShape, Zenon
  <1>3. CASE pc' = next /\ disk' = (IF UseRecovery THEN [disk EXCEPT !.pending = None, !.state = mem] ELSE disk)
    <2>1. /\ DiskShape'
          /\ disk' \in [bound : {disk'.bound}, state : StateRec \cup {None}, quarantine : BOOLEAN, pending : Intents \cup {None}]
      BY <1>1, <1>3, DiskAcknowledged, Zenon
    <2>2. next \in {"mark", "idle", "withdraw", "delete", "apply"}
      BY <1>0, Zenon DEF Shape, Working, Saving
    <2>3. Working'
      BY <1>0, <1>3, <2>2, Zenon DEF Shape, Working, Saving, Adds, Deletes, Receipt
    <2>4. UseRecovery => SettledMem'
      BY <1>0, <1>1, Zenon DEF SettledMem, Open
    <2>5. (Serving' <=> Serving) /\ (Applies' => Applies)
      BY <1>0, <1>3, <2>2, Zenon DEF Serving, Applies, Saving, Adds
    <2>. QED
      BY <1>0, <1>3, <2>1, <2>2, <2>3, <2>4, <2>5, ForeignLeft, SteadyShape, Zenon DEF Shape, Types
  <1>. QED
    BY <1>2, <1>3, Zenon DEF CheckpointCommit, Acknowledge, Persist, Block

LEMMA QuarantineShape == ASSUME Shape, Quarantine, UNCHANGED UseRecovery PROVE Shape'
  <1>0. /\ pc = "blocked" /\ pc' = pc /\ UseRecovery /\ disk.pending = None
        /\ UNCHANGED <<rib, kernel, dev, mem, active, epoch, todo, cur>>
    BY Zenon DEF Quarantine, envVars, procVars, routeVars
  <1>1. CASE disk' = [disk EXCEPT !.quarantine = TRUE, !.state = mem]
    <2>1. /\ disk'.state = mem /\ disk'.quarantine
          /\ disk' \in [bound : {disk'.bound}, state : StateRec \cup {None}, quarantine : BOOLEAN, pending : Intents \cup {None}]
      BY <1>1, Zenon DEF Shape, Types
    <2>2. DiskShape'
      BY <1>0, <2>1, Zenon DEF Shape, MemShape, DiskShape, SettledDisk
    <2>. QED
      BY <1>0, <2>1, <2>2, BlockShape, Zenon
  <1>2. CASE disk' = [disk EXCEPT !.pending = [op |-> "checkpoint"]]
    <2>1. [op |-> "checkpoint"] \in Intents
      BY Zenon DEF Intents
    <2>. QED
      BY <1>0, <1>2, <2>1, BeginFailsShape, Zenon
  <1>. QED
    BY <1>1, <1>2, Zenon DEF Quarantine

LEMMA TickShape == ASSUME Shape, MappingRefused \/ PollFails \/ PollDiffers \/ PollConfirms, UNCHANGED UseRecovery PROVE Shape'
  <1>1. CASE MappingRefused \/ PollFails \/ PollDiffers
    BY <1>1, QuietShape, Zenon
    DEF MappingRefused, PollFails, PollDiffers, Ticks, envVars, store, routeVars, Resting, Shape, Types, Serving, Saving
  <1>2. CASE PollConfirms
    <2>1. /\ UNCHANGED <<rib, kernel, dev, disk, active, epoch, todo, cur>> /\ pc = "idle"
          /\ pc' = "checkpoint" /\ next' = "withdraw"
      BY <1>2, Zenon DEF PollConfirms, Ticks, Checkpoint, envVars, store, routeVars
    <2>2. rib \in Snapshots /\ rib \in SUBSET Endpoint /\ mem \in StateRec /\ mem.gen \in Nat
      BY Zenon DEF Shape, Types, Endpoint, StateRec
    <2>. DEFINE g == mem.gen + (IF mem.eps = rib THEN 0 ELSE 1)
    <2>g. g \in Nat /\ g >= mem.gen /\ (mem.eps # rib => g # 0) /\ (mem.gen # 0 => g # 0)
      BY <2>2
    <2>h. mem' = [mem EXCEPT !.eps = rib, !.gen = g]
      BY <1>2, Zenon DEF PollConfirms
    <2>. HIDE DEF g
    <2>3. mem' \in StateRec /\ mem'.receipts = mem.receipts /\ mem'.latest = mem.latest /\ mem'.eps = rib /\ mem'.gen = g
      BY <2>2, <2>g, <2>h, Zenon DEF StateRec
    <2>4. Types'
      BY <2>1, <2>3, Zenon DEF Shape, Types
    <2>5. \A n \in Nat : n <= mem.gen => n <= g
      BY <2>2, <2>g
    <2>6. Good(mem)'
      <3>1. \A k \in Key : mem.receipts[k] # None => mem.receipts[k].gen \in Nat
        BY <2>2, Zenon DEF StateRec, ReceiptRec
      <3>2. Filed(mem)'
        BY <2>2, <2>3, <2>5, <2>g, <3>1, Zenon DEF Shape, MemShape, Good, Filed
      <3>3. Apart(mem)'
        BY <2>3, Zenon DEF Shape, MemShape, Good, Apart
      <3>. QED
        BY <3>2, <3>3, Zenon DEF Good
    <2>7. Routed'
      <3>1. \A k \in Key : active[k] # None => active[k].gen \in Nat
        BY DEF Shape, Types, RouteRec
      <3>. QED
        BY <2>1, <2>3, <2>5, <3>1, Zenon DEF Shape, MemShape, Routed
    <2>8. Linked' /\ (UseRecovery => SettledMem')
      <3>1. Serving /\ Serving'
        BY <2>1, Zenon DEF Serving, Saving
      <3>2. Linked'
        BY <2>1, <2>3, <3>1, Zenon DEF Shape, MemShape, Linked
      <3>3. pc' \notin Intending
        BY <2>1, Zenon DEF Intending, Adds, Deletes
      <3>4. UseRecovery => SettledMem'
        BY <2>1, <2>3, <3>3, Zenon DEF Shape, MemShape, SettledMem, Open
      <3>. QED
        BY <3>2, <3>4, Zenon
    <2>9. Working' /\ Applying'
      BY <2>1, Zenon DEF Working, Applying, Applies, Saving, Adds, Deletes
    <2>. QED
      BY <2>1, <2>4, <2>6, <2>7, <2>8, <2>9, DiskLeft, ForeignLeft, Zenon DEF Shape, MemShape
  <1>. QED
    BY <1>1, <1>2, Zenon

\* A step of an operation that changes one status.
LEMMA StatusShape ==
  ASSUME Shape, cur.key \in Key, mem.receipts[cur.key] \in ReceiptRec, NEW st \in ObjStatus, SetStatus(st),
         UNCHANGED <<rib, dev, active, epoch, todo, UseRecovery>>,
         kernel' = [s \in Slots |-> kernel'[s]], Foreigners',
         disk' \in [bound : {disk'.bound}, state : StateRec \cup {None}, quarantine : BOOLEAN, pending : Intents \cup {None}],
         cur' \in [key : Key \cup {None}, obj : Obj], DiskShape', Working',
         Serving, Serving' \/ pc' = "blocked", Applies' => Applies, UseRecovery => SettledMem'
  PROVE  Shape'
  <1>1. Changed(st) /\ Refiled
    BY SetStatusChanges, StatusRefiled, Zenon DEF Shape
  <1>2. Types'
    BY <1>1, Zenon DEF Shape, Types, Changed
  <1>3. Good(mem)'
    BY <1>1, RefiledGood, Zenon DEF Shape, MemShape
  <1>4. Routed' /\ Linked' /\ Applying'
    BY <1>1, Zenon DEF Shape, MemShape, Refiled, Routed, Linked, Applying
  <1>. QED
    BY <1>2, <1>3, <1>4, Zenon DEF Shape, MemShape

\* Which objects are open afterwards.
LEMMA StatusOpens ==
  ASSUME cur.key \in Key, mem.receipts[cur.key] \in ReceiptRec, NEW st \in ObjStatus, Changed(st),
         NEW k \in Key, NEW o \in Obj, Open(mem, k, o)'
  PROVE  \/ k = cur.key /\ o = cur.obj /\ st \in {"pending", "unknown"}
         \/ Open(mem, k, o) /\ ~(k = cur.key /\ o = cur.obj)
  <1>1. CASE k # cur.key
    BY <1>1, Zenon DEF Changed, Open
  <1>2. CASE k = cur.key
    BY <1>2, NoneAssumption, Zenon DEF Changed, Open
  <1>. QED
    BY <1>1, <1>2, Zenon

LEMMA EntryWritten ==
  ASSUME Shape, cur.key \in Key, mem.receipts[cur.key] \in ReceiptRec, cur.obj \in Objects(Receipt.ep),
         kernel' \in {kernel, [kernel EXCEPT ![Entry] = None], [kernel EXCEPT ![Entry] = MyEntry]}
  PROVE  /\ Foreigners' /\ kernel' = [s \in Slots |-> kernel'[s]]
         /\ \A t \in Slots : t # Entry => kernel'[t] = kernel[t]
  <1>0. Entry \in Slots /\ kernel = [s \in Slots |-> kernel[s]]
    BY DEF Shape, Types, Receipt, ReceiptRec, Entry, Slots
  <1>1. CASE kernel' = kernel
    BY <1>0, <1>1, ForeignLeft, Zenon
  <1>2. CASE kernel' = [kernel EXCEPT ![Entry] = None]
    <2>1. kernel' = [t \in Slots |-> IF t = Entry THEN None ELSE kernel[t]]
      BY <1>0, <1>2, Zenon
    <2>. QED
      BY <2>1, Zenon DEF Shape, Foreigners
  <1>3. CASE kernel' = [kernel EXCEPT ![Entry] = MyEntry]
    <2>1. kernel' = [t \in Slots |-> IF t = Entry THEN MyEntry ELSE kernel[t]]
      BY <1>0, <1>3, Zenon
    <2>2. MyEntry.mine = TRUE
      BY DEF MyEntry
    <2>. QED
      BY <2>1, <2>2, Zenon DEF Shape, Foreigners
  <1>. QED
    BY <1>1, <1>2, <1>3, Zenon

LEMMA AfterDeleteShape ==
  ASSUME Shape, pc \in {"delete", "delete-ack"}, AfterDelete, mem'.receipts[cur.key] \in ReceiptRec
  PROVE  /\ Working' /\ cur' \in [key : Key \cup {None}, obj : Obj]
         /\ pc' \in {"delete", "withdrawn"} /\ Serving /\ Serving' /\ ~Applies'
  <1>1. cur \in [key : Key \cup {None}, obj : Obj] /\ cur.key \in Key
    BY Zenon DEF Shape, Types, Working, Deletes
  <1>2. cur' \in [key : Key \cup {None}, obj : Obj] /\ cur'.key = cur.key
    BY <1>1, Zenon DEF AfterDelete
  <1>3. pc' \in {"delete", "withdrawn"}
    BY Zenon DEF AfterDelete
  <1>4. Serving /\ Serving' /\ ~Applies'
    BY <1>3, Zenon DEF Serving, Applies, Saving, Adds
  <1>5. Working'
    BY <1>1, <1>2, <1>3, Zenon DEF Working, Saving, Adds, Deletes
  <1>. QED
    BY <1>2, <1>3, <1>4, <1>5, Zenon

LEMMA DeleteUnconfirmedShape == ASSUME Shape, DeleteUnconfirmed PROVE Shape'
  <1>0. /\ pc = "delete" /\ UNCHANGED <<rib, kernel, dev, disk, active, epoch, todo, UseRecovery>>
        /\ cur.key \in Key /\ cur.obj \in Obj /\ mem.receipts[cur.key] \in ReceiptRec
    BY Zenon DEF DeleteUnconfirmed, envVars, budgets, store, routeVars, Shape, Types, Working
  <1>a. pc \notin Intending /\ (UseRecovery => \A k \in Key, o \in Obj : Open(mem, k, o) => disk.pending # None)
    BY <1>0, Zenon DEF Shape, MemShape, SettledMem, Intending, Adds, Deletes
  <1>b. "delete" \notin Intending /\ "withdrawn" \notin Intending
    BY Zenon DEF Intending, Adds, Deletes
  <1>1. CASE AfterDelete /\ UNCHANGED mem
    <2>1. /\ Working' /\ cur' \in [key : Key \cup {None}, obj : Obj]
          /\ pc' \in {"delete", "withdrawn"} /\ Serving /\ Serving' /\ ~Applies'
      BY <1>0, <1>1, AfterDeleteShape, Zenon
    <2>2. UseRecovery => SettledMem'
      BY <1>0, <1>1, <1>a, <1>b, <2>1, Zenon DEF SettledMem, Open
    <2>3. DiskShape' /\ Foreigners' /\ kernel' = [s \in Slots |-> kernel'[s]]
          /\ disk' \in [bound : {disk'.bound}, state : StateRec \cup {None}, quarantine : BOOLEAN, pending : Intents \cup {None}]
      BY <1>0, DiskLeft, ForeignLeft, Zenon DEF Shape, Types
    <2>. QED
      BY <1>0, <1>1, <2>1, <2>2, <2>3, SteadyShape, Zenon
  <1>2. CASE SetStatus("absent") /\ AfterDelete
    <2>1. "absent" \in ObjStatus /\ "absent" \notin {"pending", "unknown"} /\ Changed("absent")
      BY <1>0, <1>2, SetStatusChanges, Zenon DEF ObjStatus, Shape
    <2>2. /\ Working' /\ cur' \in [key : Key \cup {None}, obj : Obj]
          /\ pc' \in {"delete", "withdrawn"} /\ Serving /\ Serving' /\ ~Applies'
      BY <1>0, <1>2, <2>1, AfterDeleteShape, Zenon DEF Changed
    <2>3. UseRecovery => SettledMem'
      <3>1. ASSUME NEW k \in Key, NEW o \in Obj, Open(mem, k, o)' PROVE Open(mem, k, o)
        BY <1>0, <2>1, <3>1, StatusOpens, Zenon
      <3>. QED
        BY <1>0, <1>a, <1>b, <2>2, <3>1, Zenon DEF SettledMem
    <2>4. DiskShape' /\ Foreigners' /\ kernel' = [s \in Slots |-> kernel'[s]]
          /\ disk' \in [bound : {disk'.bound}, state : StateRec \cup {None}, quarantine : BOOLEAN, pending : Intents \cup {None}]
      BY <1>0, DiskLeft, ForeignLeft, Zenon DEF Shape, Types
    <2>. QED
      BY <1>0, <1>2, <2>1, <2>2, <2>3, <2>4, StatusShape, Zenon
  <1>3. CASE pc' \in {"blocked", "idle"} /\ UNCHANGED <<mem, cur>>
    BY <1>0, <1>3, QuietShape, Zenon DEF Shape, Types, Resting, Serving, Saving
  <1>. QED
    BY <1>1, <1>2, <1>3, Zenon DEF DeleteUnconfirmed

LEMMA DeleteBeginShape == ASSUME Shape, DeleteBegin, UNCHANGED UseRecovery PROVE Shape'
  <1>. DEFINE i == [op |-> "delete", slot |-> Entry]
  <1>0. /\ pc = "delete" /\ UNCHANGED <<rib, kernel, dev, mem, active, epoch, todo, cur>>
        /\ cur.key \in Key /\ mem.receipts[cur.key] \in ReceiptRec /\ cur.obj \in Objects(Receipt.ep)
    BY Zenon DEF DeleteBegin, Intend, Persist, Block, Stay, envVars, routeVars, Shape, Working
  <1>1. i \in Intents
    <2>1. Entry \in Slots
      BY <1>0 DEF Receipt, ReceiptRec, Entry, Slots
    <2>. QED
      BY <2>1, Zenon DEF Intents
  <1>. HIDE DEF i
  <1>2. CASE /\ pc' = "blocked"
             /\ disk' = disk \/ (UseRecovery /\ disk.pending = None /\ disk' \in {disk, [disk EXCEPT !.pending = i]})
    BY <1>0, <1>1, <1>2, BeginFailsShape, Zenon
  <1>3. CASE /\ pc' = "delete-read" /\ disk' = (IF UseRecovery THEN [disk EXCEPT !.pending = i] ELSE disk)
             /\ disk.pending = None \/ ~UseRecovery
    <2>1. /\ DiskShape' /\ Foreigners' /\ kernel' = [s \in Slots |-> kernel'[s]]
          /\ disk' \in [bound : {disk'.bound}, state : StateRec \cup {None}, quarantine : BOOLEAN, pending : Intents \cup {None}]
      BY <1>0, <1>1, <1>3, DiskBegun, ForeignLeft, Zenon DEF Shape, Types
    <2>2. Working'
      BY <1>0, <1>3, Zenon DEF Working, Saving, Adds, Deletes, Receipt
    <2>3. UseRecovery => SettledMem'
      BY <1>0, <1>3, Zenon DEF Shape, MemShape, SettledMem, Open, Intending, Adds, Deletes
    <2>4. (Serving' <=> Serving) /\ (Applies' => Applies)
      BY <1>0, <1>3, Zenon DEF Serving, Applies, Saving, Adds
    <2>. QED
      BY <1>0, <1>3, <2>1, <2>2, <2>3, <2>4, SteadyShape, Zenon DEF Shape, Types
  <1>. QED
    BY <1>2, <1>3, Zenon DEF DeleteBegin, Intend, Persist, Block, i

LEMMA DeleteReadShape == ASSUME Shape, DeleteRead PROVE Shape'
  <1>0. /\ pc = "delete-read" /\ UNCHANGED <<rib, kernel, dev, disk, mem, active, epoch, todo, cur, UseRecovery>>
        /\ cur.key \in Key /\ mem.receipts[cur.key] \in ReceiptRec /\ cur.obj \in Objects(Receipt.ep)
    BY Zenon DEF DeleteRead, Block, Stay, budgets, store, routeVars, Shape, Working, Deletes
  <1>1. CASE pc' = "blocked"
    BY <1>0, <1>1, QuietShape, Zenon DEF Shape, Types, Resting, Serving, Saving
  <1>2. CASE pc' = "delete-send"
    <2>1. /\ DiskShape' /\ Foreigners' /\ kernel' = [s \in Slots |-> kernel'[s]]
          /\ cur' \in [key : Key \cup {None}, obj : Obj]
          /\ disk' \in [bound : {disk'.bound}, state : StateRec \cup {None}, quarantine : BOOLEAN, pending : Intents \cup {None}]
      BY <1>0, DiskLeft, ForeignLeft, Zenon DEF Shape, Types
    <2>2. Working'
      BY <1>0, <1>2, Zenon DEF Working, Saving, Adds, Deletes, Receipt
    <2>3. UseRecovery => SettledMem'
      BY <1>0, <1>2, Zenon DEF Shape, MemShape, SettledMem, Open, Intending, Adds, Deletes
    <2>4. (Serving' <=> Serving) /\ (Applies' => Applies)
      BY <1>0, <1>2, Zenon DEF Serving, Applies, Saving, Adds
    <2>. QED
      BY <1>0, <1>2, <2>1, <2>2, <2>3, <2>4, SteadyShape, Zenon
  <1>. QED
    BY <1>1, <1>2, Zenon DEF DeleteRead, Block

LEMMA DeleteSendShape == ASSUME Shape, DeleteSend, UNCHANGED UseRecovery PROVE Shape'
  <1>0. /\ pc = "delete-send" /\ UNCHANGED <<rib, dev, disk, active, epoch, todo, cur>>
        /\ cur.key \in Key /\ mem.receipts[cur.key] \in ReceiptRec /\ cur.obj \in Objects(Receipt.ep)
    BY Zenon DEF DeleteSend, Block, Stay, store, routeVars, Shape, Working, Deletes
  <1>1. /\ DiskShape' /\ cur' \in [key : Key \cup {None}, obj : Obj]
        /\ disk' \in [bound : {disk'.bound}, state : StateRec \cup {None}, quarantine : BOOLEAN, pending : Intents \cup {None}]
    BY <1>0, DiskLeft, Zenon DEF Shape, Types
  <1>2. CASE kernel' = kernel /\ mem' = mem /\ pc' \in {"blocked", "idle"}
    BY <1>0, <1>2, QuietShape, Zenon DEF Shape, Types, Resting, Serving, Saving
  <1>3. CASE kernel' \in {kernel, [kernel EXCEPT ![Entry] = None]}
    <2>0. Foreigners' /\ kernel' = [s \in Slots |-> kernel'[s]]
      BY <1>0, <1>3, EntryWritten, Zenon
    <2>1. CASE pc' = "delete-confirm" /\ mem' = mem
      <3>1. Working'
        BY <1>0, <2>1, Zenon DEF Working, Saving, Adds, Deletes, Receipt
      <3>2. UseRecovery => SettledMem'
        BY <1>0, <2>1, Zenon DEF Shape, MemShape, SettledMem, Open, Intending, Adds, Deletes
      <3>3. (Serving' <=> Serving) /\ (Applies' => Applies)
        BY <1>0, <2>1, Zenon DEF Serving, Applies, Saving, Adds
      <3>. QED
        BY <1>0, <1>1, <2>0, <2>1, <3>1, <3>2, <3>3, SteadyShape, Zenon
    <2>2. CASE pc' = "blocked" /\ SetStatus("unknown")
      <3>1. Working' /\ SettledMem' /\ Serving /\ ~Applies' /\ "unknown" \in ObjStatus
        BY <1>0, <2>2, Zenon DEF Working, SettledMem, Serving, Applies, Saving, Adds, Deletes, ObjStatus
      <3>. QED
        BY <1>0, <1>1, <2>0, <2>2, <3>1, StatusShape, Zenon
    <2>. QED
      BY <1>2, <2>1, <2>2, Zenon DEF DeleteSend, Block
  <1>. QED
    BY <1>2, <1>3, Zenon DEF DeleteSend, Block

LEMMA DeleteConfirmShape == ASSUME Shape, DeleteConfirm PROVE Shape'
  <1>0. /\ pc = "delete-confirm" /\ UNCHANGED <<rib, kernel, dev, disk, active, epoch, todo, cur, UseRecovery>>
        /\ cur.key \in Key /\ mem.receipts[cur.key] \in ReceiptRec /\ cur.obj \in Objects(Receipt.ep)
    BY Zenon DEF DeleteConfirm, Stay, envVars, budgets, store, routeVars, Shape, Working, Deletes
  <1>1. /\ DiskShape' /\ Foreigners' /\ kernel' = [s \in Slots |-> kernel'[s]] /\ cur' \in [key : Key \cup {None}, obj : Obj]
        /\ disk' \in [bound : {disk'.bound}, state : StateRec \cup {None}, quarantine : BOOLEAN, pending : Intents \cup {None}]
    BY <1>0, DiskLeft, ForeignLeft, Zenon DEF Shape, Types
  <1>2. CASE pc' = "blocked" /\ SetStatus("unknown")
    <2>1. Working' /\ SettledMem' /\ Serving /\ ~Applies' /\ "unknown" \in ObjStatus
      BY <1>0, <1>2, Zenon DEF Working, SettledMem, Serving, Applies, Saving, Adds, Deletes, ObjStatus
    <2>. QED
      BY <1>0, <1>1, <1>2, <2>1, StatusShape, Zenon
  <1>3. CASE pc' = "delete-ack" /\ SetStatus("absent")
    <2>1. "absent" \in ObjStatus /\ "absent" \notin {"pending", "unknown"} /\ Changed("absent")
      BY <1>0, <1>3, SetStatusChanges, Zenon DEF ObjStatus, Shape
    <2>2. Working' /\ Serving /\ Serving' /\ ~Applies'
      BY <1>0, <1>3, <2>1, Zenon DEF Working, Serving, Applies, Saving, Adds, Deletes, Receipt, Changed
    <2>3. UseRecovery => SettledMem'
      <3>1. ASSUME NEW k \in Key, NEW o \in Obj, Open(mem, k, o)' PROVE Open(mem, k, o)
        BY <1>0, <2>1, <3>1, StatusOpens, Zenon
      <3>2. UseRecovery => \A k \in Key, o \in Obj : ~Open(mem, k, o)
        BY <1>0, Zenon DEF Shape, MemShape, SettledMem, Intending, Deletes
      <3>. QED
        BY <3>1, <3>2, Zenon DEF SettledMem
    <2>. QED
      BY <1>0, <1>1, <1>3, <2>1, <2>2, <2>3, StatusShape, Zenon
  <1>. QED
    BY <1>2, <1>3, Zenon DEF DeleteConfirm

LEMMA DeleteAckShape == ASSUME Shape, DeleteAck, UNCHANGED UseRecovery PROVE Shape'
  <1>0. /\ pc = "delete-ack" /\ UNCHANGED <<rib, kernel, dev, mem, active, epoch, todo>>
        /\ cur.key \in Key /\ mem.receipts[cur.key] \in ReceiptRec
    BY Zenon DEF DeleteAck, Acknowledge, Persist, Block, envVars, routeVars, Shape, Working, Deletes
  <1>1. UseRecovery => \A k \in Key, o \in Obj : ~Open(mem, k, o)
    BY <1>0, Zenon DEF Shape, MemShape, SettledMem, Intending, Deletes
  <1>2. CASE pc' = "blocked" /\ UseRecovery /\ disk' \in {disk, [disk EXCEPT !.pending = None, !.state = mem]} /\ UNCHANGED cur
    BY <1>0, <1>1, <1>2, AckFailsShape, Zenon
  <1>3. CASE AfterDelete /\ disk' = (IF UseRecovery THEN [disk EXCEPT !.pending = None, !.state = mem] ELSE disk)
    <2>1. /\ DiskShape' /\ Foreigners' /\ kernel' = [s \in Slots |-> kernel'[s]]
          /\ disk' \in [bound : {disk'.bound}, state : StateRec \cup {None}, quarantine : BOOLEAN, pending : Intents \cup {None}]
      BY <1>0, <1>1, <1>3, DiskAcknowledged, ForeignLeft, Zenon DEF Shape, Types
    <2>2. /\ Working' /\ cur' \in [key : Key \cup {None}, obj : Obj]
          /\ pc' \in {"delete", "withdrawn"} /\ Serving /\ Serving' /\ ~Applies'
      BY <1>0, <1>3, AfterDeleteShape, Zenon
    <2>3. UseRecovery => SettledMem'
      BY <1>0, <1>1, Zenon DEF SettledMem, Open
    <2>. QED
      BY <1>0, <2>1, <2>2, <2>3, SteadyShape, Zenon
  <1>. QED
    BY <1>2, <1>3, Zenon DEF DeleteAck, Acknowledge, Persist, Block

LEMMA WithdrawnShape == ASSUME Shape, Withdrawn PROVE Shape'
  <1>0. /\ pc = "withdrawn" /\ UNCHANGED <<rib, kernel, dev, disk, epoch, todo, UseRecovery>>
        /\ pc' = "checkpoint" /\ next' = "withdraw" /\ cur' = NoWork
        /\ cur.key \in Key /\ mem \in StateRec /\ active' = [active EXCEPT ![cur.key] = None]
    BY Zenon DEF Withdrawn, Checkpoint, envVars, budgets, store, Shape, Types, Working
  <1>. DEFINE rs == [mem.receipts EXCEPT ![cur.key] = None]
  <1>1. mem' = [mem EXCEPT !.receipts = rs]
    BY Zenon DEF Withdrawn
  <1>2. /\ rs \in [Key -> ReceiptRec \cup {None}] /\ rs[cur.key] = None
        /\ \A k \in Key : k # cur.key => rs[k] = mem.receipts[k]
    BY <1>0, Zenon DEF StateRec
  <1>. HIDE DEF rs
  <1>3. mem' \in StateRec /\ mem'.receipts = rs /\ mem'.eps = mem.eps /\ mem'.gen = mem.gen /\ mem'.latest = mem.latest
    BY <1>0, <1>1, <1>2, Zenon DEF StateRec
  <1>4. /\ active' \in [Key -> RouteRec \cup {None}] /\ active'[cur.key] = None
        /\ \A k \in Key : k # cur.key => active'[k] = active[k]
    BY <1>0, Zenon DEF Shape, Types
  <1>5. Types'
    BY <1>0, <1>3, <1>4, Zenon DEF Shape, Types, NoWork, Obj
  <1>6. Good(mem)'
    <2>1. Refiled
      BY <1>2, <1>3, Zenon DEF Refiled
    <2>. QED
      BY <2>1, RefiledGood, Zenon DEF Shape, MemShape
  <1>7. Routed'
    BY <1>0, <1>3, <1>4, Zenon DEF Shape, MemShape, Routed
  <1>8. Linked'
    <2>1. Serving /\ Serving'
      BY <1>0, Zenon DEF Serving, Saving
    <2>. QED
      BY <1>2, <1>3, <1>4, <2>1, Zenon DEF Shape, MemShape, Linked
  <1>9. UseRecovery => SettledMem'
    <2>1. \A k \in Key, o \in Obj : UseRecovery /\ Open(mem, k, o) => disk.pending # None
      BY <1>0, Zenon DEF Shape, MemShape, SettledMem
    <2>2. pc' \notin Intending
      BY <1>0, Zenon DEF Intending, Adds, Deletes
    <2>. QED
      BY <1>0, <1>2, <1>3, <2>1, <2>2, Zenon DEF SettledMem, Open
  <1>10. Working' /\ Applying'
    BY <1>0, Zenon DEF Working, Applying, Applies, Saving, Adds, Deletes
  <1>. QED
    BY <1>0, <1>5, <1>6, <1>7, <1>8, <1>9, <1>10, DiskLeft, ForeignLeft, Zenon DEF Shape, MemShape

LEMMA WithdrawRouteShape == ASSUME Shape, WithdrawRoute PROVE Shape'
  <1>0. pc = "withdraw" /\ UNCHANGED <<rib, kernel, dev, disk, epoch, todo, UseRecovery>>
    BY Zenon DEF WithdrawRoute, envVars, budgets, store
  <1>1. PICK k \in ToWithdraw :
          /\ active' = [active EXCEPT ![k].retiring = TRUE]
          /\ \/ pc' = "idle" /\ UNCHANGED <<mem, cur>>
             \/ /\ mem.receipts[k] # None
                /\ mem' = [mem EXCEPT !.receipts[k].retiring = TRUE]
                /\ cur' = [key |-> k, obj |-> "nbr"]
                /\ pc' = "checkpoint" /\ next' = "delete"
    BY Zenon DEF WithdrawRoute, Checkpoint, FirstToDelete
  <1>2. k \in Key /\ active[k] \in RouteRec /\ active[k] # None
    BY DEF ToWithdraw, Shape, Types
  <1>3. /\ active' \in [Key -> RouteRec \cup {None}] /\ \A j \in Key : active'[j] = None <=> active[j] = None
        /\ \A j \in Key : active[j] # None =>
             active'[j].ep = active[j].ep /\ active'[j].inc = active[j].inc /\ active'[j].gen = active[j].gen
    <2>. DEFINE r == [active[k] EXCEPT !.retiring = TRUE]
    <2>1. r \in RouteRec /\ r.ep = active[k].ep /\ r.inc = active[k].inc /\ r.gen = active[k].gen
      BY <1>2, Zenon DEF RouteRec
    <2>2. active' = [active EXCEPT ![k] = r] /\ r # None
      BY <1>1, <2>1, NoneAssumption, Zenon
    <2>. HIDE DEF r
    <2>3. active' \in [Key -> RouteRec \cup {None}] /\ active'[k] = r /\ \A j \in Key : j # k => active'[j] = active[j]
      BY <1>2, <2>1, <2>2, Zenon DEF Shape, Types
    <2>. QED
      BY <1>2, <2>1, <2>2, <2>3, Zenon
  <1>4. \A j \in Key, o \in Obj : UseRecovery /\ Open(mem, j, o) => disk.pending # None
    BY <1>0, Zenon DEF Shape, MemShape, SettledMem
  <1>5. Serving /\ \A j \in Key : mem.receipts[j] # None => active[j] # None /\ active[j].ep = mem.receipts[j].ep
    BY <1>0, Zenon DEF Shape, MemShape, Linked, Serving, Saving
  <1>6. CASE pc' = "idle" /\ UNCHANGED <<mem, cur>>
    <2>1. Types'
      BY <1>0, <1>3, <1>6, Zenon DEF Shape, Types
    <2>2. Good(mem)' /\ Routed'
      BY <1>0, <1>3, <1>6, Zenon DEF Shape, MemShape, Routed, Good, Filed, Apart
    <2>3. Linked'
      BY <1>3, <1>5, <1>6, Zenon DEF Linked, Serving, Saving
    <2>4. UseRecovery' => SettledMem'
      BY <1>0, <1>4, <1>6, Zenon DEF SettledMem, Open, Intending, Adds, Deletes
    <2>. QED
      BY <1>0, <1>6, <2>1, <2>2, <2>3, <2>4, DiskLeft, ForeignLeft, RestShape, Zenon DEF Resting
  <1>7. CASE /\ mem.receipts[k] # None
             /\ mem' = [mem EXCEPT !.receipts[k].retiring = TRUE]
             /\ cur' = [key |-> k, obj |-> "nbr"]
             /\ pc' = "checkpoint" /\ next' = "delete"
    <2>. DEFINE r == [mem.receipts[k] EXCEPT !.retiring = TRUE]
                rs == [mem.receipts EXCEPT ![k] = r]
    <2>1. mem \in StateRec /\ mem.receipts[k] \in ReceiptRec
      BY <1>2, <1>7, Zenon DEF Shape, Types, StateRec
    <2>2. /\ r \in ReceiptRec /\ r.ep = mem.receipts[k].ep /\ r.obj = mem.receipts[k].obj
          /\ r.inc = mem.receipts[k].inc /\ r.gen = mem.receipts[k].gen
      BY <2>1, Zenon DEF ReceiptRec
    <2>3. mem' = [mem EXCEPT !.receipts = rs]
      BY <1>7
    <2>. HIDE DEF r
    <2>4. rs \in [Key -> ReceiptRec \cup {None}] /\ rs[k] = r /\ \A j \in Key : j # k => rs[j] = mem.receipts[j]
      BY <1>2, <2>1, <2>2, Zenon DEF StateRec
    <2>. HIDE DEF rs
    <2>5. mem' \in StateRec /\ mem'.receipts = rs /\ mem'.eps = mem.eps /\ mem'.gen = mem.gen /\ mem'.latest = mem.latest
      BY <2>1, <2>3, <2>4, Zenon DEF StateRec
    <2>6. Types'
      BY <1>0, <1>2, <1>3, <1>7, <2>5, Zenon DEF Shape, Types, Obj
    <2>7. \A j \in Key : mem'.receipts[j] # None =>
            /\ mem.receipts[j] # None /\ mem'.receipts[j].ep = mem.receipts[j].ep /\ mem'.receipts[j].obj = mem.receipts[j].obj
            /\ mem'.receipts[j].inc = mem.receipts[j].inc /\ mem'.receipts[j].gen = mem.receipts[j].gen
      BY <1>7, <2>2, <2>4, <2>5, Zenon
    <2>8. Good(mem)'
      <3>1. Refiled
        BY <2>5, <2>7, Zenon DEF Refiled
      <3>. QED
        BY <3>1, RefiledGood, Zenon DEF Shape, MemShape
    <2>9. Routed'
      BY <1>0, <1>3, <2>5, Zenon DEF Shape, MemShape, Routed
    <2>10. Linked'
      <3>1. Serving'
        BY <1>7, Zenon DEF Serving, Saving
      <3>2. \A j \in Key : mem'.receipts[j] # None => active'[j] # None /\ active'[j].ep = mem'.receipts[j].ep
        BY <1>3, <1>5, <2>7, Zenon
      <3>. QED
        BY <3>1, <3>2, Zenon DEF Linked
    <2>11. UseRecovery' => SettledMem'
      BY <1>0, <1>4, <1>7, <2>7, Zenon DEF SettledMem, Open, Intending, Adds, Deletes
    <2>12. Working' /\ Applying'
      BY <1>2, <1>7, <2>2, <2>4, <2>5, Zenon DEF Working, Applying, Applies, Adds, Deletes, Saving
    <2>. QED
      BY <1>0, <2>6, <2>8, <2>9, <2>10, <2>11, <2>12, DiskLeft, ForeignLeft, Zenon DEF Shape, MemShape
  <1>. QED
    BY <1>1, <1>6, <1>7, Zenon

LEMMA WithdrawTimesOutShape == ASSUME Shape, WithdrawTimesOut PROVE Shape'
  <1>0. pc = "withdraw" /\ pc' = "idle" /\ UNCHANGED <<rib, kernel, dev, disk, mem, cur, epoch, todo, UseRecovery>>
    BY Zenon DEF WithdrawTimesOut, envVars, store
  <1>1. PICK k \in ToWithdraw : active' = [active EXCEPT ![k].retiring = TRUE]
    BY Zenon DEF WithdrawTimesOut
  <1>2. k \in Key /\ active[k] \in RouteRec /\ active[k] # None
    BY DEF ToWithdraw, Shape, Types
  <1>3. /\ active' \in [Key -> RouteRec \cup {None}] /\ \A j \in Key : active'[j] = None <=> active[j] = None
        /\ \A j \in Key : active[j] # None =>
             active'[j].ep = active[j].ep /\ active'[j].inc = active[j].inc /\ active'[j].gen = active[j].gen
    <2>. DEFINE r == [active[k] EXCEPT !.retiring = TRUE]
    <2>1. r \in RouteRec /\ r.ep = active[k].ep /\ r.inc = active[k].inc /\ r.gen = active[k].gen
      BY <1>2, Zenon DEF RouteRec
    <2>2. active' = [active EXCEPT ![k] = r] /\ r # None
      BY <1>1, <2>1, NoneAssumption, Zenon
    <2>. HIDE DEF r
    <2>3. active' \in [Key -> RouteRec \cup {None}] /\ active'[k] = r /\ \A j \in Key : j # k => active'[j] = active[j]
      BY <1>2, <2>1, <2>2, Zenon DEF Shape, Types
    <2>. QED
      BY <1>2, <2>1, <2>2, <2>3, Zenon
  <1>4. Types'
    BY <1>0, <1>3, Zenon DEF Shape, Types
  <1>5. Good(mem)' /\ Routed'
    BY <1>0, <1>3, Zenon DEF Shape, MemShape, Routed, Good, Filed, Apart
  <1>6. Linked'
    BY <1>0, <1>3, Zenon DEF Shape, MemShape, Linked, Serving, Saving
  <1>7. UseRecovery' => SettledMem'
    BY <1>0, Zenon DEF Shape, MemShape, SettledMem, Open, Intending, Adds, Deletes
  <1>. QED
    BY <1>0, <1>4, <1>5, <1>6, <1>7, DiskLeft, ForeignLeft, RestShape, Zenon DEF Resting

LEMMA NothingToWithdrawShape == ASSUME Shape, NothingToWithdraw PROVE Shape'
  <1>0. /\ UNCHANGED <<rib, kernel, dev, disk, mem, active, epoch, cur, UseRecovery>> /\ pc = "withdraw" /\ pc' = "apply"
        /\ todo' = { KeyOf(e) : e \in mem.eps } /\ ToWithdraw = {}
    BY DEF NothingToWithdraw, envVars, budgets, store
  <1>1. Types'
    BY <1>0, Zenon DEF Shape, Types
  <1>2. Working'
    BY <1>0, Zenon DEF Working, Adds, Deletes, Saving
  <1>3. Good(mem)' /\ Routed'
    <2>1. mem.eps \subseteq Endpoint
      BY Zenon DEF Shape, Types, StateRec
    <2>2. todo' \subseteq Key
      BY <1>0, <2>1, Zenon DEF Key
    <2>. QED
      BY <1>0, <2>2, Zenon DEF Shape, MemShape, Routed, Good, Filed, Apart
  <1>4. Linked'
    BY <1>0, Zenon DEF Shape, MemShape, Linked, Serving, Saving
  <1>5. Applying'
    BY <1>0, Zenon DEF Applying, ToWithdraw, Current
  <1>6. UseRecovery => SettledMem'
    BY <1>0, Zenon DEF Shape, MemShape, SettledMem, Open, Intending, Adds, Deletes
  <1>. QED
    BY <1>0, <1>1, <1>2, <1>3, <1>4, <1>5, <1>6, DiskLeft, ForeignLeft, Zenon DEF Shape, MemShape

\* Two endpoints of a snapshot share no kernel slot.
LEMMA SnapshotDisjoint ==
  ASSUME NEW S \in Snapshots, NEW e \in S, NEW f \in S, KeyOf(e) # KeyOf(f)
  PROVE  Disjoint(e, f)
  <1>1. e.mac # f.mac /\ (e.ip = NoIP \/ e.ip # f.ip)
    BY ImporterAssumption, Zenon
  <1>2. \A o \in Obj, p \in Obj : Slot(e, o) = Slot(f, p) => o = p
    BY Zenon DEF Slot, Obj
  <1>3. Slot(e, "fdb") # Slot(f, "fdb")
    BY <1>1, Zenon DEF Slot
  <1>4. "nbr" \in Objects(e) => Slot(e, "nbr") # Slot(f, "nbr")
    BY <1>1, Zenon DEF Slot, Objects
  <1>. QED
    BY <1>2, <1>3, <1>4, Zenon DEF Disjoint, Objects, Obj

\* The route of a desired key, new or retained.
LEMMA RouteGood ==
  ASSUME Shape, pc = "apply", NEW k \in todo, Activate(k)
  PROVE  /\ k \in Key /\ Route(k) \in RouteRec /\ Route(k).ep \in mem.eps /\ KeyOf(Route(k).ep) = k
         /\ Route(k).inc # 0 /\ Route(k).gen # 0 /\ Route(k).gen <= mem.gen
         /\ mem.eps \in Snapshots
         /\ active' \in [Key -> RouteRec \cup {None}] /\ epoch' \in Nat
         /\ active'[k] = Route(k) /\ \A j \in Key : j # k => active'[j] = active[j]
  <1>1. /\ k \in { KeyOf(e) : e \in mem.eps } /\ mem.eps \subseteq Endpoint /\ mem.gen \in Nat /\ epoch \in Nat
        /\ active \in [Key -> RouteRec \cup {None}]
    BY Zenon DEF Shape, Working, Types, StateRec
  <1>2. k \in Key
    BY <1>1, Zenon DEF Key
  <1>3. Wanted(k) \in mem.eps /\ KeyOf(Wanted(k)) = k
    BY <1>1, Zenon DEF Wanted
  <1>4. mem.eps \in Snapshots /\ mem.gen # 0
    BY <1>3, Zenon DEF Shape, MemShape, Good, Filed
  <1>5. CASE active[k] = None
    <2>1. /\ NewRoute(k) \in RouteRec /\ NewRoute(k).ep = Wanted(k) /\ NewRoute(k).inc # 0
          /\ NewRoute(k).gen = mem.gen /\ mem.gen <= mem.gen
      BY <1>1, <1>3 DEF NewRoute, RouteRec
    <2>2. Route(k) = NewRoute(k)
      BY <1>5, Zenon DEF Route
    <2>3. active' = [active EXCEPT ![k] = NewRoute(k)] /\ epoch' \in Nat
      BY <1>1, <1>5, <2>2 DEF Activate
    <2>. HIDE DEF NewRoute
    <2>4. /\ active' \in [Key -> RouteRec \cup {None}] /\ active'[k] = NewRoute(k)
          /\ \A j \in Key : j # k => active'[j] = active[j]
      BY <1>1, <1>2, <2>1, <2>3, Zenon
    <2>. QED
      BY <1>2, <1>3, <1>4, <2>1, <2>2, <2>3, <2>4, Zenon
  <1>6. CASE active[k] # None
    <2>1. Route(k) = active[k] /\ active[k] \in RouteRec
      BY <1>1, <1>2, <1>6, Zenon DEF Route
    <2>2. active' = active /\ epoch' = epoch
      BY <1>1, <1>2, <1>6, <2>1, Zenon DEF Activate
    <2>3. active[k].ep \in mem.eps
      BY <1>2, <1>6, Zenon DEF Shape, MemShape, Applying, Applies
    <2>. QED
      BY <1>1, <1>2, <1>4, <1>6, <2>1, <2>2, <2>3, Zenon DEF Shape, MemShape, Routed
  <1>. QED
    BY <1>5, <1>6, Zenon

\* A route is activated: the routes are those of the snapshot.
LEMMA ActivatedShape ==
  ASSUME Shape, pc = "apply", NEW k \in todo, Activate(k), todo' \subseteq todo, mem'.gen = mem.gen, mem'.eps = mem.eps
  PROVE  Routed' /\ Applying'
  <1>1. /\ k \in Key /\ Route(k).ep \in mem.eps /\ KeyOf(Route(k).ep) = k
        /\ Route(k).inc # 0 /\ Route(k).gen # 0 /\ Route(k).gen <= mem.gen
        /\ active'[k] = Route(k) /\ \A j \in Key : j # k => active'[j] = active[j]
    BY RouteGood, Zenon
  <1>2. Routed'
    BY <1>1, Zenon DEF Shape, MemShape, Routed
  <1>3. Applying'
    BY <1>1, Zenon DEF Shape, MemShape, Applying, Applies
  <1>. QED
    BY <1>2, <1>3, Zenon

LEMMA ApplyTimesOutShape == ASSUME Shape, ApplyTimesOut PROVE Shape'
  <1>0. /\ pc = "apply" /\ pc' = "idle" /\ todo' = {}
        /\ UNCHANGED <<rib, kernel, dev, disk, mem, cur, UseRecovery>>
    BY Zenon DEF ApplyTimesOut, envVars, store
  <1>1. PICK k \in todo : Activate(k)
    BY Zenon DEF ApplyTimesOut
  <1>2. /\ active' \in [Key -> RouteRec \cup {None}] /\ epoch' \in Nat /\ Route(k) \in RouteRec
        /\ active'[k] = Route(k) /\ \A j \in Key : j # k => active'[j] = active[j]
    BY <1>0, <1>1, RouteGood, Zenon
  <1>3. Types'
    BY <1>0, <1>2, Zenon DEF Shape, Types
  <1>4. Good(mem)' /\ Routed'
    BY <1>0, <1>1, ActivatedShape, Zenon DEF Shape, MemShape, Good, Filed, Apart
  <1>5. Linked'
    <2>1. Serving /\ Serving'
      BY <1>0, Zenon DEF Serving, Saving
    <2>2. mem.receipts[k] # None => Route(k) = active[k]
      BY <1>0, <1>1, <2>1, RouteGood, Zenon DEF Shape, MemShape, Linked, Route
    <2>. QED
      BY <1>0, <1>2, <2>1, <2>2, Zenon DEF Shape, MemShape, Linked
  <1>6. UseRecovery' => SettledMem'
    BY <1>0, Zenon DEF Shape, MemShape, SettledMem, Open, Intending, Adds, Deletes
  <1>. QED
    BY <1>0, <1>3, <1>4, <1>5, <1>6, DiskLeft, ForeignLeft, RestShape, Zenon DEF Resting

LEMMA ApplyRouteShape == ASSUME Shape, ApplyRoute PROVE Shape'
  <1>0. pc = "apply" /\ UNCHANGED <<rib, kernel, dev, disk, next, UseRecovery>> /\ mem \in StateRec
    BY Zenon DEF ApplyRoute, envVars, budgets, store, Shape, Types
  <1>1. PICK k \in todo :
          /\ Activate(k) /\ todo' = todo \ {k}
          /\ \/ pc' = "idle" /\ UNCHANGED <<mem, cur>>
             \/ /\ mem' = IF mem.receipts[k] # None THEN mem
                          ELSE [mem EXCEPT !.receipts[k] = NewReceipt(Route(k)), !.latest[k] = Route(k).inc]
                /\ cur' = [key |-> k, obj |-> "fdb"] /\ pc' = "add"
    BY Zenon DEF ApplyRoute
  <1>2. /\ k \in Key /\ Route(k) \in RouteRec /\ Route(k).ep \in mem.eps /\ KeyOf(Route(k).ep) = k
        /\ Route(k).inc # 0 /\ Route(k).gen # 0 /\ Route(k).gen <= mem.gen /\ mem.eps \in Snapshots
        /\ active' \in [Key -> RouteRec \cup {None}] /\ epoch' \in Nat
        /\ active'[k] = Route(k) /\ \A j \in Key : j # k => active'[j] = active[j]
    BY <1>0, <1>1, RouteGood, Zenon
  <1>3. Serving /\ Applies
    BY <1>0, Zenon DEF Serving, Applies, Saving
  <1>4. \A j \in Key : mem.receipts[j] # None =>
          /\ active'[j] # None /\ active'[j].ep = mem.receipts[j].ep
          /\ active[j] # None /\ active[j].ep = mem.receipts[j].ep /\ active[j].ep \in mem.eps
    <2>1. \A j \in Key : mem.receipts[j] # None =>
            active[j] # None /\ active[j].ep = mem.receipts[j].ep /\ active[j].ep \in mem.eps
      BY <1>3, Zenon DEF Shape, MemShape, Linked, Applying
    <2>2. mem.receipts[k] # None => Route(k) = active[k]
      BY <1>2, <2>1, Zenon DEF Route
    <2>. QED
      BY <1>2, <2>1, <2>2, Zenon
  <1>5. \A j \in Key, o \in Obj : UseRecovery /\ Open(mem, j, o) => disk.pending # None
    BY <1>0, Zenon DEF Shape, MemShape, SettledMem
  <1>6. CASE UNCHANGED mem /\ pc' \in {"idle", "add"} /\ cur' \in [key : Key \cup {None}, obj : Obj] /\ Working'
    <2>1. Types'
      BY <1>0, <1>2, <1>6, Zenon DEF Shape, Types
    <2>2. Good(mem)'
      BY <1>6, Zenon DEF Shape, MemShape, Good, Filed, Apart
    <2>3. Routed' /\ Applying'
      BY <1>0, <1>1, <1>6, ActivatedShape, Zenon
    <2>4. Linked'
      <3>1. Serving'
        BY <1>6, Zenon DEF Serving, Saving
      <3>. QED
        BY <1>4, <1>6, <3>1, Zenon DEF Linked
    <2>5. UseRecovery' => SettledMem'
      BY <1>0, <1>5, <1>6, Zenon DEF SettledMem, Open, Intending, Adds, Deletes
    <2>. QED
      BY <1>0, <1>6, <2>1, <2>2, <2>3, <2>4, <2>5, DiskLeft, ForeignLeft, Zenon DEF Shape, MemShape
  <1>7. CASE pc' = "idle" /\ UNCHANGED <<mem, cur>>
    <2>1. Working'
      BY <1>7, Zenon DEF Working, Saving, Adds, Deletes
    <2>. QED
      BY <1>6, <1>7, <2>1, Zenon DEF Shape, Types
  <1>8. CASE mem.receipts[k] # None /\ mem' = mem /\ cur' = [key |-> k, obj |-> "fdb"] /\ pc' = "add"
    <2>1. mem.receipts[k] \in ReceiptRec /\ cur' \in [key : Key \cup {None}, obj : Obj]
      BY <1>0, <1>2, <1>8, Zenon DEF StateRec, Obj
    <2>2. Working'
      BY <1>0, <1>1, <1>2, <1>8, <2>1, Zenon DEF Shape, Working, Receipt, Objects, Obj, Adds, Deletes, Saving
    <2>. QED
      BY <1>6, <1>8, <2>1, <2>2, Zenon
  <1>9. CASE /\ mem.receipts[k] = None /\ cur' = [key |-> k, obj |-> "fdb"] /\ pc' = "add"
             /\ mem' = [mem EXCEPT !.receipts[k] = NewReceipt(Route(k)), !.latest[k] = Route(k).inc]
    <2>. DEFINE r == NewReceipt(Route(k))
                rs == [mem.receipts EXCEPT ![k] = r]
                la == [mem.latest EXCEPT ![k] = Route(k).inc]
    <2>1. /\ r \in ReceiptRec /\ r.ep = Route(k).ep /\ r.inc = Route(k).inc /\ r.gen = Route(k).gen
          /\ \A o \in Obj : r.obj[o] \notin {"pending", "unknown"}
      BY <1>2, Zenon DEF NewReceipt, ReceiptRec, RouteRec, ObjStatus, Obj
    <2>2. r # None /\ Route(k) # None
      BY <1>2, <2>1, NoneAssumption, Zenon
    <2>. HIDE DEF r
    <2>3. /\ rs \in [Key -> ReceiptRec \cup {None}] /\ rs[k] = r
          /\ \A j \in Key : j # k => rs[j] = mem.receipts[j]
      BY <1>0, <1>2, <2>1, Zenon DEF StateRec
    <2>4. la \in [Key -> Nat] /\ la[k] = Route(k).inc /\ \A j \in Key : j # k => la[j] = mem.latest[j]
      BY <1>0, <1>2, Zenon DEF StateRec, RouteRec
    <2>5. mem' = [mem EXCEPT !.receipts = rs, !.latest = la]
      BY <1>9, Zenon DEF r
    <2>. HIDE DEF rs, la
    <2>6. mem' \in StateRec /\ mem'.receipts = rs /\ mem'.latest = la /\ mem'.eps = mem.eps /\ mem'.gen = mem.gen
      BY <1>0, <2>3, <2>4, <2>5, Zenon DEF StateRec
    <2>7. Types'
      BY <1>0, <1>2, <1>9, <2>6, Zenon DEF Shape, Types, Obj
    <2>8. Filed(mem)'
      <3>1. Filed(mem)
        BY Zenon DEF Shape, MemShape, Good
      <3>2. ASSUME NEW j \in Key, rs[j] # None
            PROVE  /\ KeyOf(rs[j].ep) = j /\ rs[j].inc = la[j] /\ rs[j].inc # 0
                   /\ rs[j].gen # 0 /\ rs[j].gen <= mem.gen
        <4>1. CASE j = k
          BY <1>2, <2>1, <2>3, <2>4, <4>1, Zenon
        <4>2. CASE j # k
          BY <2>3, <2>4, <3>1, <3>2, <4>2, Zenon DEF Filed
        <4>. QED
          BY <4>1, <4>2, Zenon
      <3>. QED
        BY <2>6, <3>1, <3>2, Zenon DEF Filed
    <2>9. Apart(mem)'
      <3>1. ASSUME NEW j \in Key, j # k, rs[j] # None PROVE Disjoint(rs[j].ep, r.ep) /\ Disjoint(r.ep, rs[j].ep)
        <4>1. rs[j].ep \in mem.eps /\ r.ep \in mem.eps
          BY <1>2, <1>4, <2>1, <2>3, <3>1, Zenon
        <4>2. KeyOf(rs[j].ep) = j /\ KeyOf(r.ep) = k
          BY <1>2, <2>1, <2>3, <3>1, Zenon DEF Shape, MemShape, Good, Filed
        <4>. QED
          BY <1>2, <3>1, <4>1, <4>2, SnapshotDisjoint, Zenon
      <3>2. ASSUME NEW i \in Key, NEW j \in Key, i # j, i # k, j # k, rs[i] # None, rs[j] # None
            PROVE  Disjoint(rs[i].ep, rs[j].ep)
        BY <2>3, <3>2, Zenon DEF Shape, MemShape, Good, Apart
      <3>. QED
        BY <2>3, <2>6, <3>1, <3>2, Zenon DEF Apart
    <2>10. Routed' /\ Applying'
      BY <1>0, <1>1, <2>6, ActivatedShape, Zenon
    <2>11. Linked'
      <3>1. Serving'
        BY <1>9, Zenon DEF Serving, Saving
      <3>2. \A j \in Key : rs[j] # None => active'[j] # None /\ active'[j].ep = rs[j].ep
        BY <1>2, <1>4, <2>1, <2>2, <2>3, Zenon
      <3>. QED
        BY <2>6, <3>1, <3>2, Zenon DEF Linked
    <2>12. UseRecovery' => SettledMem'
      <3>1. ASSUME NEW j \in Key, NEW o \in Obj, Open(mem, j, o)' PROVE Open(mem, j, o)
        BY <2>1, <2>3, <2>6, <3>1, Zenon DEF Open
      <3>2. pc' \notin Intending
        BY <1>9, Zenon DEF Intending, Adds, Deletes
      <3>. QED
        BY <1>0, <1>5, <3>1, <3>2, Zenon DEF SettledMem
    <2>13. Working'
      BY <1>0, <1>1, <1>2, <1>9, <2>1, <2>3, <2>6, Zenon DEF Shape, Working, Receipt, Objects, Obj, Adds, Deletes, Saving
    <2>. QED
      BY <1>0, <2>7, <2>8, <2>9, <2>10, <2>11, <2>12, <2>13, DiskLeft, ForeignLeft, Zenon DEF Shape, MemShape, Good
  <1>. QED
    BY <1>1, <1>7, <1>8, <1>9, Zenon

LEMMA AfterAddShape ==
  ASSUME Shape, pc \in {"add", "add-ack"}, AfterAdd, UNCHANGED <<mem, todo>>
  PROVE  /\ Working' /\ cur' \in [key : Key \cup {None}, obj : Obj]
         /\ pc' \in {"add", "checkpoint"} /\ Serving /\ Serving' /\ Applies
  <1>1. /\ cur \in [key : Key \cup {None}, obj : Obj] /\ cur.key \in Key /\ Receipt \in ReceiptRec
        /\ todo' \subseteq { KeyOf(e) : e \in mem'.eps }
    BY Zenon DEF Shape, Types, Working, Adds, Receipt
  <1>2. CASE pc' = "add" /\ cur' = [cur EXCEPT !.obj = "nbr"] /\ "nbr" \in Objects(Receipt.ep)
    <2>1. cur'.key = cur.key /\ cur'.obj = "nbr" /\ cur' \in [key : Key \cup {None}, obj : Obj]
      BY <1>1, <1>2, Zenon DEF Obj
    <2>2. Working'
      BY <1>1, <1>2, <2>1, Zenon DEF Working, Adds, Deletes, Saving, Receipt
    <2>. QED
      BY <1>2, <2>1, <2>2, Zenon DEF Serving, Applies, Saving, Adds
  <1>3. CASE pc' = "checkpoint" /\ next' = "apply" /\ cur' = NoWork
    <2>1. Working'
      BY <1>1, <1>3, Zenon DEF Working, Adds, Deletes, Saving
    <2>. QED
      BY <1>3, <2>1, Zenon DEF Serving, Applies, Saving, Adds, NoWork, Obj
  <1>. QED
    BY <1>2, <1>3, Zenon DEF AfterAdd, Checkpoint

LEMMA AddConfirmedShape == ASSUME Shape, AddConfirmed PROVE Shape'
  <1>0. pc = "add" /\ UNCHANGED <<rib, kernel, dev, disk, mem, active, epoch, todo, UseRecovery>>
    BY Zenon DEF AddConfirmed, Block, envVars, budgets, store, routeVars
  <1>1. CASE Block
    BY <1>0, <1>1, QuietShape, Zenon DEF Block, Shape, Types, Resting
  <1>2. CASE AfterAdd
    <2>1. /\ Working' /\ cur' \in [key : Key \cup {None}, obj : Obj]
          /\ pc' \in {"add", "checkpoint"} /\ Serving /\ Serving' /\ Applies
      BY <1>0, <1>2, AfterAddShape, Zenon
    <2>2. UseRecovery => SettledMem'
      <3>1. pc' \notin Intending
        BY <2>1, Zenon DEF Intending, Adds, Deletes
      <3>. QED
        BY <1>0, <3>1, Zenon DEF Shape, MemShape, SettledMem, Open
    <2>3. DiskShape' /\ Foreigners' /\ kernel' = [s \in Slots |-> kernel'[s]]
          /\ disk' \in [bound : {disk'.bound}, state : StateRec \cup {None}, quarantine : BOOLEAN, pending : Intents \cup {None}]
      BY <1>0, DiskLeft, ForeignLeft, Zenon DEF Shape, Types
    <2>. QED
      BY <1>0, <2>1, <2>2, <2>3, SteadyShape, Zenon
  <1>. QED
    BY <1>1, <1>2, Zenon DEF AddConfirmed

LEMMA AddBeginShape == ASSUME Shape, AddBegin, UNCHANGED UseRecovery PROVE Shape'
  <1>. DEFINE i == [op |-> "add", slot |-> Entry]
  <1>0. /\ pc = "add" /\ UNCHANGED <<rib, kernel, dev, active, epoch, todo, cur>>
        /\ cur.key \in Key /\ mem.receipts[cur.key] \in ReceiptRec /\ cur.obj \in Objects(Receipt.ep)
        /\ todo \subseteq { KeyOf(e) : e \in mem.eps }
    BY Zenon DEF AddBegin, Intend, Persist, Block, Stay, envVars, routeVars, Shape, Working
  <1>1. i \in Intents
    <2>1. Entry \in Slots
      BY <1>0 DEF Receipt, ReceiptRec, Entry, Slots
    <2>. QED
      BY <2>1, Zenon DEF Intents
  <1>. HIDE DEF i
  <1>2. CASE /\ pc' = "blocked" /\ mem' = mem
             /\ disk' = disk \/ (UseRecovery /\ disk.pending = None /\ disk' \in {disk, [disk EXCEPT !.pending = i]})
    BY <1>0, <1>1, <1>2, BeginFailsShape, Zenon
  <1>3. CASE /\ pc' = "add-send" /\ disk' = (IF UseRecovery THEN [disk EXCEPT !.pending = i] ELSE disk)
             /\ disk.pending = None \/ ~UseRecovery
             /\ SetStatus("pending")
    <2>1. /\ DiskShape' /\ Foreigners' /\ kernel' = [s \in Slots |-> kernel'[s]] /\ cur' \in [key : Key \cup {None}, obj : Obj]
          /\ disk' \in [bound : {disk'.bound}, state : StateRec \cup {None}, quarantine : BOOLEAN, pending : Intents \cup {None}]
      BY <1>0, <1>1, <1>3, DiskBegun, ForeignLeft, Zenon DEF Shape, Types
    <2>2. "pending" \in ObjStatus /\ Changed("pending")
      BY <1>0, <1>3, SetStatusChanges, Zenon DEF ObjStatus, Shape
    <2>3. Working'
      BY <1>0, <1>3, <2>2, Zenon DEF Working, Saving, Adds, Deletes, Receipt, Changed
    <2>4. UseRecovery => SettledMem'
      <3>1. UseRecovery => \A k \in Key, o \in Obj : ~Open(mem, k, o)
        BY <1>0, <1>3, Zenon DEF Shape, MemShape, SettledMem
      <3>2. ASSUME UseRecovery, NEW k \in Key, NEW o \in Obj, Open(mem, k, o)' PROVE k = cur.key /\ o = cur.obj
        BY <1>0, <2>2, <3>1, <3>2, StatusOpens, Zenon
      <3>. QED
        BY <1>0, <1>3, <3>2, Zenon DEF SettledMem
    <2>5. Serving /\ Serving' /\ Applies
      BY <1>0, <1>3, Zenon DEF Serving, Applies, Saving
    <2>. QED
      BY <1>0, <1>3, <2>1, <2>2, <2>3, <2>4, <2>5, StatusShape, Zenon
  <1>. QED
    BY <1>2, <1>3, Zenon DEF AddBegin, Intend, Persist, Block, i

LEMMA AddSendShape == ASSUME Shape, AddSend, UNCHANGED UseRecovery PROVE Shape'
  <1>0. /\ pc = "add-send" /\ UNCHANGED <<rib, dev, disk, active, epoch, todo, cur>>
        /\ cur.key \in Key /\ mem.receipts[cur.key] \in ReceiptRec /\ cur.obj \in Objects(Receipt.ep)
        /\ todo \subseteq { KeyOf(e) : e \in mem.eps }
    BY Zenon DEF AddSend, Block, Stay, store, routeVars, Shape, Working, Adds
  <1>1. /\ DiskShape' /\ cur' \in [key : Key \cup {None}, obj : Obj] /\ Serving /\ Applies
        /\ disk' \in [bound : {disk'.bound}, state : StateRec \cup {None}, quarantine : BOOLEAN, pending : Intents \cup {None}]
    BY <1>0, DiskLeft, Zenon DEF Shape, Types, Serving, Applies, Adds, Saving
  <1>2. CASE kernel' = kernel /\ mem' = mem /\ pc' = "blocked"
    BY <1>0, <1>2, QuietShape, Zenon DEF Shape, Types, Resting
  <1>3. CASE kernel' \in {kernel, [kernel EXCEPT ![Entry] = MyEntry]}
    <2>0. Foreigners' /\ kernel' = [s \in Slots |-> kernel'[s]]
      BY <1>0, <1>3, EntryWritten, Zenon
    <2>1. CASE pc' = "add-confirm" /\ mem' = mem
      <3>1. Working'
        BY <1>0, <2>1, Zenon DEF Working, Saving, Adds, Deletes, Receipt
      <3>2. UseRecovery => SettledMem'
        BY <1>0, <2>1, Zenon DEF Shape, MemShape, SettledMem, Open, Intending, Adds
      <3>3. Serving'
        BY <2>1, Zenon DEF Serving, Saving
      <3>. QED
        BY <1>0, <1>1, <2>0, <2>1, <3>1, <3>2, <3>3, SteadyShape, Zenon
    <2>2. CASE pc' = "blocked" /\ SetStatus("unknown")
      <3>1. Working' /\ SettledMem' /\ "unknown" \in ObjStatus
        BY <2>2, Zenon DEF Working, SettledMem, Saving, Adds, Deletes, ObjStatus
      <3>. QED
        BY <1>0, <1>1, <2>0, <2>2, <3>1, StatusShape, Zenon
    <2>3. CASE ~UseRecovery /\ pc' = "idle" /\ SetStatus("failed")
      <3>1. Working' /\ Serving' /\ "failed" \in ObjStatus
        BY <2>3, Zenon DEF Working, Serving, Saving, Adds, Deletes, ObjStatus
      <3>. QED
        BY <1>0, <1>1, <2>0, <2>3, <3>1, StatusShape, Zenon
    <2>. QED
      BY <1>2, <2>1, <2>2, <2>3, Zenon DEF AddSend, Block
  <1>. QED
    BY <1>3, Zenon DEF AddSend

LEMMA AddConfirmShape == ASSUME Shape, AddConfirm PROVE Shape'
  <1>0. /\ pc = "add-confirm" /\ UNCHANGED <<rib, kernel, dev, disk, active, epoch, todo, cur, UseRecovery>>
        /\ cur.key \in Key /\ mem.receipts[cur.key] \in ReceiptRec /\ cur.obj \in Objects(Receipt.ep)
        /\ todo \subseteq { KeyOf(e) : e \in mem.eps }
    BY Zenon DEF AddConfirm, Stay, envVars, budgets, store, routeVars, Shape, Working, Adds
  <1>1. /\ DiskShape' /\ Foreigners' /\ kernel' = [s \in Slots |-> kernel'[s]] /\ cur' \in [key : Key \cup {None}, obj : Obj]
        /\ disk' \in [bound : {disk'.bound}, state : StateRec \cup {None}, quarantine : BOOLEAN, pending : Intents \cup {None}]
    BY <1>0, DiskLeft, ForeignLeft, Zenon DEF Shape, Types
  <1>2. Serving /\ Applies
    BY <1>0, Zenon DEF Serving, Applies, Saving, Adds
  <1>3. CASE pc' = "blocked" /\ SetStatus("unknown")
    <2>1. Working' /\ SettledMem' /\ "unknown" \in ObjStatus
      BY <1>3, Zenon DEF Working, SettledMem, Saving, Adds, Deletes, ObjStatus
    <2>. QED
      BY <1>0, <1>1, <1>2, <1>3, <2>1, StatusShape, Zenon
  <1>4. CASE pc' = "add-ack" /\ SetStatus("confirmed")
    <2>1. "confirmed" \in ObjStatus /\ "confirmed" \notin {"pending", "unknown"} /\ Changed("confirmed")
      BY <1>0, <1>4, SetStatusChanges, Zenon DEF ObjStatus, Shape
    <2>2. Working' /\ Serving'
      BY <1>0, <1>4, <2>1, Zenon DEF Working, Serving, Saving, Adds, Deletes, Receipt, Changed
    <2>3. UseRecovery => SettledMem'
      <3>1. ASSUME NEW k \in Key, NEW o \in Obj, Open(mem, k, o)' PROVE Open(mem, k, o) /\ ~(k = cur.key /\ o = cur.obj)
        BY <1>0, <2>1, <3>1, StatusOpens, Zenon
      <3>2. UseRecovery => \A k \in Key, o \in Obj : Open(mem, k, o) => k = cur.key /\ o = cur.obj
        BY <1>0, Zenon DEF Shape, MemShape, SettledMem, Intending, Adds
      <3>. QED
        BY <3>1, <3>2, Zenon DEF SettledMem
    <2>. QED
      BY <1>0, <1>1, <1>2, <1>4, <2>1, <2>2, <2>3, StatusShape, Zenon
  <1>. QED
    BY <1>3, <1>4, Zenon DEF AddConfirm

LEMMA AddAckShape == ASSUME Shape, AddAck, UNCHANGED UseRecovery PROVE Shape'
  <1>0. pc = "add-ack" /\ UNCHANGED <<rib, kernel, dev, mem, active, epoch, todo>>
    BY Zenon DEF AddAck, Acknowledge, Persist, Block, envVars, routeVars
  <1>1. UseRecovery => \A k \in Key, o \in Obj : ~Open(mem, k, o)
    BY <1>0, Zenon DEF Shape, MemShape, SettledMem, Intending, Adds
  <1>2. CASE pc' = "blocked" /\ UseRecovery /\ disk' \in {disk, [disk EXCEPT !.pending = None, !.state = mem]} /\ UNCHANGED cur
    BY <1>0, <1>1, <1>2, AckFailsShape, Zenon
  <1>3. CASE AfterAdd /\ disk' = (IF UseRecovery THEN [disk EXCEPT !.pending = None, !.state = mem] ELSE disk)
    <2>1. /\ DiskShape' /\ Foreigners' /\ kernel' = [s \in Slots |-> kernel'[s]]
          /\ disk' \in [bound : {disk'.bound}, state : StateRec \cup {None}, quarantine : BOOLEAN, pending : Intents \cup {None}]
      BY <1>0, <1>1, <1>3, DiskAcknowledged, ForeignLeft, Zenon DEF Shape, Types
    <2>2. /\ Working' /\ cur' \in [key : Key \cup {None}, obj : Obj]
          /\ pc' \in {"add", "checkpoint"} /\ Serving /\ Serving' /\ Applies
      BY <1>0, <1>3, AfterAddShape, Zenon
    <2>3. UseRecovery => SettledMem'
      BY <1>0, <1>1, Zenon DEF SettledMem, Open
    <2>. QED
      BY <1>0, <2>1, <2>2, <2>3, SteadyShape, Zenon
  <1>. QED
    BY <1>2, <1>3, Zenon DEF AddAck, Acknowledge, Persist, Block

\* A missed deadline leaves the intent of an addition that was not sent.
LEMMA GivesUpShape ==
  ASSUME Shape, UseRecovery => IInv, AllApplied \/ CheckFails \/ TimesOut
  PROVE  Shape'
  <1>0. /\ UNCHANGED <<rib, kernel, dev, mem, active, epoch, disk, UseRecovery, cur>> /\ todo' \in {todo, {}}
        /\ pc \in Checking \cup {"apply"} /\ (pc = "verify" => pc' = "blocked") /\ pc' \in {"idle", "blocked"}
        /\ pc = "add-confirm" => pc' = "blocked"
    BY Zenon DEF AllApplied, CheckFails, TimesOut, Block, envVars, budgets, store, routeVars
  <1>1. UseRecovery /\ pc = "add-send" => disk.pending # None
    <2>. SUFFICES ASSUME IInv, pc = "add-send" PROVE disk.pending # None
      BY Zenon
    <2>1. Entry \in Slots /\ disk.pending = [op |-> "add", slot |-> Entry]
      BY EntryInSlots, Zenon DEF IInv, Intended, Adding, Adds
    <2>2. [op |-> "add", slot |-> Entry] \in Intents
      BY <2>1, Zenon DEF Intents
    <2>. QED
      BY <2>1, <2>2, NoneAssumption, Zenon
  <1>2. pc \notin {"down", "blocked"} /\ pc' \in Resting /\ (pc' = "blocked" \/ Serving)
    BY <1>0, Zenon DEF Checking, Resting, Serving, Saving
  <1>. QED
    BY <1>0, <1>1, <1>2, QuietShape, Zenon DEF Shape, Types
-----------------------------------------------------------------------------

LEMMA ProcessShape == ASSUME Shape, UseRecovery => IInv, Process, UNCHANGED UseRecovery PROVE Shape'
  <1>1. CASE Start \/ StartQuarantines \/ CreateMarker \/ Verify \/ CheckpointBegin \/ CheckpointCommit \/ Quarantine
    BY <1>1, StartShape, CreateMarkerShape, VerifyShape, CheckpointBeginShape, CheckpointCommitShape, QuarantineShape, Zenon
  <1>2. CASE MappingRefused \/ PollFails \/ PollDiffers \/ PollConfirms
           \/ WithdrawRoute \/ WithdrawTimesOut \/ NothingToWithdraw
    BY <1>2, TickShape, WithdrawRouteShape, WithdrawTimesOutShape, NothingToWithdrawShape, Zenon
  <1>3. CASE DeleteUnconfirmed \/ DeleteBegin \/ DeleteRead \/ DeleteSend \/ DeleteConfirm \/ DeleteAck \/ Withdrawn
    BY <1>3, DeleteUnconfirmedShape, DeleteBeginShape, DeleteReadShape, DeleteSendShape, DeleteConfirmShape, DeleteAckShape,
       WithdrawnShape, Zenon
  <1>4. CASE ApplyRoute \/ ApplyTimesOut \/ AddConfirmed \/ AddBegin \/ AddSend \/ AddConfirm \/ AddAck
    BY <1>4, ApplyRouteShape, ApplyTimesOutShape, AddConfirmedShape, AddBeginShape, AddSendShape, AddConfirmShape, AddAckShape, Zenon
  <1>5. CASE AllApplied \/ CheckFails \/ TimesOut
    BY <1>5, GivesUpShape, Zenon
  <1>. QED
    BY <1>1, <1>2, <1>3, <1>4, <1>5, Zenon DEF Process

\* Receipts, routes and the journal agree for ever, with and without a Recovery section.
THEOREM ShapeHolds == Spec => []Shape
  <1>1. Init => Shape
    BY InitShape, Zenon
  <1>2. Shape /\ (UseRecovery => IInv) /\ [Next]_vars => Shape'
    <2>. SUFFICES ASSUME Shape, UseRecovery => IInv, [Next]_vars PROVE Shape'
      BY Zenon
    <2>0. UNCHANGED UseRecovery
      BY RecoveryStays, Zenon
    <2>1. CASE UNCHANGED vars
      <3>1. rib' \in Snapshots /\ dev' \in Nat /\ kernel' = [s \in Slots |-> kernel'[s]] /\ Foreigners'
        BY <2>1, ForeignLeft, Zenon DEF vars, envVars, Shape, Types
      <3>. QED
        BY <2>0, <2>1, <3>1, OutsideShape, Zenon DEF vars
    <2>. QED
      BY <2>0, <2>1, ProcessShape, EnvironmentShape, Zenon DEF Next
  <1>. QED
    BY <1>1, <1>2, IInvHolds, PTL DEF Spec

\* A state without open objects is one openRecovery accepts.
LEMMA GoodIsValid ==
  ASSUME NEW s \in StateRec, Good(s), \A k \in Key, o \in Obj : ~Open(s, k, o)
  PROVE  ValidReceipts(s)
  <1>1. ASSUME NEW k \in Key, s.receipts[k] # None
        PROVE  /\ KeyOf(s.receipts[k].ep) = k
               /\ s.receipts[k].inc = s.latest[k] /\ s.receipts[k].gen \in 1..s.gen
               /\ \A o \in Objects(s.receipts[k].ep) :
                    s.receipts[k].obj[o] \in {"confirmed", "unattempted", "failed", "absent"}
    <2>1. s.receipts[k] \in ReceiptRec /\ s.gen \in Nat
      BY <1>1, Zenon DEF StateRec
    <2>2. s.receipts[k].gen \in Nat /\ s.receipts[k].gen # 0 /\ s.receipts[k].gen <= s.gen
      BY <1>1, <2>1, Zenon DEF Good, Filed, ReceiptRec
    <2>3. s.receipts[k].gen \in 1..s.gen
      BY <2>1, <2>2
    <2>4. \A o \in Objects(s.receipts[k].ep) :
             /\ s.receipts[k].obj[o] \in ObjStatus /\ s.receipts[k].obj[o] \notin {"pending", "unknown"}
      BY <1>1, <2>1, Zenon DEF Objects, Open, ReceiptRec
    <2>5. \A o \in Objects(s.receipts[k].ep) :
             s.receipts[k].obj[o] \in {"confirmed", "unattempted", "failed", "absent"}
      BY <2>4, Zenon DEF ObjStatus
    <2>. QED
      BY <1>1, <2>3, <2>5, Zenon DEF Good, Filed
  <1>2. ASSUME NEW r \in ReceiptsOf(s), NEW t \in ReceiptsOf(s), r # t
        PROVE  { Slot(r.ep, o) : o \in Objects(r.ep) } \cap { Slot(t.ep, o) : o \in Objects(t.ep) } = {}
    <2>1. PICK j \in Key : s.receipts[j] # None /\ r = s.receipts[j]
      BY Zenon DEF ReceiptsOf
    <2>2. PICK k \in Key : s.receipts[k] # None /\ t = s.receipts[k]
      BY Zenon DEF ReceiptsOf
    <2>3. Disjoint(r.ep, t.ep)
      BY <1>2, <2>1, <2>2, Zenon DEF Good, Apart
    <2>. QED
      BY <2>3, Zenon DEF Disjoint
  <1>. QED
    BY <1>1, <1>2, Zenon DEF ValidReceipts

\* validateReceipts accepts what the importer wrote: in memory every receipt and
\* route is filed under its key with an incarnation that was given out, and a
\* journal without an outstanding intent or a quarantine opens again, after any
\* crash, timeout, lost reply or journal error.
THEOREM StaysWellFormed == Spec => []WellFormed
  <1>1. Shape => WellFormed
    <2>. SUFFICES ASSUME Shape PROVE WellFormed
      BY Zenon
    <2>1. \A k \in Key : mem.receipts[k] # None =>
            /\ mem.receipts[k] \in ReceiptRec /\ mem.receipts[k].inc # 0 /\ mem.receipts[k].inc = mem.latest[k]
            /\ KeyOf(mem.receipts[k].ep) = k
      BY Zenon DEF Shape, Types, StateRec, MemShape, Good, Filed
    <2>2. \A k \in Key : mem.receipts[k] # None => mem.receipts[k].inc \in 1..mem.latest[k]
      BY <2>1 DEF ReceiptRec
    <2>3. \A k \in Key : mem.receipts[k] # None => \A o \in Obj : mem.receipts[k].obj[o] \in ObjStatus
      BY <2>1, Zenon DEF ReceiptRec
    <2>4. \A k \in Key : active[k] # None => KeyOf(active[k].ep) = k /\ active[k].inc \in Nat \ {0}
      BY Zenon DEF Shape, Types, RouteRec, MemShape, Routed
    <2>5. TypeOK
      BY <2>1, <2>2, <2>3, <2>4, Zenon DEF TypeOK, Shape, Types, Foreigners, MemShape, Routed
    <2>6. JournalStaysReadable
      <3>. SUFFICES ASSUME disk.state # None, disk.pending = None, ~disk.quarantine PROVE ValidReceipts(disk.state)
        BY Zenon DEF JournalStaysReadable
      <3>1. /\ disk.state \in StateRec /\ Good(disk.state)
            /\ \A k \in Key, o \in Obj : ~Open(disk.state, k, o)
        BY Zenon DEF Shape, Types, DiskShape, SettledDisk
      <3>2. PICK s \in StateRec : s = disk.state
        BY <3>1, Zenon
      <3>3. Good(s) /\ \A k \in Key, o \in Obj : ~Open(s, k, o)
        BY <3>1, <3>2, Zenon
      <3>. QED
        BY <3>2, <3>3, GoodIsValid, Zenon
    <2>. QED
      BY <2>5, <2>6, Zenon DEF WellFormed
  <1>. QED
    BY <1>1, ShapeHolds, PTL

\* Only these requests reach the kernel.
LEMMA KernelKept ==
  ASSUME Process, ~DeleteSend, ~AddSend PROVE UNCHANGED kernel
  BY Zenon DEF Process, Start, StartQuarantines, CreateMarker, Verify, CheckpointBegin, CheckpointCommit, Quarantine,
     MappingRefused, PollFails, PollDiffers, PollConfirms, WithdrawRoute, WithdrawTimesOut, NothingToWithdraw,
     DeleteUnconfirmed, DeleteBegin, DeleteRead, DeleteConfirm, DeleteAck, Withdrawn, ApplyRoute, ApplyTimesOut,
     AllApplied, AddConfirmed, AddBegin, AddConfirm, AddAck, CheckFails, TimesOut, envVars

\* A deletion is sent only after its entry was read back.
LEMMA ReadBeforeSent == ASSUME Shape, Process, pc' = "delete-send" PROVE DeleteRead
  <1>1. CASE CheckpointBegin \/ CheckpointCommit
    BY <1>1, Zenon DEF CheckpointBegin, CheckpointCommit, Intend, Acknowledge, Persist, Block, Shape, Working, Saving
  <1>2. CASE Start \/ StartQuarantines \/ CreateMarker \/ Verify \/ Quarantine
             \/ MappingRefused \/ PollFails \/ PollDiffers \/ PollConfirms
    BY <1>2, Zenon DEF Start, StartQuarantines, CreateMarker, Verify, Quarantine, MappingRefused, PollFails, PollDiffers,
       PollConfirms, Ticks, Checkpoint, Block, procVars
  <1>3. CASE WithdrawRoute \/ WithdrawTimesOut \/ NothingToWithdraw \/ Withdrawn
    BY <1>3, Zenon DEF WithdrawRoute, WithdrawTimesOut, NothingToWithdraw, Withdrawn, Checkpoint
  <1>4. CASE DeleteUnconfirmed \/ DeleteBegin \/ DeleteSend \/ DeleteConfirm \/ DeleteAck
    BY <1>4, Zenon DEF DeleteUnconfirmed, DeleteBegin, DeleteSend, DeleteConfirm, DeleteAck, AfterDelete,
       Intend, Acknowledge, Persist, Block
  <1>5. CASE ApplyRoute \/ ApplyTimesOut \/ AllApplied \/ AddConfirmed \/ AddBegin
    BY <1>5, Zenon DEF ApplyRoute, ApplyTimesOut, AllApplied, AddConfirmed, AddBegin, AfterAdd, Checkpoint,
       Intend, Persist, Block
  <1>6. CASE AddSend \/ AddConfirm \/ AddAck \/ CheckFails \/ TimesOut
    BY <1>6, Zenon DEF AddSend, AddConfirm, AddAck, CheckFails, TimesOut, AfterAdd, Checkpoint, Acknowledge, Persist, Block
  <1>. QED
    BY <1>1, <1>2, <1>3, <1>4, <1>5, <1>6, Zenon DEF Process

\* An entry that is where the importer wrote its own is its own: nobody else writes that value.
LEMMA HereIsMine ==
  ASSUME Shape, cur.key \in Key, mem.receipts[cur.key] \in ReceiptRec, cur.obj \in Objects(Receipt.ep), Here
  PROVE  kernel[Entry] # None /\ kernel[Entry].mine
  <1>1. Entry \in Slots /\ Receipt.ep \in Endpoint
    BY DEF Receipt, ReceiptRec, Entry, Slots
  <1>2. Value(Receipt.ep, cur.obj) # Foreign
    BY <1>1, ImporterAssumption, Zenon DEF Endpoint, Value
  <1>. QED
    BY <1>1, <1>2, Zenon DEF Here, Held, Entry, Shape, Foreigners

\* What a deletion may find in place of its entry has come after the readback.
Unmet == pc = "delete-send" /\ kernel[Entry] # None /\ ~kernel[Entry].mine => Entry \notin met

LEMMA UnmetStep == ASSUME Shape, Unmet, [Next]_vars PROVE Unmet'
  <1>. SUFFICES ASSUME pc' = "delete-send" PROVE Unmet'
    BY Zenon DEF Unmet
  <1>1. CASE Process
    <2>1. DeleteRead
      BY <1>1, ReadBeforeSent, Zenon
    <2>2. /\ Here /\ cur.key \in Key /\ mem.receipts[cur.key] \in ReceiptRec /\ cur.obj \in Objects(Receipt.ep)
          /\ UNCHANGED <<kernel, mem, cur>>
      BY <2>1, Zenon DEF DeleteRead, Block, Stay, routeVars, Shape, Working, Deletes
    <2>3. kernel[Entry] # None /\ kernel[Entry].mine
      BY <2>2, HereIsMine, Zenon
    <2>4. Entry' = Entry
      BY <2>2, Zenon DEF Entry, Receipt
    <2>. QED
      BY <2>2, <2>3, <2>4, Zenon DEF Unmet
  <1>2. CASE UNCHANGED vars
    BY <1>2, Zenon DEF vars, envVars, procVars, Unmet, Entry, Receipt
  <1>3. CASE Environment
    <2>0. pc = "delete-send" /\ UNCHANGED <<mem, cur>>
      BY <1>3, Zenon DEF Environment, Crash, DeviceReplaced, ForeignAdds, ForeignDeletes, SwitchChanges, RibChanges,
         procVars, routeVars
    <2>1. Entry' = Entry /\ Entry \in Slots /\ kernel = [t \in Slots |-> kernel[t]]
      BY <2>0 DEF Shape, Types, Working, Deletes, Receipt, ReceiptRec, Entry, Slots
    <2>2. CASE ForeignAdds
      <3>1. PICK t \in Slots : /\ \E x : kernel' = [kernel EXCEPT ![t] = x]
                               /\ met' = met \ {t}
        BY <2>2, Zenon DEF ForeignAdds
      <3>2. CASE t = Entry
        BY <2>1, <3>1, <3>2, Zenon DEF Unmet
      <3>3. CASE t # Entry
        BY <2>0, <2>1, <3>1, <3>3, Zenon DEF Unmet
      <3>. QED
        BY <3>2, <3>3, Zenon
    <2>3. CASE ForeignDeletes
      <3>1. met' = met /\ (kernel'[Entry] = kernel[Entry] \/ kernel'[Entry] = None)
        BY <2>1, <2>3, Zenon DEF ForeignDeletes
      <3>. QED
        BY <2>0, <2>1, <3>1, Zenon DEF Unmet
    <2>4. CASE DeviceReplaced
      BY <2>0, <2>1, <2>4, Zenon DEF DeviceReplaced, Unmet
    <2>5. CASE SwitchChanges \/ RibChanges
      BY <2>0, <2>1, <2>5, Zenon DEF SwitchChanges, RibChanges, Unmet
    <2>. QED
      BY <1>3, <2>0, <2>2, <2>3, <2>4, <2>5, Zenon DEF Environment, Crash
  <1>. QED
    BY <1>1, <1>2, <1>3, Zenon DEF Next

\* NeighAdd of the importer never replaces an entry that somebody else wrote, and
\* NeighDel removes one only if it took the slot after the readback that precedes
\* the request found the importer's own entry there: an entry of somebody else
\* that was read back once is safe, with and without a Recovery section.
THEOREM OthersPreserved == Spec => ForeignPreserved
  <1>. DEFINE Kept == \A s \in Slots :
                kernel[s] # None /\ ~kernel[s].mine /\ kernel'[s] # kernel[s] =>
                  \/ UNCHANGED procVars
                  \/ pc = "delete-send" /\ s = Entry /\ s \notin met /\ kernel'[s] = None
  <1>1. Shape /\ Unmet /\ [Next]_vars => [Kept]_vars
    <2>. SUFFICES ASSUME Shape, Unmet, Next, NEW s \in Slots, kernel[s] # None, ~kernel[s].mine, kernel'[s] # kernel[s]
                  PROVE  \/ UNCHANGED procVars
                         \/ pc = "delete-send" /\ s = Entry /\ s \notin met /\ kernel'[s] = None
      BY Zenon
    <2>1. CASE Environment
      BY <2>1, Zenon DEF Environment, Crash, DeviceReplaced, ForeignAdds, ForeignDeletes, SwitchChanges, RibChanges
    <2>2. CASE DeleteSend \/ AddSend
      <3>1. /\ pc \in {"delete-send", "add-send"} /\ cur.key \in Key /\ mem.receipts[cur.key] \in ReceiptRec
            /\ cur.obj \in Objects(Receipt.ep)
        BY <2>2, Zenon DEF DeleteSend, AddSend, Shape, Working, Adds, Deletes
      <3>2. kernel' \in {kernel, [kernel EXCEPT ![Entry] = None], [kernel EXCEPT ![Entry] = MyEntry]}
        BY <2>2, Zenon DEF DeleteSend, AddSend
      <3>3. s = Entry
        BY <3>1, <3>2, EntryWritten, Zenon
      <3>4. CASE AddSend
        <4>1. ~Here /\ ~Absent
          BY <3>1, <3>3, HereIsMine, Zenon DEF Absent, Free, Entry
        <4>. QED
          BY <3>4, <4>1, Zenon DEF AddSend
      <3>5. CASE DeleteSend
        <4>1. pc = "delete-send" /\ kernel' = [kernel EXCEPT ![Entry] = None]
          BY <3>5, Zenon DEF DeleteSend
        <4>2. kernel'[s] = None
          BY <3>3, <4>1, Zenon DEF Shape, Types
        <4>. QED
          BY <3>3, <4>1, <4>2, Zenon DEF Unmet
      <3>. QED
        BY <2>2, <3>4, <3>5, Zenon
    <2>. QED
      BY <2>1, <2>2, KernelKept, Zenon DEF Next
  <1>2. Init => Unmet
    BY Zenon DEF Init, Unmet
  <1>3. Shape /\ Unmet /\ [Next]_vars => Unmet'
    BY UnmetStep, Zenon
  <1>. QED
    BY <1>1, <1>2, <1>3, ShapeHolds, PTL DEF Spec, ForeignPreserved
=============================================================================
