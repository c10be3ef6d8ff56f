-------------------------- MODULE NetlinkImporter --------------------------
(***************************************************************************)
(* The importer that programs remote endpoints into the kernel: the tick   *)
(* of pkg/nodeagent/remote_runtime.go, applyValidatedSnapshot              *)
(* (pkg/evpn/remote_netlink_import.go), the owned netlink backend          *)
(* (owned_netlink.go) and its recovery (remote_recovery.go), composed with *)
(* the kernel tables, the managed devices and the ownership journal.       *)
(*                                                                         *)
(* An endpoint has two kernel objects: an FDB entry in the slot of its MAC *)
(* and, if it has an address, a neighbour entry in the slot of that        *)
(* address.  What Poll confirms is the set rib after two equal polls; see  *)
(* Type2Importer.  The journal is one record replaced atomically; see      *)
(* Journal.  A read of a slot is one step with the decision and the        *)
(* journal write that follow it, since the code reads again after every    *)
(* such write, and with NeighAdd, which creates or refuses.  NeighDel is a *)
(* step of its own: it does not look at what it removes.                   *)
(***************************************************************************)
EXTENDS Naturals, FiniteSets

CONSTANTS
    Snapshots,     \* the sets of endpoints the speaker may hold
    NoIP, Foreign, None,
    Recovery,      \* whether the configuration has a Recovery section: the cases considered
    MaxFaults,     \* bound: crashes, errors, foreign writes, device and switch events
    MaxTimeouts,   \* bound: ticks cut off by their deadline
    MaxChanges     \* bound: changes of rib

ASSUME ImporterAssumption ==
    /\ Recovery \subseteq BOOLEAN
    /\ {MaxFaults, MaxTimeouts, MaxChanges} \subseteq Nat
    /\ \A S \in Snapshots : \A a, b \in S :
         a # b => a.mac # b.mac /\ (a.ip = NoIP \/ a.ip # b.ip)
    \* an entry of somebody else does not read back as one of an endpoint
    /\ \A S \in Snapshots : \A a \in S : Foreign \notin {a.vtep, a.mac}

Endpoint == UNION Snapshots
Obj == {"fdb", "nbr"}
KeyOf(e) == <<e.mac, e.ip>>
Key == { KeyOf(e) : e \in Endpoint }
Objects(e) == { o \in Obj : o = "nbr" => e.ip # NoIP }
Slot(e, o) == IF o = "fdb" THEN <<"fdb", e.mac>> ELSE <<"nbr", e.ip>>
Value(e, o) == IF o = "fdb" THEN e.vtep ELSE e.mac
Slots == UNION { { Slot(e, o) : o \in Objects(e) } : e \in Endpoint }

ObjStatus == {"unattempted", "pending", "confirmed", "failed", "absent", "unknown"}
\* Receipts and routes, the state receipts are part of, and what the journal may have as its intent.
ReceiptRec == [ep : Endpoint, inc : Nat, gen : Nat, retiring : BOOLEAN, obj : [Obj -> ObjStatus]]
RouteRec == [ep : Endpoint, inc : Nat, gen : Nat, retiring : BOOLEAN]
StateRec == [receipts : [Key -> ReceiptRec \cup {None}], latest : [Key -> Nat], gen : Nat,
             eps : SUBSET Endpoint, dev : Nat]
Intents == [op : {"checkpoint"}] \cup [op : {"add", "delete"}, slot : Slots]

ASSUME NoneAssumption == None \notin ReceiptRec \cup RouteRec \cup StateRec \cup Intents

VARIABLES
    \* surroundings
    rib,       \* the remote endpoints the speaker's table amounts to
    kernel,    \* kernel[s]: the entry in slot s, or None; mine: written by the importer
    dev,       \* identity of the managed devices
    event,     \* a link event is queued at the process
    switch,    \* the logical switch of the mapping: "same", "absent", "other"
    met,       \* history: slots whose foreign entry the last readback before a deletion has met
    faults, timeouts, changes,
    UseRecovery, \* the configuration has a Recovery section; never changes
    \* stable storage
    disk,      \* the mapping it is bound to, state (or None), quarantine, pending intent
    marker,    \* the ownership marker file exists
    \* the process
    pc, next,  \* next step; where to go after a checkpoint
    mem,       \* ownedNetlinkState: receipts, latest incarnations, snapshot, devices
    active, epoch, todo,  \* fields of RemoteType2Importer; keys still to apply
    pending,   \* result of the previous poll, or None
    gate,      \* mappingGate: "none", the switch it recorded, or "blocked"
    cur        \* the route and object being worked on

envVars == <<rib, kernel, dev, event, switch, met>>
budgets == <<faults, timeouts, changes, UseRecovery>>
store == <<disk, marker>>
routeVars == <<active, epoch, todo>>
procVars == <<pc, next, mem, routeVars, pending, gate, cur>>
vars == <<envVars, budgets, store, procVars>>

NoReceipts == [k \in Key |-> None]
EmptyState == [receipts |-> NoReceipts, latest |-> [k \in Key |-> 0],
               gen |-> 0, eps |-> {}, dev |-> 0]
EmptyDisk == [bound |-> None, state |-> None, quarantine |-> FALSE, pending |-> None]
NoWork == [key |-> None, obj |-> "fdb"]

Init ==
    /\ rib \in Snapshots
    /\ kernel = [s \in Slots |-> None]
    /\ dev = 1 /\ event = FALSE /\ switch = "same" /\ met = {}
    /\ faults = 0 /\ timeouts = 0 /\ changes = 0 /\ UseRecovery \in Recovery
    /\ disk = EmptyDisk /\ marker = FALSE
    /\ pc = "down" /\ next = "none" /\ mem = EmptyState
    /\ active = NoReceipts /\ epoch = 0 /\ todo = {}
    /\ pending = None /\ gate = "none" /\ cur = NoWork

Fault == faults < MaxFaults /\ faults' = faults + 1 /\ UNCHANGED <<timeouts, changes, UseRecovery>>
NoFault == UNCHANGED budgets

----------------------------------------------------------------------------
(* What the process reads *)

Held(e, o) == kernel[Slot(e, o)] # None /\ kernel[Slot(e, o)].val = Value(e, o)
Free(e, o) == kernel[Slot(e, o)] = None

\* ownedNetlinkState.check without the deadline: no link event, the same devices.
CheckPasses == ~event /\ dev = mem.dev

\* The receipts of a state, and the entries they confirm.
ReceiptsOf(s) == { s.receipts[k] : k \in { k \in Key : s.receipts[k] # None } }
Confirmed(s) ==
    UNION { { [slot |-> Slot(r.ep, o), val |-> Value(r.ep, o)] : o \in { o \in Obj : r.obj[o] = "confirmed" } } :
              r \in ReceiptsOf(s) }

\* validateReceipts: statuses that carry no open question, the newest
\* incarnation of each key, and no kernel slot twice.
ValidReceipts(s) ==
    /\ \A k \in Key : s.receipts[k] # None =>
        /\ KeyOf(s.receipts[k].ep) = k
        /\ s.receipts[k].inc = s.latest[k] /\ s.receipts[k].gen \in 1..s.gen
        /\ \A o \in Objects(s.receipts[k].ep) :
             s.receipts[k].obj[o] \in {"confirmed", "unattempted", "failed", "absent"}
    /\ \A r, t \in ReceiptsOf(s) : r # t =>
        { Slot(r.ep, o) : o \in Objects(r.ep) } \cap { Slot(t.ep, o) : o \in Objects(t.ep) } = {}

\* Remote state in the kernel that no confirmed receipt describes.  A foreign
\* neighbour entry is not one: it lacks the flag of a learned entry.
Unowned(s) ==
    \E t \in Slots :
        /\ kernel[t] # None
        /\ t[1] = "nbr" => kernel[t].val # Foreign
        /\ ~UseRecovery \/ [slot |-> t, val |-> kernel[t].val] \notin Confirmed(s)

----------------------------------------------------------------------------
(* The journal as the backend uses it *)

Block == pc' = "blocked" /\ UNCHANGED <<next, mem, routeVars, pending, cur>>

\* One Begin or Commit that replaces the record by j; a failed one may have
\* replaced it, and blocks the backend.  Without recovery there is no journal.
Persist(j, Then) ==
    \/ disk' = (IF UseRecovery THEN j ELSE disk) /\ NoFault /\ Then
    \/ UseRecovery /\ Fault /\ disk' \in {disk, j} /\ Block

\* Begin refuses while another intent is outstanding: the backend is blocked.
Intend(i, Then) ==
    IF UseRecovery /\ disk.pending # None
    THEN UNCHANGED <<disk, budgets>> /\ Block
    ELSE Persist([disk EXCEPT !.pending = i], Then)

Acknowledge(Then) == Persist([disk EXCEPT !.pending = None, !.state = mem], Then)

\* checkpoint, entered with the label to go on with.
CheckpointBegin ==
    /\ pc = "checkpoint"
    /\ Intend([op |-> "checkpoint"],
              pc' = "checkpoint-commit" /\ UNCHANGED <<next, mem, routeVars, pending, cur>>)
    /\ UNCHANGED <<envVars, marker, gate>>

CheckpointCommit ==
    /\ pc = "checkpoint-commit"
    /\ Acknowledge(pc' = next /\ next' = "none" /\ UNCHANGED <<mem, routeVars, pending, cur>>)
    /\ UNCHANGED <<envVars, marker, gate>>

Checkpoint(l) == pc' = "checkpoint" /\ next' = l

\* quarantineError: a blocked backend makes its quarantine durable unless an
\* outstanding intent already keeps later starts out.
Quarantine ==
    /\ pc = "blocked" /\ UseRecovery /\ disk.pending = None /\ ~disk.quarantine
    /\ \/ disk' = [disk EXCEPT !.quarantine = TRUE, !.state = mem] /\ NoFault
       \/ Fault /\ disk' = [disk EXCEPT !.pending = [op |-> "checkpoint"]]
    /\ UNCHANGED <<envVars, marker, procVars>>

----------------------------------------------------------------------------
(* Start: NewOwnedOVNNetlinkBackend, openRecovery, verifyRecovered *)

Found == IF disk.state = None THEN [EmptyState EXCEPT !.dev = dev] ELSE disk.state

\* openRecovery accepts the journal and the marker; without recovery any marker
\* of an earlier process refuses.
Opens ==
    IF UseRecovery
    THEN /\ switch # "absent" /\ disk.bound \in {None, switch}
         /\ disk.pending = None /\ ~disk.quarantine
         /\ marker = (disk.state # None)
         /\ ValidReceipts(Found)
    ELSE ~marker

Start ==
    /\ pc = "down" /\ Opens
    /\ Found.dev = dev /\ ~Unowned(Found)
    /\ mem' = Found
    /\ event' = FALSE
    /\ disk' = IF UseRecovery THEN [disk EXCEPT !.bound = switch] ELSE disk
    /\ gate' = IF UseRecovery THEN switch ELSE "none"
    /\ IF marker THEN pc' = "verify" /\ next' = "none" ELSE Checkpoint("mark")
    /\ UNCHANGED <<rib, kernel, dev, switch, met, budgets, marker, routeVars, pending, cur>>

\* Foreign remote state or another device: quarantined, durably if there is a
\* journal.
StartQuarantines ==
    /\ pc = "down" /\ Opens
    /\ Found.dev # dev \/ Unowned(Found)
    /\ UseRecovery
    /\ disk' = [disk EXCEPT !.bound = switch, !.quarantine = TRUE, !.state = Found]
    /\ UNCHANGED <<envVars, budgets, marker, procVars>>

\* acquireRemoteMarker, after the first checkpoint.
CreateMarker ==
    /\ pc = "mark"
    /\ \/ marker' = TRUE /\ pc' = "verify" /\ NoFault
       \/ marker' = FALSE /\ pc' = "down" /\ Fault
    /\ UNCHANGED <<envVars, disk, next, mem, routeVars, pending, gate, cur>>

\* A receipt after verifyRecovered: what is not there is no claim any more.
Verified(r) ==
    [r EXCEPT !.obj = [o \in Obj |->
        IF o \notin Objects(r.ep) \/ (r.obj[o] = "confirmed" /\ Held(r.ep, o)) THEN @[o]
        ELSE IF r.retiring THEN "absent" ELSE "unattempted"]]

RouteOf(r) == [ep |-> r.ep, inc |-> r.inc, gen |-> r.gen, retiring |-> r.retiring]

Restored(rs) == [k \in Key |-> IF rs[k] = None THEN None ELSE RouteOf(rs[k])]

\* verifyRecovered, and restoreReceipts of the importer built on the backend.
Verify ==
    /\ pc = "verify" /\ CheckPasses
    /\ IF \E r \in ReceiptsOf(mem), o \in Obj :
            /\ o \in Objects(r.ep) /\ ~Free(r.ep, o)
            /\ ~(r.obj[o] = "confirmed" /\ Held(r.ep, o))
       THEN Block
       ELSE LET rs == [k \in Key |-> IF mem.receipts[k] = None THEN None
                                      ELSE Verified(mem.receipts[k])]
            IN  /\ mem' = [mem EXCEPT !.receipts = rs]
                /\ active' = Restored(rs)
                /\ epoch' \in { mem.latest[k] : k \in Key } \cup {0}
                /\ \A k \in Key : mem.latest[k] <= epoch'
                /\ Checkpoint("idle")
                /\ UNCHANGED <<todo, pending, cur>>
    /\ UNCHANGED <<envVars, budgets, store, gate>>

----------------------------------------------------------------------------
(* The tick: mapping gate, poll, snapshot *)

MappingVerified == switch # "absent" /\ gate \in {"none", switch}

\* remoteNetworkMappingGate: once verified, any other answer blocks for good.
MappingRefused ==
    /\ pc = "idle" /\ gate # "blocked" /\ ~MappingVerified
    /\ gate' = IF gate = "none" THEN gate ELSE "blocked"
    /\ UNCHANGED <<envVars, budgets, store, pc, next, mem, routeVars, pending, cur>>

Ticks == pc = "idle" /\ MappingVerified

PollFails ==
    /\ Ticks /\ Fault
    /\ pending' = None /\ gate' = switch
    /\ UNCHANGED <<envVars, store, pc, next, mem, routeVars, cur>>

PollDiffers ==
    /\ Ticks /\ pending # rib
    /\ pending' = rib /\ gate' = switch
    /\ UNCHANGED <<envVars, budgets, store, pc, next, mem, routeVars, cur>>

\* An authoritative snapshot is recorded and checkpointed before any mutation.
PollConfirms ==
    /\ Ticks /\ pending = rib
    /\ mem' = [mem EXCEPT !.eps = rib, !.gen = @ + (IF mem.eps = rib THEN 0 ELSE 1)]
    /\ gate' = switch /\ Checkpoint("withdraw")
    /\ UNCHANGED <<envVars, budgets, store, routeVars, pending, cur>>

----------------------------------------------------------------------------
(* Withdrawals come first *)

Current(k) == active[k] # None /\ ~active[k].retiring /\ active[k].ep \in mem.eps

\* Variant: an endpoint that moved to another VTEP keeps its route.
ToWithdrawByKey == { k \in Key : active[k] # None /\ \A e \in mem.eps : KeyOf(e) # k }

ToWithdraw == { k \in Key : active[k] # None /\ ~Current(k) }

\* The neighbour entry is deleted before the FDB entry it depends on.
FirstToDelete == "nbr"

\* ownedWithdraw up to its checkpoint; a route without its receipt is an error.
WithdrawRoute ==
    /\ pc = "withdraw" /\ CheckPasses
    /\ \E k \in ToWithdraw :
        /\ active' = [active EXCEPT ![k].retiring = TRUE]
        /\ IF mem.receipts[k] = None \/ mem.latest[k] # active[k].inc
           THEN pc' = "idle" /\ UNCHANGED <<next, mem, cur>>
           ELSE /\ mem' = [mem EXCEPT !.receipts[k].retiring = TRUE]
                /\ cur' = [key |-> k, obj |-> FirstToDelete]
                /\ Checkpoint("delete")
    /\ UNCHANGED <<envVars, budgets, store, epoch, todo, pending, gate>>

\* The deadline passes at the first check of Withdraw: the route is retiring from then on.
WithdrawTimesOut ==
    /\ pc = "withdraw" /\ timeouts < MaxTimeouts
    /\ timeouts' = timeouts + 1
    /\ \E k \in ToWithdraw : active' = [active EXCEPT ![k].retiring = TRUE]
    /\ pc' = "idle"
    /\ UNCHANGED <<envVars, faults, changes, UseRecovery, store, next, mem, epoch, todo, pending, gate, cur>>

\* Variant: routes are applied before the old ones are withdrawn.
NothingToWithdrawYet ==
    /\ pc = "withdraw"
    /\ pc' = "apply" /\ todo' = { KeyOf(e) : e \in mem.eps }
    /\ UNCHANGED <<envVars, budgets, store, next, mem, active, epoch, pending, gate, cur>>

NothingToWithdraw ==
    /\ pc = "withdraw" /\ ToWithdraw = {}
    /\ pc' = "apply" /\ todo' = { KeyOf(e) : e \in mem.eps }
    /\ UNCHANGED <<envVars, budgets, store, next, mem, active, epoch, pending, gate, cur>>

Receipt == mem.receipts[cur.key]
Status == Receipt.obj[cur.obj]
Entry == Slot(Receipt.ep, cur.obj)
Here == Held(Receipt.ep, cur.obj)
Absent == Free(Receipt.ep, cur.obj)
SetStatus(st) == mem' = [mem EXCEPT !.receipts[cur.key].obj[cur.obj] = st]
Stay == UNCHANGED <<next, routeVars, pending, cur>>

AfterDelete ==
    IF cur.obj = FirstToDelete
    THEN pc' = "delete" /\ \E o \in Obj \ {FirstToDelete} : cur' = [cur EXCEPT !.obj = o]
    ELSE pc' = "withdrawn" /\ UNCHANGED cur

\* withdrawObject of an object that was never confirmed, or is gone already.
DeleteUnconfirmed ==
    /\ pc = "delete"
    /\ \/ /\ cur.obj \notin Objects(Receipt.ep) \/ Status = "absent"
          /\ AfterDelete /\ UNCHANGED mem
       \/ /\ cur.obj \in Objects(Receipt.ep) /\ Status \in {"failed", "unattempted"} /\ CheckPasses
          /\ IF Absent THEN SetStatus("absent") /\ AfterDelete
                       ELSE pc' = "blocked" /\ UNCHANGED <<mem, cur>>
       \/ /\ cur.obj \in Objects(Receipt.ep) /\ Status \in {"pending", "unknown"}
          /\ pc' = "idle" /\ UNCHANGED <<mem, cur>>
    /\ UNCHANGED <<envVars, budgets, store, next, routeVars, pending, gate>>

\* withdrawObject of a confirmed object: read back, record the intent, ...
DeleteBegin ==
    /\ pc = "delete" /\ CheckPasses
    /\ cur.obj \in Objects(Receipt.ep) /\ Status = "confirmed"
    /\ IF Here
       THEN Intend([op |-> "delete", slot |-> Entry], pc' = "delete-read" /\ UNCHANGED mem /\ Stay)
       ELSE UNCHANGED <<disk, budgets>> /\ Block
    /\ UNCHANGED <<envVars, marker, gate>>

\* An entry of somebody else that is read back is one that was met.
Meets == met' = IF Absent \/ kernel[Entry].mine THEN met ELSE met \cup {Entry}

\* Variant: what is read back after the intent is not compared.
DeleteReadAny ==
    /\ pc = "delete-read" /\ CheckPasses
    /\ pc' = "delete-send" /\ Meets
    /\ UNCHANGED <<rib, kernel, dev, event, switch, budgets, store, mem, gate>> /\ Stay

\* ... read back again, ...
DeleteRead ==
    /\ pc = "delete-read" /\ CheckPasses
    /\ Meets
    /\ IF Here THEN pc' = "delete-send" /\ UNCHANGED mem /\ Stay ELSE Block
    /\ UNCHANGED <<rib, kernel, dev, event, switch, budgets, store, gate>>

\* ... send the deletion, which goes by the slot: what it finds there may be another entry by now, and it
\* removes or refuses that one.  After any error the intent stays; without a journal a definite refusal is
\* tried again.
DeleteSend ==
    /\ pc = "delete-send"
    /\ \/ /\ ~Absent /\ kernel' = [kernel EXCEPT ![Entry] = None]
          /\ pc' = "delete-confirm" /\ UNCHANGED mem /\ Stay /\ NoFault
       \/ /\ Fault
          /\ kernel' \in {kernel, [kernel EXCEPT ![Entry] = None]}
          /\ SetStatus("unknown") /\ Stay /\ pc' = "blocked"
       \/ /\ IF Here THEN Fault ELSE NoFault
          /\ pc' = (IF UseRecovery THEN "blocked" ELSE "idle") /\ UNCHANGED <<kernel, mem>> /\ Stay
    /\ UNCHANGED <<rib, dev, event, switch, met, store, gate>>

\* ... verify that it is gone, ...
DeleteConfirm ==
    /\ pc = "delete-confirm" /\ CheckPasses
    /\ IF Absent THEN SetStatus("absent") /\ pc' = "delete-ack"
                 ELSE SetStatus("unknown") /\ pc' = "blocked"
    /\ UNCHANGED <<envVars, budgets, store, gate>> /\ Stay

\* ... and acknowledge.
DeleteAck ==
    /\ pc = "delete-ack"
    /\ Acknowledge(AfterDelete /\ UNCHANGED <<next, mem, routeVars, pending>>)
    /\ UNCHANGED <<envVars, marker, gate>>

\* The end of ownedWithdraw: the receipt is dropped and that is checkpointed.
Withdrawn ==
    /\ pc = "withdrawn"
    /\ mem' = [mem EXCEPT !.receipts[cur.key] = None]
    /\ active' = [active EXCEPT ![cur.key] = None]
    /\ cur' = NoWork
    /\ Checkpoint("withdraw")
    /\ UNCHANGED <<envVars, budgets, store, epoch, todo, pending, gate>>

----------------------------------------------------------------------------
(* Then every desired route is applied, or verified *)

Wanted(k) == CHOOSE e \in mem.eps : KeyOf(e) = k

NewRoute(k) == [ep |-> Wanted(k), inc |-> epoch + 1, gen |-> mem.gen, retiring |-> FALSE]
Route(k) == IF active[k] = None THEN NewRoute(k) ELSE active[k]
Activate(k) ==
    /\ active' = [active EXCEPT ![k] = Route(k)]
    /\ epoch' = IF active[k] = None THEN epoch + 1 ELSE epoch
NewReceipt(r) ==
    [ep |-> r.ep, inc |-> r.inc, gen |-> r.gen, retiring |-> FALSE,
     obj |-> [o \in Obj |-> "unattempted"]]

\* ownedApply up to its first object.
ApplyRoute ==
    /\ pc = "apply" /\ CheckPasses
    /\ \E k \in todo :
        /\ Activate(k)
        /\ todo' = todo \ {k}
        /\ IF mem.receipts[k] = None /\ Route(k).inc <= mem.latest[k]
           THEN pc' = "idle" /\ UNCHANGED <<mem, cur>>
           ELSE /\ mem' = IF mem.receipts[k] # None THEN mem
                          ELSE [mem EXCEPT !.receipts[k] = NewReceipt(Route(k)),
                                           !.latest[k] = Route(k).inc]
                /\ cur' = [key |-> k, obj |-> "fdb"] /\ pc' = "add"
    /\ UNCHANGED <<envVars, budgets, store, next, pending, gate>>

\* The deadline passes before ownedApply has made the receipt of a new route.
ApplyTimesOut ==
    /\ pc = "apply" /\ timeouts < MaxTimeouts
    /\ timeouts' = timeouts + 1
    /\ \E k \in todo : Activate(k)
    /\ pc' = "idle" /\ todo' = {}
    /\ UNCHANGED <<envVars, faults, changes, UseRecovery, store, next, mem, pending, gate, cur>>

AllApplied ==
    /\ pc = "apply" /\ todo = {}
    /\ pc' = "idle"
    /\ UNCHANGED <<envVars, budgets, store, next, mem, routeVars, pending, gate, cur>>

AfterAdd ==
    IF cur.obj = "fdb" /\ "nbr" \in Objects(Receipt.ep)
    THEN pc' = "add" /\ cur' = [cur EXCEPT !.obj = "nbr"] /\ UNCHANGED next
    ELSE Checkpoint("apply") /\ cur' = NoWork

\* applyObject of a confirmed object only reads it back.
AddConfirmed ==
    /\ pc = "add" /\ CheckPasses /\ Status = "confirmed"
    /\ IF Here THEN AfterAdd /\ UNCHANGED <<mem, routeVars, pending>> ELSE Block
    /\ UNCHANGED <<envVars, budgets, store, gate>>

\* Variant: the intent is not recorded before the request.
AddBeginUnjournalled ==
    /\ pc = "add" /\ CheckPasses /\ Status # "confirmed" /\ Absent
    /\ SetStatus("pending") /\ pc' = "add-send" /\ Stay
    /\ UNCHANGED <<envVars, budgets, store, gate>>

AddBegin ==
    /\ pc = "add" /\ CheckPasses /\ Status # "confirmed"
    /\ IF Absent
       THEN Intend([op |-> "add", slot |-> Entry], SetStatus("pending") /\ pc' = "add-send" /\ Stay)
       ELSE UNCHANGED <<disk, budgets>> /\ Block
    /\ UNCHANGED <<envVars, marker, gate>>

MyEntry == [val |-> Value(Receipt.ep, cur.obj), mine |-> TRUE]

\* NeighAdd creates the entry or refuses.  With a journal every error keeps the
\* intent and blocks; without one a definite refusal is only a failed object.
AddSend ==
    /\ pc = "add-send" /\ CheckPasses
    /\ IF ~Absent
       THEN /\ UNCHANGED <<kernel, budgets>>
            /\ \/ Block
               \/ ~UseRecovery /\ SetStatus("failed") /\ pc' = "idle" /\ Stay
       ELSE \/ /\ kernel' = [kernel EXCEPT ![Entry] = MyEntry]
               /\ pc' = "add-confirm" /\ UNCHANGED mem /\ Stay /\ NoFault
            \/ /\ Fault
               /\ kernel' \in {kernel, [kernel EXCEPT ![Entry] = MyEntry]}
               /\ SetStatus("unknown") /\ Stay /\ pc' = "blocked"
            \/ /\ ~UseRecovery /\ Fault /\ UNCHANGED kernel
               /\ SetStatus("failed") /\ Stay /\ pc' = "idle"
    /\ UNCHANGED <<rib, dev, event, switch, met, store, gate>>

AddConfirm ==
    /\ pc = "add-confirm" /\ CheckPasses
    /\ IF Here THEN SetStatus("confirmed") /\ pc' = "add-ack"
               ELSE SetStatus("unknown") /\ pc' = "blocked"
    /\ UNCHANGED <<envVars, budgets, store, gate>> /\ Stay

AddAck ==
    /\ pc = "add-ack"
    /\ Acknowledge(AfterAdd /\ UNCHANGED <<mem, routeVars, pending>>)
    /\ UNCHANGED <<envVars, marker, gate>>

----------------------------------------------------------------------------
(* What can go wrong *)

Checking == {"verify", "withdraw", "apply", "add", "add-send", "add-confirm",
             "delete", "delete-read", "delete-confirm"}

\* check finds a link event or another device.
CheckFails ==
    /\ pc \in Checking /\ ~CheckPasses
    /\ Block
    /\ UNCHANGED <<envVars, budgets, store, gate>>

\* The deadline of the tick passes at a check.  An intent that was recorded stays
\* outstanding; an operation already sent has an unknown outcome.
TimesOut ==
    /\ pc \in Checking \ {"verify", "withdraw", "apply"} /\ timeouts < MaxTimeouts
    /\ timeouts' = timeouts + 1
    /\ pc' = IF pc \in {"add-confirm", "delete-confirm"} THEN "blocked" ELSE "idle"
    /\ todo' = {}
    /\ UNCHANGED <<envVars, faults, changes, UseRecovery, store, next, mem, active, epoch,
                   pending, gate, cur>>

Crash ==
    /\ pc # "down" /\ Fault
    /\ pc' = "down" /\ next' = "none" /\ mem' = EmptyState
    /\ active' = NoReceipts /\ epoch' = 0 /\ todo' = {}
    /\ pending' = None /\ gate' = "none" /\ cur' = NoWork
    /\ event' = FALSE
    /\ UNCHANGED <<rib, kernel, dev, switch, met, store>>

\* The bridge or VXLAN device is recreated, with the same identity or a new one.
DeviceReplaced ==
    /\ Fault
    /\ kernel' = [s \in Slots |-> None]
    /\ dev' \in {dev, dev + 1}
    /\ event' = (pc # "down") /\ met' = {}
    /\ UNCHANGED <<rib, switch, store, procVars>>

\* Somebody else writes into a free slot, or removes any entry.
ForeignAdds ==
    /\ Fault
    /\ \E s \in Slots : /\ kernel[s] = None /\ kernel' = [kernel EXCEPT ![s] = [val |-> Foreign, mine |-> FALSE]]
                        /\ met' = met \ {s}
    /\ UNCHANGED <<rib, dev, event, switch, store, procVars>>

ForeignDeletes ==
    /\ Fault
    /\ \E s \in Slots : kernel[s] # None /\ kernel' = [kernel EXCEPT ![s] = None]
    /\ UNCHANGED <<rib, dev, event, switch, met, store, procVars>>

SwitchChanges ==
    /\ Fault
    /\ switch' \in {"same", "absent", "other"} \ {switch}
    /\ switch # "other"
    /\ UNCHANGED <<rib, kernel, dev, event, met, store, procVars>>

RibChanges ==
    /\ changes < MaxChanges
    /\ changes' = changes + 1
    /\ rib' \in Snapshots \ {rib}
    /\ UNCHANGED <<kernel, dev, event, switch, met, faults, timeouts, UseRecovery, store, procVars>>

Process ==
    \/ Start \/ StartQuarantines \/ CreateMarker \/ Verify
    \/ CheckpointBegin \/ CheckpointCommit \/ Quarantine
    \/ MappingRefused \/ PollFails \/ PollDiffers \/ PollConfirms
    \/ WithdrawRoute \/ WithdrawTimesOut \/ NothingToWithdraw
    \/ DeleteUnconfirmed \/ DeleteBegin \/ DeleteRead \/ DeleteSend \/ DeleteConfirm \/ DeleteAck \/ Withdrawn
    \/ ApplyRoute \/ ApplyTimesOut \/ AllApplied
    \/ AddConfirmed \/ AddBegin \/ AddSend \/ AddConfirm \/ AddAck
    \/ CheckFails \/ TimesOut
Environment ==
    Crash \/ DeviceReplaced \/ ForeignAdds \/ ForeignDeletes \/ SwitchChanges \/ RibChanges
Next == Process \/ Environment

Spec == Init /\ [][Next]_vars
\* The agent is restarted, the ticker fires again, and no step hangs for ever.
FairSpec == Spec /\ WF_vars(Process)

----------------------------------------------------------------------------
(* Properties *)

TypeOK ==
    /\ rib \in Snapshots
    /\ \A s \in Slots : kernel[s] # None => kernel[s].mine \in BOOLEAN
    /\ \A k \in Key : mem.receipts[k] # None =>
         /\ KeyOf(mem.receipts[k].ep) = k
         /\ \A o \in Obj : mem.receipts[k].obj[o] \in ObjStatus
         /\ mem.receipts[k].inc \in 1..mem.latest[k]
    /\ \A k \in Key : active[k] # None => KeyOf(active[k].ep) = k /\ active[k].inc \in Nat \ {0}
    /\ todo \subseteq Key

\* A kernel entry the importer wrote is never orphaned: at every moment, through
\* crashes, lost replies and quarantine, the journal holds a confirmed receipt of
\* it or the intent under which it was created.
OwnEntriesAccounted ==
    UseRecovery =>
        \A s \in Slots : kernel[s] # None /\ kernel[s].mine =>
            \/ disk.state # None /\ [slot |-> s, val |-> kernel[s].val] \in Confirmed(disk.state)
            \/ disk.pending # None /\ disk.pending.op = "add" /\ disk.pending.slot = s

\* An entry somebody else wrote is never replaced, and removed by one request only: a deletion whose readback, after
\* the intent was recorded, came before that entry.  NeighDel is no compare and swap.
ForeignPreserved ==
    [][ \A s \in Slots : kernel[s] # None /\ ~kernel[s].mine /\ kernel'[s] # kernel[s] =>
          \/ UNCHANGED procVars
          \/ pc = "delete-send" /\ s = Entry /\ s \notin met /\ kernel'[s] = None ]_vars

\* What the importer persists is what openRecovery accepts: a journal without an
\* outstanding intent or a quarantine passes validateReceipts at the next start.
JournalStaysReadable ==
    disk.state # None /\ disk.pending = None /\ ~disk.quarantine => ValidReceipts(disk.state)

\* In memory every receipt and route is filed under its key with an incarnation
\* that was given out, and on disk only what openRecovery accepts again.
WellFormed == TypeOK /\ JournalStaysReadable

----------------------------------------------------------------------------
\* A route that was retained without its receipt can never be withdrawn, nor an
\* object whose creation was given up between its intent and the request.
Wedged ==
    \E k \in Key : active[k] # None /\ active[k].retiring
        /\ \/ mem.receipts[k] = None
           \/ \E o \in Obj : mem.receipts[k].obj[o] \in {"pending", "unknown"}

\* The states in which the importer waits for an administrator.
Stopped ==
    \/ pc = "blocked" \/ gate = "blocked" \/ (gate = "none" /\ switch = "absent") \/ Wedged
    \/ pc = "down" /\ (~Opens \/ (~UseRecovery /\ (Found.dev # dev \/ Unowned(Found))))

Programmed ==
    \A s \in Slots :
        IF \E e \in rib, o \in Obj : o \in Objects(e) /\ Slot(e, o) = s
        THEN \E e \in rib, o \in Obj : o \in Objects(e) /\ Slot(e, o) = s /\ Held(e, o)
        ELSE kernel[s] = None \/ ~kernel[s].mine

\* Once the table, the devices and the mapping stay as they are, the kernel holds
\* exactly the remote endpoints, or the importer has stopped for good.
ConvergesOrStops == <>[]Programmed \/ <>[]Stopped
====
