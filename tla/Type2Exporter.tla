--------------------------- MODULE Type2Exporter ---------------------------
(***************************************************************************)
(* The exporter of local EVPN Type-2 routes: the periodic tick of          *)
(* pkg/nodeagent/export_runtime.go, EndpointExporter.reconcile             *)
(* (pkg/evpn/exporter.go), the RouteReconciler's plan                      *)
(* (type2.go, type2_lifecycle.go), ExportRecovery (export_recovery.go) and *)
(* the GoBGP adapter (type2_gobgp.go), composed with the speaker and with  *)
(* the ownership journal.                                                  *)
(*                                                                         *)
(* A wire route (NLRI) is a member of Key; everything else of an endpoint  *)
(* that reaches the wire is a member of Attr.  The journal is one record   *)
(* that Begin and Commit replace atomically, either failing before or      *)
(* after the replacement and then fencing the instance: that is what       *)
(* Journal.tla shows of the file protocol.  An observation that is checked *)
(* against the speaker's incarnation before and after is one step, joined  *)
(* with the local decision and journal write that follow it.  A mutating   *)
(* RPC, whose effect and reply may part ways, is a step of its own.        *)
(***************************************************************************)
EXTENDS Naturals

CONSTANTS
    Key,           \* wire routes: one local path per route in the speaker
    Attr,          \* the rest of a route's payload
    None,
    Setups,        \* the configurations and speakers to consider, each
                   \* recovery: the configuration has a Recovery section
                   \* uuids: ListPath reports path UUIDs
                   \* late: an AddPath may take effect after its call failed
    MaxFaults,     \* bound: crashes, restarts, foreign writes, errors, lost replies
    MaxChanges     \* bound: changes of the local endpoints

Endpoint == [key : Key, attr : Attr]
Receipt == [key : Key, attr : Attr, uuid : Nat \ {0}]
\* mine, acked, raw: written by this exporter; its reply was received; without
\* a journal (history).
Path == [attr : Attr, uuid : Nat, mine : BOOLEAN, acked : BOOLEAN, raw : BOOLEAN]
Op == [act : {"withdraw", "advertise"}, key : Key, attr : Attr, uuid : Nat]
\* What the journal records before an AddPath, a DeletePath or a checkpoint.
Intent ==
    [op : {"add"}, key : Key, attr : Attr]
    \cup [op : {"delete"}, inc : Nat, key : Key, attr : Attr, uuid : Nat \ {0}]
    \cup [op : {"checkpoint"}, receipts : SUBSET Receipt]

ASSUME ConfigAssumption ==
    /\ Setups \subseteq [recovery : BOOLEAN, uuids : BOOLEAN, late : BOOLEAN]
    /\ MaxFaults \in Nat /\ MaxChanges \in Nat
ASSUME NoneAssumption == None \notin Path \cup Op \cup Intent

VARIABLES
    \* the node and the speaker
    want,     \* the endpoints the observers would report now
    inc,      \* the speaker's incarnation (process)
    rib,      \* rib[k]: the speaker's local path for route k, or None
    wire,     \* an AddPath that failed at the caller but may still arrive
    faults, changes,
    setup,    \* the setup this is, one of Setups for good
    \* stable storage
    disk,     \* the exporter's journal; st is "absent", "ok", or "unusable":
              \* a directory without the files Open insists on
    \* the exporter process
    pc,       \* "idle" between ticks, otherwise the next step of the tick
    conn,     \* the incarnation the transport is pinned to, 0 if none
    attached, \* exporter.Recovery # nil
    mem,      \* ExportRecovery.state
    fenced,   \* the journal instance is blocked
    applied, foreign, \* the reconciler's confirmed and unclaimed routes
    initialized, blocked, \* fields of EndpointExporter
    desired, plan, cur    \* locals of the tick

envVars == <<want, inc, rib, wire, faults, changes, setup>>
tickVars == <<desired, plan, cur>>
procVars == <<pc, conn, attached, mem, fenced, applied, foreign, initialized,
              blocked, tickVars>>
vars == <<envVars, disk, procVars>>

UseRecovery == setup.recovery
UuidShown == setup.uuids
LateDelivery == setup.late

EmptyState == [inc |-> 0, receipts |-> {}]

Found(k) == rib[k] # None
Alive == conn = inc
EndpointOf(r) == [key |-> r.key, attr |-> r.attr]

\* ribPathMatchesEndpoint, and the UUID comparison where ListPath shows it.
PayloadMatches(r) == rib[r.key].attr = r.attr
Matches(r) == PayloadMatches(r) /\ (UuidShown => rib[r.key].uuid = r.uuid)

UsedUuids ==
    { rib[k].uuid : k \in { k \in Key : Found(k) } }
    \cup { r.uuid : r \in disk.receipts \cup mem.receipts \cup applied \cup plan }
    \cup (IF disk.pending # None /\ disk.pending.op = "delete" THEN {disk.pending.uuid} ELSE {})
    \cup (IF cur # None /\ "uuid" \in DOMAIN cur THEN {cur.uuid} ELSE {})
\* A UUID nothing refers to any more may be used again.
NewUuid == CHOOSE u \in { v + 1 : v \in UsedUuids \cup {0} } : u \notin UsedUuids

Fault == faults < MaxFaults /\ faults' = faults + 1
NoFault == UNCHANGED faults

\* The tick returns; the plan and the observation are dropped.
EndTick == pc' = "idle" /\ desired' = {} /\ plan' = {} /\ cur' = None
Goto(l) == pc' = l /\ UNCHANGED tickVars

Init ==
    /\ want \in {{}} \cup { {e} : e \in Endpoint }
    /\ inc = 1
    /\ rib = [k \in Key |-> None]
    /\ wire = None
    /\ faults = 0 /\ changes = 0
    /\ setup \in Setups
    /\ disk = [st |-> "absent", inc |-> 0, receipts |-> {}, pending |-> None]
    /\ pc = "idle" /\ conn = 0 /\ attached = FALSE
    /\ mem = EmptyState /\ fenced = FALSE
    /\ applied = {} /\ foreign = {}
    /\ initialized = FALSE /\ blocked = FALSE
    /\ desired = {} /\ plan = {} /\ cur = None

----------------------------------------------------------------------------
(* The journal as its caller sees it *)

\* One Begin or Commit.  A failed write may or may not have replaced the
\* record, and blocks this instance for good.
Write(new, ok) ==
    /\ ~fenced
    /\ fenced' = ~ok
    /\ disk' \in IF ok THEN {new} ELSE {new, disk}
    /\ IF ok THEN NoFault ELSE Fault

Intend(i) == [disk EXCEPT !.pending = i]
Acknowledge(s) == [disk EXCEPT !.inc = s.inc, !.receipts = s.receipts, !.pending = None]

\* ExportRecovery.validate, and the state OpenExportRecovery insists on.
Readable(j) ==
    /\ j.inc = 0 => j.receipts = {} /\ (j.pending # None => j.pending.op = "checkpoint")
    /\ \A r, s \in j.receipts : r # s => r.key # s.key /\ r.uuid # s.uuid

----------------------------------------------------------------------------
(* tick: transport *)

\* With recovery a transport is attested when it is dialled and dropped when
\* its speaker is gone; without, it is dialled once and bound by the first RPC.
Dials == UseRecovery /\ (conn = 0 \/ ~Alive)

\* A new attested transport; ExportRecovery is opened once per process and
\* bound to later transports.
Connect ==
    /\ pc = "idle" /\ Dials
    /\ conn' = inc
    /\ IF attached
       THEN UNCHANGED <<disk, mem, attached>>
       ELSE /\ disk.st # "unusable" /\ Readable(disk)
            /\ disk' = [disk EXCEPT !.st = "ok"]
            /\ mem' = [inc |-> disk.inc, receipts |-> disk.receipts]
            /\ attached' = TRUE
    /\ Goto("observe")
    /\ UNCHANGED <<envVars, fenced, applied, foreign, initialized, blocked>>

\* OpenExportRecovery fails, on what it finds or on an I/O error, which can leave
\* a new directory half initialised: the error ends the tick, the transport and
\* the adapter stay.
ConnectRefused ==
    /\ pc = "idle" /\ Dials /\ ~attached
    /\ IF disk.st = "unusable" \/ ~Readable(disk)
       THEN NoFault /\ UNCHANGED disk
       ELSE /\ Fault
            /\ \/ UNCHANGED disk
               \/ disk.st = "absent" /\ disk' = [disk EXCEPT !.st = "unusable"]
    /\ conn' = inc
    /\ UNCHANGED <<want, inc, rib, wire, changes, setup, pc, attached, mem, fenced,
                   applied, foreign, initialized, blocked, tickVars>>

\* The transport is closed and dialling or attesting the new one fails.
Disconnect ==
    /\ pc = "idle" /\ conn # 0 /\ Dials
    /\ conn' = 0
    /\ Fault
    /\ UNCHANGED <<want, inc, rib, wire, changes, setup, disk, pc, attached, mem, fenced,
                   applied, foreign, initialized, blocked, tickVars>>

\* No new transport is needed.
KeepTransport ==
    /\ pc = "idle" /\ ~Dials
    /\ Goto("observe")
    /\ UNCHANGED <<envVars, disk, conn, attached, mem, fenced, applied, foreign,
                   initialized, blocked>>

----------------------------------------------------------------------------
(* EndpointExporter.reconcile: observation and gates *)

Observe ==
    /\ pc = "observe" /\ ~blocked
    /\ conn \in {0, inc}
    /\ conn' = inc
    /\ desired' = want
    /\ pc' = CASE attached -> "recover"
               [] ~attached /\ initialized -> "compare"
               [] OTHER -> "resync"
    /\ UNCHANGED <<envVars, disk, attached, mem, fenced, applied, foreign,
                   initialized, blocked, plan, cur>>

\* Writes are blocked, or the speaker is gone: without recovery that blocks an
\* initialized exporter for good.
ObserveRefused ==
    /\ pc = "observe"
    /\ blocked \/ conn \notin {0, inc}
    /\ blocked' = (blocked \/ (~attached /\ initialized))
    /\ EndTick
    /\ UNCHANGED <<envVars, disk, conn, attached, mem, fenced, applied, foreign,
                   initialized>>

\* An observation, a gate or an RPC fails without effect and ends the tick.
TickFails ==
    /\ pc \notin {"idle", "checkpoint"}
    /\ Fault
    /\ EndTick
    /\ UNCHANGED <<want, inc, rib, wire, changes, setup, disk, conn, attached, mem, fenced,
                   applied, foreign, initialized, blocked>>

\* A check of the pinned speaker fails.  Without recovery the check before a
\* mutation blocks the exporter.
SpeakerGone ==
    /\ pc \notin {"idle", "observe", "checkpoint"} /\ ~Alive
    /\ blocked' = (blocked \/ (pc = "apply" /\ plan # {} /\ ~attached))
    /\ EndTick
    /\ UNCHANGED <<envVars, disk, conn, attached, mem, fenced, applied, foreign,
                   initialized>>

----------------------------------------------------------------------------
(* ExportRecovery.Recover *)

Kept == { r \in mem.receipts : Found(r.key) }
Recovered == [inc |-> inc, receipts |-> Kept]
\* Variant: the receipt of a withdrawn path stays.
WithoutNone(s, u) == s

Without(s, u) == [s EXCEPT !.receipts = { r \in @ : r.uuid # u }]

\* A receipt whose route holds another incarnation's, or another, path.
Conflicting == \E r \in mem.receipts : Found(r.key) /\ (inc # mem.inc \/ ~Matches(r))

\* Variant: an outstanding AddPath is discharged whatever its route holds.
PendingRefusedDeletesOnly ==
    /\ disk.pending # None /\ disk.pending.op = "delete"
    /\ \/ \A r \in mem.receipts : r.uuid # disk.pending.uuid
       \/ Found(disk.pending.key) /\ inc # disk.pending.inc

\* The outstanding intents Recover cannot resolve.
PendingRefused ==
    LET i == disk.pending IN
    /\ i # None
    /\ \/ i.op = "checkpoint" /\ ~(i.receipts \subseteq mem.receipts)
       \/ i.op = "add" /\ Found(i.key)
       \/ /\ i.op = "delete"
          /\ \/ [key |-> i.key, attr |-> i.attr, uuid |-> i.uuid] \notin mem.receipts
             \/ Found(i.key) /\ inc # i.inc

RecoverRefused ==
    /\ pc = "recover" /\ Alive
    /\ fenced \/ Conflicting \/ PendingRefused
    /\ EndTick
    /\ UNCHANGED <<envVars, disk, conn, attached, mem, fenced, applied, foreign,
                   initialized, blocked>>

Recovers ==
    /\ pc = "recover" /\ Alive
    /\ ~(fenced \/ Conflicting \/ PendingRefused)
    /\ UNCHANGED <<want, inc, rib, wire, changes, setup, conn, attached, applied, foreign,
                   initialized, blocked>>

\* Commit of state s: the tick goes on to l, or the journal is fenced.
Commits(s, l) ==
    \E ok \in BOOLEAN :
        /\ Write(Acknowledge(s), ok)
        /\ mem' = IF ok THEN s ELSE mem
        /\ IF ok THEN pc' = l /\ cur' = None /\ UNCHANGED <<desired, plan>> ELSE EndTick

\* A checkpoint is committed with what is found now; an AddPath or a DeletePath
\* whose route is absent is discharged.
RecoverPending ==
    /\ Recovers /\ disk.pending # None
    /\ IF disk.pending.op = "delete"
       THEN ~Found(disk.pending.key) /\ Commits(Without(Recovered, disk.pending.uuid), "resync")
       ELSE Commits(Recovered, "resync")

\* Variant: delete whatever path the route holds.
DeletePathByRoute(r, replied) ==
    IF Found(r.key)
    THEN rib' = [rib EXCEPT ![r.key] = None] /\ (IF replied THEN NoFault ELSE Fault)
    ELSE replied /\ UNCHANGED <<rib, faults>>

\* The adapter's DeletePath of the exact UUID r.uuid.  It succeeds on an absent
\* route; a path the adapter, or the speaker, finds to be another one is left
\* alone; the reply to an applied deletion may be lost.
DeletePath(r, replied) ==
    LET same == Matches(r) /\ rib[r.key].uuid = r.uuid
    IN  IF Found(r.key) /\ same
        THEN /\ rib' = [rib EXCEPT ![r.key] = None]
             /\ IF replied THEN NoFault ELSE Fault
        ELSE replied = ~Found(r.key) /\ UNCHANGED <<rib, faults>>

\* An outstanding deletion is sent again.
RecoverDelete ==
    /\ pc = "recover" /\ Alive
    /\ ~(fenced \/ Conflicting \/ PendingRefused)
    /\ disk.pending # None /\ disk.pending.op = "delete" /\ Found(disk.pending.key)
    /\ \/ /\ DeletePath(disk.pending, TRUE)
          /\ pc' = "recover-readback"
          /\ cur' = Without(Recovered, disk.pending.uuid)
          /\ UNCHANGED <<desired, plan>>
       \/ DeletePath(disk.pending, FALSE) /\ EndTick
    /\ UNCHANGED <<want, inc, wire, changes, setup, disk, conn, attached, mem, fenced,
                   applied, foreign, initialized, blocked>>

RecoverReadback ==
    /\ pc = "recover-readback" /\ Alive
    /\ IF Found(disk.pending.key)
       THEN EndTick /\ UNCHANGED <<disk, fenced, faults, mem>>
       ELSE Commits(cur, "resync")
    /\ UNCHANGED <<want, inc, rib, wire, changes, setup, conn, attached, applied, foreign,
                   initialized, blocked>>

\* The state changed: checkpoint it.  An empty list of receipts left by a
\* withdrawal also differs from the nil one compared with it.
RecoverCheckpoint ==
    /\ Recovers /\ disk.pending = None
    /\ mem # Recovered \/ mem.receipts = {}
    /\ UNCHANGED mem
    /\ \E ok \in BOOLEAN :
        /\ Write(Intend([op |-> "checkpoint", receipts |-> Kept]), ok)
        /\ IF ok THEN pc' = "checkpoint" /\ cur' = Recovered /\ UNCHANGED <<desired, plan>>
                 ELSE EndTick

CommitCheckpoint ==
    /\ pc = "checkpoint"
    /\ Commits(cur, "resync")
    /\ UNCHANGED <<want, inc, rib, wire, changes, setup, conn, attached, applied, foreign,
                   initialized, blocked>>

RecoverUnchanged ==
    /\ Recovers /\ disk.pending = None /\ mem = Recovered
    /\ Goto("resync")
    /\ UNCHANGED <<faults, disk, fenced, mem>>

----------------------------------------------------------------------------
(* RouteReconciler: resynchronisation and plan *)

\* Variant: every local path found is claimed.
ResyncEnumerating ==
    /\ pc = "resync" /\ Alive
    /\ applied' = { [key |-> k, attr |-> rib[k].attr, uuid |-> rib[k].uuid] :
                      k \in { k \in Key : Found(k) } }
    /\ foreign' = {} /\ initialized' = TRUE
    /\ Goto("compare")
    /\ UNCHANGED <<envVars, disk, conn, attached, mem, fenced, blocked>>

\* resyncDurable with the recovered receipts, Resync without any.
Resync ==
    /\ pc = "resync" /\ Alive
    /\ LET claims == IF attached THEN mem.receipts ELSE {}
       IN  IF \A r \in claims : Found(r.key) /\ Matches(r)
           THEN /\ applied' = claims
                /\ foreign' = { k \in Key : Found(k) } \ { r.key : r \in claims }
                /\ initialized' = TRUE
                /\ Goto("compare")
           ELSE EndTick /\ UNCHANGED <<applied, foreign, initialized>>
    /\ UNCHANGED <<envVars, disk, conn, attached, mem, fenced, blocked>>

\* A confirmed path is gone: no more writes by this process.
PathDisappeared ==
    /\ pc = "compare" /\ Alive
    /\ \E r \in applied : ~(Found(r.key) /\ PayloadMatches(r))
    /\ blocked' = TRUE
    /\ EndTick
    /\ UNCHANGED <<envVars, disk, conn, attached, mem, fenced, applied, foreign,
                   initialized>>

Conflict(s) == \E e, f \in s : e.key = f.key /\ e # f

\* Variant: the last endpoint is not withdrawn.
WithdrawalsUnlessLast(s) ==
    { [act |-> "withdraw", key |-> r.key, attr |-> r.attr, uuid |-> r.uuid] :
        r \in { r \in applied : s # {} /\ EndpointOf(r) \notin s } }

Withdrawals(s) ==
    { [act |-> "withdraw", key |-> r.key, attr |-> r.attr, uuid |-> r.uuid] :
        r \in { r \in applied : EndpointOf(r) \notin s } }
Advertisements(s) ==
    { [act |-> "advertise", key |-> e.key, attr |-> e.attr, uuid |-> 0] :
        e \in s \ { EndpointOf(r) : r \in applied } }

\* Nothing is planned for conflicting endpoints or over an unclaimed path.
Reconcile ==
    /\ pc = "compare" /\ Alive
    /\ \A r \in applied : Found(r.key) /\ PayloadMatches(r)
    /\ IF Conflict(desired) \/ \E e \in desired : e.key \in foreign
       THEN EndTick
       ELSE /\ plan' = Withdrawals(desired) \cup Advertisements(desired)
            /\ desired' = {}
            /\ pc' = "apply"
            /\ UNCHANGED cur
    /\ UNCHANGED <<envVars, disk, conn, attached, mem, fenced, applied, foreign,
                   initialized, blocked>>

----------------------------------------------------------------------------
(* RouteReconciler.Apply: withdrawals first *)

NextOps ==
    LET withdrawals == { o \in plan : o.act = "withdraw" }
    IN  IF withdrawals # {} THEN withdrawals ELSE plan

ReceiptOf(o) == [key |-> o.key, attr |-> o.attr, uuid |-> o.uuid]

ApplyDone ==
    /\ pc = "apply" /\ plan = {}
    /\ EndTick
    /\ UNCHANGED <<envVars, disk, conn, attached, mem, fenced, applied, foreign,
                   initialized, blocked>>

\* ExportRecovery.Add and Delete up to the durable intent.
BeginOperation(o) ==
    /\ pc = "apply" /\ attached /\ Alive /\ o \in NextOps
    /\ IF \/ fenced
          \/ mem.inc # inc
          \/ o.act = "advertise" /\ Found(o.key)
          \/ o.act = "withdraw" /\ ReceiptOf(o) \notin mem.receipts
       THEN EndTick /\ UNCHANGED <<disk, fenced, faults>>
       ELSE \E ok \in BOOLEAN :
              /\ Write(Intend(IF o.act = "advertise"
                              THEN [op |-> "add", key |-> o.key, attr |-> o.attr]
                              ELSE [op |-> "delete", inc |-> inc, key |-> o.key,
                                    attr |-> o.attr, uuid |-> o.uuid]), ok)
              /\ IF ok THEN /\ pc' = IF o.act = "advertise" THEN "add" ELSE "delete"
                            /\ cur' = o
                            /\ UNCHANGED <<desired, plan>>
                       ELSE EndTick
    /\ UNCHANGED <<want, inc, rib, wire, changes, setup, conn, attached, mem, applied,
                   foreign, initialized, blocked>>

NewPath(a, acked, raw) ==
    [attr |-> a, uuid |-> NewUuid, mine |-> TRUE, acked |-> acked, raw |-> raw]

\* The adapter's AddPath for o: replied to; or refused over an existing path,
\* applied with its reply lost, or still on its way when the call fails.
AddPath(o, raw, replied) ==
    \/ replied /\ ~Found(o.key)
       /\ rib' = [rib EXCEPT ![o.key] = NewPath(o.attr, TRUE, raw)]
       /\ NoFault /\ UNCHANGED wire
    \/ ~replied /\ Found(o.key) /\ UNCHANGED <<rib, wire, faults>>
    \/ ~replied /\ ~Found(o.key)
       /\ rib' = [rib EXCEPT ![o.key] = NewPath(o.attr, FALSE, raw)]
       /\ Fault /\ UNCHANGED wire
    \/ ~replied /\ ~Found(o.key) /\ LateDelivery /\ wire = None
       /\ wire' = [key |-> o.key, attr |-> o.attr, raw |-> raw]
       /\ Fault /\ UNCHANGED rib

AddRpc ==
    /\ pc = "add" /\ Alive
    /\ \/ /\ AddPath(cur, FALSE, TRUE)
          /\ pc' = "add-readback"
          /\ cur' = [cur EXCEPT !.uuid = NewUuid]
          /\ UNCHANGED <<desired, plan>>
       \/ AddPath(cur, FALSE, FALSE) /\ EndTick
    /\ UNCHANGED <<want, inc, changes, setup, disk, conn, attached, mem, fenced, applied,
                   foreign, initialized, blocked>>

DeleteRpc ==
    /\ pc = "delete" /\ Alive
    /\ \/ DeletePath(cur, TRUE) /\ Goto("delete-readback")
       \/ DeletePath(cur, FALSE) /\ EndTick
    /\ UNCHANGED <<want, inc, wire, changes, setup, disk, conn, attached, mem, fenced,
                   applied, foreign, initialized, blocked>>

\* The operation leaves the plan and the reconciler's routes follow.
Done(o, r) ==
    /\ pc' = "apply" /\ plan' = plan \ {o} /\ cur' = None /\ UNCHANGED desired
    /\ applied' = IF o.act = "advertise" THEN applied \cup {r} ELSE applied \ {r}

\* The readback, and the acknowledgement of what it confirms.
AcknowledgeOperation ==
    /\ pc \in {"add-readback", "delete-readback"} /\ Alive
    /\ LET r == ReceiptOf(cur)
           add == pc = "add-readback"
           confirmed == IF add THEN Found(r.key) /\ Matches(r) ELSE ~Found(r.key)
           s == IF add THEN [mem EXCEPT !.receipts = @ \cup {r}] ELSE Without(mem, r.uuid)
       IN  IF ~confirmed
           THEN EndTick /\ UNCHANGED <<disk, fenced, faults, mem, applied>>
           ELSE \E ok \in BOOLEAN :
                  /\ Write(Acknowledge(s), ok)
                  /\ mem' = IF ok THEN s ELSE mem
                  /\ IF ok THEN Done([cur EXCEPT !.uuid = IF add THEN 0 ELSE @], r)
                           ELSE EndTick /\ UNCHANGED applied
    /\ UNCHANGED <<want, inc, rib, wire, changes, setup, conn, attached, foreign,
                   initialized, blocked>>

\* Without ExportRecovery the adapter itself is the applier.
RawAdd(o) ==
    /\ pc = "apply" /\ ~attached /\ Alive /\ o \in NextOps /\ o.act = "advertise"
    /\ \/ AddPath(o, TRUE, TRUE) /\ Done(o, [ReceiptOf(o) EXCEPT !.uuid = NewUuid])
       \/ AddPath(o, TRUE, FALSE) /\ EndTick /\ UNCHANGED applied
    /\ UNCHANGED <<want, inc, changes, setup, disk, conn, attached, mem, fenced, foreign,
                   initialized, blocked>>

RawDelete(o) ==
    /\ pc = "apply" /\ ~attached /\ Alive /\ o \in NextOps /\ o.act = "withdraw"
    /\ \/ DeletePath(o, TRUE) /\ Done(o, ReceiptOf(o))
       \/ DeletePath(o, FALSE) /\ EndTick /\ UNCHANGED applied
    /\ UNCHANGED <<want, inc, wire, changes, setup, disk, conn, attached, mem, fenced,
                   foreign, initialized, blocked>>

----------------------------------------------------------------------------
(* The surroundings *)

\* An endpoint appears, disappears, or changes what it advertises.
EndpointChanges ==
    /\ changes < MaxChanges
    /\ changes' = changes + 1
    /\ \E e \in Endpoint : want' = IF e \in want THEN want \ {e} ELSE want \cup {e}
    /\ UNCHANGED <<inc, rib, wire, faults, setup, disk, procVars>>

\* The exporter process dies and a new one starts.
Crash ==
    /\ Fault
    /\ pc' = "idle" /\ conn' = 0 /\ attached' = FALSE
    /\ mem' = EmptyState /\ fenced' = FALSE
    /\ applied' = {} /\ foreign' = {}
    /\ initialized' = FALSE /\ blocked' = FALSE
    /\ desired' = {} /\ plan' = {} /\ cur' = None
    /\ UNCHANGED <<want, inc, rib, wire, changes, setup, disk>>

\* A new speaker process: an empty RIB, and nothing sent to the old one arrives.
SpeakerRestarts ==
    /\ Fault
    /\ inc' = inc + 1
    /\ rib' = [k \in Key |-> None]
    /\ wire' = None
    /\ UNCHANGED <<want, changes, setup, disk, procVars>>

\* Another writer of the same speaker uses a free route, or deletes any path.
\* GoBGP has no compare-and-swap: one that takes the route between the adapter's
\* look at it and its AddPath is excluded, as the adapter's contract demands.
ForeignAdds(k, a) ==
    /\ ~Found(k)
    /\ Fault
    /\ rib' = [rib EXCEPT ![k] = [attr |-> a, uuid |-> NewUuid, mine |-> FALSE,
                                  acked |-> FALSE, raw |-> FALSE]]
    /\ UNCHANGED <<want, inc, wire, changes, setup, disk, procVars>>

ForeignDeletes(k) ==
    /\ Found(k)
    /\ Fault
    /\ rib' = [rib EXCEPT ![k] = None]
    /\ UNCHANGED <<want, inc, wire, changes, setup, disk, procVars>>

\* A delayed AddPath arrives, over whatever the route holds by then, or never.
LateArrival ==
    /\ wire # None
    /\ wire' = None
    /\ \/ rib' = [rib EXCEPT ![wire.key] = NewPath(wire.attr, FALSE, wire.raw)]
       \/ UNCHANGED rib
    /\ UNCHANGED <<want, inc, faults, changes, setup, disk, procVars>>

----------------------------------------------------------------------------
\* One step of the exporter; the failures among them need a fault left.
Exporter ==
    \/ Connect \/ ConnectRefused \/ Disconnect \/ KeepTransport
    \/ Observe \/ ObserveRefused \/ TickFails \/ SpeakerGone
    \/ RecoverRefused \/ RecoverPending \/ RecoverDelete \/ RecoverReadback
    \/ RecoverCheckpoint \/ CommitCheckpoint \/ RecoverUnchanged
    \/ Resync \/ PathDisappeared \/ Reconcile \/ ApplyDone
    \/ \E o \in plan : BeginOperation(o) \/ RawAdd(o) \/ RawDelete(o)
    \/ AddRpc \/ DeleteRpc \/ AcknowledgeOperation

Environment ==
    \/ EndpointChanges \/ Crash \/ SpeakerRestarts \/ LateArrival
    \/ \E k \in Key : ForeignDeletes(k) \/ \E a \in Attr : ForeignAdds(k, a)

Next == Exporter \/ Environment

Spec == Init /\ [][Next]_vars

\* The ticker keeps firing and every step of a tick returns.
FairSpec == Spec /\ WF_vars(Exporter)

----------------------------------------------------------------------------
Receipts == disk.receipts \cup mem.receipts \cup applied

\* Receipts carry a UUID, and no incarnation the exporter remembers, in its
\* journal or its memory, is one the speaker has not had yet.
TypeOK ==
    /\ want \subseteq Endpoint
    /\ inc \in 1..(MaxFaults + 1) /\ faults \in 0..MaxFaults /\ changes \in 0..MaxChanges
    /\ \A k \in Key : rib[k] \in Path \cup {None}
    /\ Receipts \subseteq Receipt
    /\ plan \subseteq Op
    /\ conn \in 0..inc /\ disk.inc \in 0..inc /\ mem.inc \in 0..inc

\* Every path that the exporter wrote through its journal is accounted for on
\* disk: by the receipt with its UUID, or by the outstanding AddPath of its
\* route.  So a crash at any point loses track of no route it advertises, with
\* a speaker that applies an AddPath before its call returns or not at all.
OwnPathsAccounted ==
    ~LateDelivery => \A k \in Key :
        Found(k) /\ rib[k].mine /\ ~rib[k].raw =>
            \/ \E r \in disk.receipts : r.key = k /\ r.uuid = rib[k].uuid
            \/ disk.pending # None /\ disk.pending.op = "add" /\ disk.pending.key = k

\* No receipt, durable or in memory, is the handle of a path that the exporter
\* did not add itself and see acknowledged: "A retained unacknowledged AddPath
\* can never become an ownership receipt".
NoAdoption ==
    \A r \in Receipts :
        Found(r.key) /\ rib[r.key].uuid = r.uuid =>
            rib[r.key].mine /\ rib[r.key].acked /\ rib[r.key].attr = r.attr

\* What the exporter makes durable is what OpenExportRecovery accepts: no
\* sequence of crashes and failed writes locks the next process out.
JournalStaysReadable == disk.st = "ok" => Readable(disk)

\* In memory every receipt and incarnation is one the exporter can have, and on
\* disk only what OpenExportRecovery accepts again.
WellFormed == TypeOK /\ JournalStaysReadable

\* The exporter replaces or deletes no path of another writer.
ForeignPreserved ==
    [][procVars' # procVars => \A k \in Key :
        Found(k) /\ ~rib[k].mine /\ inc' = inc => rib'[k] = rib[k]]_vars

\* The speaker's path of an exporter with recovery was preceded by its durable
\* intent.
IntentPrecedesRpc == \A k \in Key : Found(k) /\ UseRecovery => ~rib[k].raw

\* The reconciler's routes are the local endpoints, and the speaker has them.
Converged ==
    /\ { EndpointOf(r) : r \in applied } = want
    /\ \A r \in applied : Found(r.key) /\ Matches(r)

\* What stops the exporter until somebody acts.
Stopped ==
    \/ blocked \/ fenced
    \/ ~UseRecovery /\ conn \notin {0, inc}
    \/ Conflict(want)
    \/ attached /\ (Conflicting \/ PendingRefused)
    \* another writer put an equal path in the place of one of these
    \/ \E r \in mem.receipts \cup applied : Found(r.key) /\ rib[r.key].uuid # r.uuid
    \/ \E e \in want : Found(e.key) /\ ~\E r \in applied : r.key = e.key
    \* without recovery unclaimed routes are looked up once per process
    \/ ~attached /\ \E e \in want : e.key \in foreign

\* When endpoints, speaker and other writers leave it alone, the exporter ends
\* up with exactly the local endpoints advertised, unless it has stopped.
ConvergesOrStops == <>[](Converged \/ Stopped)
====
