------------------------ MODULE Type2ExporterProofs ------------------------
(***************************************************************************)
(* What the durable exporter of Type-2 routes never loses and never takes, *)
(* for any routes, endpoints, faults and restarts: every path it wrote     *)
(* through its journal is accounted for on disk, no receipt names a path   *)
(* of somebody else, and the journal stays one it can open again.          *)
(***************************************************************************)
EXTENDS Type2Exporter, WellFoundedInduction, TLAPS

StateRec == [inc : Nat, receipts : SUBSET Receipt]
DiskRec == [st : {"absent", "ok", "unusable"}, inc : Nat, receipts : SUBSET Receipt,
            pending : Intent \cup {None}]

\* UUIDs in use are bounded, so that there is always another.
Bounded(S) == \E n \in Nat : \A r \in S : r.uuid <= n
Table(t) ==
    /\ t \in [Key -> Path \cup {None}]
    /\ \E n \in Nat : \A k \in Key : t[k] # None => t[k].uuid <= n

World ==
    /\ want \subseteq Endpoint
    /\ inc \in 1..(faults + 1) /\ faults \in 0..MaxFaults /\ changes \in 0..MaxChanges
    /\ Table(rib)
    /\ wire \in [key : Key, attr : Attr, raw : BOOLEAN] \cup {None}
Stored == disk \in DiskRec /\ Bounded(disk.receipts) /\ disk.inc <= inc
Memory == mem \in StateRec /\ Bounded(mem.receipts) /\ mem.inc <= inc /\ conn \in 0..inc
Tick ==
    /\ desired \subseteq Endpoint
    /\ applied \subseteq Receipt /\ Bounded(applied)
    /\ plan \subseteq Op /\ Bounded(plan)
    /\ cur \in Op \cup StateRec \cup {None}
Types == World /\ Stored /\ Memory /\ Tick

Adds == {"add", "add-readback"}
Deletes == {"delete", "delete-readback"}
Recoveries == {"recover-readback", "checkpoint"}

\* An attached journal is readable and is what memory says; a fenced one is used
\* by nobody.
Synced ==
    /\ attached => disk.st = "ok"
    /\ disk.st # "ok" => disk.inc = 0 /\ disk.receipts = {} /\ disk.pending = None
    /\ attached /\ ~fenced => mem.inc = disk.inc /\ mem.receipts = disk.receipts
    /\ fenced => attached /\ pc \in {"idle", "observe", "recover"}
    /\ pc \in {"recover"} \cup Recoveries \cup Adds \cup Deletes => attached
    /\ attached /\ pc \in {"resync", "compare", "apply"} => disk.pending = None
    /\ Readable(disk)

WithdrawalOf(r) == [act |-> "withdraw", key |-> r.key, attr |-> r.attr, uuid |-> r.uuid]

\* Withdrawals come first, and a route is advertised once.
Planned ==
    /\ plan # {} => pc \in {"apply"} \cup Adds \cup Deletes
    /\ \A o \in plan : o.act = "withdraw" => o.uuid # 0
    /\ \A o \in plan : o.act = "advertise" =>
         /\ o.uuid = 0
         /\ \A r \in applied : r.key = o.key => WithdrawalOf(r) \in plan
         /\ \A p \in plan : p.act = "advertise" /\ p.key = o.key => p = o

\* The reconciler's routes are the receipts, and the step in progress is the one
\* that the journal's intent names.
Working ==
    /\ attached /\ pc \in {"compare", "apply"} \cup Adds \cup Deletes => applied = mem.receipts
    /\ pc \in Adds \cup Deletes => cur \in Op /\ disk.inc # 0
    /\ pc \in Adds =>
         /\ cur.act = "advertise" /\ [cur EXCEPT !.uuid = 0] \in plan
         /\ \A o \in plan : o.act # "withdraw"
         /\ disk.pending = [op |-> "add", key |-> cur.key, attr |-> cur.attr]
    /\ pc = "add" => cur.uuid = 0
    /\ pc = "add-readback" => cur.uuid # 0 /\ \A r \in mem.receipts : r.uuid # cur.uuid
    /\ pc \in Deletes =>
         /\ cur.act = "withdraw" /\ cur \in plan /\ ReceiptOf(cur) \in mem.receipts
         /\ disk.pending \in Intent /\ disk.pending.op = "delete" /\ ReceiptOf(disk.pending) = ReceiptOf(cur)
    /\ pc \in Recoveries => cur \in StateRec /\ cur.inc \in 1..inc /\ cur.receipts \subseteq mem.receipts
    /\ pc = "recover-readback" => disk.pending \in Intent /\ disk.pending.op = "delete"
    /\ pc = "checkpoint" => disk.pending \in Intent /\ disk.pending.op = "checkpoint"

\* What the exporter may still delete a path by, or acknowledge: on disk, ...
Durable(d) ==
    d.receipts
    \cup (IF d.pending # None /\ d.pending.op = "delete" THEN {ReceiptOf(d.pending)} ELSE {})
\* ... and in memory.
Volatile ==
    mem.receipts \cup applied
    \cup { ReceiptOf(o) : o \in { p \in plan : p.act = "withdraw" } }
    \cup (IF pc = "add-readback" THEN {ReceiptOf(cur)} ELSE {})
Handles == Durable(disk) \cup Volatile

Owns(r) == Found(r.key) /\ rib[r.key].uuid = r.uuid =>
               rib[r.key].mine /\ rib[r.key].acked /\ rib[r.key].attr = r.attr
Owned == \A r \in Handles : Owns(r)

\* A path that the exporter wrote through its journal.
Own(k) == Found(k) /\ rib[k].mine /\ ~rib[k].raw
Held(S, k) == \E r \in S : r.key = k /\ r.uuid = rib[k].uuid
Adding(d, k) == d.pending # None /\ d.pending.op = "add" /\ d.pending.key = k

Accounted ==
    ~LateDelivery =>
        /\ wire = None
        /\ \A k \in Key : Own(k) => Held(disk.receipts, k) \/ Adding(disk, k)
        /\ pc = "add-readback" /\ Own(cur.key) => rib[cur.key].uuid = cur.uuid
        /\ pc \in Recoveries => \A k \in Key : Own(k) => Held(cur.receipts, k)

IInv == Types /\ Synced /\ Planned /\ Working /\ Owned /\ Accounted
-----------------------------------------------------------------------------
(* A new UUID is new *)

\* A set of numbers that is not empty has a least one.
LEMMA Least == ASSUME NEW T \in SUBSET Nat, T # {} PROVE \E x \in T : \A y \in T : x <= y
  <1>. DEFINE R == { p \in Nat \X Nat : p[1] < p[2] }
  <1>1. IsWellFoundedOn(R, Nat)
    BY NatLessThanWellFounded DEF OpToRel
  <1>2. PICK x \in T : \A y \in T : <<y, x>> \notin R
    <2>. HIDE DEF R
    <2>. QED
      BY <1>1, WFMin, Zenon
  <1>3. ASSUME NEW y \in T PROVE x <= y
    <2>1. <<y, x>> \notin R
      BY <1>2
    <2>. QED
      BY <2>1
  <1>. QED
    BY <1>3

\* The least number that is not in use follows 0 or one that is.
LEMMA Unused ==
  ASSUME NEW S \in SUBSET Nat, NEW n \in Nat, \A u \in S : u <= n
  PROVE  \E u \in { v + 1 : v \in S \cup {0} } : u \notin S
  <1>. DEFINE T == { u \in Nat \ {0} : u \notin S }
  <1>1. n + 1 \in T
    OBVIOUS
  <1>2. PICK x \in T : \A y \in T : x <= y
    <2>1. T \in SUBSET Nat
      OBVIOUS
    <2>. HIDE DEF T
    <2>. QED
      BY <1>1, <2>1, Least
  <1>3. x \in Nat \ {0} /\ x \notin S
    OBVIOUS
  <1>4. x - 1 \notin T
    BY <1>2, <1>3
  <1>5. x - 1 \in S \cup {0} /\ x = (x - 1) + 1
    BY <1>3, <1>4
  <1>. QED
    BY <1>3, <1>5

LEMMA BoundedSubset == ASSUME NEW S, Bounded(S), NEW T, T \subseteq S PROVE Bounded(T)
  BY DEF Bounded

LEMMA BoundedEmpty == Bounded({})
  BY DEF Bounded

LEMMA BoundedUnion ==
  ASSUME NEW S, NEW T, Bounded(S), Bounded(T), \A r \in S \cup T : r.uuid \in Nat
  PROVE  Bounded(S \cup T)
  <1>1. PICK m \in Nat : \A r \in S : r.uuid <= m
    BY DEF Bounded
  <1>2. PICK n \in Nat : \A r \in T : r.uuid <= n
    BY DEF Bounded
  <1>3. m + n \in Nat /\ \A r \in S \cup T : r.uuid <= m + n
    BY <1>1, <1>2
  <1>. QED
    BY <1>3 DEF Bounded

LEMMA BoundedAdd ==
  ASSUME NEW S \in SUBSET Receipt, Bounded(S), NEW r \in Receipt PROVE Bounded(S \cup {r})
  <1>1. r.uuid \in Nat /\ \A s \in S : s.uuid \in Nat
    BY DEF Receipt
  <1>2. Bounded({r})
    BY <1>1 DEF Bounded
  <1>. QED
    BY <1>1, <1>2, BoundedUnion

\* Receipts and planned operations have bounded UUIDs.
LEMMA RecordsBounded ==
  ASSUME Types
  PROVE  \E n \in Nat :
             \A r \in disk.receipts \cup mem.receipts \cup applied \cup plan : r.uuid \in Nat /\ r.uuid <= n
  <1>1. /\ disk.receipts \subseteq Receipt /\ mem.receipts \subseteq Receipt /\ applied \subseteq Receipt
        /\ plan \subseteq Op
    BY DEF Types, Stored, Memory, Tick, DiskRec, StateRec
  <1>2. \A r \in disk.receipts \cup mem.receipts \cup applied \cup plan : r.uuid \in Nat
    BY <1>1 DEF Receipt, Op
  <1>3. Bounded(disk.receipts \cup mem.receipts)
    BY <1>2, BoundedUnion DEF Types, Stored, Memory
  <1>4. Bounded(applied \cup plan)
    BY <1>2, BoundedUnion DEF Types, Tick
  <1>5. Bounded((disk.receipts \cup mem.receipts) \cup (applied \cup plan))
    BY <1>2, <1>3, <1>4, BoundedUnion
  <1>. QED
    BY <1>2, <1>5 DEF Bounded

LEMMA UsedBounded ==
  ASSUME Types PROVE UsedUuids \in SUBSET Nat /\ \E n \in Nat : \A u \in UsedUuids : u <= n
  <1>. DEFINE R == disk.receipts \cup mem.receipts \cup applied \cup plan
  <1>1. PICK a \in Nat : \A k \in Key : rib[k] # None => rib[k].uuid <= a
    BY DEF Types, World, Table
  <1>2. \A k \in Key : rib[k] # None => rib[k].uuid \in Nat
    BY DEF Types, World, Table, Path
  <1>3. PICK b \in Nat : \A r \in R : r.uuid \in Nat /\ r.uuid <= b
    BY RecordsBounded
  <1>. HIDE DEF R
  <1>4. PICK c \in Nat : disk.pending # None /\ disk.pending.op = "delete" => disk.pending.uuid = c
    BY DEF Types, Stored, DiskRec, Intent
  <1>5. PICK d \in Nat : cur # None /\ "uuid" \in DOMAIN cur => cur.uuid = d
    BY DEF Types, Tick, Op, StateRec
  <1>6. ASSUME NEW u \in UsedUuids PROVE u \in Nat /\ u <= a + b + c + d
    <2>1. CASE \E k \in Key : rib[k] # None /\ u = rib[k].uuid
      BY <1>1, <1>2, <2>1
    <2>2. CASE \E r \in R : u = r.uuid
      BY <1>3, <2>2
    <2>3. CASE u \in {c, d}
      BY <2>3
    <2>. QED
      BY <1>4, <1>5, <2>1, <2>2, <2>3, Zenon DEF UsedUuids, Found, R
  <1>. QED
    BY <1>6

LEMMA NewUuidIsNew == ASSUME Types PROVE NewUuid \in Nat \ {0} /\ NewUuid \notin UsedUuids
  <1>1. PICK n \in Nat : UsedUuids \in SUBSET Nat /\ \A u \in UsedUuids : u <= n
    BY UsedBounded
  <1>2. \E u \in { v + 1 : v \in UsedUuids \cup {0} } : u \notin UsedUuids
    BY <1>1, Unused, Zenon
  <1>3. NewUuid \in { v + 1 : v \in UsedUuids \cup {0} } /\ NewUuid \notin UsedUuids
    BY <1>2 DEF NewUuid
  <1>. QED
    BY <1>1, <1>3
-----------------------------------------------------------------------------
(* What a step keeps *)

\* Handles are receipts, and their UUIDs are in use.
LEMMA HandlesUsed ==
  ASSUME IInv, NEW r \in Handles PROVE r \in Receipt /\ r.uuid \in UsedUuids
  <1>1. CASE r \in disk.receipts \cup mem.receipts \cup applied
    BY <1>1 DEF IInv, Types, Stored, Memory, Tick, UsedUuids, StateRec, DiskRec
  <1>2. CASE \E o \in plan : o.act = "withdraw" /\ r = ReceiptOf(o)
    <2>1. PICK o \in plan : o.act = "withdraw" /\ r = ReceiptOf(o)
      BY <1>2
    <2>2. o.uuid # 0 /\ o \in Op
      BY <2>1 DEF IInv, Planned, Types, Tick
    <2>3. r.uuid = o.uuid /\ o.uuid \in UsedUuids
      BY <2>1, Zenon DEF ReceiptOf, UsedUuids
    <2>. QED
      BY <2>1, <2>2, <2>3 DEF ReceiptOf, Receipt, Op
  <1>3. CASE disk.pending # None /\ disk.pending.op = "delete" /\ r = ReceiptOf(disk.pending)
    <2>1. disk.pending \in Intent
      BY <1>3 DEF IInv, Types, Stored, DiskRec
    <2>2. disk.pending \in [op : {"delete"}, inc : Nat, key : Key, attr : Attr, uuid : Nat \ {0}]
      BY <1>3, <2>1, Zenon DEF Intent
    <2>3. r.uuid \in UsedUuids
      BY <1>3 DEF UsedUuids, ReceiptOf
    <2>. QED
      BY <1>3, <2>2, <2>3, Zenon DEF ReceiptOf, Receipt
  <1>4. CASE pc = "add-readback" /\ r = ReceiptOf(cur)
    <2>1. cur \in Op /\ cur.uuid # 0
      BY <1>4 DEF IInv, Working, Adds
    <2>2. cur # None /\ "uuid" \in DOMAIN cur
      BY <2>1, NoneAssumption, Zenon DEF Op
    <2>3. r.uuid \in UsedUuids
      BY <1>4, <2>2, Zenon DEF UsedUuids, ReceiptOf
    <2>. QED
      BY <1>4, <2>1, <2>3, Zenon DEF ReceiptOf, Receipt, Op
  <1>. QED
    BY <1>1, <1>2, <1>3, <1>4, Zenon DEF Handles, Durable, Volatile

\* Paths go, or new ones come: no handle names a new one.
Renewed == \A k \in Key : rib'[k] = rib[k] \/ rib'[k] = None \/ rib'[k].uuid \notin UsedUuids

LEMMA OwnsKept == ASSUME IInv, Renewed, NEW r \in Handles PROVE Owns(r)'
  <1>1. r.key \in Key /\ r.uuid \in UsedUuids
    BY HandlesUsed DEF Receipt
  <1>2. Owns(r)
    BY DEF IInv, Owned
  <1>. QED
    BY <1>1, <1>2 DEF Owns, Found, Renewed

LEMMA OwnedKept ==
  ASSUME IInv, Renewed, \A r \in Handles' : r \in Handles \/ Owns(r)' PROVE Owned'
  BY OwnsKept, Zenon DEF Owned
\* No path of the exporter appears or changes.
Shrinks == \A k \in Key : Own(k)' => Own(k) /\ rib'[k] = rib[k]

LEMMA AccountedKept ==
  ASSUME IInv, UNCHANGED <<disk, setup>>,
         ~LateDelivery => wire' = None /\ Shrinks,
         pc' \in {"add-readback"} \cup Recoveries => pc' = pc /\ cur' = cur
  PROVE  Accounted'
  <1>. SUFFICES ASSUME ~LateDelivery' PROVE /\ wire' = None
                                            /\ \A k \in Key : Own(k)' => Held(disk.receipts, k)' \/ Adding(disk, k)'
                                            /\ pc' = "add-readback" /\ Own(cur.key)' => rib'[cur'.key].uuid = cur'.uuid
                                            /\ pc' \in Recoveries => \A k \in Key : Own(k)' => Held(cur.receipts, k)'
    BY DEF Accounted
  <1>1. ~LateDelivery /\ Shrinks /\ wire' = None
    BY Zenon DEF LateDelivery
  <1>2. ASSUME NEW k \in Key, Own(k)' PROVE Held(disk.receipts, k)' \/ Adding(disk, k)'
    BY <1>1, <1>2 DEF IInv, Accounted, Shrinks, Held, Adding
  <1>3. ASSUME pc' = "add-readback", Own(cur.key)' PROVE rib'[cur'.key].uuid = cur'.uuid
    <2>1. cur' = cur /\ pc = "add-readback" /\ cur.key \in Key
      BY <1>3, Zenon DEF IInv, Working, Adds, Op
    <2>. QED
      BY <1>1, <1>3, <2>1, Zenon DEF IInv, Accounted, Shrinks
  <1>4. ASSUME pc' \in Recoveries, NEW k \in Key, Own(k)' PROVE Held(cur.receipts, k)'
    BY <1>1, <1>4, Zenon DEF IInv, Accounted, Shrinks, Held
  <1>. QED
    BY <1>1, <1>2, <1>3, <1>4, Zenon

\* A step of the surroundings.
LEMMA OutsideIInv ==
  ASSUME IInv, UNCHANGED <<disk, setup, procVars>>, inc' >= inc, World', Renewed,
         ~LateDelivery => wire' = None /\ Shrinks
  PROVE  IInv'
  <1>. USE DEF procVars, tickVars
  <1>0. inc \in Nat /\ inc' \in Nat
    BY DEF IInv, Types, World
  <1>1. Synced' /\ Planned'
    BY Zenon DEF IInv, Synced, Planned, Readable
  <1>2. Types'
    BY <1>0 DEF IInv, Types, Stored, Memory, Tick, DiskRec, StateRec
  <1>3. Working'
    BY <1>0 DEF IInv, Working, StateRec
  <1>4. Handles' = Handles
    BY DEF Handles, Durable, Volatile
  <1>5. Owned'
    BY <1>4, OwnedKept
  <1>6. Accounted'
    BY AccountedKept, Zenon
  <1>. QED
    BY <1>1, <1>2, <1>3, <1>5, <1>6, Zenon DEF IInv

\* The tables of the speaker after one route changed.
LEMMA RouteReplaced ==
  ASSUME World, NEW k \in Key, NEW p \in Path \cup {None}, rib' = [rib EXCEPT ![k] = p]
  PROVE  /\ Table(rib')
         /\ \A j \in Key : rib'[j] = IF j = k THEN p ELSE rib[j]
  <1>1. /\ rib' \in [Key -> Path \cup {None}]
        /\ \A j \in Key : rib'[j] = IF j = k THEN p ELSE rib[j]
    BY DEF World, Table
  <1>2. PICK n \in Nat : \A j \in Key : rib[j] # None => rib[j].uuid <= n
    BY DEF World, Table
  <1>3. PICK m \in Nat : p # None => p.uuid = m
    BY Zenon DEF Path
  <1>4. \A j \in Key : rib[j] # None => rib[j].uuid \in Nat
    BY DEF World, Table, Path
  <1>5. n + m \in Nat /\ \A j \in Key : rib'[j] # None => rib'[j].uuid <= n + m
    BY <1>1, <1>2, <1>3, <1>4
  <1>. QED
    BY <1>1, <1>5, Zenon DEF Table

LEMMA EndpointChangesIInv == ASSUME IInv, EndpointChanges PROVE IInv'
  <1>1. PICK e \in Endpoint : want' = IF e \in want THEN want \ {e} ELSE want \cup {e}
    BY Zenon DEF EndpointChanges
  <1>2. want' \subseteq Endpoint
    BY <1>1, Zenon DEF IInv, Types, World
  <1>3. World' /\ inc' >= inc
    BY <1>2, ConfigAssumption DEF EndpointChanges, IInv, Types, World
  <1>4. Renewed /\ Shrinks /\ (~LateDelivery => wire' = None)
    BY DEF EndpointChanges, Renewed, Shrinks, Own, Found, IInv, Accounted
  <1>. QED
    BY <1>3, <1>4, OutsideIInv DEF EndpointChanges

LEMMA SpeakerRestartsIInv == ASSUME IInv, SpeakerRestarts PROVE IInv'
  <1>1. inc' = inc + 1 /\ faults' = faults + 1 /\ faults < MaxFaults
    BY DEF SpeakerRestarts, Fault
  <1>0. Table(rib')
    BY Zenon DEF SpeakerRestarts, Table
  <1>2. World' /\ inc' >= inc
    BY <1>0, <1>1, ConfigAssumption DEF SpeakerRestarts, IInv, Types, World
  <1>3. Renewed /\ Shrinks
    BY DEF SpeakerRestarts, Renewed, Shrinks, Own, Found
  <1>4. UNCHANGED <<disk, setup, procVars>> /\ wire' = None
    BY Zenon DEF SpeakerRestarts
  <1>. QED
    BY <1>2, <1>3, <1>4, OutsideIInv, Zenon

\* Another writer's path is new and not the exporter's.
LEMMA ForeignAddsIInv == ASSUME IInv, NEW k \in Key, NEW a \in Attr, ForeignAdds(k, a) PROVE IInv'
  <1>. DEFINE p == [attr |-> a, uuid |-> NewUuid, mine |-> FALSE, acked |-> FALSE, raw |-> FALSE]
  <1>0. NewUuid \in Nat /\ NewUuid \notin UsedUuids
    BY NewUuidIsNew, Zenon DEF IInv
  <1>1. p \in Path /\ p.uuid = NewUuid /\ ~p.mine
    BY <1>0, Zenon DEF Path
  <1>2. rib' = [rib EXCEPT ![k] = p] /\ faults' = faults + 1 /\ faults < MaxFaults
    BY Zenon DEF ForeignAdds, Fault
  <1>3. UNCHANGED <<want, inc, wire, changes, setup, disk, procVars>>
    BY DEF ForeignAdds
  <1>. HIDE DEF p
  <1>4. World
    BY DEF IInv, Types
  <1>5. Table(rib') /\ \A j \in Key : rib'[j] = IF j = k THEN p ELSE rib[j]
    BY <1>1, <1>2, <1>4, RouteReplaced, Zenon
  <1>6. World' /\ inc' >= inc
    BY <1>2, <1>3, <1>4, <1>5, ConfigAssumption DEF World
  <1>7. Renewed /\ Shrinks
    BY <1>0, <1>1, <1>5, Zenon DEF Renewed, Shrinks, Own, Found
  <1>. QED
    BY <1>3, <1>6, <1>7, OutsideIInv, Zenon DEF IInv, Accounted

LEMMA ForeignDeletesIInv == ASSUME IInv, NEW k \in Key, ForeignDeletes(k) PROVE IInv'
  <1>1. rib' = [rib EXCEPT ![k] = None] /\ faults' = faults + 1 /\ faults < MaxFaults
    BY DEF ForeignDeletes, Fault
  <1>2. UNCHANGED <<want, inc, wire, changes, setup, disk, procVars>>
    BY DEF ForeignDeletes
  <1>3. World
    BY DEF IInv, Types
  <1>4. Table(rib') /\ \A j \in Key : rib'[j] = IF j = k THEN None ELSE rib[j]
    BY <1>1, <1>3, RouteReplaced, Zenon
  <1>5. World' /\ inc' >= inc
    BY <1>1, <1>2, <1>3, <1>4, ConfigAssumption DEF World
  <1>6. Renewed /\ Shrinks
    BY <1>4 DEF Renewed, Shrinks, Own, Found
  <1>. QED
    BY <1>2, <1>5, <1>6, OutsideIInv, Zenon DEF IInv, Accounted

\* A delayed AddPath exists only with a speaker that delays them.
LEMMA LateArrivalIInv == ASSUME IInv, LateArrival PROVE IInv'
  <1>. DEFINE p == NewPath(wire.attr, FALSE, wire.raw)
  <1>0. NewUuid \in Nat /\ NewUuid \notin UsedUuids
    BY NewUuidIsNew, Zenon DEF IInv
  <1>1. World /\ LateDelivery /\ wire \in [key : Key, attr : Attr, raw : BOOLEAN]
    BY Zenon DEF LateArrival, IInv, Accounted, Types, World
  <1>2. p \in Path /\ p.uuid = NewUuid
    BY <1>0, <1>1 DEF Path, NewPath
  <1>3. rib' = [rib EXCEPT ![wire.key] = p] \/ rib' = rib
    BY Zenon DEF LateArrival
  <1>4. wire' = None /\ UNCHANGED <<want, inc, faults, changes, setup, disk, procVars>>
    BY DEF LateArrival
  <1>. HIDE DEF p
  <1>5. Table(rib') /\ \A j \in Key : rib'[j] = p \/ rib'[j] = rib[j]
    <2>1. CASE rib' = rib
      BY <2>1, <1>1, Zenon DEF World
    <2>2. CASE rib' = [rib EXCEPT ![wire.key] = p]
      <3>1. PICK k \in Key : k = wire.key
        BY <1>1
      <3>2. rib' = [rib EXCEPT ![k] = p]
        BY <2>2, <3>1
      <3>3. Table(rib') /\ \A j \in Key : rib'[j] = IF j = k THEN p ELSE rib[j]
        BY <1>1, <1>2, <3>2, RouteReplaced, Zenon
      <3>. QED
        BY <3>3
    <2>. QED
      BY <1>3, <2>1, <2>2, Zenon
  <1>6. World' /\ inc' >= inc
    BY <1>1, <1>4, <1>5 DEF World
  <1>7. Renewed
    BY <1>0, <1>2, <1>5 DEF Renewed
  <1>. QED
    BY <1>1, <1>4, <1>6, <1>7, OutsideIInv, Zenon
-----------------------------------------------------------------------------
(* Between operations *)

Resting == {"idle", "observe", "recover", "resync"}

\* With no operation in progress there is nothing more to say about the tick.
LEMMA RestIInv ==
  ASSUME pc' \in Resting, plan' = {}, Types', Synced', Owned', Accounted' PROVE IInv'
  <1>1. Planned'
    BY DEF Planned
  <1>2. Working'
    BY DEF Working, Resting, Adds, Deletes, Recoveries
  <1>. QED
    BY <1>1, <1>2 DEF IInv

LEMMA TickOver ==
  ASSUME Tick, desired' \in {{}, desired}, plan' = {}, applied' = applied, cur' \in {None, cur} PROVE Tick'
  <1>1. Bounded({})
    BY BoundedEmpty
  <1>. QED
    BY <1>1 DEF Tick, StateRec

LEMMA JournalKept ==
  ASSUME Types, UNCHANGED <<inc, disk, mem>>, conn' \in 0..inc PROVE Stored' /\ Memory'
  BY DEF Types, Stored, Memory, DiskRec, StateRec

LEMMA FaultsKept ==
  ASSUME World, faults' = faults \/ Fault, UNCHANGED <<want, inc, wire, changes>>,
         Table(rib')
  PROVE  World'
  <1>1. faults' \in 0..MaxFaults /\ inc \in 1..(faults' + 1)
    BY ConfigAssumption DEF World, Fault
  <1>. QED
    BY <1>1, Zenon DEF World

\* The tick ends and the journal is as it was.
LEMMA EndTickIInv ==
  ASSUME IInv, EndTick, UNCHANGED <<inc, disk, attached, mem, fenced, applied>>,
         World', conn' \in 0..inc, Renewed, Accounted'
  PROVE  IInv'
  <1>1. pc' = "idle" /\ plan' = {} /\ desired' = {}
    BY DEF EndTick
  <1>2. Types'
    <2>1. EndTick /\ Types
      BY DEF IInv
    <2>2. Stored' /\ Memory'
      BY <2>1, JournalKept
    <2>. QED
      BY <1>1, <2>1, <2>2, TickOver DEF Types, EndTick
  <1>3. Synced'
    BY <1>1, Zenon DEF IInv, Synced, Readable, Adds, Deletes, Recoveries
  <1>4. Handles' \subseteq Handles
    BY <1>1 DEF Handles, Durable, Volatile
  <1>5. Owned'
    BY <1>4, OwnedKept, Zenon
  <1>. QED
    BY <1>1, <1>2, <1>3, <1>5, RestIInv DEF Resting

\* ... and paths may be gone.
LEMMA EndIInv ==
  ASSUME IInv, EndTick, UNCHANGED <<want, inc, wire, changes, setup, disk, attached, mem, fenced, applied>>,
         faults' = faults \/ Fault, conn' \in 0..inc,
         Table(rib'), Renewed, Shrinks
  PROVE  IInv'
  <1>1. pc' = "idle"
    BY Zenon DEF EndTick
  <1>2. World'
    BY FaultsKept, Zenon DEF IInv, Types
  <1>3. Accounted'
    BY <1>1, AccountedKept, Zenon DEF IInv, Accounted, Recoveries
  <1>. QED
    BY <1>2, <1>3, EndTickIInv, Zenon

\* ... and the speaker is as it was.
LEMMA EndQuietIInv ==
  ASSUME IInv, EndTick, UNCHANGED <<want, inc, rib, wire, changes, setup, disk, conn, attached, mem, fenced, applied>>,
         faults' = faults \/ Fault
  PROVE  IInv'
  <1>1. conn' \in 0..inc /\ Table(rib')
    BY Zenon DEF IInv, Types, World, Memory
  <1>2. Renewed /\ Shrinks
    BY Zenon DEF Renewed, Shrinks, Own, Found
  <1>. QED
    BY <1>1, <1>2, EndIInv, Zenon

LEMMA CrashIInv == ASSUME IInv, Crash PROVE IInv'
  <1>1. pc' = "idle" /\ plan' = {} /\ desired' = {} /\ applied' = {} /\ mem' = EmptyState
    BY Zenon DEF Crash
  <1>2. Types'
    BY <1>1, BoundedEmpty, ConfigAssumption
    DEF Crash, Fault, IInv, Types, World, Stored, Memory, Tick, StateRec, EmptyState
  <1>3. Synced'
    BY <1>1, Zenon DEF Crash, IInv, Synced, Readable, Adds, Deletes, Recoveries
  <1>4. Handles' \subseteq Handles
    BY <1>1 DEF Crash, Handles, Durable, Volatile, EmptyState
  <1>5. Renewed /\ Shrinks
    BY DEF Crash, Renewed, Shrinks, Own, Found
  <1>6. Owned'
    BY <1>4, <1>5, OwnedKept, Zenon
  <1>7. Accounted'
    BY <1>1, <1>5, AccountedKept, Zenon DEF Crash, IInv, Accounted, Recoveries
  <1>. QED
    BY <1>1, <1>2, <1>3, <1>6, <1>7, RestIInv, Zenon DEF Resting

LEMMA EnvironmentIInv == ASSUME IInv, Environment PROVE IInv'
  BY EndpointChangesIInv, CrashIInv, SpeakerRestartsIInv, LateArrivalIInv, ForeignAddsIInv, ForeignDeletesIInv, Zenon
  DEF Environment
-----------------------------------------------------------------------------
(* Transport and observation *)

\* A step between two ticks or at the start of one that leaves journal and
\* speaker alone.
LEMMA StartIInv ==
  ASSUME IInv, pc \in {"idle", "observe"}, pc' \in {"idle", "observe", "recover", "resync"},
         UNCHANGED <<want, inc, rib, wire, changes, setup, attached, mem, fenced, applied, plan, cur>>,
         faults' = faults \/ Fault, conn' \in 0..inc, disk' = disk, desired' \in {desired, want},
         pc' = "recover" => attached, pc' = "resync" => ~attached
  PROVE  IInv'
  <1>0. World'
    BY ConfigAssumption DEF IInv, Types, World, Fault
  <1>1. plan = {}
    BY DEF IInv, Planned, Adds, Deletes
  <1>2. Types'
    BY <1>0, Zenon DEF IInv, Types, World, Stored, Memory, Tick
  <1>3. Synced'
    BY Zenon DEF IInv, Synced, Readable, Adds, Deletes, Recoveries
  <1>4. Handles' \subseteq Handles
    BY Zenon DEF Handles, Durable, Volatile
  <1>5. Renewed /\ Shrinks
    BY Zenon DEF Renewed, Shrinks, Own, Found
  <1>6. Owned'
    BY <1>4, <1>5, OwnedKept, Zenon
  <1>7. Accounted'
    BY <1>5, AccountedKept, Zenon DEF IInv, Accounted, Recoveries
  <1>. QED
    BY <1>1, <1>2, <1>3, <1>6, <1>7, RestIInv, Zenon DEF Resting

LEMMA KeepTransportIInv == ASSUME IInv, KeepTransport PROVE IInv'
  <1>1. conn' \in 0..inc
    BY Zenon DEF KeepTransport, IInv, Types, Memory
  <1>. QED
    BY <1>1, StartIInv, Zenon DEF KeepTransport, Goto, envVars, tickVars

LEMMA DisconnectIInv == ASSUME IInv, Disconnect PROVE IInv'
  <1>1. conn' \in 0..inc
    BY DEF Disconnect, IInv, Types, World
  <1>. QED
    BY <1>1, StartIInv, Zenon DEF Disconnect, tickVars

\* The journal of a process that opened it is what OpenExportRecovery read.
LEMMA ConnectIInv == ASSUME IInv, Connect PROVE IInv'
  <1>0. inc \in Nat \ {0} /\ conn' = inc /\ conn' \in 0..inc
    BY DEF Connect, IInv, Types, World
  <1>1. CASE attached
    BY <1>0, <1>1, StartIInv, Zenon DEF Connect, Goto, envVars, tickVars
  <1>2. CASE ~attached
    <2>1. /\ Readable(disk) /\ disk' = [disk EXCEPT !.st = "ok"] /\ attached'
          /\ mem' = [inc |-> disk.inc, receipts |-> disk.receipts]
          /\ pc' = "observe" /\ pc = "idle"
      BY <1>2 DEF Connect, Goto
    <2>2. UNCHANGED <<want, inc, rib, wire, faults, changes, setup, fenced, applied, desired, plan, cur>>
      BY DEF Connect, Goto, envVars, tickVars
    <2>3. disk \in DiskRec
      BY DEF IInv, Types, Stored
    <2>4. /\ disk' \in DiskRec /\ disk'.inc = disk.inc /\ disk'.receipts = disk.receipts
          /\ disk'.pending = disk.pending /\ disk'.st = "ok"
      BY <2>1, <2>3 DEF DiskRec
    <2>5. mem' \in StateRec /\ mem'.inc = disk.inc /\ mem'.receipts = disk.receipts
      BY <2>1, <2>3, Zenon DEF DiskRec, StateRec
    <2>6. plan = {}
      BY <2>1, Zenon DEF IInv, Planned, Adds, Deletes
    <2>7. World' /\ Stored' /\ Memory' /\ Tick'
      BY <1>0, <2>2, <2>4, <2>5, Zenon DEF IInv, Types, World, Stored, Memory, Tick
    <2>8. Synced'
      BY <2>1, <2>2, <2>4, <2>5 DEF IInv, Synced, Readable, Adds, Deletes, Recoveries
    <2>9. Handles' \subseteq Handles
      BY <2>1, <2>2, <2>4, <2>5, Zenon DEF Handles, Durable, Volatile
    <2>10. Renewed
      BY <2>2 DEF Renewed
    <2>11. Owned'
      BY <2>9, <2>10, OwnedKept, Zenon
    <2>12. Accounted'
      BY <2>1, <2>2, <2>4 DEF IInv, Accounted, LateDelivery, Own, Found, Held, Adding, Recoveries
    <2>. QED
      BY <2>1, <2>2, <2>6, <2>7, <2>8, <2>11, <2>12, RestIInv, Zenon DEF Resting, Types
  <1>. QED
    BY <1>1, <1>2, Zenon

\* A directory is left without the files of a journal only before the first one.
LEMMA ConnectRefusedIInv == ASSUME IInv, ConnectRefused PROVE IInv'
  <1>0. inc \in Nat \ {0} /\ conn' \in 0..inc
    BY DEF ConnectRefused, IInv, Types, World
  <1>1. faults' = faults \/ Fault
    BY DEF ConnectRefused, NoFault
  <1>2. CASE disk' = disk
    BY <1>0, <1>1, <1>2, StartIInv, Zenon DEF ConnectRefused, tickVars
  <1>3. CASE disk.st = "absent" /\ disk' = [disk EXCEPT !.st = "unusable"]
    <2>1. UNCHANGED <<want, inc, rib, wire, changes, setup, pc, attached, mem, fenced, applied, desired, plan, cur>>
      BY DEF ConnectRefused, tickVars
    <2>2. pc = "idle" /\ ~attached /\ disk \in DiskRec
      BY DEF ConnectRefused, IInv, Types, Stored
    <2>3. /\ disk' \in DiskRec /\ disk'.inc = disk.inc /\ disk'.receipts = disk.receipts
          /\ disk'.pending = disk.pending /\ disk'.st = "unusable"
      BY <1>3, <2>2, Zenon DEF DiskRec
    <2>4. plan = {}
      BY <2>2, Zenon DEF IInv, Planned, Adds, Deletes
    <2>5. World'
      BY <1>1, <2>1, ConfigAssumption DEF IInv, Types, World, Fault
    <2>6. Stored' /\ Memory' /\ Tick'
      BY <1>0, <2>1, <2>3, Zenon DEF IInv, Types, Stored, Memory, Tick
    <2>7. Synced'
      BY <1>3, <2>1, <2>2, <2>3, Zenon DEF IInv, Synced, Readable, Adds, Deletes, Recoveries
    <2>8. Handles' \subseteq Handles
      BY <2>1, <2>3, Zenon DEF Handles, Durable, Volatile
    <2>9. Renewed
      BY <2>1, Zenon DEF Renewed
    <2>10. Owned'
      BY <2>8, <2>9, OwnedKept
    <2>11. Accounted'
      BY <2>1, <2>2, <2>3 DEF IInv, Accounted, LateDelivery, Own, Found, Held, Adding, Recoveries
    <2>. QED
      BY <2>1, <2>2, <2>4, <2>5, <2>6, <2>7, <2>10, <2>11, RestIInv, Zenon DEF Resting, Types
  <1>. QED
    BY <1>2, <1>3, Zenon DEF ConnectRefused

LEMMA ObserveIInv == ASSUME IInv, Observe PROVE IInv'
  <1>0. inc \in Nat \ {0} /\ conn' \in 0..inc
    BY DEF Observe, IInv, Types, World
  <1>1. /\ pc = "observe" /\ desired' = want
        /\ UNCHANGED <<want, inc, rib, wire, faults, changes, setup, disk, attached, mem, fenced, applied, plan, cur>>
    BY Zenon DEF Observe, envVars
  <1>2. CASE ~attached /\ initialized
    <2>1. pc' = "compare"
      BY <1>2, Zenon DEF Observe
    <2>2. plan = {} /\ ~fenced
      BY <1>1, <1>2, Zenon DEF IInv, Planned, Synced, Adds, Deletes
    <2>3. Types'
      BY <1>0, <1>1, Zenon DEF IInv, Types, World, Stored, Memory, Tick
    <2>4. Synced'
      BY <1>1, <1>2, <2>1, <2>2, Zenon DEF IInv, Synced, Readable, Adds, Deletes, Recoveries
    <2>5. Planned' /\ Working'
      BY <1>1, <1>2, <2>1, <2>2, Zenon DEF Planned, Working, Adds, Deletes, Recoveries
    <2>6. Handles' \subseteq Handles
      BY <1>1, <2>1, Zenon DEF Handles, Durable, Volatile
    <2>7. Renewed /\ Shrinks
      BY <1>1, Zenon DEF Renewed, Shrinks, Own, Found
    <2>8. Owned'
      BY <2>6, <2>7, OwnedKept
    <2>9. Accounted'
      BY <1>1, <2>1, <2>7, AccountedKept, Zenon DEF IInv, Accounted, Recoveries
    <2>. QED
      BY <2>3, <2>4, <2>5, <2>8, <2>9, Zenon DEF IInv
  <1>3. CASE attached \/ ~initialized
    <2>1. pc' = IF attached THEN "recover" ELSE "resync"
      BY <1>3, Zenon DEF Observe
    <2>. QED
      BY <1>0, <1>1, <1>3, <2>1, StartIInv, Zenon
  <1>. QED
    BY <1>2, <1>3, Zenon

LEMMA TickEndsIInv ==
  ASSUME IInv, ObserveRefused \/ TickFails \/ SpeakerGone \/ RecoverRefused \/ PathDisappeared \/ ApplyDone
  PROVE  IInv'
  BY EndQuietIInv, Zenon DEF ObserveRefused, TickFails, SpeakerGone, RecoverRefused, PathDisappeared, ApplyDone, envVars
-----------------------------------------------------------------------------
(* Writes of the journal *)

\* A record that the journal may hold.
Good(d) ==
    /\ d \in DiskRec /\ Bounded(d.receipts) /\ d.inc <= inc /\ d.st = "ok" /\ Readable(d)
    /\ \A r \in Durable(d) : Owns(r)
    /\ ~LateDelivery => \A k \in Key : Own(k) => Held(d.receipts, k) \/ Adding(d, k)

LEMMA DiskGood == ASSUME IInv, attached PROVE Good(disk)
  BY Zenon DEF IInv, Types, Stored, Synced, Owned, Handles, Accounted, Good

\* What a good record means for the state after its write.
LEMMA Written ==
  ASSUME IInv, Good(disk'), UNCHANGED <<inc, rib, wire, setup>>
  PROVE  /\ Stored' /\ Readable(disk)' /\ disk'.st = "ok"
         /\ \A r \in Durable(disk)' : Owns(r)'
         /\ ~LateDelivery' => wire' = None /\ \A k \in Key : Own(k)' => Held(disk.receipts, k)' \/ Adding(disk, k)'
  <1>1. Stored' /\ Readable(disk)' /\ disk'.st = "ok"
    BY Zenon DEF Good, Stored, Readable
  <1>2. \A r \in Durable(disk)' : Owns(r)'
    BY Zenon DEF Good, Durable, Owns, Found
  <1>3. ~LateDelivery' => wire' = None /\ \A k \in Key : Own(k)' => Held(disk.receipts, k)' \/ Adding(disk, k)'
    BY DEF Good, IInv, Accounted, LateDelivery, Own, Found, Held, Adding
  <1>. QED
    BY <1>1, <1>2, <1>3, Zenon

\* With a good record on disk the handles in memory are left.
LEMMA WrittenOwned ==
  ASSUME IInv, Good(disk'), UNCHANGED <<inc, rib, wire, setup>>, \A r \in Volatile' : r \in Handles \/ Owns(r)'
  PROVE  Owned'
  <1>1. Renewed
    BY Zenon DEF Renewed
  <1>2. \A r \in Handles' : r \in Handles \/ Owns(r)'
    BY Written, Zenon DEF Handles
  <1>. QED
    BY <1>1, <1>2, OwnedKept, Zenon

\* A failed write fences the journal, whichever record it left.
LEMMA WriteFails ==
  ASSUME IInv, attached, NEW new, Good(new), disk' \in {new, disk}, fenced' = TRUE, EndTick, faults' = faults \/ Fault,
         UNCHANGED <<want, inc, rib, wire, changes, setup, conn, attached, mem, applied>>
  PROVE  IInv'
  <1>1. Good(disk')
    BY DiskGood, Zenon
  <1>2. pc' = "idle" /\ plan' = {} /\ desired' = {}
    BY Zenon DEF EndTick
  <1>3. World'
    BY FaultsKept, Zenon DEF IInv, Types, World
  <1>4. Types'
    <2>1. Stored'
      BY <1>1, Written, Zenon
    <2>2. Memory'
      BY Zenon DEF IInv, Types, Memory, StateRec
    <2>3. Tick'
      BY TickOver, Zenon DEF IInv, Types, EndTick
    <2>. QED
      BY <1>3, <2>1, <2>2, <2>3, Zenon DEF Types
  <1>5. Synced'
    BY <1>1, <1>2, Written, Zenon DEF Synced, Adds, Deletes, Recoveries
  <1>6. Volatile' \subseteq Volatile
    BY <1>2, Zenon DEF Volatile
  <1>7. Owned'
    BY <1>1, <1>6, WrittenOwned DEF Handles
  <1>8. Accounted'
    BY <1>1, <1>2, Written, Zenon DEF Accounted, Recoveries
  <1>. QED
    BY <1>2, <1>4, <1>5, <1>7, <1>8, RestIInv, Zenon DEF Resting

\* Receipts that are among the known ones and hold what is found may be committed.
LEMMA CommitGood ==
  ASSUME IInv, attached, ~fenced, NEW s \in StateRec, s.inc \in 1..inc, s.receipts \subseteq mem.receipts,
         ~LateDelivery => \A k \in Key : Own(k) => Held(s.receipts, k)
  PROVE  Good(Acknowledge(s))
  <1>. DEFINE d == Acknowledge(s)
  <1>1. disk \in DiskRec /\ disk.st = "ok" /\ mem.receipts = disk.receipts
    BY Zenon DEF IInv, Types, Stored, Synced
  <1>2. d \in DiskRec /\ d.inc = s.inc /\ d.receipts = s.receipts /\ d.pending = None /\ d.st = "ok"
    BY <1>1, Zenon DEF Acknowledge, DiskRec, StateRec
  <1>3. Bounded(s.receipts)
    BY BoundedSubset, Zenon DEF IInv, Types, Memory
  <1>4. \A r \in s.receipts : Owns(r)
    BY Zenon DEF IInv, Owned, Handles, Volatile
  <1>5. Readable(disk) /\ s.inc # 0 /\ s.inc <= inc
    BY DEF IInv, Synced, Types, World
  <1>. HIDE DEF d
  <1>6. Readable(d)
    BY <1>1, <1>2, <1>5, Zenon DEF Readable
  <1>7. \A r \in Durable(d) : Owns(r)
    BY <1>2, <1>4, Zenon DEF Durable
  <1>8. Good(d)
    BY <1>2, <1>3, <1>5, <1>6, <1>7, Zenon DEF Good
  <1>. QED
    BY <1>8 DEF d

LEMMA CommitsIInv ==
  ASSUME IInv, attached, ~fenced, pc \in {"recover"} \cup Recoveries,
         NEW s \in StateRec, s.inc \in 1..inc, s.receipts \subseteq mem.receipts,
         ~LateDelivery => \A k \in Key : Own(k) => Held(s.receipts, k), Commits(s, "resync"),
         UNCHANGED <<want, inc, rib, wire, changes, setup, conn, attached, applied>>
  PROVE  IInv'
  <1>. DEFINE d == Acknowledge(s)
  <1>1. Good(d)
    BY CommitGood, Zenon
  <1>2. PICK ok \in BOOLEAN : /\ Write(d, ok)
                              /\ mem' = IF ok THEN s ELSE mem
                              /\ IF ok THEN pc' = "resync" /\ cur' = None /\ UNCHANGED <<desired, plan>> ELSE EndTick
    BY Zenon DEF Commits
  <1>3. faults' = faults \/ Fault
    BY <1>2, Zenon DEF Write, NoFault
  <1>4. CASE ~ok
    <2>1. disk' \in {d, disk} /\ fenced' = TRUE /\ mem' = mem /\ EndTick
      BY <1>2, <1>4, Zenon DEF Write
    <2>. HIDE DEF d
    <2>. QED
      BY <1>1, <1>3, <2>1, WriteFails, Zenon
  <1>5. CASE ok
    <2>1. disk' = d /\ fenced' = FALSE /\ mem' = s /\ pc' = "resync" /\ cur' = None /\ UNCHANGED <<desired, plan>>
      BY <1>2, <1>5, Zenon DEF Write
    <2>2. disk \in DiskRec
      BY DEF IInv, Types, Stored
    <2>3. disk'.inc = s.inc /\ disk'.receipts = s.receipts /\ disk'.pending = None
      BY <2>1, <2>2, Zenon DEF Acknowledge, DiskRec
    <2>. HIDE DEF d
    <2>4. Good(disk')
      BY <1>1, <2>1, Zenon
    <2>5. plan = {}
      BY Zenon DEF IInv, Planned, Adds, Deletes, Recoveries
    <2>6. World'
      BY <1>3, FaultsKept, Zenon DEF IInv, Types, World
    <2>7. Memory'
      <3>1. Bounded(s.receipts)
        BY BoundedSubset, Zenon DEF IInv, Types, Memory
      <3>2. s.inc <= inc /\ conn \in 0..inc
        BY DEF IInv, Types, Memory
      <3>. QED
        BY <2>1, <3>1, <3>2, Zenon DEF Memory
    <2>7a. Tick'
      BY <2>1, <2>5, TickOver, Zenon DEF IInv, Types
    <2>8. Synced'
      BY <2>1, <2>3, <2>4, Written, Zenon DEF Synced, Adds, Deletes, Recoveries
    <2>9. Volatile' \subseteq Volatile
      BY <2>1, <2>5, Zenon DEF Volatile
    <2>10. Owned'
      BY <2>4, <2>9, WrittenOwned, Zenon DEF Handles
    <2>11. Accounted'
      BY <2>1, <2>4, Written, Zenon DEF Accounted, Recoveries
    <2>. QED
      BY <2>1, <2>4, <2>5, <2>6, <2>7, <2>7a, <2>8, <2>10, <2>11, Written, RestIInv, Zenon DEF Resting, Types
  <1>. QED
    BY <1>4, <1>5, Zenon
-----------------------------------------------------------------------------
(* Recover *)

\* The receipts of paths that are still found, in the speaker's incarnation.
LEMMA RecoveredState ==
  ASSUME IInv
  PROVE  /\ Recovered \in StateRec /\ Recovered.inc \in 1..inc
         /\ Recovered.receipts = Kept /\ Kept \subseteq mem.receipts
  BY DEF IInv, Types, World, Memory, Recovered, Kept, StateRec

LEMMA WithoutState ==
  ASSUME NEW s \in StateRec, NEW u
  PROVE  /\ Without(s, u) \in StateRec /\ Without(s, u).inc = s.inc
         /\ Without(s, u).receipts = { r \in s.receipts : r.uuid # u }
  BY DEF Without, StateRec

\* Recover goes on only where no AddPath of unknown outcome left a path.
LEMMA KeptHolds ==
  ASSUME IInv, pc = "recover", ~fenced, ~PendingRefused, ~LateDelivery, NEW k \in Key, Own(k)
  PROVE  Held(Kept, k)
  <1>1. attached /\ mem.receipts = disk.receipts
    BY Zenon DEF IInv, Synced
  <1>2. ~Adding(disk, k)
    BY DEF PendingRefused, Adding, Own
  <1>3. Held(disk.receipts, k)
    BY <1>2 DEF IInv, Accounted
  <1>. QED
    BY <1>1, <1>3 DEF Held, Kept, Own

\* The receipt of a withdrawn path accounts for no other path.
LEMMA WithoutHolds ==
  ASSUME IInv, attached, ~fenced, NEW q \in mem.receipts,
         NEW S \in SUBSET mem.receipts, NEW k \in Key, k # q.key, Held(S, k),
         NEW T, \A r \in S : r.uuid # q.uuid => r \in T
  PROVE  Held(T, k)
  <1>1. PICK r \in S : r.key = k /\ r.uuid = rib[k].uuid
    BY Zenon DEF Held
  <1>2. mem.receipts = disk.receipts /\ Readable(disk)
    BY DEF IInv, Synced
  <1>3. r.uuid # q.uuid
    BY <1>1, <1>2, Zenon DEF Readable
  <1>. QED
    BY <1>1, <1>3, Zenon DEF Held

\* A deletion that Recover accepts is one of a receipt.
LEMMA PendingDelete ==
  ASSUME IInv, disk.pending # None, disk.pending.op = "delete"
  PROVE  /\ disk.pending.key \in Key /\ disk.pending.attr \in Attr /\ disk.pending.uuid \in Nat \ {0}
         /\ disk.pending \in Intent
         /\ ~PendingRefused => ReceiptOf(disk.pending) \in mem.receipts
  <1>1. disk.pending \in Intent
    BY DEF IInv, Types, Stored, DiskRec
  <1>2. disk.pending.key \in Key /\ disk.pending.attr \in Attr /\ disk.pending.uuid \in Nat \ {0}
    BY <1>1 DEF Intent
  <1>3. ~PendingRefused => ReceiptOf(disk.pending) \in mem.receipts
    BY DEF PendingRefused, ReceiptOf
  <1>. QED
    BY <1>1, <1>2, <1>3, Zenon

LEMMA RecoverPendingIInv == ASSUME IInv, RecoverPending PROVE IInv'
  <1>1. /\ pc = "recover" /\ ~fenced /\ ~PendingRefused /\ disk.pending # None
        /\ UNCHANGED <<want, inc, rib, wire, changes, setup, conn, attached, applied>>
    BY DEF RecoverPending, Recovers
  <1>2. attached
    BY <1>1, Zenon DEF IInv, Synced
  <1>3. CASE disk.pending.op # "delete"
    <2>1. Commits(Recovered, "resync")
      BY <1>3, Zenon DEF RecoverPending
    <2>. QED
      BY <1>1, <1>2, <2>1, RecoveredState, KeptHolds, CommitsIInv, Zenon
  <1>4. CASE disk.pending.op = "delete"
    <2>. DEFINE s == Without(Recovered, disk.pending.uuid)
    <2>1. ~Found(disk.pending.key) /\ Commits(s, "resync")
      BY <1>4, Zenon DEF RecoverPending
    <2>2. s \in StateRec /\ s.inc \in 1..inc /\ s.receipts = { r \in Kept : r.uuid # disk.pending.uuid }
      BY RecoveredState, WithoutState, Zenon
    <2>3. ASSUME ~LateDelivery, NEW k \in Key, Own(k) PROVE Held(s.receipts, k)
      <3>1. k # disk.pending.key
        BY <2>1, <2>3, Zenon DEF Own
      <3>2. Held(Kept, k)
        BY <1>1, <2>3, KeptHolds, Zenon
      <3>. QED
        <4>1. PICK q \in mem.receipts : q.key = disk.pending.key /\ q.uuid = disk.pending.uuid
          BY <1>1, <1>4, PendingDelete, Zenon DEF ReceiptOf
        <4>2. \A r \in Kept : r.uuid # q.uuid => r \in s.receipts
          BY <2>2, <4>1, Zenon
        <4>3. Kept \in SUBSET mem.receipts
          BY RecoveredState, Zenon
        <4>. HIDE DEF s
        <4>. QED
          BY <1>1, <1>2, <3>1, <3>2, <4>1, <4>2, <4>3, WithoutHolds, Zenon
    <2>. HIDE DEF s
    <2>. QED
      BY <1>1, <1>2, <2>1, <2>2, <2>3, RecoveredState, CommitsIInv, Zenon
  <1>. QED
    BY <1>3, <1>4, Zenon

\* What a DeletePath can do to the speaker.
LEMMA DeletePathEffect ==
  ASSUME World, NEW r, r.key \in Key, NEW replied \in BOOLEAN, DeletePath(r, replied)
  PROVE  /\ Table(rib') /\ Renewed /\ Shrinks
         /\ faults' = faults \/ Fault
         /\ replied => rib'[r.key] = None
         /\ \A k \in Key : rib'[k] = rib[k] \/ (rib[k].uuid = r.uuid /\ k = r.key)
  <1>1. CASE Found(r.key) /\ Matches(r) /\ rib[r.key].uuid = r.uuid
    <2>1. rib' = [rib EXCEPT ![r.key] = None] /\ (faults' = faults \/ Fault)
      BY <1>1 DEF DeletePath, NoFault
    <2>2. Table(rib') /\ \A j \in Key : rib'[j] = IF j = r.key THEN None ELSE rib[j]
      BY <2>1, RouteReplaced, Zenon
    <2>. QED
      BY <1>1, <2>1, <2>2, Zenon DEF Renewed, Shrinks, Own, Found
  <1>2. CASE ~(Found(r.key) /\ Matches(r) /\ rib[r.key].uuid = r.uuid)
    <2>1. replied = ~Found(r.key) /\ UNCHANGED <<rib, faults>>
      BY <1>2 DEF DeletePath
    <2>. QED
      BY <2>1, Zenon DEF World, Renewed, Shrinks, Own, Found
  <1>. QED
    BY <1>1, <1>2, Zenon
LEMMA RecoverDeleteIInv == ASSUME IInv, RecoverDelete PROVE IInv'
  <1>1. /\ pc = "recover" /\ ~fenced /\ ~PendingRefused /\ disk.pending # None
        /\ disk.pending.op = "delete" /\ Found(disk.pending.key)
        /\ UNCHANGED <<want, inc, wire, changes, setup, disk, conn, attached, mem, fenced, applied>>
    BY Zenon DEF RecoverDelete
  <1>2. attached /\ World /\ plan = {}
    BY <1>1, Zenon DEF IInv, Types, Synced, Planned, Adds, Deletes
  <1>3. /\ disk.pending.key \in Key /\ disk.pending \in Intent
        /\ ReceiptOf(disk.pending) \in mem.receipts
    BY <1>1, PendingDelete, Zenon
  <1>4. CASE DeletePath(disk.pending, FALSE) /\ EndTick
    <2>1. /\ Table(rib') /\ Renewed /\ Shrinks
          /\ faults' = faults \/ Fault
      BY <1>2, <1>3, <1>4, DeletePathEffect, Zenon
    <2>2. conn' \in 0..inc
      BY <1>1, Zenon DEF IInv, Types, Memory
    <2>. QED
      BY <1>1, <1>4, <2>1, <2>2, EndIInv, Zenon
  <1>5. CASE /\ DeletePath(disk.pending, TRUE) /\ pc' = "recover-readback"
             /\ cur' = Without(Recovered, disk.pending.uuid) /\ UNCHANGED <<desired, plan>>
    <2>. DEFINE s == Without(Recovered, disk.pending.uuid)
    <2>1. /\ Table(rib') /\ Renewed /\ Shrinks
          /\ (faults' = faults \/ Fault) /\ rib'[disk.pending.key] = None
      BY <1>2, <1>3, <1>5, DeletePathEffect, Zenon
    <2>2. /\ s \in StateRec /\ s.inc \in 1..inc /\ s.receipts = { r \in Kept : r.uuid # disk.pending.uuid }
          /\ Kept \subseteq mem.receipts
      BY RecoveredState, WithoutState, Zenon
    <2>3. Types'
      <3>1. Types /\ World /\ conn \in 0..inc /\ Tick
        BY Zenon DEF IInv, Types, Memory
      <3>2. World' /\ Stored' /\ Memory'
        BY <1>1, <1>5, <2>1, <3>1, FaultsKept, JournalKept, Zenon DEF DeletePath
      <3>3. Tick'
        <4>1. cur' \in StateRec
          BY <1>5, <2>2, Zenon
        <4>. QED
          BY <1>1, <1>5, <3>1, <4>1, Zenon DEF Tick
      <3>. QED
        BY <3>2, <3>3, Zenon DEF Types
    <2>4. Synced' /\ Planned'
      BY <1>1, <1>2, <1>5, Zenon DEF IInv, Synced, Planned, Readable, Adds, Deletes, Recoveries
    <2>. HIDE DEF s
    <2>5. cur' = s
      BY <1>5, Zenon DEF s
    <2>6. Working'
      BY <1>1, <1>3, <1>5, <2>2, <2>5, Zenon DEF Working, Adds, Deletes, Recoveries
    <2>7. Handles' \subseteq Handles
      BY <1>1, <1>5, Zenon DEF Handles, Durable, Volatile
    <2>8. Owned'
      BY <2>1, <2>7, OwnedKept, Zenon
    <2>9. ASSUME ~LateDelivery, NEW k \in Key, Own(k)' PROVE Held(disk.receipts, k)' /\ Held(cur.receipts, k)'
      <3>1. Own(k) /\ rib'[k] = rib[k] /\ k # disk.pending.key
        BY <2>1, <2>9, Zenon DEF Shrinks, Own, Found
      <3>2. Held(Kept, k)
        BY <1>1, <2>9, <3>1, KeptHolds, Zenon
      <3>3. Held(s.receipts, k)
        <4>1. PICK q \in mem.receipts : q.key = disk.pending.key /\ q.uuid = disk.pending.uuid
          BY <1>3, Zenon DEF ReceiptOf
        <4>2. Kept \in SUBSET mem.receipts /\ \A r \in Kept : r.uuid # q.uuid => r \in s.receipts
          BY <2>2, <4>1, Zenon
        <4>. QED
          BY <1>1, <1>2, <3>1, <3>2, <4>1, <4>2, WithoutHolds, Zenon
      <3>4. Held(disk.receipts, k)
        BY <1>1, <1>2, <2>2, <3>2, Zenon DEF Held, IInv, Synced
      <3>. QED
        BY <1>1, <2>5, <3>1, <3>3, <3>4, Zenon DEF Held
    <2>10. Accounted'
      BY <1>1, <1>5, <2>9, Zenon DEF IInv, Accounted, LateDelivery
    <2>. QED
      BY <2>3, <2>4, <2>6, <2>8, <2>10, Zenon DEF IInv
  <1>. QED
    BY <1>4, <1>5, Zenon DEF RecoverDelete

\* The readback and the commit of a checkpoint.
LEMMA CommitCurIInv ==
  ASSUME IInv, pc \in Recoveries, Commits(cur, "resync"),
         UNCHANGED <<want, inc, rib, wire, changes, setup, conn, attached, applied>>
  PROVE  IInv'
  <1>1. attached /\ ~fenced
    BY Zenon DEF IInv, Synced, Recoveries
  <1>2. cur \in StateRec /\ cur.inc \in 1..inc /\ cur.receipts \subseteq mem.receipts
    BY DEF IInv, Working
  <1>3. ~LateDelivery => \A k \in Key : Own(k) => Held(cur.receipts, k)
    BY Zenon DEF IInv, Accounted
  <1>. QED
    BY <1>1, <1>2, <1>3, CommitsIInv, Zenon

LEMMA RecoverReadbackIInv == ASSUME IInv, RecoverReadback PROVE IInv'
  <1>1. CASE Found(disk.pending.key)
    BY <1>1, EndQuietIInv, Zenon DEF RecoverReadback
  <1>2. CASE ~Found(disk.pending.key)
    BY <1>2, CommitCurIInv, Zenon DEF RecoverReadback, Recoveries
  <1>. QED
    BY <1>1, <1>2, Zenon

LEMMA CommitCheckpointIInv == ASSUME IInv, CommitCheckpoint PROVE IInv'
  BY CommitCurIInv, Zenon DEF CommitCheckpoint, Recoveries

LEMMA RecoverCheckpointIInv == ASSUME IInv, RecoverCheckpoint PROVE IInv'
  <1>. DEFINE i == [op |-> "checkpoint", receipts |-> Kept]
              d == Intend(i)
  <1>1. /\ pc = "recover" /\ ~fenced /\ ~PendingRefused /\ disk.pending = None /\ mem' = mem
        /\ UNCHANGED <<want, inc, rib, wire, changes, setup, conn, attached, applied>>
    BY Zenon DEF RecoverCheckpoint, Recovers
  <1>2. attached /\ plan = {} /\ disk \in DiskRec /\ Good(disk)
    BY <1>1, DiskGood, Zenon DEF IInv, Types, Stored, Synced, Planned, Adds, Deletes
  <1>3. i \in Intent /\ i.op = "checkpoint" /\ i # None
    <2>1. Kept \subseteq Receipt
      BY RecoveredState DEF IInv, Types, Memory, StateRec
    <2>. QED
      BY <2>1, NoneAssumption DEF Intent
  <1>. HIDE DEF i
  <1>4. /\ d \in DiskRec /\ d.inc = disk.inc /\ d.receipts = disk.receipts /\ d.pending = i /\ d.st = disk.st
    BY <1>2, <1>3, Zenon DEF Intend, DiskRec
  <1>. HIDE DEF d
  <1>5. Good(d)
    <2>1. Readable(d) /\ Durable(d) \subseteq Durable(disk)
      BY <1>2, <1>3, <1>4, Zenon DEF Good, Readable, Durable
    <2>2. ASSUME ~LateDelivery, NEW k \in Key, Own(k) PROVE Held(d.receipts, k)
      BY <1>1, <1>2, <1>4, <2>2, Zenon DEF Good, Adding
    <2>. QED
      BY <1>2, <1>4, <2>1, <2>2, Zenon DEF Good
  <1>6. PICK ok \in BOOLEAN : /\ Write(d, ok)
                              /\ IF ok THEN pc' = "checkpoint" /\ cur' = Recovered /\ UNCHANGED <<desired, plan>>
                                       ELSE EndTick
    BY Zenon DEF RecoverCheckpoint, d, i
  <1>7. faults' = faults \/ Fault
    BY <1>6, Zenon DEF Write, NoFault
  <1>8. CASE ~ok
    <2>1. disk' \in {d, disk} /\ fenced' = TRUE /\ EndTick
      BY <1>6, <1>8, Zenon DEF Write
    <2>. QED
      BY <1>1, <1>2, <1>5, <1>7, <2>1, WriteFails, Zenon
  <1>9. CASE ok
    <2>1. /\ disk' = d /\ fenced' = FALSE /\ pc' = "checkpoint" /\ cur' = Recovered
          /\ UNCHANGED <<desired, plan>>
      BY <1>6, <1>9, Zenon DEF Write
    <2>2. Good(disk')
      BY <1>5, <2>1, Zenon
    <2>3. World'
      BY <1>1, <1>7, FaultsKept, Zenon DEF IInv, Types, World
    <2>4. Types'
      <3>1. Stored' /\ Memory'
        BY <1>1, <2>2, Written, Zenon DEF IInv, Types, Memory, StateRec
      <3>. QED
        BY <1>1, <2>1, <2>3, <3>1, RecoveredState, Zenon DEF IInv, Types, Tick
    <2>5. Synced'
      BY <1>1, <1>2, <1>4, <2>1, <2>2, Written, Zenon DEF IInv, Synced, Adds, Deletes, Recoveries
    <2>6. Planned'
      BY <1>2, <2>1, Zenon DEF Planned
    <2>7. Working'
      BY <1>1, <1>3, <1>4, <2>1, RecoveredState, Zenon DEF Working, Adds, Deletes, Recoveries
    <2>8. Volatile' \subseteq Volatile
      BY <1>1, <2>1, Zenon DEF Volatile
    <2>9. Owned'
      BY <1>1, <2>2, <2>8, WrittenOwned, Zenon DEF Handles
    <2>10. ASSUME ~LateDelivery, NEW k \in Key, Own(k)' PROVE Held(cur.receipts, k)'
      <3>1. Own(k) /\ cur'.receipts = Kept
        BY <1>1, <2>1, <2>10, RecoveredState, Zenon DEF Own, Found
      <3>. QED
        BY <1>1, <2>10, <3>1, KeptHolds, Zenon DEF Held
    <2>11. Accounted'
      BY <1>1, <2>1, <2>2, <2>10, Written, Zenon DEF Accounted, LateDelivery
    <2>. QED
      BY <2>4, <2>5, <2>6, <2>7, <2>9, <2>11, Zenon DEF IInv
  <1>. QED
    BY <1>8, <1>9, Zenon
LEMMA RecoverUnchangedIInv == ASSUME IInv, RecoverUnchanged PROVE IInv'
  <1>1. /\ pc = "recover" /\ ~fenced /\ disk.pending = None /\ pc' = "resync"
        /\ UNCHANGED <<want, inc, rib, wire, changes, setup, conn, attached, applied, faults, disk, fenced, mem,
                       desired, plan, cur>>
    BY Zenon DEF RecoverUnchanged, Recovers, Goto, tickVars
  <1>2. plan = {}
    BY <1>1, Zenon DEF IInv, Planned, Adds, Deletes
  <1>3. Types'
    BY <1>1, Zenon DEF IInv, Types, World, Stored, Memory, Tick
  <1>4. Synced'
    BY <1>1, Zenon DEF IInv, Synced, Readable, Adds, Deletes, Recoveries
  <1>5. Handles' \subseteq Handles /\ Renewed /\ Shrinks
    BY <1>1, Zenon DEF Handles, Durable, Volatile, Renewed, Shrinks, Own, Found
  <1>6. Owned'
    BY <1>5, OwnedKept, Zenon
  <1>7. Accounted'
    BY <1>1, <1>5, AccountedKept, Zenon DEF IInv, Accounted, Recoveries
  <1>. QED
    BY <1>1, <1>2, <1>3, <1>4, <1>6, <1>7, RestIInv, Zenon DEF Resting
-----------------------------------------------------------------------------
(* Resynchronisation and plan *)

LEMMA ResyncIInv == ASSUME IInv, Resync PROVE IInv'
  <1>. DEFINE claims == IF attached THEN mem.receipts ELSE {}
  <1>1. /\ pc = "resync"
        /\ UNCHANGED <<want, inc, rib, wire, faults, changes, setup, disk, conn, attached, mem, fenced>>
    BY Zenon DEF Resync, envVars
  <1>2. CASE EndTick /\ UNCHANGED <<applied, foreign, initialized>>
    BY <1>1, <1>2, EndQuietIInv, Zenon
  <1>3. CASE applied' = claims /\ Goto("compare")
    <2>1. applied' = claims /\ pc' = "compare" /\ UNCHANGED <<desired, plan, cur>>
      BY <1>3, Zenon DEF Goto, tickVars
    <2>2. plan = {} /\ ~fenced
      BY <1>1, Zenon DEF IInv, Planned, Synced, Adds, Deletes
    <2>3. claims \subseteq mem.receipts /\ Bounded(claims) /\ claims \subseteq Receipt
      BY BoundedEmpty, Zenon DEF IInv, Types, Memory, StateRec
    <2>4. Types'
      BY <1>1, <2>1, <2>3, Zenon DEF IInv, Types, World, Stored, Memory, Tick
    <2>5. Synced'
      BY <1>1, <2>1, <2>2, Zenon DEF IInv, Synced, Readable, Adds, Deletes, Recoveries
    <2>6. Planned' /\ Working'
      BY <1>1, <2>1, <2>2, Zenon DEF Planned, Working, Adds, Deletes, Recoveries
    <2>7. Handles' \subseteq Handles /\ Renewed /\ Shrinks
      BY <1>1, <2>1, <2>3, Zenon DEF Handles, Durable, Volatile, Renewed, Shrinks, Own, Found
    <2>8. Owned'
      BY <2>7, OwnedKept
    <2>9. Accounted'
      BY <1>1, <2>1, <2>7, AccountedKept, Zenon DEF IInv, Accounted, Recoveries
    <2>. QED
      BY <2>4, <2>5, <2>6, <2>8, <2>9, Zenon DEF IInv
  <1>. QED
    BY <1>2, <1>3, Zenon DEF Resync

AdvertisementOf(e) == [act |-> "advertise", key |-> e.key, attr |-> e.attr, uuid |-> 0]

LEMMA PlanBounded == ASSUME Tick PROVE Bounded(Withdrawals(desired) \cup Advertisements(desired))
  <1>1. PICK n \in Nat : \A r \in applied : r.uuid <= n
    BY Zenon DEF Tick, Bounded
  <1>2. ASSUME NEW o \in Withdrawals(desired) PROVE o.uuid <= n
    BY <1>1 DEF Withdrawals
  <1>3. ASSUME NEW o \in Advertisements(desired) PROVE o.uuid <= n
    BY DEF Advertisements
  <1>. QED
    BY <1>2, <1>3, Zenon DEF Bounded

\* A route with another payload is withdrawn before it is advertised, once.
LEMMA PlanOrdered ==
  ASSUME Tick, ~Conflict(desired), NEW o \in Withdrawals(desired) \cup Advertisements(desired)
  PROVE  /\ o \in Op
         /\ o.act = "withdraw" => o.uuid # 0 /\ ReceiptOf(o) \in applied
         /\ o.act = "advertise" =>
              /\ o.uuid = 0
              /\ \A r \in applied : r.key = o.key => WithdrawalOf(r) \in Withdrawals(desired)
              /\ \A p \in Withdrawals(desired) \cup Advertisements(desired) :
                   p.act = "advertise" /\ p.key = o.key => p = o
  <1>1. CASE o \in Withdrawals(desired)
    <2>1. PICK r \in applied : o = WithdrawalOf(r)
      BY <1>1, Zenon DEF Withdrawals, WithdrawalOf
    <2>2. r \in Receipt
      BY Zenon DEF Tick
    <2>3. ReceiptOf(o) = r
      BY <2>1, <2>2, Zenon DEF WithdrawalOf, ReceiptOf, Receipt
    <2>. QED
      BY <2>1, <2>2, <2>3, Zenon DEF WithdrawalOf, Op, Receipt
  <1>2. CASE o \in Advertisements(desired)
    <2>1. PICK e \in desired : o = AdvertisementOf(e) /\ e \notin { EndpointOf(r) : r \in applied }
      BY <1>2, Zenon DEF Advertisements, AdvertisementOf
    <2>2. e \in Endpoint
      BY Zenon DEF Tick
    <2>3. o \in Op /\ o.act = "advertise" /\ o.uuid = 0 /\ o.key = e.key
      BY <2>1, <2>2, Zenon DEF AdvertisementOf, Op, Endpoint
    <2>4. ASSUME NEW r \in applied, r.key = o.key PROVE WithdrawalOf(r) \in Withdrawals(desired)
      <3>1. EndpointOf(r) # e /\ EndpointOf(r).key = e.key
        BY <2>1, <2>3, <2>4, Zenon DEF EndpointOf
      <3>2. EndpointOf(r) \notin desired
        BY <3>1, Zenon DEF Conflict
      <3>. QED
        BY <3>2, Zenon DEF Withdrawals, WithdrawalOf
    <2>5. ASSUME NEW p \in Withdrawals(desired) \cup Advertisements(desired), p.act = "advertise", p.key = o.key
          PROVE  p = o
      <3>1. p \in Advertisements(desired)
        BY <2>5 DEF Withdrawals
      <3>2. PICK f \in desired : p = AdvertisementOf(f)
        BY <3>1, Zenon DEF Advertisements, AdvertisementOf
      <3>3. f.key = e.key
        BY <2>3, <2>5, <3>2, Zenon DEF AdvertisementOf
      <3>. QED
        BY <2>1, <3>2, <3>3, Zenon DEF Conflict
    <2>. QED
      BY <2>3, <2>4, <2>5, Zenon
  <1>. QED
    BY <1>1, <1>2, Zenon

LEMMA ReconcileIInv == ASSUME IInv, Reconcile PROVE IInv'
  <1>1. /\ pc = "compare"
        /\ UNCHANGED <<want, inc, rib, wire, faults, changes, setup, disk, conn, attached, mem, fenced, applied>>
    BY Zenon DEF Reconcile, envVars
  <1>2. CASE EndTick
    BY <1>1, <1>2, EndQuietIInv, Zenon
  <1>3. CASE /\ ~Conflict(desired) /\ plan' = Withdrawals(desired) \cup Advertisements(desired)
             /\ desired' = {} /\ pc' = "apply" /\ UNCHANGED cur
    <2>0. Tick /\ ~fenced
      BY <1>1, Zenon DEF IInv, Types, Synced
    <2>1. Types'
      BY <1>1, <1>3, <2>0, PlanBounded, PlanOrdered, BoundedEmpty, Zenon DEF IInv, Types, World, Stored, Memory, Tick
    <2>2. Synced'
      BY <1>1, <1>3, <2>0, Zenon DEF IInv, Synced, Readable, Adds, Deletes, Recoveries
    <2>3. Planned'
      BY <1>1, <1>3, <2>0, PlanOrdered, Zenon DEF Planned
    <2>4. Working'
      BY <1>1, <1>3, Zenon DEF IInv, Working, Adds, Deletes, Recoveries
    <2>5. Handles' \subseteq Handles
      BY <1>1, <1>3, <2>0, PlanOrdered DEF Handles, Durable, Volatile
    <2>6. Renewed /\ Shrinks
      BY <1>1, Zenon DEF Renewed, Shrinks, Own, Found
    <2>7. Owned'
      BY <2>5, <2>6, OwnedKept, Zenon
    <2>8. Accounted'
      BY <1>1, <1>3, <2>6, AccountedKept, Zenon DEF IInv, Accounted, Recoveries
    <2>. QED
      BY <2>1, <2>2, <2>3, <2>4, <2>7, <2>8, Zenon DEF IInv
  <1>. QED
    BY <1>2, <1>3, Zenon DEF Reconcile
-----------------------------------------------------------------------------
(* Operations *)

LEMMA IntendGood ==
  ASSUME IInv, attached, pc = "apply", disk.inc # 0, NEW i \in Intent, i.op \in {"add", "delete"},
         i.op = "delete" => ReceiptOf(i) \in disk.receipts
  PROVE  /\ Good(Intend(i))
         /\ Intend(i).inc = disk.inc /\ Intend(i).receipts = disk.receipts /\ Intend(i).pending = i
  <1>. DEFINE d == Intend(i)
  <1>1. disk \in DiskRec /\ disk.pending = None /\ Good(disk) /\ i # None
    BY DiskGood, NoneAssumption, Zenon DEF IInv, Types, Stored, Synced
  <1>2. d \in DiskRec /\ d.inc = disk.inc /\ d.receipts = disk.receipts /\ d.pending = i /\ d.st = disk.st
    BY <1>1 DEF Intend, DiskRec
  <1>. HIDE DEF d
  <1>3. Readable(d) /\ Durable(d) \subseteq Durable(disk)
    BY <1>1, <1>2, Zenon DEF Good, Readable, Durable
  <1>4. ASSUME ~LateDelivery, NEW k \in Key, Own(k) PROVE Held(d.receipts, k)
    BY <1>1, <1>2, <1>4, Zenon DEF Good, Adding
  <1>5. Good(d)
    BY <1>1, <1>2, <1>3, <1>4, Zenon DEF Good
  <1>. QED
    BY <1>2, <1>5, Zenon DEF d

\* An intent that is durable before the RPC it announces.
LEMMA BegunIInv ==
  ASSUME IInv, attached, ~fenced, pc = "apply", disk.inc # 0, NEW o \in plan,
         NEW i \in Intent, i.op \in {"add", "delete"},
         i.op = "delete" => ReceiptOf(i) = ReceiptOf(o) /\ ReceiptOf(o) \in mem.receipts /\ o.act = "withdraw",
         i.op = "add" => /\ i = [op |-> "add", key |-> o.key, attr |-> o.attr] /\ o.act = "advertise"
                         /\ \A p \in plan : p.act # "withdraw",
         NEW ok \in BOOLEAN, Write(Intend(i), ok),
         IF ok THEN pc' = (IF i.op = "add" THEN "add" ELSE "delete") /\ cur' = o /\ UNCHANGED <<desired, plan>>
               ELSE EndTick,
         UNCHANGED <<want, inc, rib, wire, changes, setup, conn, attached, mem, applied>>
  PROVE  IInv'
  <1>. DEFINE d == Intend(i)
  <1>1. mem.receipts = disk.receipts /\ applied = mem.receipts
    BY Zenon DEF IInv, Synced, Working
  <1>2. Good(d) /\ d.inc = disk.inc /\ d.receipts = disk.receipts /\ d.pending = i
    BY <1>1, IntendGood, Zenon
  <1>. HIDE DEF d
  <1>3. Write(d, ok) /\ (faults' = faults \/ Fault)
    BY Zenon DEF Write, NoFault, d
  <1>4. CASE ~ok
    <2>1. disk' \in {d, disk} /\ fenced' = TRUE /\ EndTick
      BY <1>3, <1>4, Zenon DEF Write
    <2>. QED
      BY <1>2, <1>3, <2>1, WriteFails, Zenon
  <1>5. CASE ok
    <2>1. /\ disk' = d /\ fenced' = FALSE /\ pc' = (IF i.op = "add" THEN "add" ELSE "delete")
          /\ cur' = o /\ UNCHANGED <<desired, plan>>
      BY <1>3, <1>5, Zenon DEF Write
    <2>2. Good(disk')
      BY <1>2, <2>1, Zenon
    <2>3. World'
      BY <1>3, FaultsKept, Zenon DEF IInv, Types, World
    <2>4. Types'
      BY <2>1, <2>2, <2>3, Written, Zenon DEF IInv, Types, Memory, Tick
    <2>5. Synced'
      BY <1>2, <2>1, <2>2, Written, Zenon DEF IInv, Synced, Adds, Deletes, Recoveries
    <2>6. Planned'
      BY <2>1, Zenon DEF IInv, Planned, Adds, Deletes
    <2>7. o \in Op /\ (o.act = "advertise" => o.uuid = 0)
      BY DEF IInv, Types, Tick, Planned
    <2>8. o.act = "advertise" => [o EXCEPT !.uuid = 0] = o
      BY <2>7, Zenon DEF Op
    <2>9. Working'
      BY <1>1, <1>2, <2>1, <2>7, <2>8, Zenon DEF IInv, Working, Adds, Deletes, Recoveries, ReceiptOf
    <2>10. Volatile' \subseteq Volatile
      BY <2>1, Zenon DEF Volatile
    <2>11. Owned'
      BY <2>2, <2>10, WrittenOwned, Zenon DEF Handles
    <2>12. Accounted'
      BY <2>1, <2>2, Written, Zenon DEF Accounted, Recoveries
    <2>. QED
      BY <2>4, <2>5, <2>6, <2>9, <2>11, <2>12, Zenon DEF IInv
  <1>. QED
    BY <1>4, <1>5, Zenon

LEMMA BeginOperationIInv == ASSUME IInv, NEW o \in plan, BeginOperation(o) PROVE IInv'
  <1>1. /\ pc = "apply" /\ attached /\ o \in NextOps
        /\ UNCHANGED <<want, inc, rib, wire, changes, setup, conn, attached, mem, applied>>
    BY Zenon DEF BeginOperation
  <1>2. o \in Op /\ inc \in Nat \ {0} /\ ~fenced
    <2>1. o \in Op
      BY Zenon DEF IInv, Types, Tick
    <2>2. inc \in Nat \ {0}
      BY DEF IInv, Types, World
    <2>3. ~fenced
      BY <1>1, Zenon DEF IInv, Synced
    <2>. QED
      BY <2>1, <2>2, <2>3, Zenon
  <1>3. CASE EndTick /\ UNCHANGED <<disk, fenced, faults>>
    BY <1>1, <1>3, EndQuietIInv, Zenon
  <1>4. CASE ~(\/ fenced
               \/ mem.inc # inc
               \/ o.act = "advertise" /\ Found(o.key)
               \/ o.act = "withdraw" /\ ReceiptOf(o) \notin mem.receipts)
    <2>1. disk.inc # 0
      BY <1>1, <1>2, <1>4, Zenon DEF IInv, Synced
    <2>2. CASE o.act = "advertise"
      <3>. DEFINE i == [op |-> "add", key |-> o.key, attr |-> o.attr]
      <3>1. i \in Intent /\ i.op = "add"
        BY <1>2, Zenon DEF Intent, Op
      <3>2. \A p \in plan : p.act # "withdraw"
        BY <1>1, <2>2, Zenon DEF NextOps
      <3>3. PICK ok \in BOOLEAN : /\ Write(Intend(i), ok)
                                  /\ IF ok THEN pc' = "add" /\ cur' = o /\ UNCHANGED <<desired, plan>> ELSE EndTick
        BY <1>4, <2>2, Zenon DEF BeginOperation
      <3>4. i = [op |-> "add", key |-> o.key, attr |-> o.attr]
        BY Zenon
      <3>. HIDE DEF i
      <3>. QED
        BY <1>1, <1>2, <2>1, <2>2, <3>1, <3>2, <3>3, <3>4, BegunIInv, Zenon
    <2>3. CASE o.act = "withdraw"
      <3>. DEFINE i == [op |-> "delete", inc |-> inc, key |-> o.key, attr |-> o.attr, uuid |-> o.uuid]
      <3>1. o.uuid # 0
        BY <2>3, Zenon DEF IInv, Planned
      <3>2. i \in Intent /\ i.op = "delete" /\ ReceiptOf(i) = ReceiptOf(o)
        BY <1>2, <3>1, Zenon DEF Intent, Op, ReceiptOf
      <3>3. PICK ok \in BOOLEAN : /\ Write(Intend(i), ok)
                                  /\ IF ok THEN pc' = "delete" /\ cur' = o /\ UNCHANGED <<desired, plan>> ELSE EndTick
        BY <1>4, <2>3, Zenon DEF BeginOperation
      <3>4. ReceiptOf(o) \in mem.receipts
        BY <1>4, <2>3, Zenon
      <3>. HIDE DEF i
      <3>. QED
        BY <1>1, <1>2, <2>1, <2>3, <3>2, <3>3, <3>4, BegunIInv, Zenon
    <2>. QED
      BY <1>2, <2>2, <2>3, Zenon DEF Op
  <1>. QED
    BY <1>3, <1>4, Zenon DEF BeginOperation
\* What an AddPath can do to the speaker: at most one new path on a free route.
LEMMA AddPathEffect ==
  ASSUME Types, NEW o, o.key \in Key, o.attr \in Attr, NEW raw \in BOOLEAN, NEW replied \in BOOLEAN,
         AddPath(o, raw, replied), UNCHANGED <<want, inc, changes, setup>>
  PROVE  /\ World' /\ Renewed
         /\ ~LateDelivery => wire' = wire
         /\ replied => rib'[o.key] = NewPath(o.attr, TRUE, raw)
         /\ \A k \in Key : rib'[k] = rib[k] \/ (k = o.key /\ ~Found(k))
         /\ \A k \in Key : Own(k)' => (Own(k) /\ rib'[k] = rib[k]) \/ (k = o.key /\ ~raw)
  <1>0. NewUuid \in Nat /\ NewUuid \notin UsedUuids /\ World
    BY NewUuidIsNew DEF Types
  <1>1. ASSUME NEW acked \in BOOLEAN, rib' = [rib EXCEPT ![o.key] = NewPath(o.attr, acked, raw)], UNCHANGED wire,
               faults' = faults \/ Fault, ~Found(o.key), replied => acked
        PROVE  /\ World' /\ Renewed
               /\ ~LateDelivery => wire' = wire
               /\ replied => rib'[o.key] = NewPath(o.attr, TRUE, raw)
               /\ \A k \in Key : rib'[k] = rib[k] \/ (k = o.key /\ ~Found(k))
               /\ \A k \in Key : Own(k)' => (Own(k) /\ rib'[k] = rib[k]) \/ (k = o.key /\ ~raw)
    <2>0. PICK p \in Path : p = NewPath(o.attr, acked, raw)
      BY <1>0, Zenon DEF NewPath, Path
    <2>1. p.uuid = NewUuid /\ p.raw = raw
      BY <2>0, Zenon DEF NewPath
    <2>2. replied => p = NewPath(o.attr, TRUE, raw)
      BY <1>1, <2>0, Zenon
    <2>3. rib' = [rib EXCEPT ![o.key] = p]
      BY <1>1, <2>0, Zenon
    <2>4. Table(rib') /\ \A j \in Key : rib'[j] = IF j = o.key THEN p ELSE rib[j]
      <3>1. PICK k \in Key : k = o.key
        BY Zenon
      <3>2. rib' = [rib EXCEPT ![k] = p]
        BY <2>3, <3>1
      <3>3. Table(rib') /\ \A j \in Key : rib'[j] = IF j = k THEN p ELSE rib[j]
        BY <1>0, <3>2, RouteReplaced, Zenon
      <3>. QED
        BY <3>1, <3>3, Zenon
    <2>5. World'
      BY <1>0, <1>1, <2>4, FaultsKept, Zenon
    <2>6. Renewed
      BY <1>0, <2>1, <2>4, Zenon DEF Renewed
    <2>7. \A k \in Key : Own(k)' => (Own(k) /\ rib'[k] = rib[k]) \/ (k = o.key /\ ~raw)
      BY <2>1, <2>4, Zenon DEF Own, Found
    <2>. QED
      BY <1>1, <2>2, <2>4, <2>5, <2>6, <2>7, Zenon
  <1>2. CASE UNCHANGED rib /\ ~replied
    <2>1. faults' = faults \/ Fault
      BY <1>2, Zenon DEF AddPath, NoFault
    <2>2. wire' \in [key : Key, attr : Attr, raw : BOOLEAN] \cup {None} /\ (~LateDelivery => wire' = wire)
      <3>1. wire' = wire \/ (LateDelivery /\ wire' = [key |-> o.key, attr |-> o.attr, raw |-> raw])
        BY Zenon DEF AddPath
      <3>. QED
        BY <1>0, <3>1 DEF World
    <2>3. World'
      <3>1. faults' \in 0..MaxFaults /\ inc \in 1..(faults' + 1)
        BY <1>0, <2>1, ConfigAssumption DEF World, Fault
      <3>. QED
        BY <1>0, <1>2, <2>2, <3>1, Zenon DEF World
    <2>. QED
      BY <1>2, <2>2, <2>3, Zenon DEF Renewed, Own, Found
  <1>3. CASE ~(UNCHANGED rib /\ ~replied)
    <2>1. PICK acked \in BOOLEAN : /\ rib' = [rib EXCEPT ![o.key] = NewPath(o.attr, acked, raw)] /\ UNCHANGED wire
                                   /\ (faults' = faults \/ Fault) /\ ~Found(o.key) /\ (replied => acked)
      BY <1>3, Zenon DEF AddPath, NoFault
    <2>. QED
      BY <1>1, <2>1, Zenon
  <1>. QED
    BY <1>2, <1>3, Zenon

\* An AddPath of unknown outcome is the outstanding intent.
LEMMA AddRpcIInv == ASSUME IInv, AddRpc PROVE IInv'
  <1>1. /\ pc = "add"
        /\ UNCHANGED <<want, inc, changes, setup, disk, conn, attached, mem, fenced, applied>>
    BY Zenon DEF AddRpc
  <1>2. /\ cur \in Op /\ cur.act = "advertise" /\ cur.uuid = 0 /\ [cur EXCEPT !.uuid = 0] \in plan
        /\ disk.pending = [op |-> "add", key |-> cur.key, attr |-> cur.attr]
        /\ disk.inc # 0 /\ attached /\ ~fenced
    BY <1>1, Zenon DEF IInv, Working, Synced, Adds
  <1>3. cur.key \in Key /\ cur.attr \in Attr /\ Types /\ disk.pending # None
    BY <1>2, NoneAssumption DEF IInv, Op, Intent
  <1>4. Adding(disk, cur.key)
    BY <1>2, <1>3 DEF Adding
  <1>5. CASE AddPath(cur, FALSE, FALSE) /\ EndTick
    <2>1. /\ World' /\ Renewed /\ (~LateDelivery => wire' = wire)
          /\ \A k \in Key : Own(k)' => (Own(k) /\ rib'[k] = rib[k]) \/ k = cur.key
      BY <1>1, <1>3, <1>5, AddPathEffect, Zenon
    <2>2. conn' \in 0..inc /\ pc' = "idle"
      BY <1>1, <1>5, Zenon DEF IInv, Types, Memory, EndTick
    <2>3. ASSUME ~LateDelivery, NEW k \in Key, Own(k)' PROVE Held(disk.receipts, k)' \/ Adding(disk, k)'
      <3>1. CASE k = cur.key
        BY <1>1, <1>4, <3>1, Zenon DEF Adding
      <3>2. CASE Own(k) /\ rib'[k] = rib[k]
        <4>1. Held(disk.receipts, k) \/ Adding(disk, k)
          BY <2>3, <3>2, Zenon DEF IInv, Accounted
        <4>. QED
          BY <1>1, <3>2, <4>1, Zenon DEF Held, Adding
      <3>. QED
        BY <2>1, <2>3, <3>1, <3>2, Zenon
    <2>4. Accounted'
      BY <1>1, <2>1, <2>2, <2>3, Zenon DEF IInv, Accounted, LateDelivery, Recoveries
    <2>. QED
      BY <1>1, <1>5, <2>1, <2>2, <2>4, EndTickIInv, Zenon
  <1>6. CASE /\ AddPath(cur, FALSE, TRUE) /\ pc' = "add-readback" /\ cur' = [cur EXCEPT !.uuid = NewUuid]
             /\ UNCHANGED <<desired, plan>>
    <2>1. /\ World' /\ Renewed /\ (~LateDelivery => wire' = wire)
          /\ rib'[cur.key] = NewPath(cur.attr, TRUE, FALSE)
          /\ \A k \in Key : Own(k)' => (Own(k) /\ rib'[k] = rib[k]) \/ k = cur.key
      BY <1>1, <1>3, <1>6, AddPathEffect, Zenon
    <2>2. NewUuid \in Nat \ {0} /\ NewUuid \notin UsedUuids
      BY <1>3, NewUuidIsNew, Zenon
    <2>3. /\ cur' \in Op /\ cur'.key = cur.key /\ cur'.attr = cur.attr /\ cur'.act = "advertise" /\ cur'.uuid = NewUuid
          /\ [cur' EXCEPT !.uuid = 0] = [cur EXCEPT !.uuid = 0]
      BY <1>2, <1>6, <2>2, Zenon DEF Op
    <2>4. \A r \in mem.receipts : r.uuid # NewUuid
      BY <2>2, Zenon DEF UsedUuids
    <2>5. Types'
      <3>1. Types /\ conn \in 0..inc /\ Tick
        BY Zenon DEF IInv, Types, Memory
      <3>2. Stored' /\ Memory'
        BY <1>1, <3>1, JournalKept, Zenon
      <3>3. Tick'
        BY <1>1, <1>6, <2>3, <3>1, Zenon DEF Tick
      <3>. QED
        BY <2>1, <3>2, <3>3, Zenon DEF Types
    <2>6. Synced' /\ Planned'
      BY <1>1, <1>2, <1>6, Zenon DEF IInv, Synced, Planned, Readable, Adds, Deletes, Recoveries
    <2>7. Working'
      BY <1>1, <1>2, <1>6, <2>2, <2>3, <2>4, Zenon DEF IInv, Working, Adds, Deletes, Recoveries
    <2>8. Owns(ReceiptOf(cur))'
      BY <2>1, <2>3 DEF Owns, ReceiptOf, NewPath
    <2>9. \A r \in Handles' : r \in Handles \/ r = ReceiptOf(cur)'
      BY <1>1, <1>6, Zenon DEF Handles, Durable, Volatile
    <2>10. Owned'
      BY <2>1, <2>8, <2>9, OwnedKept, Zenon
    <2>11. ASSUME ~LateDelivery, NEW k \in Key, Own(k)' PROVE Held(disk.receipts, k)' \/ Adding(disk, k)'
      <3>1. CASE k = cur.key
        BY <1>1, <1>4, <3>1 DEF Adding
      <3>2. CASE Own(k) /\ rib'[k] = rib[k]
        <4>1. Held(disk.receipts, k) \/ Adding(disk, k)
          BY <2>11, <3>2 DEF IInv, Accounted
        <4>. QED
          BY <1>1, <3>2, <4>1 DEF Held, Adding
      <3>. QED
        BY <2>1, <2>11, <3>1, <3>2, Zenon
    <2>12. rib'[cur'.key].uuid = cur'.uuid
      BY <2>1, <2>3 DEF NewPath
    <2>13. Accounted'
      BY <1>1, <1>6, <2>1, <2>11, <2>12, Zenon DEF IInv, Accounted, LateDelivery, Recoveries
    <2>. QED
      BY <2>5, <2>6, <2>7, <2>10, <2>13 DEF IInv
  <1>. QED
    BY <1>5, <1>6, Zenon DEF AddRpc

LEMMA DeleteRpcIInv == ASSUME IInv, DeleteRpc PROVE IInv'
  <1>1. /\ pc = "delete"
        /\ UNCHANGED <<want, inc, wire, changes, setup, disk, conn, attached, mem, fenced, applied>>
    BY Zenon DEF DeleteRpc
  <1>2. cur \in Op /\ cur.key \in Key /\ World /\ attached /\ ~fenced
    BY <1>1, Zenon DEF IInv, Types, Working, Synced, Deletes, Op
  <1>3. CASE DeletePath(cur, FALSE) /\ EndTick
    <2>1. Table(rib') /\ Renewed /\ Shrinks /\ (faults' = faults \/ Fault)
      BY <1>2, <1>3, DeletePathEffect, Zenon
    <2>2. conn' \in 0..inc
      BY <1>1, Zenon DEF IInv, Types, Memory
    <2>. QED
      BY <1>1, <1>3, <2>1, <2>2, EndIInv, Zenon
  <1>4. CASE DeletePath(cur, TRUE) /\ Goto("delete-readback")
    <2>1. Table(rib') /\ Renewed /\ Shrinks /\ (faults' = faults \/ Fault)
      BY <1>2, <1>4, DeletePathEffect, Zenon
    <2>2. pc' = "delete-readback" /\ UNCHANGED <<desired, plan, cur>>
      BY <1>4, Zenon DEF Goto, tickVars
    <2>3. Types'
      BY <1>1, <1>2, <2>1, <2>2, FaultsKept, Zenon DEF IInv, Types, World, Stored, Memory, Tick
    <2>4. Synced' /\ Planned'
      BY <1>1, <1>2, <2>2, Zenon DEF IInv, Synced, Planned, Readable, Adds, Deletes, Recoveries
    <2>5. Working'
      BY <1>1, <2>2, Zenon DEF IInv, Working, Adds, Deletes, Recoveries, ReceiptOf
    <2>6. Handles' \subseteq Handles
      BY <1>1, <2>2, Zenon DEF Handles, Durable, Volatile
    <2>7. Owned'
      BY <2>1, <2>6, OwnedKept, Zenon
    <2>8. Accounted'
      BY <1>1, <2>1, <2>2, AccountedKept, Zenon DEF IInv, Accounted, Recoveries
    <2>. QED
      BY <2>3, <2>4, <2>5, <2>7, <2>8 DEF IInv
  <1>. QED
    BY <1>3, <1>4, Zenon DEF DeleteRpc
-----------------------------------------------------------------------------
(* The end of an operation *)

\* Whatever leaves the plan, the rest of it stays in order.
LEMMA DonePlanned ==
  ASSUME IInv, pc \in {"apply"} \cup Adds \cup Deletes, NEW o \in plan, NEW r \in Receipt, Done(o, r),
         o.act = "advertise" => r.key = o.key,
         o.act = "withdraw" => r = ReceiptOf(o)
  PROVE  Planned' /\ Tick'
  <1>1. /\ pc' = "apply" /\ plan' = plan \ {o} /\ desired' = desired /\ cur' = None
        /\ applied' = IF o.act = "advertise" THEN applied \cup {r} ELSE applied \ {r}
    BY Zenon DEF Done
  <1>2. Tick'
    <2>1. applied \in SUBSET Receipt /\ Bounded(applied) /\ plan \subseteq Op /\ Bounded(plan)
      BY Zenon DEF IInv, Types, Tick
    <2>2. Bounded(plan \ {o})
      BY <2>1, BoundedSubset, Zenon
    <2>3. Bounded(applied \cup {r}) /\ Bounded(applied \ {r})
      BY <2>1, BoundedAdd, BoundedSubset, Zenon
    <2>. QED
      BY <1>1, <2>1, <2>2, <2>3, Zenon DEF IInv, Types, Tick
  <1>3. ASSUME NEW p \in plan', p.act = "advertise", NEW q \in applied', q.key = p.key
        PROVE  WithdrawalOf(q) \in plan'
    <2>1. p \in plan /\ p # o
      BY <1>1, Zenon
    <2>2. CASE q = r /\ o.act = "advertise"
      BY <1>3, <2>1, <2>2, Zenon DEF IInv, Planned
    <2>3. CASE q \in applied /\ o.act = "advertise"
      <3>1. WithdrawalOf(q) \in plan
        BY <1>3, <2>1, <2>3, Zenon DEF IInv, Planned
      <3>2. WithdrawalOf(q) # o
        BY <2>3 DEF WithdrawalOf
      <3>. QED
        BY <1>1, <3>1, <3>2, Zenon
    <2>4. CASE o.act # "advertise"
      <3>0. q \in applied /\ q # r /\ o.act = "withdraw"
        BY <1>1, <2>4, Zenon DEF IInv, Types, Tick, Op
      <3>1. WithdrawalOf(q) \in plan /\ q \in Receipt
        BY <1>3, <2>1, <3>0, Zenon DEF IInv, Planned, Types, Tick
      <3>2. ReceiptOf(WithdrawalOf(q)) = q
        BY <3>1, Zenon DEF WithdrawalOf, ReceiptOf, Receipt
      <3>3. WithdrawalOf(q) # o
        BY <3>0, <3>2, Zenon
      <3>. QED
        BY <1>1, <3>1, <3>3, Zenon
    <2>. QED
      BY <1>1, <2>2, <2>3, <2>4, Zenon
  <1>4. Planned'
    BY <1>1, <1>3, Zenon DEF IInv, Planned
  <1>. QED
    BY <1>2, <1>4, Zenon

\* The rest of a step that ends an operation with the journal or without one.
LEMMA DoneIInv ==
  ASSUME IInv, pc \in {"apply"} \cup Adds \cup Deletes, NEW o \in plan, NEW r \in Receipt, Done(o, r),
         o.act = "advertise" => r.key = o.key,
         o.act = "withdraw" => r = ReceiptOf(o),
         World', Stored', Memory', Synced', attached' => applied' = mem'.receipts,
         Renewed, \A h \in Handles' : h \in Handles \/ Owns(h)',
         Accounted'
  PROVE  IInv'
  <1>1. pc' = "apply"
    BY Zenon DEF Done
  <1>2. Planned' /\ Tick'
    BY DonePlanned, Zenon
  <1>3. Working'
    BY <1>1, Zenon DEF Working, Adds, Deletes, Recoveries
  <1>4. Owned'
    BY OwnedKept
  <1>. QED
    BY <1>2, <1>3, <1>4, Zenon DEF IInv, Types
LEMMA RawAddIInv == ASSUME IInv, NEW o \in plan, RawAdd(o) PROVE IInv'
  <1>1. /\ pc = "apply" /\ ~attached /\ o.act = "advertise"
        /\ UNCHANGED <<want, inc, changes, setup, disk, conn, attached, mem, fenced>>
    BY Zenon DEF RawAdd
  <1>2. o \in Op /\ o.key \in Key /\ o.attr \in Attr /\ Types /\ ~fenced
    BY <1>1, Zenon DEF IInv, Types, Tick, Op, Synced
  <1>3. ASSUME NEW replied \in BOOLEAN, AddPath(o, TRUE, replied), pc' \in {"idle", "apply"}
        PROVE  Accounted'
    <2>1. (~LateDelivery => wire' = wire) /\ Shrinks
      BY <1>1, <1>2, <1>3, AddPathEffect, Zenon DEF Shrinks
    <2>. QED
      BY <1>1, <1>3, <2>1, AccountedKept, Zenon DEF IInv, Accounted, Recoveries
  <1>4. CASE AddPath(o, TRUE, FALSE) /\ EndTick /\ UNCHANGED applied
    <2>1. World' /\ Renewed
      BY <1>1, <1>2, <1>4, AddPathEffect, Zenon
    <2>2. conn' \in 0..inc /\ pc' = "idle"
      BY <1>1, <1>4, Zenon DEF IInv, Types, Memory, EndTick
    <2>. QED
      BY <1>1, <1>3, <1>4, <2>1, <2>2, EndTickIInv, Zenon
  <1>5. CASE AddPath(o, TRUE, TRUE) /\ Done(o, [ReceiptOf(o) EXCEPT !.uuid = NewUuid])
    <2>1. NewUuid \in Nat \ {0}
      BY <1>2, NewUuidIsNew
    <2>2. PICK r \in Receipt : /\ r = [ReceiptOf(o) EXCEPT !.uuid = NewUuid]
                               /\ r.key = o.key /\ r.attr = o.attr /\ r.uuid = NewUuid
      <3>. DEFINE n == [ReceiptOf(o) EXCEPT !.uuid = NewUuid]
      <3>1. n \in Receipt /\ n.key = o.key /\ n.attr = o.attr /\ n.uuid = NewUuid
        BY <1>2, <2>1, Zenon DEF ReceiptOf, Receipt
      <3>. HIDE DEF n
      <3>2. \E r \in Receipt : r = n /\ r.key = o.key /\ r.attr = o.attr /\ r.uuid = NewUuid
        BY <3>1
      <3>. QED
        BY <3>2, Zenon DEF n
    <2>3. World' /\ Renewed /\ rib'[o.key] = NewPath(o.attr, TRUE, TRUE)
      BY <1>1, <1>2, <1>5, AddPathEffect, Zenon
    <2>4. pc' = "apply" /\ plan' = plan \ {o} /\ applied' = applied \cup {r} /\ Done(o, r)
      BY <1>1, <1>5, <2>2, Zenon DEF Done
    <2>5. Stored' /\ Memory'
      BY <1>1, Zenon DEF IInv, Types, Stored, Memory
    <2>6. Synced'
      BY <1>1, <1>2, <2>4, Zenon DEF IInv, Synced, Readable, Adds, Deletes, Recoveries
    <2>7. Owns(r)'
      BY <2>2, <2>3 DEF Owns, NewPath
    <2>8. \A h \in Handles' : h \in Handles \/ h = r
      BY <1>1, <2>4, Zenon DEF Handles, Durable, Volatile
    <2>9. Accounted'
      BY <1>3, <1>5, <2>4, Zenon
    <2>. QED
      BY <1>1, <2>2, <2>3, <2>4, <2>5, <2>6, <2>7, <2>8, <2>9, DoneIInv, Zenon
  <1>. QED
    BY <1>4, <1>5, Zenon DEF RawAdd

LEMMA RawDeleteIInv == ASSUME IInv, NEW o \in plan, RawDelete(o) PROVE IInv'
  <1>1. /\ pc = "apply" /\ ~attached /\ o.act = "withdraw"
        /\ UNCHANGED <<want, inc, wire, changes, setup, disk, conn, attached, mem, fenced>>
    BY Zenon DEF RawDelete
  <1>2. o \in Op /\ o.key \in Key /\ o.uuid # 0 /\ World /\ ~fenced
    BY <1>1, Zenon DEF IInv, Types, Tick, Op, Synced, Planned
  <1>3. conn' \in 0..inc
    BY <1>1, Zenon DEF IInv, Types, Memory
  <1>4. CASE DeletePath(o, FALSE) /\ EndTick /\ UNCHANGED applied
    <2>1. Table(rib') /\ Renewed /\ Shrinks /\ (faults' = faults \/ Fault)
      BY <1>2, <1>4, DeletePathEffect, Zenon
    <2>. QED
      BY <1>1, <1>3, <1>4, <2>1, EndIInv, Zenon
  <1>5. CASE DeletePath(o, TRUE) /\ Done(o, ReceiptOf(o))
    <2>1. Table(rib') /\ Renewed /\ Shrinks /\ (faults' = faults \/ Fault)
      BY <1>2, <1>5, DeletePathEffect, Zenon
    <2>2. ReceiptOf(o) \in Receipt
      BY <1>2, Zenon DEF ReceiptOf, Receipt, Op
    <2>3. pc' = "apply" /\ plan' = plan \ {o} /\ applied' = applied \ {ReceiptOf(o)}
      BY <1>1, <1>5, Zenon DEF Done
    <2>4. World'
      BY <1>1, <1>2, <2>1, FaultsKept, Zenon
    <2>5. Stored' /\ Memory'
      BY <1>1, Zenon DEF IInv, Types, Stored, Memory
    <2>6. Synced'
      BY <1>1, <1>2, <2>3, Zenon DEF IInv, Synced, Readable, Adds, Deletes, Recoveries
    <2>7. Handles' \subseteq Handles
      BY <1>1, <2>3 DEF Handles, Durable, Volatile
    <2>8. Accounted'
      BY <1>1, <2>1, <2>3, AccountedKept, Zenon DEF IInv, Accounted, Recoveries
    <2>. QED
      BY <1>1, <1>5, <2>1, <2>2, <2>4, <2>5, <2>6, <2>7, <2>8, DoneIInv, Zenon
  <1>. QED
    BY <1>4, <1>5, Zenon DEF RawDelete

\* The receipt of a new path, and what is left after a withdrawal.
Receipted == [mem EXCEPT !.receipts = @ \cup {ReceiptOf(cur)}]

LEMMA AddAcknowledged ==
  ASSUME IInv, pc = "add-readback"
  PROVE  /\ Receipted \in StateRec /\ Receipted.inc = mem.inc
         /\ Receipted.receipts = mem.receipts \cup {ReceiptOf(cur)}
         /\ Good(Acknowledge(Receipted))
  <1>. DEFINE r == ReceiptOf(cur)
              o == [cur EXCEPT !.uuid = 0]
              s == Receipted
              d == Acknowledge(s)
  <1>1. /\ cur \in Op /\ cur.uuid # 0 /\ o \in plan /\ (\A p \in plan : p.act # "withdraw")
        /\ cur.act = "advertise" /\ disk.inc # 0 /\ disk.pending = [op |-> "add", key |-> cur.key, attr |-> cur.attr]
        /\ (\A q \in mem.receipts : q.uuid # cur.uuid)
    BY Zenon DEF IInv, Working, Adds
  <1>2. attached /\ mem.inc = disk.inc /\ mem.receipts = disk.receipts /\ applied = mem.receipts /\ Readable(disk)
    BY Zenon DEF IInv, Synced, Working, Adds
  <1>3. mem \in StateRec /\ disk \in DiskRec /\ disk.st = "ok" /\ Bounded(mem.receipts) /\ mem.inc <= inc
    BY <1>2, Zenon DEF IInv, Types, Stored, Memory, Synced
  <1>4. r \in Receipt /\ r.key = cur.key /\ r.uuid = cur.uuid
    BY <1>1, Zenon DEF ReceiptOf, Receipt, Op
  <1>5. o.act = "advertise" /\ o.key = cur.key
    BY <1>1, Zenon DEF Op
  <1>6. ASSUME NEW q \in mem.receipts PROVE q.key # r.key /\ q.uuid # r.uuid
    <2>1. q.key # r.key
      <3>1. SUFFICES ASSUME q.key = o.key PROVE FALSE
        BY <1>4, <1>5, Zenon
      <3>2. WithdrawalOf(q) \in plan
        BY <1>1, <1>2, <1>5, <3>1, Zenon DEF IInv, Planned
      <3>. QED
        BY <1>1, <3>2, Zenon DEF WithdrawalOf
    <2>. QED
      BY <1>1, <1>4, <2>1, Zenon
  <1>7. Owns(r)
    BY DEF IInv, Owned, Handles, Volatile
  <1>. HIDE DEF r, o
  <1>8. s \in StateRec /\ s.inc = mem.inc /\ s.receipts = mem.receipts \cup {r}
    BY <1>3, <1>4, Zenon DEF Receipted, StateRec, r
  <1>. HIDE DEF s
  <1>9. /\ d \in DiskRec /\ d.inc = disk.inc /\ d.receipts = mem.receipts \cup {r} /\ d.pending = None
        /\ d.st = "ok"
    BY <1>2, <1>3, <1>8, Zenon DEF Acknowledge, DiskRec, StateRec
  <1>. HIDE DEF d
  <1>10. Bounded(d.receipts)
    <2>1. mem.receipts \in SUBSET Receipt
      BY <1>3, Zenon DEF StateRec
    <2>. QED
      BY <1>3, <1>4, <1>9, <2>1, BoundedAdd, Zenon
  <1>11. Readable(d)
    BY <1>1, <1>2, <1>6, <1>9, Zenon DEF Readable
  <1>12. \A q \in Durable(d) : Owns(q)
    BY <1>7, <1>9, Zenon DEF Durable, IInv, Owned, Handles, Volatile
  <1>13. ASSUME ~LateDelivery, NEW k \in Key, Own(k) PROVE Held(d.receipts, k)
    <2>1. CASE Held(disk.receipts, k)
      BY <1>2, <1>9, <2>1, Zenon DEF Held
    <2>2. CASE Adding(disk, k)
      <3>1. k = cur.key
        BY <1>1, <2>2, SMT DEF Adding
      <3>2. rib[k].uuid = cur.uuid
        BY <1>13, <3>1, Zenon DEF IInv, Accounted
      <3>. QED
        BY <1>4, <1>9, <3>1, <3>2, Zenon DEF Held
    <2>. QED
      BY <1>13, <2>1, <2>2, Zenon DEF IInv, Accounted
  <1>14. Good(d)
    BY <1>2, <1>3, <1>9, <1>10, <1>11, <1>12, <1>13, Zenon DEF Good
  <1>. QED
    BY <1>8, <1>14, Zenon DEF s, d, r

LEMMA DeleteAcknowledged ==
  ASSUME IInv, pc = "delete-readback", ~Found(cur.key)
  PROVE  /\ Without(mem, cur.uuid) \in StateRec /\ Without(mem, cur.uuid).inc = mem.inc
         /\ Without(mem, cur.uuid).receipts = mem.receipts \ {ReceiptOf(cur)}
         /\ Good(Acknowledge(Without(mem, cur.uuid)))
  <1>. DEFINE s == Without(mem, cur.uuid)
  <1>1. /\ ReceiptOf(cur) \in mem.receipts /\ disk.inc # 0
        /\ disk.pending \in Intent /\ disk.pending.op = "delete"
    BY Zenon DEF IInv, Working, Deletes
  <1>2. attached /\ ~fenced /\ mem.inc = disk.inc /\ mem.receipts = disk.receipts /\ Readable(disk)
    BY Zenon DEF IInv, Synced, Deletes
  <1>3. mem \in StateRec /\ mem.inc <= inc /\ inc \in Nat
    BY DEF IInv, Types, Memory, World
  <1>4. s \in StateRec /\ s.inc = mem.inc /\ s.receipts = { q \in mem.receipts : q.uuid # cur.uuid }
    BY <1>3, WithoutState, Zenon
  <1>5. s.receipts = mem.receipts \ {ReceiptOf(cur)}
    <2>1. ReceiptOf(cur).uuid = cur.uuid
      BY Zenon DEF ReceiptOf
    <2>2. \A q \in mem.receipts : q.uuid = cur.uuid <=> q = ReceiptOf(cur)
      BY <1>1, <1>2, <2>1, Zenon DEF Readable
    <2>. QED
      BY <1>4, <2>2, Zenon
  <1>6. ASSUME ~LateDelivery, NEW k \in Key, Own(k) PROVE Held(s.receipts, k)
    <2>1. k # cur.key /\ ~Adding(disk, k)
      BY <1>1, <1>6, Zenon DEF Own, Adding
    <2>2. Held(mem.receipts, k)
      BY <1>2, <1>6, <2>1, Zenon DEF IInv, Accounted
    <2>. QED
      <3>1. PICK q \in mem.receipts : q.key = cur.key /\ q.uuid = cur.uuid
        BY <1>1, Zenon DEF ReceiptOf
      <3>2. \A r \in mem.receipts : r.uuid # q.uuid => r \in s.receipts
        BY <1>4, <3>1, Zenon
      <3>. HIDE DEF s
      <3>. QED
        BY <1>2, <2>1, <2>2, <3>1, <3>2, WithoutHolds, Zenon
  <1>7. s.inc \in 1..inc
    BY <1>1, <1>2, <1>3, <1>4 DEF StateRec
  <1>. HIDE DEF s
  <1>8. Good(Acknowledge(s))
    BY <1>2, <1>4, <1>6, <1>7, CommitGood, Zenon
  <1>. QED
    BY <1>4, <1>5, <1>8, Zenon DEF s
\* An acknowledgement s of the operation o with receipt r.
LEMMA AcknowledgedIInv ==
  ASSUME IInv, pc \in {"add-readback", "delete-readback"}, NEW s \in StateRec, s.inc = mem.inc,
         NEW o \in plan, NEW r \in Receipt, r = ReceiptOf(cur), Good(Acknowledge(s)),
         o.act = "advertise" => r.key = o.key /\ s.receipts = mem.receipts \cup {r},
         o.act = "withdraw" => r = ReceiptOf(o) /\ s.receipts = mem.receipts \ {r}, Owns(r),
         NEW ok \in BOOLEAN, Write(Acknowledge(s), ok), mem' = (IF ok THEN s ELSE mem),
         IF ok THEN Done(o, r) ELSE EndTick /\ UNCHANGED applied,
         UNCHANGED <<want, inc, rib, wire, changes, setup, conn, attached>>
  PROVE  IInv'
  <1>. DEFINE d == Acknowledge(s)
  <1>1. attached /\ ~fenced /\ applied = mem.receipts /\ disk \in DiskRec
    BY DEF IInv, Types, Stored, Synced, Working, Adds, Deletes
  <1>2. d.inc = s.inc /\ d.receipts = s.receipts /\ d.pending = None
    BY <1>1 DEF Acknowledge, DiskRec
  <1>. HIDE DEF d
  <1>3. Good(d) /\ Write(d, ok) /\ (faults' = faults \/ Fault)
    BY Zenon DEF Write, NoFault, d
  <1>4. CASE ~ok
    <2>1. disk' \in {d, disk} /\ fenced' = TRUE /\ EndTick /\ UNCHANGED <<mem, applied>>
      BY <1>3, <1>4, Zenon DEF Write
    <2>. QED
      BY <1>1, <1>3, <2>1, WriteFails, Zenon
  <1>5. CASE ok
    <2>1. disk' = d /\ fenced' = FALSE /\ mem' = s /\ Done(o, r)
      BY <1>3, <1>5, Zenon DEF Write
    <2>2. /\ pc' = "apply" /\ plan' = plan \ {o}
          /\ applied' = IF o.act = "advertise" THEN applied \cup {r} ELSE applied \ {r}
      BY <2>1, Zenon DEF Done
    <2>3. Good(disk')
      BY <1>3, <2>1, Zenon
    <2>4. World'
      BY <1>3, FaultsKept, Zenon DEF IInv, Types, World
    <2>5. o \in Op /\ Bounded(mem.receipts)
      BY Zenon DEF IInv, Types, Memory, Tick
    <2>6. s.receipts = IF o.act = "advertise" THEN mem.receipts \cup {r} ELSE mem.receipts \ {r}
      BY <2>5, Zenon DEF Op
    <2>7. Bounded(s.receipts)
      <3>1. mem.receipts \in SUBSET Receipt
        BY Zenon DEF IInv, Types, Memory, StateRec
      <3>2. Bounded(mem.receipts \cup {r}) /\ Bounded(mem.receipts \ {r})
        BY <2>5, <3>1, BoundedAdd, BoundedSubset, Zenon
      <3>. QED
        BY <2>6, <3>2, Zenon
    <2>8. Memory'
      BY <2>1, <2>7, Zenon DEF IInv, Types, Memory
    <2>9. Synced'
      BY <1>1, <1>2, <2>1, <2>2, <2>3, Written, Zenon DEF Synced, Adds, Deletes, Recoveries
    <2>10. applied' = mem'.receipts
      BY <1>1, <2>1, <2>2, <2>6, Zenon
    <2>11. Owns(r)' /\ Renewed
      BY Zenon DEF Owns, Found, Renewed
    <2>12. \A h \in Volatile' : h \in Handles \/ h = r
      BY <1>1, <2>1, <2>2, <2>6 DEF Handles, Volatile
    <2>13. \A h \in Handles' : h \in Handles \/ Owns(h)'
      BY <2>3, <2>11, <2>12, Written, Zenon DEF Handles
    <2>14. Accounted'
      BY <2>2, <2>3, Written, Zenon DEF Accounted, Recoveries
    <2>. QED
      BY <2>1, <2>3, <2>4, <2>8, <2>9, <2>10, <2>11, <2>13, <2>14, Written, DoneIInv, Zenon DEF Adds, Deletes
  <1>. QED
    BY <1>4, <1>5, Zenon

LEMMA AcknowledgeOperationIInv == ASSUME IInv, AcknowledgeOperation PROVE IInv'
  <1>1. /\ pc \in {"add-readback", "delete-readback"}
        /\ UNCHANGED <<want, inc, rib, wire, changes, setup, conn, attached>>
    BY Zenon DEF AcknowledgeOperation
  <1>2. cur \in Op /\ Owns(ReceiptOf(cur))
    <2>1. CASE pc = "add-readback"
      BY <2>1, Zenon DEF IInv, Working, Adds, Owned, Handles, Volatile
    <2>2. CASE pc = "delete-readback"
      BY <2>2, Zenon DEF IInv, Working, Deletes, Owned, Handles, Volatile
    <2>. QED
      BY <1>1, <2>1, <2>2, Zenon
  <1>3. CASE EndTick /\ UNCHANGED <<disk, fenced, faults, mem, applied>>
    BY <1>1, <1>3, EndQuietIInv, Zenon
  <1>4. CASE pc = "add-readback" /\ Found(ReceiptOf(cur).key)
    <2>. DEFINE o == [cur EXCEPT !.uuid = 0]
    <2>1. o \in plan /\ o.act = "advertise" /\ ReceiptOf(cur).key = o.key /\ ReceiptOf(cur) \in Receipt
      BY <1>2, <1>4, Zenon DEF IInv, Working, Adds, ReceiptOf, Receipt, Op
    <2>2. \/ EndTick /\ UNCHANGED <<disk, fenced, faults, mem, applied>>
          \/ \E ok \in BOOLEAN :
               /\ Write(Acknowledge(Receipted), ok) /\ mem' = (IF ok THEN Receipted ELSE mem)
               /\ IF ok THEN Done(o, ReceiptOf(cur)) ELSE EndTick /\ UNCHANGED applied
      BY <1>4, Zenon DEF AcknowledgeOperation, Receipted
    <2>. HIDE DEF o
    <2>3. PICK r \in Receipt : r = ReceiptOf(cur)
      BY <2>1, Zenon
    <2>. QED
      BY <1>1, <1>2, <1>3, <1>4, <2>1, <2>2, <2>3, AddAcknowledged, AcknowledgedIInv, Zenon
  <1>5. CASE pc = "delete-readback" /\ ~Found(ReceiptOf(cur).key)
    <2>. DEFINE s == Without(mem, cur.uuid)
    <2>1. /\ cur \in plan /\ cur.act = "withdraw" /\ ReceiptOf(cur).key = cur.key /\ ReceiptOf(cur).uuid = cur.uuid
          /\ ReceiptOf(cur) \in Receipt
      BY <1>2, <1>5, Zenon DEF IInv, Types, Memory, StateRec, Working, Deletes, ReceiptOf
    <2>2. [cur EXCEPT !.uuid = @] = cur
      BY <1>2, Zenon DEF Op
    <2>3. \E ok \in BOOLEAN :
               /\ Write(Acknowledge(s), ok) /\ mem' = (IF ok THEN s ELSE mem)
               /\ IF ok THEN Done(cur, ReceiptOf(cur)) ELSE EndTick /\ UNCHANGED applied
      BY <1>5, <2>1, <2>2, Zenon DEF AcknowledgeOperation
    <2>4. s \in StateRec /\ s.inc = mem.inc /\ s.receipts = mem.receipts \ {ReceiptOf(cur)} /\ Good(Acknowledge(s))
      BY <1>5, <2>1, DeleteAcknowledged, Zenon
    <2>. HIDE DEF s
    <2>5. PICK r \in Receipt : r = ReceiptOf(cur)
      BY <2>1, Zenon
    <2>. QED
      BY <1>1, <1>2, <2>1, <2>3, <2>4, <2>5, AcknowledgedIInv, Zenon
  <1>. QED
    BY <1>1, <1>3, <1>4, <1>5, Zenon DEF AcknowledgeOperation
-----------------------------------------------------------------------------
(* The theorems *)

\* Before the first tick there is nothing to account for.
LEMMA InitIInv == Init => IInv
  <1>. SUFFICES ASSUME Init PROVE IInv
    BY Zenon
  <1>1. want \subseteq Endpoint
    BY DEF Init
  <1>2. Types
    <2>1. Table(rib)
      BY Zenon DEF Init, Table
    <2>2. World
      BY <1>1, <2>1, ConfigAssumption DEF Init, World
    <2>3. Bounded({})
      BY BoundedEmpty, Zenon
    <2>4. Stored /\ Memory
      <3>1. EmptyState \in StateRec /\ EmptyState.receipts = {} /\ EmptyState.inc = 0
        BY Zenon DEF EmptyState, StateRec
      <3>2. disk \in DiskRec /\ disk.receipts = {} /\ disk.inc = 0
        BY Zenon DEF Init, DiskRec, EmptyState
      <3>. QED
        BY <2>3, <3>1, <3>2 DEF Init, Stored, Memory
    <2>5. Tick
      BY <2>3, Zenon DEF Init, Tick
    <2>. QED
      BY <2>2, <2>4, <2>5, Zenon DEF Types
  <1>3. Synced /\ Planned /\ Working
    BY DEF Init, Synced, Planned, Working, Readable, EmptyState, Adds, Deletes, Recoveries
  <1>4. \A k \in Key : ~Found(k)
    BY Zenon DEF Init, Found
  <1>5. Handles = {}
    BY DEF Init, Handles, Durable, Volatile, EmptyState
  <1>6. Owned /\ Accounted
    BY <1>4, <1>5, Zenon DEF Init, Owned, Accounted, Own, Recoveries
  <1>. QED
    BY <1>2, <1>3, <1>6, Zenon DEF IInv

LEMMA ExporterIInv == ASSUME IInv, Exporter PROVE IInv'
  <1>1. CASE Connect \/ ConnectRefused \/ Disconnect \/ KeepTransport \/ Observe
    BY <1>1, ConnectIInv, ConnectRefusedIInv, DisconnectIInv, KeepTransportIInv, ObserveIInv, Zenon
  <1>2. CASE ObserveRefused \/ TickFails \/ SpeakerGone \/ RecoverRefused \/ PathDisappeared \/ ApplyDone
    BY <1>2, TickEndsIInv, Zenon
  <1>3. CASE \/ RecoverPending \/ RecoverDelete \/ RecoverReadback
             \/ RecoverCheckpoint \/ CommitCheckpoint \/ RecoverUnchanged
    BY <1>3, RecoverPendingIInv, RecoverDeleteIInv, RecoverReadbackIInv, RecoverCheckpointIInv,
       CommitCheckpointIInv, RecoverUnchangedIInv
  <1>4. CASE Resync \/ Reconcile
    BY <1>4, ResyncIInv, ReconcileIInv, Zenon
  <1>5. CASE \E o \in plan : BeginOperation(o) \/ RawAdd(o) \/ RawDelete(o)
    BY <1>5, BeginOperationIInv, RawAddIInv, RawDeleteIInv, Zenon
  <1>6. CASE AddRpc \/ DeleteRpc \/ AcknowledgeOperation
    BY <1>6, AddRpcIInv, DeleteRpcIInv, AcknowledgeOperationIInv, Zenon
  <1>. QED
    BY <1>1, <1>2, <1>3, <1>4, <1>5, <1>6, Zenon DEF Exporter

LEMMA StutterIInv == ASSUME IInv, UNCHANGED vars PROVE IInv'
  <1>1. World'
    BY Zenon DEF vars, envVars, IInv, Types, World
  <1>2. Renewed /\ Shrinks /\ inc' >= inc
    BY DEF vars, envVars, Renewed, Shrinks, Own, Found, IInv, Types, World
  <1>. QED
    BY <1>1, <1>2, OutsideIInv, Zenon DEF vars, envVars, IInv, Accounted

\* The inductive invariant of the exporter: what is on disk is what memory says or
\* an interrupted write, the outstanding intent is the step in progress, handles
\* name only acknowledged paths, and no path of the exporter is unaccounted for.
THEOREM IInvHolds == Spec => []IInv
  <1>1. IInv /\ [Next]_vars => IInv'
    BY ExporterIInv, EnvironmentIInv, StutterIInv, Zenon DEF Next
  <1>. QED
    BY <1>1, InitIInv, PTL DEF Spec

\* Every path that the exporter wrote through its journal is accounted for on disk,
\* by the receipt with its UUID or by the outstanding AddPath of its route, at every
\* crash, lost reply, failed journal write and restart of the speaker
\* (ExportRecovery, for any number of routes and faults).
THEOREM PathsAccounted == Spec => []OwnPathsAccounted
  <1>1. IInv => OwnPathsAccounted
    BY Zenon DEF IInv, Accounted, OwnPathsAccounted, Own, Held, Adding
  <1>. QED
    BY <1>1, IInvHolds, PTL

\* No receipt, on disk or in memory, is the handle of a path that the exporter did
\* not add itself and see acknowledged.
THEOREM NothingAdopted == Spec => []NoAdoption
  <1>1. IInv => NoAdoption
    BY DEF IInv, Owned, Owns, NoAdoption, Receipts, Handles, Durable, Volatile
  <1>. QED
    BY <1>1, IInvHolds, PTL

\* Types, and a journal that OpenExportRecovery accepts again after every sequence
\* of crashes and failed writes.
THEOREM JournalReadable == Spec => []WellFormed
  <1>1. ASSUME IInv PROVE TypeOK
    <2>1. /\ want \subseteq Endpoint /\ inc \in 1..(MaxFaults + 1) /\ faults \in 0..MaxFaults
          /\ changes \in 0..MaxChanges /\ inc \in Nat
      BY <1>1, ConfigAssumption DEF IInv, Types, World
    <2>2. \A k \in Key : rib[k] \in Path \cup {None}
      BY <1>1, Zenon DEF IInv, Types, World, Table
    <2>3. disk \in DiskRec /\ disk.inc <= inc /\ mem \in StateRec /\ mem.inc <= inc /\ conn \in 0..inc
      BY <1>1, Zenon DEF IInv, Types, Stored, Memory
    <2>4. disk.inc \in 0..inc /\ mem.inc \in 0..inc
      BY <2>1, <2>3 DEF DiskRec, StateRec
    <2>5. Receipts \subseteq Receipt /\ plan \subseteq Op
      BY <1>1, <2>3, Zenon DEF IInv, Types, Tick, Receipts, DiskRec, StateRec
    <2>. QED
      BY <2>1, <2>2, <2>3, <2>4, <2>5, Zenon DEF TypeOK
  <1>2. IInv => JournalStaysReadable
    BY Zenon DEF IInv, Synced, JournalStaysReadable
  <1>. QED
    BY <1>1, <1>2, IInvHolds, PTL DEF WellFormed
KeepsForeign == \A k \in Key : Found(k) /\ ~rib[k].mine => rib'[k] = rib[k]

\* A DeletePath by a handle reaches only the exporter's own path.
LEMMA DeletesOwn ==
  ASSUME IInv, NEW r, ReceiptOf(r) \in Handles, NEW replied \in BOOLEAN, DeletePath(r, replied) PROVE KeepsForeign
  <1>1. r.key \in Key /\ ReceiptOf(r).key = r.key /\ ReceiptOf(r).uuid = r.uuid
    BY HandlesUsed, Zenon DEF ReceiptOf, Receipt
  <1>2. World /\ Owns(ReceiptOf(r))
    BY Zenon DEF IInv, Types, Owned
  <1>3. \A k \in Key : rib'[k] = rib[k] \/ (rib[k].uuid = r.uuid /\ k = r.key)
    BY <1>1, <1>2, DeletePathEffect, Zenon
  <1>. QED
    BY <1>1, <1>2, <1>3, Zenon DEF KeepsForeign, Owns

LEMMA AddsOwn ==
  ASSUME IInv, NEW o \in Op, NEW raw \in BOOLEAN, NEW replied \in BOOLEAN, AddPath(o, raw, replied),
         UNCHANGED <<want, inc, changes, setup>>
  PROVE  KeepsForeign
  <1>1. o.key \in Key /\ o.attr \in Attr /\ Types
    BY DEF Op, IInv
  <1>2. \A k \in Key : rib'[k] = rib[k] \/ (k = o.key /\ ~Found(k))
    BY <1>1, AddPathEffect, Zenon
  <1>. QED
    BY <1>2, Zenon DEF KeepsForeign

LEMMA ExporterKeepsForeign == ASSUME IInv, Exporter PROVE KeepsForeign
  <1>1. CASE UNCHANGED rib
    BY <1>1 DEF KeepsForeign
  <1>2. CASE AddRpc
    <2>1. cur \in Op
      BY <1>2, Zenon DEF AddRpc, IInv, Working, Adds
    <2>. QED
      BY <1>2, <2>1, AddsOwn, Zenon DEF AddRpc
  <1>3. CASE DeleteRpc
    <2>1. ReceiptOf(cur) \in Handles
      BY <1>3, Zenon DEF DeleteRpc, IInv, Working, Deletes, Handles, Volatile
    <2>. QED
      BY <1>3, <2>1, DeletesOwn, Zenon DEF DeleteRpc
  <1>4. CASE RecoverDelete
    <2>1. ReceiptOf(disk.pending) \in Handles
      BY <1>4, Zenon DEF RecoverDelete, Handles, Durable
    <2>. QED
      BY <1>4, <2>1, DeletesOwn, Zenon DEF RecoverDelete
  <1>5. ASSUME NEW o \in plan, RawAdd(o) PROVE KeepsForeign
    <2>1. o \in Op
      BY DEF IInv, Types, Tick
    <2>. QED
      BY <1>5, <2>1, AddsOwn, Zenon DEF RawAdd
  <1>6. ASSUME NEW o \in plan, RawDelete(o) PROVE KeepsForeign
    <2>1. ReceiptOf(o) \in Handles
      BY <1>6, Zenon DEF RawDelete, Handles, Volatile
    <2>. QED
      BY <1>6, <2>1, DeletesOwn, Zenon DEF RawDelete
  <1>7. CASE \/ Connect \/ ConnectRefused \/ Disconnect \/ KeepTransport
             \/ Observe \/ ObserveRefused \/ TickFails \/ SpeakerGone \/ RecoverRefused
    BY <1>1, <1>7, Zenon DEF Connect, ConnectRefused, Disconnect, KeepTransport, Observe, ObserveRefused, TickFails,
       SpeakerGone, RecoverRefused, envVars
  <1>8. CASE \/ RecoverPending \/ RecoverReadback \/ RecoverCheckpoint \/ CommitCheckpoint \/ RecoverUnchanged
    BY <1>1, <1>8, Zenon DEF RecoverPending, RecoverReadback, RecoverCheckpoint, CommitCheckpoint, RecoverUnchanged, Recovers
  <1>9. CASE \/ Resync \/ PathDisappeared \/ Reconcile \/ ApplyDone \/ AcknowledgeOperation
    BY <1>1, <1>9, Zenon DEF Resync, PathDisappeared, Reconcile, ApplyDone, AcknowledgeOperation, envVars
  <1>10. ASSUME NEW o \in plan, BeginOperation(o) PROVE KeepsForeign
    BY <1>1, <1>10, Zenon DEF BeginOperation
  <1>. QED
    BY <1>2, <1>3, <1>4, <1>5, <1>6, <1>7, <1>8, <1>9, <1>10, Zenon DEF Exporter

\* The exporter replaces or deletes no path of another writer: it adds on free
\* routes only, and deletes only what a handle of its own names.
THEOREM ForeignPathsKept == Spec => ForeignPreserved
  <1>. DEFINE A == procVars' # procVars => \A k \in Key :
                     Found(k) /\ ~rib[k].mine /\ inc' = inc => rib'[k] = rib[k]
  <1>1. ASSUME IInv, Next PROVE A
    <2>1. CASE Exporter
      BY <1>1, <2>1, ExporterKeepsForeign, Zenon DEF KeepsForeign
    <2>2. CASE Environment
      <3>1. UNCHANGED rib \/ UNCHANGED procVars
        BY <2>2, Zenon DEF Environment, EndpointChanges, Crash, SpeakerRestarts, LateArrival, ForeignAdds, ForeignDeletes
      <3>. QED
        BY <3>1, Zenon
    <2>. QED
      BY <1>1, <2>1, <2>2, Zenon DEF Next
  <1>2. IInv /\ [Next]_vars => [A]_vars
    BY <1>1, Zenon
  <1>3. Spec => [][A]_vars
    BY <1>2, IInvHolds, PTL DEF Spec
  <1>. QED
    BY <1>3, Zenon DEF ForeignPreserved
====
