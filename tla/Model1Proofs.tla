---------------------------- MODULE Model1Proofs ----------------------------
(***************************************************************************)
(* What the OVSDB-programmed importer builds rests on what is below it,    *)
(* and it touches nothing of others, for any VTEPs, tables of the speaker, *)
(* physical networks and number of changes, failures, lost replies and     *)
(* restarts.                                                               *)
(***************************************************************************)
EXTENDS Model1, FiniteSetTheorems, TLAPS

Ovs == [bridge : Bridge \cup {None}, tun : [VTEPs -> TunnelRow \cup {None}],
        map : [Physnets -> {None, "br", "other"}], mark : {None, "br"}]
Nb == [switch : BOOLEAN, lsp : {None, "ours", "changed"}]
Snapshot == [gen : Nat, eps : Ribs \cup {{}}]
Active == [VTEPs -> Digest \cup {None}]

PCs == {"idle", "bridge", "mapping", "localnet", "withdraw", "tunnel", "done",
        "nolsp", "unmap", "nobridge"}

Types ==
    /\ setup \in Setups /\ rib \in Ribs
    /\ ovs \in Ovs /\ covs \in Ovs
    /\ nb \in Nb /\ cnb \in Nb
    /\ pub \in Snapshot /\ snap \in Snapshot
    /\ active \in Active
    /\ pc \in PCs
    /\ lost \in Nat /\ restarts \in Nat

\* A client that does not lag has the databases as they are.
Synced == ~setup.lag => covs = ovs /\ cnb = nb

Mapped(o) == HasBridge(o) /\ o.map[Phys] = "br"
NoTunnel(o) == \A v \in VTEPs : o.tun[v] = None

\* Tunnels and a localnet port rest on the mapped bridge.
Rests(o, n) ==
    /\ n.lsp # None => Mapped(o)
    /\ \A v \in VTEPs : o.tun[v] # None => Mapped(o)

\* What a copy that lags may be wrong about: a bridge or a tunnel is neither made nor
\* removed by others, a mapping is not changed by them, a localnet port not made.
Copies ==
    /\ HasBridge(covs) <=> HasBridge(ovs)
    /\ \A v \in VTEPs : covs.tun[v] = None <=> ovs.tun[v] = None
    /\ \A p \in Physnets : covs.map[p] # None => ovs.map[p] = covs.map[p]
    /\ nb.lsp # None => cnb.lsp # None

\* What the steps taken before step p have established, whatever happened since.
Established(p, o, n, a) ==
    /\ p = "mapping" => HasBridge(o)
    /\ p \in {"localnet", "tunnel"} => Mapped(o)
    /\ p = "withdraw" /\ snap.eps # {} => Mapped(o)
    /\ p \in {"unmap", "nobridge"} => n.lsp = None /\ NoTunnel(o)
    /\ p = "tunnel" => \A v \in VTEPs : a[v] # None => v \in Used(snap.eps)

\* The snapshot in progress has one VTEP.
OneVtep == pc \in PCs \ {"idle", "done"} => \A u, v \in Used(snap.eps) : u = v

\* The handler knows its tunnels, of which there is one.
Remembers(o, a) ==
    /\ \A v \in VTEPs : o.tun[v] # None => a[v] # None
    /\ \A u, v \in VTEPs : o.tun[u] # None /\ o.tun[v] # None => u = v

\* A client loses a reply with its connection, and reads the database again when it has
\* another: no reply is lost and the copy left behind.
Answered == \A s \in Setups : s.lag => s.lost = 0

IInv ==
    /\ Types /\ Synced /\ Copies /\ OneVtep
    /\ Rests(ovs, nb)
    /\ Established(pc, ovs, nb, active)
    /\ lost = 0 /\ restarts = 0 => Remembers(ovs, active)
-----------------------------------------------------------------------------
(* Types *)

\* A transaction on OVS.
LEMMA OvsTransactTypes ==
  ASSUME Types, NEW o \in Ovs, NEW next \in PCs, NEW act \in Active, OvsTransact(o, next, act) PROVE Types'
  BY DEF Types, OvsTransact, handler, PCs

LEMMA NbTransactTypes ==
  ASSUME Types, NEW n \in Nb, NEW next \in PCs, NbTransact(n, next) PROVE Types'
  BY DEF Types, NbTransact, handler, PCs

LEMMA GotoTypes == ASSUME Types, NEW next \in PCs, Goto(next) PROVE Types'
  BY DEF Types, Goto, handler, budgets

LEMMA RefuseTypes == ASSUME Types, Refuse PROVE Types'
  BY GotoTypes DEF Refuse, PCs

LEMMA OthersTypes ==
  ASSUME Types, NEW o \in Ovs, NEW n \in Nb, Others(o, n) PROVE Types'
  BY DEF Types, Others, handler

\* The rows the handler writes.
LEMMA NewRows ==
  /\ [own |-> TRUE, ok |-> TRUE, ports |-> {}] \in Bridge
  /\ \A a \in Digest \ {{}} : Tunnel(a) \in TunnelRow
  /\ EmptyTunnels \in [VTEPs -> TunnelRow \cup {None}]
  /\ EmptyTunnels \in Active
  BY DEF Bridge, TunnelRow, Tunnel, EmptyTunnels, Active

\* The addresses behind a VTEP of the snapshot.
LEMMA AddressesTyped ==
  ASSUME Types, NEW v \in VTEPs, v \in Used(snap.eps)
  PROVE  Addresses(snap.eps, v) \in Digest \ {{}}
  <1>1. PICK e \in snap.eps : e.vtep = v
    BY DEF Used
  <1>2. snap.eps \in Ribs
    BY <1>1 DEF Types, Snapshot
  <1>3. <<e.mac, e.ip>> \in Addresses(snap.eps, v)
    BY <1>1 DEF Addresses
  <1>. QED
    BY <1>2, <1>3 DEF Digest

LEMMA PollTypes == ASSUME Types PROVE Poll \in Snapshot /\ Poll.eps = rib
  BY DEF Types, Poll, Snapshot

LEMMA ReconcileSnapshotTypes == ASSUME Types, ReconcileSnapshot PROVE Types'
  BY PollTypes DEF Types, ReconcileSnapshot, PCs, budgets

LEMMA EnsureProviderBridgeTypes == ASSUME Types, EnsureProviderBridge PROVE Types'
  <1>. DEFINE b == [own |-> TRUE, ok |-> TRUE, ports |-> {}]
              o == [ovs EXCEPT !.bridge = b]
  <1>1. o \in Ovs
    BY NewRows, Zenon DEF Types, Ovs
  <1>2. active \in Active /\ "mapping" \in PCs
    BY DEF Types, PCs
  <1>3. Refuse \/ Goto("mapping") \/ OvsTransact(o, "mapping", active)
    BY DEF EnsureProviderBridge
  <1>4. CASE OvsTransact(o, "mapping", active)
    <2>. HIDE DEF o
    <2>. QED
      BY <1>1, <1>2, <1>4, OvsTransactTypes
  <1>. QED
    BY <1>2, <1>3, <1>4, RefuseTypes, GotoTypes, Zenon

LEMMA EnsureBridgeMappingTypes == ASSUME Types, EnsureBridgeMapping PROVE Types'
  <1>. DEFINE q == [covs.map EXCEPT ![Phys] = "br"]
              o == [ovs EXCEPT !.map = q, !.mark = "br"]
  <1>1. q \in [Physnets -> {None, "br", "other"}]
    BY Zenon DEF Types, Ovs
  <1>2. o \in Ovs
    <2>. HIDE DEF q
    <2>. QED
      BY <1>1, Zenon DEF Types, Ovs
  <1>3. active \in Active /\ "localnet" \in PCs
    BY DEF Types, PCs
  <1>4. Refuse \/ Goto("localnet") \/ OvsTransact(o, "localnet", active)
    BY DEF EnsureBridgeMapping
  <1>5. CASE OvsTransact(o, "localnet", active)
    <2>. HIDE DEF o
    <2>. QED
      BY <1>2, <1>3, <1>5, OvsTransactTypes
  <1>. QED
    BY <1>3, <1>4, <1>5, RefuseTypes, GotoTypes

LEMMA EnsureLocalnetLSPTypes == ASSUME Types, EnsureLocalnetLSP PROVE Types'
  <1>. DEFINE n == [nb EXCEPT !.lsp = IF nb.switch THEN "ours" ELSE None]
  <1>1. n \in Nb
    BY DEF Types, Nb
  <1>2. "withdraw" \in PCs
    BY DEF PCs
  <1>3. Refuse \/ Goto("withdraw") \/ NbTransact(n, "withdraw")
    BY DEF EnsureLocalnetLSP
  <1>4. CASE NbTransact(n, "withdraw")
    <2>. HIDE DEF n
    <2>. QED
      BY <1>1, <1>2, <1>4, NbTransactTypes
  <1>. QED
    BY <1>2, <1>3, <1>4, RefuseTypes, GotoTypes

LEMMA DeleteTunnelTypes == ASSUME Types, NEW v \in VTEPs, DeleteTunnel(v) PROVE Types'
  <1>. DEFINE o == [ovs EXCEPT !.tun[v] = None]
              a == [active EXCEPT ![v] = None]
  <1>1. o \in Ovs
    BY DEF Types, Ovs
  <1>2. a \in Active /\ "withdraw" \in PCs
    BY DEF Types, Active, PCs
  <1>3. Refuse \/ Forget(v) \/ OvsTransact(o, "withdraw", a)
    BY DEF DeleteTunnel
  <1>4. CASE Forget(v)
    BY <1>2, <1>4, Zenon DEF Forget, Types, handler, budgets
  <1>. HIDE DEF o, a
  <1>. QED
    BY <1>1, <1>2, <1>3, <1>4, RefuseTypes, OvsTransactTypes

LEMMA EnsureTunnelTypes == ASSUME Types, NEW v \in VTEPs, EnsureTunnel(v) PROVE Types'
  <1>. DEFINE addrs == Addresses(snap.eps, v)
              new == Tunnel(addrs)
              row == IF HasBridge(ovs) THEN new ELSE None
              o1 == [ovs EXCEPT !.tun[v] = row]
              o2 == [ovs EXCEPT !.tun[v] = new]
              a == [active EXCEPT ![v] = addrs]
  <1>1. addrs \in Digest \ {{}}
    BY AddressesTyped DEF EnsureTunnel
  <1>2. new \in TunnelRow
    BY <1>1, NewRows, Zenon
  <1>3. Refuse \/ OvsTransact(o1, "done", a) \/ OvsTransact(o2, "done", a)
    BY DEF EnsureTunnel
  <1>. HIDE DEF addrs, new
  <1>4. o1 \in Ovs /\ o2 \in Ovs
    BY <1>2, Zenon DEF Types, Ovs
  <1>5. a \in Active /\ "done" \in PCs
    BY <1>1 DEF Types, Active, PCs
  <1>. HIDE DEF o1, o2, a
  <1>. QED
    BY <1>3, <1>4, <1>5, RefuseTypes, OvsTransactTypes

LEMMA WithdrawnTypes == ASSUME Types, Withdrawn PROVE Types'
  BY GotoTypes DEF Withdrawn, PCs

LEMMA DeleteLocalnetLSPTypes == ASSUME Types, DeleteLocalnetLSP PROVE Types'
  <1>. DEFINE n == [nb EXCEPT !.lsp = None]
  <1>1. n \in Nb
    BY DEF Types, Nb
  <1>2. "unmap" \in PCs
    BY DEF PCs
  <1>3. Refuse \/ Goto("unmap") \/ NbTransact(n, "unmap")
    BY DEF DeleteLocalnetLSP
  <1>. HIDE DEF n
  <1>. QED
    BY <1>1, <1>2, <1>3, RefuseTypes, GotoTypes, NbTransactTypes, Zenon

LEMMA DeleteBridgeMappingTypes == ASSUME Types, DeleteBridgeMapping PROVE Types'
  <1>. DEFINE q == [covs.map EXCEPT ![Phys] = None]
              o == [ovs EXCEPT !.map = q, !.mark = None]
  <1>1. q \in [Physnets -> {None, "br", "other"}]
    BY Zenon DEF Types, Ovs
  <1>2. Refuse \/ Goto("nobridge") \/ OvsTransact(o, "nobridge", active)
    BY DEF DeleteBridgeMapping
  <1>. HIDE DEF q
  <1>3. o \in Ovs
    BY <1>1, Zenon DEF Types, Ovs
  <1>4. active \in Active /\ "nobridge" \in PCs
    BY DEF Types, PCs
  <1>. HIDE DEF o
  <1>. QED
    BY <1>2, <1>3, <1>4, RefuseTypes, GotoTypes, OvsTransactTypes, Zenon

LEMMA DeleteProviderBridgeTypes == ASSUME Types, DeleteProviderBridge PROVE Types'
  <1>. DEFINE o == [ovs EXCEPT !.bridge = None, !.tun = EmptyTunnels]
  <1>1. o \in Ovs
    BY NewRows, Zenon DEF Types, Ovs
  <1>2. Refuse \/ Goto("done") \/ OvsTransact(o, "done", active)
    BY DEF DeleteProviderBridge
  <1>3. active \in Active /\ "done" \in PCs
    BY DEF Types, PCs
  <1>. HIDE DEF o
  <1>. QED
    BY <1>1, <1>2, <1>3, RefuseTypes, GotoTypes, OvsTransactTypes, Zenon

LEMMA ReconciledTypes == ASSUME Types, Reconciled PROVE Types'
  BY DEF Types, Reconciled, PCs, budgets

LEMMA RestartTypes == ASSUME Types, Restart PROVE Types'
  <1>1. [gen |-> 0, eps |-> {}] \in Snapshot
    BY DEF Snapshot
  <1>. QED
    BY <1>1, NewRows DEF Types, Restart, PCs

\* A change of the ports of the bridge.
LEMMA PortsTyped ==
  ASSUME Types, HasBridge(ovs), NEW S \in SUBSET {"patch", "other"}
  PROVE  /\ WithPorts(S) \in Ovs /\ HasBridge(WithPorts(S))
         /\ WithPorts(S).tun = ovs.tun /\ WithPorts(S).map = ovs.map
  <1>1. [ovs.bridge EXCEPT !.ports = S] \in Bridge
    BY DEF Types, Ovs, HasBridge, Bridge
  <1>. QED
    BY <1>1, NoneAssumption DEF Types, Ovs, HasBridge, WithPorts

\* What others may do: they leave the bridge, the tunnels, the mappings there are, and make no localnet port.
LeavesRows(o, n) ==
    /\ HasBridge(o) <=> HasBridge(ovs)
    /\ \A v \in VTEPs : o.tun[v] = None <=> ovs.tun[v] = None
    /\ \A p \in Physnets : ovs.map[p] # None => o.map[p] = ovs.map[p]
    /\ n.lsp # None => nb.lsp # None

LEMMA PatchLeaves ==
  ASSUME Types, Patch
  PROVE  \E o \in Ovs, n \in Nb : Others(o, n) /\ LeavesRows(o, n)
  <1>1. PICK S \in SUBSET {"patch", "other"} : Others(WithPorts(S), nb) /\ HasBridge(ovs)
    <2>1. HasBridge(ovs) /\ ovs.bridge.ports \in SUBSET {"patch", "other"}
      BY DEF Patch, HasBridge, Types, Ovs, Bridge
    <2>. QED
      BY <2>1 DEF Patch
  <1>2. WithPorts(S) \in Ovs /\ LeavesRows(WithPorts(S), nb)
    BY <1>1, PortsTyped, Zenon DEF LeavesRows
  <1>. QED
    BY <1>1, <1>2 DEF Types

LEMMA AdministratorLeaves ==
  ASSUME Types, Administrator
  PROVE  \E o \in Ovs, n \in Nb : Others(o, n) /\ LeavesRows(o, n)
  <1>0. ovs \in Ovs /\ nb \in Nb
    BY DEF Types
  <1>1. ASSUME NEW S \in SUBSET {"patch", "other"}, HasBridge(ovs), Others(WithPorts(S), nb)
        PROVE  \E o \in Ovs, n \in Nb : Others(o, n) /\ LeavesRows(o, n)
    <2>1. WithPorts(S) \in Ovs /\ LeavesRows(WithPorts(S), nb)
      BY <1>1, PortsTyped DEF LeavesRows
    <2>. QED
      BY <1>0, <1>1, <2>1
  <1>2. ASSUME HasBridge(ovs), Others([ovs EXCEPT !.bridge.ok = ~@], nb)
        PROVE  \E o \in Ovs, n \in Nb : Others(o, n) /\ LeavesRows(o, n)
    <2>. DEFINE b == [ovs.bridge EXCEPT !.ok = ~@]
                o == [ovs EXCEPT !.bridge = b]
    <2>1. b \in Bridge
      BY <1>0, <1>2, Zenon DEF Ovs, HasBridge, Bridge
    <2>2. o = [ovs EXCEPT !.bridge.ok = ~@]
      BY <1>0 DEF Ovs
    <2>. HIDE DEF b
    <2>3. o \in Ovs /\ LeavesRows(o, nb)
      BY <1>0, <1>2, <2>1, NoneAssumption DEF Ovs, LeavesRows, HasBridge
    <2>. HIDE DEF o
    <2>. QED
      BY <1>0, <1>2, <2>2, <2>3
  <1>3. ASSUME NEW v \in VTEPs, ovs.tun[v] # None, Others([ovs EXCEPT !.tun[v].opts = FALSE], nb)
        PROVE  \E o \in Ovs, n \in Nb : Others(o, n) /\ LeavesRows(o, n)
    <2>. DEFINE r == [ovs.tun[v] EXCEPT !.opts = FALSE]
                t == [ovs.tun EXCEPT ![v] = r]
                o == [ovs EXCEPT !.tun = t]
    <2>0. ovs.tun[v] \in TunnelRow
      BY <1>0, <1>3 DEF Ovs
    <2>1. r \in TunnelRow
      <3>1. \A x \in TunnelRow : [x EXCEPT !.opts = FALSE] \in TunnelRow
        BY Zenon DEF TunnelRow
      <3>. QED
        BY <2>0, <3>1
    <2>2. o = [ovs EXCEPT !.tun[v].opts = FALSE]
      BY <1>0 DEF Ovs
    <2>. HIDE DEF r
    <2>3. t \in [VTEPs -> TunnelRow \cup {None}] /\ \A u \in VTEPs : t[u] = None <=> ovs.tun[u] = None
      BY <1>0, <1>3, <2>1, NoneAssumption DEF Ovs
    <2>. HIDE DEF t
    <2>4. o \in Ovs /\ LeavesRows(o, nb)
      BY <1>0, <2>3 DEF Ovs, LeavesRows, HasBridge
    <2>. HIDE DEF o
    <2>. QED
      BY <1>0, <1>3, <2>2, <2>4
  <1>4. ASSUME NEW p \in Physnets, NEW b \in {"br", "other"}, ovs.map[p] = None, Others([ovs EXCEPT !.map[p] = b], nb)
        PROVE  \E o \in Ovs, n \in Nb : Others(o, n) /\ LeavesRows(o, n)
    <2>. DEFINE o == [ovs EXCEPT !.map[p] = b]
    <2>1. o \in Ovs /\ LeavesRows(o, nb)
      BY <1>0, <1>4 DEF Ovs, LeavesRows, HasBridge
    <2>. HIDE DEF o
    <2>. QED
      BY <1>0, <1>4, <2>1 DEF o
  <1>5. ASSUME NEW n \in Nb, n.lsp # None => nb.lsp # None, Others(ovs, n)
        PROVE  \E o \in Ovs, m \in Nb : Others(o, m) /\ LeavesRows(o, m)
    <2>1. LeavesRows(ovs, n)
      BY <1>5 DEF LeavesRows
    <2>. QED
      BY <1>0, <1>5, <2>1
  <1>6. CASE nb.lsp = "ours" /\ Others(ovs, [nb EXCEPT !.lsp = "changed"])
    <2>1. [nb EXCEPT !.lsp = "changed"] \in Nb
      BY <1>0 DEF Nb
    <2>. QED
      BY <1>5, <1>6, <2>1, NoneAssumption
  <1>7. CASE Others(ovs, [switch |-> ~nb.switch, lsp |-> None])
    <2>1. [switch |-> ~nb.switch, lsp |-> None] \in Nb
      BY <1>0, Zenon DEF Nb
    <2>. QED
      BY <1>5, <1>7, <2>1, Zenon
  <1>8. HasBridge(ovs) => ovs.bridge.ports \cup {"other"} \in SUBSET {"patch", "other"}
                          /\ ovs.bridge.ports \ {"other"} \in SUBSET {"patch", "other"}
    BY <1>0 DEF HasBridge, Ovs, Bridge
  <1>. QED
    BY <1>1, <1>2, <1>3, <1>4, <1>6, <1>7, <1>8, Zenon DEF Administrator

\* Every step keeps the types.
LEMMA TypesKept == ASSUME Types, [Next]_vars PROVE Types'
  <1>1. CASE Handler
    BY <1>1, ReconcileSnapshotTypes, EnsureProviderBridgeTypes, EnsureBridgeMappingTypes, EnsureLocalnetLSPTypes,
       DeleteTunnelTypes, EnsureTunnelTypes, WithdrawnTypes, DeleteLocalnetLSPTypes, DeleteBridgeMappingTypes,
       DeleteProviderBridgeTypes, ReconciledTypes, Zenon DEF Handler
  <1>2. CASE Fails
    BY <1>2, Zenon DEF Fails, Types, PCs, handler
  <1>3. ASSUME NEW R \in Ribs, RibChanges(R) PROVE Types'
    BY <1>3 DEF RibChanges, Types, handler
  <1>4. CASE Patch \/ Administrator
    BY <1>4, PatchLeaves, AdministratorLeaves, OthersTypes, Zenon
  <1>5. CASE Sync
    BY <1>5, Zenon DEF Sync, Types, handler, budgets
  <1>6. CASE UNCHANGED vars
    BY <1>6, Zenon DEF vars, Types, handler, budgets
  <1>. QED
    BY <1>1, <1>2, <1>3, <1>4, <1>5, <1>6, RestartTypes, Zenon DEF Next

LEMMA InitTypes == ASSUME Init PROVE Types
  <1>1. pub \in Snapshot /\ snap \in Snapshot
    BY Zenon DEF Init, Snapshot
  <1>2. ovs \in Ovs /\ covs \in Ovs
    <2>1. PICK b \in {None, [own |-> FALSE, ok |-> TRUE, ports |-> {}]}, q \in [Physnets -> {None, "br", "other"}] :
            ovs = [bridge |-> b, tun |-> EmptyTunnels, map |-> q, mark |-> None]
      BY Zenon DEF Init
    <2>2. b \in Bridge \cup {None}
      <3>1. [own |-> FALSE, ok |-> TRUE, ports |-> {}] \in Bridge
        BY DEF Bridge
      <3>. QED
        BY <2>1, <3>1, Zenon
    <2>3. [bridge |-> b, tun |-> EmptyTunnels, map |-> q, mark |-> None] \in Ovs
      BY <2>2, NewRows DEF Ovs
    <2>. QED
      BY <2>1, <2>3, Zenon DEF Init
  <1>3. nb \in Nb /\ cnb \in Nb
    BY DEF Init, Nb
  <1>. QED
    BY <1>1, <1>2, <1>3, NewRows, Zenon DEF Init, Types, PCs

-----------------------------------------------------------------------------
(* What a step keeps *)

\* A transaction on OVS keeps the invariant when what it brings about does.
LEMMA OvsTransactKeeps ==
  ASSUME Answered, IInv, Types', NEW o, NEW next, NEW act, OvsTransact(o, next, act), pc \notin {"idle", "done"},
         Rests(o, nb), Established(next, o, nb, act), lost = 0 /\ restarts = 0 => Remembers(o, act)
  PROVE  IInv'
  <1>0. UNCHANGED <<setup, nb, cnb, snap, restarts>> /\ ovs' = o
    BY DEF OvsTransact, handler
  <1>1. CASE covs' = o /\ pc' = next /\ active' = act /\ UNCHANGED lost
    <2>1. Synced' /\ Copies'
      BY <1>0, <1>1, Zenon DEF IInv, Synced, Copies, HasBridge
    <2>2. OneVtep'
      BY <1>0, Zenon DEF IInv, OneVtep, Types
    <2>3. Rests(ovs, nb)' /\ (lost = 0 /\ restarts = 0 => Remembers(ovs, active))'
      BY <1>0, <1>1, Zenon DEF Rests, Remembers, Mapped, HasBridge
    <2>4. Established(pc, ovs, nb, active)'
      BY <1>0, <1>1, Zenon DEF Established, Mapped, HasBridge, NoTunnel
    <2>. QED
      BY <2>1, <2>2, <2>3, <2>4 DEF IInv
  <1>2. CASE lost < setup.lost /\ lost' = lost + 1 /\ covs' = (IF setup.lag THEN covs ELSE o) /\ pc' = "idle"
    <2>1. ~setup.lag
      BY <1>2 DEF IInv, Types, Answered
    <2>2. covs' = ovs'
      BY <1>0, <1>2, <2>1, Zenon
    <2>3. Synced' /\ Copies'
      BY <1>0, <2>2, Zenon DEF IInv, Synced, Copies, HasBridge
    <2>4. OneVtep' /\ Established(pc, ovs, nb, active)'
      BY <1>2, Zenon DEF OneVtep, Established
    <2>5. Rests(ovs, nb)'
      BY <1>0, Zenon DEF Rests, Mapped, HasBridge
    <2>6. lost' # 0
      BY <1>2 DEF IInv, Types
    <2>. QED
      BY <2>3, <2>4, <2>5, <2>6, Zenon DEF IInv
  <1>. QED
    BY <1>1, <1>2 DEF OvsTransact

\* The same for the northbound database.
LEMMA NbTransactKeeps ==
  ASSUME Answered, IInv, Types', NEW n, NEW next, NbTransact(n, next), pc \notin {"idle", "done"},
         Rests(ovs, n), Established(next, ovs, n, active)
  PROVE  IInv'
  <1>0. UNCHANGED <<setup, ovs, covs, active, snap, restarts>> /\ nb' = n
    BY Zenon DEF NbTransact, handler
  <1>1. Rests(ovs, nb)'
    BY <1>0, Zenon DEF Rests, Mapped, HasBridge
  <1>2. CASE cnb' = n /\ pc' = next /\ UNCHANGED lost
    <2>1. Synced' /\ Copies'
      BY <1>0, <1>2, Zenon DEF IInv, Synced, Copies, HasBridge
    <2>2. OneVtep'
      BY <1>0, Zenon DEF IInv, OneVtep, Types
    <2>3. (lost = 0 /\ restarts = 0 => Remembers(ovs, active))'
      BY <1>0, <1>2, Zenon DEF IInv, Remembers
    <2>4. Established(pc, ovs, nb, active)'
      BY <1>0, <1>2, Zenon DEF Established, Mapped, HasBridge, NoTunnel
    <2>. QED
      BY <1>1, <2>1, <2>2, <2>3, <2>4, Zenon DEF IInv
  <1>3. CASE lost < setup.lost /\ lost' = lost + 1 /\ cnb' = (IF setup.lag THEN cnb ELSE n) /\ pc' = "idle"
    <2>1. ~setup.lag
      BY <1>3 DEF IInv, Types, Answered
    <2>2. cnb' = nb'
      BY <1>0, <1>3, <2>1, Zenon
    <2>3. Synced' /\ Copies'
      BY <1>0, <2>2, Zenon DEF IInv, Synced, Copies, HasBridge
    <2>4. OneVtep' /\ Established(pc, ovs, nb, active)'
      BY <1>3, Zenon DEF OneVtep, Established
    <2>5. lost' # 0
      BY <1>3 DEF IInv, Types
    <2>. QED
      BY <1>1, <2>3, <2>4, <2>5, Zenon DEF IInv
  <1>. QED
    BY <1>2, <1>3, Zenon DEF NbTransact

\* A step without a transaction.
LEMMA GotoKeeps ==
  ASSUME IInv, Types', NEW next, Goto(next), pc \notin {"idle", "done"}, Established(next, ovs, nb, active) PROVE IInv'
  <1>0. UNCHANGED <<setup, ovs, nb, covs, cnb, active, snap, lost, restarts>> /\ pc' = next
    BY Zenon DEF Goto, handler, budgets
  <1>1. Synced' /\ Copies'
    BY <1>0, Zenon DEF IInv, Synced, Copies, HasBridge
  <1>2. OneVtep'
    BY <1>0, Zenon DEF IInv, OneVtep, Types
  <1>3. Rests(ovs, nb)' /\ (lost = 0 /\ restarts = 0 => Remembers(ovs, active))'
    BY <1>0, Zenon DEF IInv, Rests, Remembers, Mapped, HasBridge
  <1>4. Established(pc, ovs, nb, active)'
    BY <1>0, Zenon DEF Established, Mapped, HasBridge, NoTunnel
  <1>. QED
    BY <1>1, <1>2, <1>3, <1>4, Zenon DEF IInv

LEMMA RefuseKeeps == ASSUME IInv, Types', Refuse, pc \notin {"idle", "done"} PROVE IInv'
  BY GotoKeeps, Zenon DEF Refuse, Established

\* Others leave what the handler relies on.
LEMMA OthersKeep ==
  ASSUME IInv, Types', NEW o, NEW n, Others(o, n), LeavesRows(o, n) PROVE IInv'
  <1>0. UNCHANGED <<setup, active, pc, snap, lost, restarts>> /\ ovs' = o /\ nb' = n
    BY DEF Others, handler
  <1>1. Phys \in Physnets
    BY Model1Assumption, Zenon
  <1>2. Mapped(ovs) => Mapped(o)
    BY <1>1, NoneAssumption, Zenon DEF LeavesRows, Mapped
  <1>3. Synced'
    BY <1>0, Zenon DEF Others, IInv, Synced
  <1>4. Copies'
    <2>1. CASE setup.lag
      BY <1>0, <2>1, Zenon DEF Others, IInv, Copies, LeavesRows, HasBridge
    <2>2. CASE ~setup.lag
      BY <1>0, <2>2, Zenon DEF Others, Copies, HasBridge
    <2>. QED
      BY <2>1, <2>2, Zenon
  <1>5. OneVtep'
    BY <1>0, Zenon DEF IInv, OneVtep
  <1>6. Rests(o, n)
    BY <1>2, Zenon DEF IInv, Rests, LeavesRows
  <1>7. Rests(ovs, nb)'
    BY <1>0, <1>6, Zenon DEF Rests, Mapped, HasBridge
  <1>8. Established(pc, o, n, active)
    BY <1>2, Zenon DEF IInv, Established, LeavesRows, NoTunnel
  <1>9. Established(pc, ovs, nb, active)'
    BY <1>0, <1>8, Zenon DEF Established, Mapped, HasBridge, NoTunnel
  <1>10. (lost = 0 /\ restarts = 0 => Remembers(ovs, active))'
    BY <1>0, Zenon DEF IInv, Remembers, LeavesRows
  <1>. QED
    BY <1>3, <1>4, <1>5, <1>7, <1>9, <1>10, Zenon DEF IInv

-----------------------------------------------------------------------------
(* The handler's steps *)

\* A snapshot that the handler accepts has one VTEP.
LEMMA AtMostOneVtep ==
  ASSUME NEW R, IsFiniteSet(R), Cardinality(Used(R)) <= 1 PROVE \A u, v \in Used(R) : u = v
  <1>1. IsFiniteSet(Used(R))
    <2>. DEFINE f == [e \in R |-> e.vtep]
    <2>1. Used(R) = { f[e] : e \in R }
      BY Zenon DEF Used
    <2>2. f \in Surjection(R, Used(R))
      BY <2>1, Zenon DEF Surjection
    <2>. QED
      BY <2>2, FS_Surjection, Zenon
  <1>2. SUFFICES ASSUME NEW u \in Used(R), NEW v \in Used(R), u # v PROVE FALSE
    BY Zenon
  <1>3. Cardinality({u} \cup {v}) = 2
    <2>1. IsFiniteSet({u}) /\ Cardinality({u}) = 1
      BY FS_Singleton, Zenon
    <2>2. Cardinality({u} \cup {v}) = IF v \in {u} THEN Cardinality({u}) ELSE Cardinality({u}) + 1
      BY <2>1, FS_AddElement, Zenon
    <2>. QED
      BY <1>2, <2>1, <2>2
  <1>4. Cardinality({u} \cup {v}) <= Cardinality(Used(R))
    <2>1. {u} \cup {v} \in SUBSET Used(R)
      BY Zenon
    <2>. QED
      BY <1>1, <2>1, FS_Subset, Zenon
  <1>5. Cardinality(Used(R)) \in Nat
    BY <1>1, FS_CardinalityType, Zenon
  <1>. QED
    BY <1>3, <1>4, <1>5

LEMMA ReconcileSnapshotKeeps == ASSUME IInv, Types', ReconcileSnapshot PROVE IInv'
  <1>0. UNCHANGED <<setup, ovs, nb, covs, cnb, active, lost, restarts>> /\ snap' = Poll
    BY Zenon DEF ReconcileSnapshot, budgets
  <1>1. Synced' /\ Copies'
    BY <1>0, Zenon DEF IInv, Synced, Copies, HasBridge
  <1>2. Poll.eps = rib
    BY PollTypes, Zenon DEF IInv
  <1>3. OneVtep'
    <2>1. SUFFICES ASSUME pc' # "idle" PROVE \A u, v \in Used(rib) : u = v
      BY <1>0, <1>2, Zenon DEF OneVtep, Used
    <2>2. Cardinality(Used(rib)) <= 1
      BY <1>2, <2>1, Zenon DEF ReconcileSnapshot, Acceptable
    <2>3. IsFiniteSet(rib)
      BY Model1Assumption, Zenon DEF IInv, Types
    <2>. QED
      BY <2>2, <2>3, AtMostOneVtep, Zenon
  <1>4. Rests(ovs, nb)' /\ (lost = 0 /\ restarts = 0 => Remembers(ovs, active))'
    BY <1>0, Zenon DEF IInv, Rests, Remembers, Mapped, HasBridge
  <1>5. Established(pc, ovs, nb, active)'
    BY <1>0, <1>2, Zenon DEF ReconcileSnapshot, Established
  <1>. QED
    BY <1>1, <1>3, <1>4, <1>5, Zenon DEF IInv

LEMMA EnsureProviderBridgeKeeps == ASSUME Answered, IInv, Types', EnsureProviderBridge PROVE IInv'
  <1>. DEFINE b == [own |-> TRUE, ok |-> TRUE, ports |-> {}]
              o == [ovs EXCEPT !.bridge = b]
  <1>0. pc = "bridge" /\ ovs \in Ovs
    BY DEF EnsureProviderBridge, IInv, Types
  <1>1. CASE Refuse
    BY <1>0, <1>1, RefuseKeeps, Zenon
  <1>2. CASE Goto("mapping") /\ HasBridge(covs)
    <2>1. Established("mapping", ovs, nb, active)
      BY <1>2, Zenon DEF Established, IInv, Copies
    <2>. QED
      BY <1>0, <1>2, <2>1, GotoKeeps, Zenon
  <1>3. CASE OvsTransact(o, "mapping", active) /\ ~HasBridge(ovs)
    <2>1. b # None
      BY NewRows, NoneAssumption, Zenon
    <2>. HIDE DEF b
    <2>2. HasBridge(o) /\ o.tun = ovs.tun
      BY <1>0, <2>1 DEF Ovs, HasBridge
    <2>. HIDE DEF o
    <2>3. Rests(o, nb)
      BY <1>3, <2>2 DEF IInv, Rests, Mapped
    <2>4. Established("mapping", o, nb, active)
      BY <2>2 DEF Established
    <2>5. lost = 0 /\ restarts = 0 => Remembers(o, active)
      BY <2>2 DEF IInv, Remembers
    <2>. QED
      BY <1>0, <1>3, <2>3, <2>4, <2>5, OvsTransactKeeps, Zenon
  <1>. QED
    BY <1>1, <1>2, <1>3, Zenon DEF EnsureProviderBridge

LEMMA EnsureBridgeMappingKeeps == ASSUME Answered, IInv, Types', EnsureBridgeMapping PROVE IInv'
  <1>. DEFINE q == [covs.map EXCEPT ![Phys] = "br"]
              o == [ovs EXCEPT !.map = q, !.mark = "br"]
  <1>0. pc = "mapping" /\ ovs \in Ovs /\ covs \in Ovs /\ Phys \in Physnets
    BY Model1Assumption, Zenon DEF EnsureBridgeMapping, IInv, Types
  <1>1. CASE Refuse
    BY <1>0, <1>1, RefuseKeeps, Zenon
  <1>2. CASE Goto("localnet") /\ HasBridge(covs) /\ covs.map[Phys] = "br"
    <2>1. Mapped(ovs)
      BY <1>0, <1>2, NoneAssumption, Zenon DEF Mapped, IInv, Copies
    <2>2. Established("localnet", ovs, nb, active)
      BY <2>1, Zenon DEF Established
    <2>. QED
      BY <1>0, <1>2, <2>2, GotoKeeps, Zenon
  <1>3. CASE OvsTransact(o, "localnet", active) /\ HasBridge(covs)
    <2>1. q[Phys] = "br"
      BY <1>0 DEF Ovs
    <2>. HIDE DEF q
    <2>2. o.bridge = ovs.bridge /\ o.tun = ovs.tun /\ o.map = q
      BY <1>0, Zenon DEF Ovs
    <2>. HIDE DEF o
    <2>3. Mapped(o)
      BY <1>3, <2>1, <2>2, Zenon DEF Mapped, IInv, Copies, HasBridge
    <2>4. Rests(o, nb)
      BY <2>3, Zenon DEF Rests
    <2>5. Established("localnet", o, nb, active)
      BY <2>3, Zenon DEF Established
    <2>6. lost = 0 /\ restarts = 0 => Remembers(o, active)
      BY <2>2, Zenon DEF IInv, Remembers
    <2>. QED
      BY <1>0, <1>3, <2>4, <2>5, <2>6, OvsTransactKeeps, Zenon
  <1>. QED
    BY <1>1, <1>2, <1>3 DEF EnsureBridgeMapping

LEMMA EnsureLocalnetLSPKeeps == ASSUME Answered, IInv, Types', EnsureLocalnetLSP PROVE IInv'
  <1>. DEFINE n == [nb EXCEPT !.lsp = IF nb.switch THEN "ours" ELSE None]
  <1>0. pc = "localnet" /\ Mapped(ovs)
    BY DEF EnsureLocalnetLSP, IInv, Established
  <1>1. CASE Refuse
    BY <1>0, <1>1, RefuseKeeps, Zenon
  <1>2. CASE Goto("withdraw")
    <2>1. Established("withdraw", ovs, nb, active)
      BY <1>0, Zenon DEF Established
    <2>. QED
      BY <1>0, <1>2, <2>1, GotoKeeps, Zenon
  <1>3. CASE NbTransact(n, "withdraw")
    <2>. HIDE DEF n
    <2>1. Rests(ovs, n)
      BY <1>0, Zenon DEF Rests
    <2>2. Established("withdraw", ovs, n, active)
      BY <1>0, Zenon DEF Established
    <2>. QED
      BY <1>0, <1>3, <2>1, <2>2, NbTransactKeeps, Zenon
  <1>. QED
    BY <1>1, <1>2, <1>3, Zenon DEF EnsureLocalnetLSP

LEMMA DeleteTunnelKeeps == ASSUME Answered, IInv, Types', NEW v \in VTEPs, DeleteTunnel(v) PROVE IInv'
  <1>. DEFINE o == [ovs EXCEPT !.tun[v] = None]
              a == [active EXCEPT ![v] = None]
  <1>0. pc = "withdraw" /\ ovs \in Ovs /\ active \in Active
    BY Zenon DEF DeleteTunnel, IInv, Types
  <1>1. CASE Refuse
    BY <1>0, <1>1, RefuseKeeps, Zenon
  <1>2. \A u \in VTEPs : u # v => a[u] = active[u]
    BY <1>0, Zenon DEF Active
  <1>3. CASE Forget(v) /\ covs.tun[v] = None
    <2>0. UNCHANGED <<setup, ovs, nb, covs, cnb, pc, snap, lost, restarts>> /\ active' = a
      BY <1>3, Zenon DEF Forget, handler, budgets
    <2>. HIDE DEF a
    <2>1. ovs.tun[v] = None
      BY <1>3, Zenon DEF IInv, Copies
    <2>2. Synced' /\ Copies' /\ OneVtep'
      BY <2>0, Zenon DEF IInv, Synced, Copies, HasBridge, OneVtep
    <2>3. Rests(ovs, nb)'
      BY <2>0, Zenon DEF IInv, Rests, Mapped, HasBridge
    <2>4. Established(pc, ovs, nb, active)'
      BY <1>0, <2>0, Zenon DEF IInv, Established, Mapped, HasBridge, NoTunnel
    <2>5. (lost = 0 /\ restarts = 0 => Remembers(ovs, active))'
      BY <1>2, <2>0, <2>1, Zenon DEF IInv, Remembers
    <2>. QED
      BY <2>2, <2>3, <2>4, <2>5, Zenon DEF IInv
  <1>4. CASE OvsTransact(o, "withdraw", a)
    <2>1. o.bridge = ovs.bridge /\ o.map = ovs.map /\ o.tun[v] = None /\ \A u \in VTEPs : u # v => o.tun[u] = ovs.tun[u]
      BY <1>0, Zenon DEF Ovs
    <2>. HIDE DEF o, a
    <2>2. Mapped(o) <=> Mapped(ovs)
      BY <2>1, Zenon DEF Mapped, HasBridge
    <2>3. Rests(o, nb)
      BY <2>1, <2>2, Zenon DEF IInv, Rests
    <2>4. Established("withdraw", o, nb, a)
      BY <1>0, <2>2, Zenon DEF IInv, Established
    <2>5. lost = 0 /\ restarts = 0 => Remembers(o, a)
      BY <1>2, <2>1, Zenon DEF IInv, Remembers
    <2>. QED
      BY <1>0, <1>4, <2>3, <2>4, <2>5, OvsTransactKeeps, Zenon
  <1>. QED
    BY <1>1, <1>3, <1>4, Zenon DEF DeleteTunnel

LEMMA WithdrawnKeeps == ASSUME IInv, Types', Withdrawn PROVE IInv'
  <1>0. pc = "withdraw" /\ Obsolete = {}
    BY Zenon DEF Withdrawn
  <1>1. CASE snap.eps = {}
    <2>1. Established("nolsp", ovs, nb, active)
      BY Zenon DEF Established
    <2>. QED
      BY <1>0, <1>1, <2>1, GotoKeeps, Zenon DEF Withdrawn
  <1>2. CASE snap.eps # {}
    <2>1. Mapped(ovs)
      BY <1>0, <1>2, Zenon DEF IInv, Established
    <2>2. \A v \in VTEPs : active[v] # None => v \in Used(snap.eps)
      BY <1>0, Zenon DEF Obsolete
    <2>3. Established("tunnel", ovs, nb, active)
      BY <2>1, <2>2, Zenon DEF Established
    <2>. QED
      BY <1>0, <1>2, <2>3, GotoKeeps, Zenon DEF Withdrawn
  <1>. QED
    BY <1>1, <1>2, Zenon

LEMMA EnsureTunnelKeeps == ASSUME Answered, IInv, Types', NEW v \in VTEPs, EnsureTunnel(v) PROVE IInv'
  <1>. DEFINE addrs == Addresses(snap.eps, v)
              new == Tunnel(addrs)
              row == IF HasBridge(ovs) THEN new ELSE None
              o1 == [ovs EXCEPT !.tun[v] = row]
              o2 == [ovs EXCEPT !.tun[v] = new]
              a == [active EXCEPT ![v] = addrs]
  <1>0. pc = "tunnel" /\ v \in Used(snap.eps) /\ ovs \in Ovs /\ active \in Active /\ Mapped(ovs)
    BY Zenon DEF EnsureTunnel, IInv, Types, Established
  <1>1. addrs # None
    BY <1>0, AddressesTyped, NoneAssumption, Zenon DEF IInv
  <1>2. Refuse \/ OvsTransact(o1, "done", a) \/ OvsTransact(o2, "done", a)
    BY DEF EnsureTunnel
  <1>3. o1 = o2
    BY <1>0 DEF Mapped
  <1>. HIDE DEF addrs, new
  <1>4. /\ o2.bridge = ovs.bridge /\ o2.map = ovs.map
        /\ \A u \in VTEPs : u # v => o2.tun[u] = ovs.tun[u]
    BY <1>0, Zenon DEF Ovs
  <1>5. a[v] # None /\ \A u \in VTEPs : u # v => a[u] = active[u]
    BY <1>0, <1>1, Zenon DEF Active
  <1>. HIDE DEF o1, o2, a
  <1>6. CASE Refuse
    BY <1>0, <1>6, RefuseKeeps, Zenon
  <1>7. CASE OvsTransact(o2, "done", a)
    <2>1. Mapped(o2)
      BY <1>0, <1>4, Zenon DEF Mapped, HasBridge
    <2>2. Rests(o2, nb)
      BY <2>1, Zenon DEF Rests
    <2>3. Established("done", o2, nb, a)
      BY Zenon DEF Established
    <2>4. ASSUME lost = 0 /\ restarts = 0 PROVE Remembers(o2, a)
      <3>1. \A u \in VTEPs : o2.tun[u] # None => a[u] # None
        BY <1>4, <1>5, <2>4, Zenon DEF IInv, Remembers
      <3>2. \A u \in VTEPs : o2.tun[u] # None => u \in Used(snap.eps)
        BY <1>0, <1>4, <2>4, Zenon DEF IInv, Remembers, Established
      <3>3. \A u, w \in Used(snap.eps) : u = w
        BY <1>0, Zenon DEF IInv, OneVtep, PCs
      <3>. QED
        BY <3>1, <3>2, <3>3, Zenon DEF Remembers
    <2>. QED
      BY <1>0, <1>7, <2>2, <2>3, <2>4, OvsTransactKeeps, Zenon
  <1>. QED
    BY <1>2, <1>3, <1>6, <1>7, Zenon

\* Every tunnel of the network is one of ours.
LEMMA NoTunnelsMeansNone == ASSUME IInv, NoTunnels(covs) PROVE NoTunnel(ovs)
  <1>1. \A v \in VTEPs : covs.tun[v] # None => covs.tun[v] \in TunnelRow
    BY DEF IInv, Types, Ovs
  <1>2. \A r \in TunnelRow : r.own
    BY Zenon DEF TunnelRow
  <1>. QED
    BY <1>1, <1>2, Zenon DEF NoTunnels, NoTunnel, IInv, Copies

LEMMA DeleteLocalnetLSPKeeps == ASSUME Answered, IInv, Types', DeleteLocalnetLSP PROVE IInv'
  <1>. DEFINE n == [nb EXCEPT !.lsp = None]
  <1>0. pc = "nolsp"
    BY DEF DeleteLocalnetLSP
  <1>1. CASE Refuse
    BY <1>0, <1>1, RefuseKeeps
  <1>2. CASE Goto("unmap") /\ NoTunnels(covs) /\ cnb.lsp = None
    <2>1. nb.lsp = None /\ NoTunnel(ovs)
      BY <1>2, NoTunnelsMeansNone DEF IInv, Copies
    <2>2. Established("unmap", ovs, nb, active)
      BY <2>1, Zenon DEF Established
    <2>. QED
      BY <1>0, <1>2, <2>2, GotoKeeps
  <1>3. CASE NbTransact(n, "unmap") /\ NoTunnels(covs)
    <2>1. n.lsp = None /\ NoTunnel(ovs)
      BY <1>3, NoTunnelsMeansNone, Zenon DEF IInv, Types, Nb
    <2>. HIDE DEF n
    <2>2. Rests(ovs, n) /\ Established("unmap", ovs, n, active)
      BY <2>1 DEF Rests, NoTunnel, Established
    <2>. QED
      BY <1>0, <1>3, <2>2, NbTransactKeeps, Zenon
  <1>. QED
    BY <1>1, <1>2, <1>3 DEF DeleteLocalnetLSP

LEMMA DeleteBridgeMappingKeeps == ASSUME Answered, IInv, Types', DeleteBridgeMapping PROVE IInv'
  <1>. DEFINE q == [covs.map EXCEPT ![Phys] = None]
              o == [ovs EXCEPT !.map = q, !.mark = None]
  <1>0. pc = "unmap" /\ nb.lsp = None /\ NoTunnel(ovs) /\ ovs \in Ovs
    BY DEF DeleteBridgeMapping, IInv, Established, Types
  <1>1. CASE Refuse
    BY <1>0, <1>1, RefuseKeeps, Zenon
  <1>2. CASE Goto("nobridge")
    <2>1. Established("nobridge", ovs, nb, active)
      BY <1>0, Zenon DEF Established
    <2>. QED
      BY <1>0, <1>2, <2>1, GotoKeeps, Zenon
  <1>3. CASE OvsTransact(o, "nobridge", active)
    <2>. HIDE DEF q
    <2>1. o.tun = ovs.tun
      BY <1>0, Zenon DEF Ovs
    <2>. HIDE DEF o
    <2>2. NoTunnel(o)
      BY <1>0, <2>1, Zenon DEF NoTunnel
    <2>3. Rests(o, nb) /\ Established("nobridge", o, nb, active) /\ Remembers(o, active)
      BY <1>0, <2>2, Zenon DEF Rests, Established, Remembers, NoTunnel
    <2>. QED
      BY <1>0, <1>3, <2>3, OvsTransactKeeps, Zenon
  <1>. QED
    BY <1>1, <1>2, <1>3, Zenon DEF DeleteBridgeMapping

LEMMA DeleteProviderBridgeKeeps == ASSUME Answered, IInv, Types', DeleteProviderBridge PROVE IInv'
  <1>. DEFINE o == [ovs EXCEPT !.bridge = None, !.tun = EmptyTunnels]
  <1>0. pc = "nobridge" /\ nb.lsp = None /\ ovs \in Ovs
    BY DEF DeleteProviderBridge, IInv, Established, Types
  <1>1. CASE Refuse
    BY <1>0, <1>1, RefuseKeeps, Zenon
  <1>2. CASE Goto("done")
    <2>1. Established("done", ovs, nb, active)
      BY Zenon DEF Established
    <2>. QED
      BY <1>0, <1>2, <2>1, GotoKeeps, Zenon
  <1>3. CASE OvsTransact(o, "done", active)
    <2>1. o.tun = EmptyTunnels
      BY <1>0, Zenon DEF Ovs
    <2>. HIDE DEF o
    <2>2. NoTunnel(o)
      BY <2>1, Zenon DEF NoTunnel, EmptyTunnels
    <2>3. Rests(o, nb) /\ Established("done", o, nb, active) /\ Remembers(o, active)
      BY <1>0, <2>2, Zenon DEF Rests, Established, Remembers, NoTunnel
    <2>. QED
      BY <1>0, <1>3, <2>3, OvsTransactKeeps, Zenon
  <1>. QED
    BY <1>1, <1>2, <1>3, Zenon DEF DeleteProviderBridge

-----------------------------------------------------------------------------
(* The theorems *)

LEMMA InitInv == ASSUME Init PROVE IInv
  <1>1. PICK b \in {None, [own |-> FALSE, ok |-> TRUE, ports |-> {}]}, q \in [Physnets -> {None, "br", "other"}] :
          ovs = [bridge |-> b, tun |-> EmptyTunnels, map |-> q, mark |-> None]
    BY Zenon DEF Init
  <1>2. NoTunnel(ovs)
    BY <1>1, Zenon DEF NoTunnel, EmptyTunnels
  <1>3. covs = ovs /\ cnb = nb /\ pc = "idle" /\ nb.lsp = None
    BY Zenon DEF Init
  <1>4. Synced /\ Copies /\ OneVtep
    BY <1>3, Zenon DEF Synced, Copies, OneVtep
  <1>5. Rests(ovs, nb) /\ Established(pc, ovs, nb, active) /\ Remembers(ovs, active)
    BY <1>2, <1>3, Zenon DEF Rests, Established, Remembers, NoTunnel
  <1>. QED
    BY <1>4, <1>5, InitTypes, Zenon DEF IInv

\* A step to the start of the loop with databases as they were.
LEMMA BackToIdle ==
  ASSUME IInv, Types', pc' = "idle", UNCHANGED <<setup, ovs, nb>>, Synced', Copies',
         (lost = 0 /\ restarts = 0)' => UNCHANGED active /\ lost = 0 /\ restarts = 0
  PROVE  IInv'
  <1>1. OneVtep' /\ Established(pc, ovs, nb, active)'
    BY Zenon DEF OneVtep, Established
  <1>2. Rests(ovs, nb)'
    BY Zenon DEF IInv, Rests, Mapped, HasBridge
  <1>3. (lost = 0 /\ restarts = 0 => Remembers(ovs, active))'
    BY Zenon DEF IInv, Remembers
  <1>. QED
    BY <1>1, <1>2, <1>3, Zenon DEF IInv

\* Only the table of the speaker, or the copies, change.
LEMMA RestKeeps ==
  ASSUME IInv, Types', UNCHANGED <<setup, ovs, nb, pc, active, snap, lost, restarts>>, Synced', Copies'
  PROVE  IInv'
  <1>1. OneVtep'
    BY Zenon DEF IInv, OneVtep
  <1>2. Rests(ovs, nb)' /\ (lost = 0 /\ restarts = 0 => Remembers(ovs, active))'
    BY Zenon DEF IInv, Rests, Remembers, Mapped, HasBridge
  <1>3. Established(pc, ovs, nb, active)'
    BY Zenon DEF IInv, Established, Mapped, HasBridge, NoTunnel
  <1>. QED
    BY <1>1, <1>2, <1>3, Zenon DEF IInv

LEMMA CopiesKept ==
  ASSUME IInv, UNCHANGED <<setup, ovs, nb>>, UNCHANGED <<covs, cnb>> \/ (covs' = ovs /\ cnb' = nb)
  PROVE  Synced' /\ Copies'
  BY DEF IInv, Synced, Copies, HasBridge

LEMMA StepInv == ASSUME Answered, IInv, [Next]_vars PROVE IInv'
  <1>0. Types'
    BY TypesKept, Zenon DEF IInv
  <1>1. CASE ReconcileSnapshot \/ EnsureProviderBridge \/ EnsureBridgeMapping \/ EnsureLocalnetLSP \/ Withdrawn
    BY <1>0, <1>1, ReconcileSnapshotKeeps, EnsureProviderBridgeKeeps, EnsureBridgeMappingKeeps, EnsureLocalnetLSPKeeps,
       WithdrawnKeeps, Zenon
  <1>2. CASE \E v \in VTEPs : DeleteTunnel(v) \/ EnsureTunnel(v)
    BY <1>0, <1>2, DeleteTunnelKeeps, EnsureTunnelKeeps, Zenon
  <1>3. CASE DeleteLocalnetLSP \/ DeleteBridgeMapping \/ DeleteProviderBridge
    BY <1>0, <1>3, DeleteLocalnetLSPKeeps, DeleteBridgeMappingKeeps, DeleteProviderBridgeKeeps, Zenon
  <1>4. CASE Reconciled \/ Fails
    <2>1. pc' = "idle" /\ UNCHANGED <<setup, ovs, nb, covs, cnb, active, lost, restarts>>
      BY <1>4, Zenon DEF Reconciled, Fails, budgets
    <2>2. Synced' /\ Copies'
      BY <2>1, CopiesKept, Zenon
    <2>. QED
      BY <1>0, <2>1, <2>2, BackToIdle, Zenon
  <1>5. CASE Restart
    <2>1. pc' = "idle" /\ UNCHANGED <<setup, ovs, nb>> /\ covs' = ovs /\ cnb' = nb
      BY <1>5, Zenon DEF Restart
    <2>2. Synced' /\ Copies'
      BY <2>1, CopiesKept, Zenon
    <2>3. restarts' # 0
      BY <1>5 DEF Restart, IInv, Types
    <2>. QED
      BY <1>0, <2>1, <2>2, <2>3, BackToIdle, Zenon
  <1>6. CASE (\E R \in Ribs : RibChanges(R)) \/ Sync \/ UNCHANGED vars
    <2>1. /\ UNCHANGED <<setup, ovs, nb, pc, active, snap, lost, restarts>>
          /\ UNCHANGED <<covs, cnb>> \/ (covs' = ovs /\ cnb' = nb)
      BY <1>6, Zenon DEF RibChanges, Sync, vars, handler, budgets
    <2>2. Synced' /\ Copies'
      BY <2>1, CopiesKept, Zenon
    <2>. QED
      BY <1>0, <2>1, <2>2, RestKeeps, Zenon
  <1>7. CASE Patch \/ Administrator
    BY <1>0, <1>7, PatchLeaves, AdministratorLeaves, OthersKeep, Zenon DEF IInv
  <1>. QED
    BY <1>1, <1>2, <1>3, <1>4, <1>5, <1>6, <1>7, Zenon DEF Next, Handler

\* At most one of the tunnels is there.
LEMMA OneIsOne ==
  ASSUME NEW S, \A u, v \in S : u = v PROVE Cardinality(S) <= 1
  <1>1. CASE S = {}
    BY <1>1, FS_EmptySet
  <1>2. CASE S # {}
    <2>1. PICK u \in S : S = {u}
      BY <1>2
    <2>2. Cardinality({u}) = 1
      BY FS_Singleton, Zenon
    <2>. QED
      BY <2>1, <2>2
  <1>. QED
    BY <1>1, <1>2, Zenon

\* The invariant gives the property.
LEMMA InvBacks == ASSUME IInv PROVE Backed
  <1>1. LocalnetBacked /\ TunnelBacked
    BY Zenon DEF IInv, Rests, Mapped, LocalnetBacked, TunnelBacked
  <1>2. OneTunnel
    <2>1. SUFFICES ASSUME lost = 0 /\ restarts = 0
                   PROVE  Cardinality({ v \in VTEPs : ovs.tun[v] # None }) <= 1
      BY Zenon DEF OneTunnel
    <2>2. \A u, v \in { w \in VTEPs : ovs.tun[w] # None } : u = v
      BY <2>1, Zenon DEF IInv, Remembers
    <2>. QED
      BY <2>2, OneIsOne, Zenon
  <1>3. TypeOK
    <2>1. rib \in Ribs /\ Poll.gen \in Nat
      BY PollTypes, Zenon DEF IInv, Types, Snapshot
    <2>2. ASSUME NEW o \in {ovs, covs}
          PROVE  /\ HasBridge(o) => o.bridge.own \in BOOLEAN /\ o.bridge.ports \subseteq {"patch", "other"}
                 /\ \A v \in VTEPs : o.tun[v] # None => HasBridge(o) /\ o.tun[v].addrs # {}
                 /\ o.map \in [Physnets -> {None, "br", "other"}] /\ o.mark \in {None, "br"}
      <3>1. o \in Ovs
        BY <2>2, Zenon DEF IInv, Types
      <3>2. \A v \in VTEPs : o.tun[v] # None => HasBridge(o)
        BY <2>2, Zenon DEF IInv, Rests, Mapped, Copies
      <3>3. \A v \in VTEPs : o.tun[v] # None => o.tun[v].addrs # {}
        BY <3>1, Zenon DEF Ovs, TunnelRow
      <3>. QED
        BY <3>1, <3>2, <3>3, Zenon DEF Ovs, HasBridge, Bridge
    <2>3. {nb.lsp, cnb.lsp} \subseteq {None, "ours", "changed"}
      BY DEF IInv, Types, Nb
    <2>. QED
      BY <2>1, <2>2, <2>3, Zenon DEF TypeOK, IInv, Types, PCs
  <1>. QED
    BY <1>1, <1>2, <1>3, Zenon DEF Backed

\* Whatever the two databases, the other writers, failures, lost replies and restarts do, a localnet port and a
\* tunnel always rest on the mapped bridge, and a handler that has all replies has one tunnel.  The hypothesis is
\* needed: with a lost reply that the copy does not show, the port that was made would be taken to be absent.
THEOREM StaysBacked == Answered => (Spec => []Backed)
  <1>. SUFFICES ASSUME Answered PROVE Spec => []Backed
    OBVIOUS
  <1>1. Init => IInv
    BY InitInv
  <1>2. IInv /\ [Next]_vars => IInv'
    BY StepInv
  <1>3. IInv => Backed
    BY InvBacks
  <1>. QED
    BY <1>1, <1>2, <1>3, PTL DEF Spec

-----------------------------------------------------------------------------
(* What belongs to others *)

\* Bringing the databases to o and n takes nothing of others away.
Spares(o, n) ==
    /\ HasBridge(ovs) =>
        /\ ~ovs.bridge.own => o.bridge = ovs.bridge
        /\ ovs.bridge.ports # {} => HasBridge(o) /\ o.bridge.ports = ovs.bridge.ports
    /\ \A p \in Physnets \ {Phys} : o.map[p] = ovs.map[p]
    /\ ovs.mark = None /\ ovs.map[Phys] # None => o.map[Phys] = ovs.map[Phys]
    /\ nb.lsp = "changed" => n = nb

\* A step of a handler whose copies are up to date keeps them so and spares what is of others.
Careful == Synced' /\ (Program /\ ~setup.lag => Spares(ovs', nb'))

LEMMA OvsTransactCareful ==
  ASSUME Synced, NEW o, NEW next, NEW act, OvsTransact(o, next, act), ~setup.lag => Spares(o, nb) PROVE Careful
  <1>1. ovs' = o /\ nb' = nb /\ cnb' = cnb /\ setup' = setup /\ (~setup.lag => covs' = o)
    BY Zenon DEF OvsTransact
  <1>. QED
    BY <1>1 DEF Careful, Synced

LEMMA NbTransactCareful ==
  ASSUME Synced, NEW n, NEW next, NbTransact(n, next), ~setup.lag => Spares(ovs, n) PROVE Careful
  <1>1. ovs' = ovs /\ nb' = n /\ covs' = covs /\ setup' = setup /\ (~setup.lag => cnb' = n)
    BY Zenon DEF NbTransact
  <1>. QED
    BY <1>1, Zenon DEF Careful, Synced

\* Nothing is written.
LEMMA SparesSame == Spares(ovs, nb)
  BY Zenon DEF Spares

LEMMA UnwrittenCareful ==
  ASSUME Synced, UNCHANGED <<setup, ovs, nb>>, UNCHANGED <<covs, cnb>> \/ (covs' = ovs /\ cnb' = nb) PROVE Careful
  BY SparesSame, Zenon DEF Careful, Synced

LEMMA GotoCareful == ASSUME Synced, NEW next, Goto(next) PROVE Careful
  BY UnwrittenCareful, Zenon DEF Goto

LEMMA OthersCareful == ASSUME Synced, NEW o, NEW n, Others(o, n) PROVE Careful
  BY DEF Others, Careful, Synced, Program

LEMMA EnsureProviderBridgeCareful == ASSUME Types, Synced, EnsureProviderBridge PROVE Careful
  <1>. DEFINE o == [ovs EXCEPT !.bridge = [own |-> TRUE, ok |-> TRUE, ports |-> {}]]
  <1>1. CASE OvsTransact(o, "mapping", active) /\ ~HasBridge(ovs)
    <2>1. Spares(o, nb)
      BY <1>1, Zenon DEF Spares, Types, Ovs
    <2>. HIDE DEF o
    <2>. QED
      BY <1>1, <2>1, OvsTransactCareful, Zenon
  <1>. QED
    BY <1>1, GotoCareful, Zenon DEF EnsureProviderBridge, Refuse

LEMMA EnsureBridgeMappingCareful == ASSUME Types, Synced, EnsureBridgeMapping PROVE Careful
  <1>. DEFINE q == [covs.map EXCEPT ![Phys] = "br"]
              o == [ovs EXCEPT !.map = q, !.mark = "br"]
  <1>1. CASE OvsTransact(o, "localnet", active) /\ MappingsValid(covs) /\ covs.map[Phys] # "br"
    <2>1. ASSUME ~setup.lag PROVE Spares(o, nb)
      <3>1. covs = ovs /\ ovs \in Ovs
        BY <2>1, Zenon DEF Synced, Types
      <3>2. \A p \in Physnets \ {Phys} : q[p] = ovs.map[p]
        BY <3>1, Zenon DEF Ovs
      <3>. HIDE DEF q
      <3>3. o.bridge = ovs.bridge /\ o.map = q
        BY <3>1, Zenon DEF Ovs
      <3>4. ovs.map[Phys] = None
        BY <1>1, <3>1, Zenon DEF MappingsValid
      <3>. QED
        BY <3>2, <3>3, <3>4, Zenon DEF Spares, HasBridge
    <2>. HIDE DEF o
    <2>. QED
      BY <1>1, <2>1, OvsTransactCareful, Zenon
  <1>. QED
    BY <1>1, GotoCareful, Zenon DEF EnsureBridgeMapping, Refuse

LEMMA EnsureLocalnetLSPCareful == ASSUME Types, Synced, EnsureLocalnetLSP PROVE Careful
  <1>. DEFINE n == [nb EXCEPT !.lsp = IF nb.switch THEN "ours" ELSE None]
  <1>1. CASE NbTransact(n, "withdraw") /\ cnb.lsp # "changed"
    <2>1. ~setup.lag => Spares(ovs, n)
      BY <1>1, Zenon DEF Spares, Synced
    <2>. HIDE DEF n
    <2>. QED
      BY <1>1, <2>1, NbTransactCareful, Zenon
  <1>. QED
    BY <1>1, GotoCareful, Zenon DEF EnsureLocalnetLSP, Refuse

LEMMA TunnelsSpare ==
  ASSUME Types, NEW o, o.bridge = ovs.bridge, o.map = ovs.map PROVE Spares(o, nb)
  BY Zenon DEF Spares, HasBridge

LEMMA DeleteTunnelCareful == ASSUME Types, Synced, NEW v \in VTEPs, DeleteTunnel(v) PROVE Careful
  <1>. DEFINE o == [ovs EXCEPT !.tun[v] = None]
              a == [active EXCEPT ![v] = None]
  <1>1. Spares(o, nb)
    <2>1. o.bridge = ovs.bridge /\ o.map = ovs.map
      BY DEF Types, Ovs
    <2>. QED
      BY <2>1, TunnelsSpare, Zenon
  <1>2. Refuse \/ Forget(v) \/ OvsTransact(o, "withdraw", a)
    BY DEF DeleteTunnel
  <1>3. CASE Forget(v)
    BY <1>3, UnwrittenCareful, Zenon DEF Forget
  <1>. HIDE DEF o, a
  <1>. QED
    BY <1>1, <1>2, <1>3, GotoCareful, OvsTransactCareful, Zenon DEF Refuse

LEMMA EnsureTunnelCareful == ASSUME Types, Synced, NEW v \in VTEPs, EnsureTunnel(v) PROVE Careful
  <1>. DEFINE new == Tunnel(Addresses(snap.eps, v))
              row == IF HasBridge(ovs) THEN new ELSE None
              o1 == [ovs EXCEPT !.tun[v] = row]
              o2 == [ovs EXCEPT !.tun[v] = new]
              a == [active EXCEPT ![v] = Addresses(snap.eps, v)]
  <1>1. Refuse \/ OvsTransact(o1, "done", a) \/ OvsTransact(o2, "done", a)
    BY DEF EnsureTunnel
  <1>. HIDE DEF new
  <1>2. Spares(o1, nb) /\ Spares(o2, nb)
    <2>1. o1.bridge = ovs.bridge /\ o1.map = ovs.map /\ o2.bridge = ovs.bridge /\ o2.map = ovs.map
      BY DEF Types, Ovs
    <2>. HIDE DEF o1, o2
    <2>. QED
      BY <2>1, TunnelsSpare
  <1>. HIDE DEF o1, o2, a
  <1>. QED
    BY <1>1, <1>2, GotoCareful, OvsTransactCareful DEF Refuse

LEMMA DeleteLocalnetLSPCareful == ASSUME Types, Synced, DeleteLocalnetLSP PROVE Careful
  <1>. DEFINE n == [nb EXCEPT !.lsp = None]
  <1>1. CASE NbTransact(n, "unmap") /\ cnb.lsp # "changed"
    <2>1. ~setup.lag => Spares(ovs, n)
      BY <1>1, Zenon DEF Spares, Synced
    <2>. HIDE DEF n
    <2>. QED
      BY <1>1, <2>1, NbTransactCareful, Zenon
  <1>. QED
    BY <1>1, GotoCareful DEF DeleteLocalnetLSP, Refuse

LEMMA DeleteBridgeMappingCareful == ASSUME Types, Synced, DeleteBridgeMapping PROVE Careful
  <1>. DEFINE q == [covs.map EXCEPT ![Phys] = None]
              o == [ovs EXCEPT !.map = q, !.mark = None]
  <1>1. CASE OvsTransact(o, "nobridge", active) /\ covs.mark # None
    <2>1. ASSUME ~setup.lag PROVE Spares(o, nb)
      <3>1. covs = ovs /\ ovs \in Ovs
        BY <2>1 DEF Synced, Types
      <3>2. \A p \in Physnets \ {Phys} : q[p] = ovs.map[p]
        BY <3>1, Zenon DEF Ovs
      <3>. HIDE DEF q
      <3>3. o.bridge = ovs.bridge /\ o.map = q
        BY <3>1, Zenon DEF Ovs
      <3>. QED
        BY <1>1, <3>1, <3>2, <3>3, Zenon DEF Spares, HasBridge
    <2>. HIDE DEF o
    <2>. QED
      BY <1>1, <2>1, OvsTransactCareful, Zenon
  <1>. QED
    BY <1>1, GotoCareful, Zenon DEF DeleteBridgeMapping, Refuse

LEMMA DeleteProviderBridgeCareful == ASSUME Types, Synced, DeleteProviderBridge PROVE Careful
  <1>. DEFINE o == [ovs EXCEPT !.bridge = None, !.tun = EmptyTunnels]
  <1>1. CASE OvsTransact(o, "done", active) /\ Removable(covs)
    <2>1. ASSUME ~setup.lag PROVE Spares(o, nb)
      <3>1. covs = ovs /\ ovs \in Ovs
        BY <2>1 DEF Synced, Types
      <3>2. ovs.bridge.own /\ ovs.bridge.ports = {}
        BY <1>1, <3>1, Zenon DEF Removable, Intact
      <3>3. o.map = ovs.map
        BY <3>1, Zenon DEF Ovs
      <3>. QED
        BY <3>2, <3>3, Zenon DEF Spares
    <2>. HIDE DEF o
    <2>. QED
      BY <1>1, <2>1, OvsTransactCareful, Zenon
  <1>. QED
    BY <1>1, GotoCareful, Zenon DEF DeleteProviderBridge, Refuse

LEMMA StepCareful == ASSUME Types, Synced, [Next]_vars PROVE Careful
  <1>1. CASE EnsureProviderBridge \/ EnsureBridgeMapping \/ EnsureLocalnetLSP
    BY <1>1, EnsureProviderBridgeCareful, EnsureBridgeMappingCareful, EnsureLocalnetLSPCareful, Zenon
  <1>2. CASE \E v \in VTEPs : DeleteTunnel(v) \/ EnsureTunnel(v)
    BY <1>2, DeleteTunnelCareful, EnsureTunnelCareful, Zenon
  <1>3. CASE DeleteLocalnetLSP \/ DeleteBridgeMapping \/ DeleteProviderBridge
    BY <1>3, DeleteLocalnetLSPCareful, DeleteBridgeMappingCareful, DeleteProviderBridgeCareful, Zenon
  <1>4. CASE Patch \/ Administrator
    BY <1>4, PatchLeaves, AdministratorLeaves, OthersCareful, Zenon
  <1>5. CASE ReconcileSnapshot \/ Withdrawn \/ Reconciled \/ Fails \/ Restart \/ Sync \/ UNCHANGED vars
             \/ \E R \in Ribs : RibChanges(R)
    <2>1. UNCHANGED <<setup, ovs, nb>> /\ (UNCHANGED <<covs, cnb>> \/ (covs' = ovs /\ cnb' = nb))
      BY <1>5, Zenon DEF ReconcileSnapshot, Withdrawn, Goto, Reconciled, Fails, Restart, Sync, RibChanges, vars
    <2>. QED
      BY <2>1, UnwrittenCareful, Zenon
  <1>. QED
    BY <1>1, <1>2, <1>3, <1>4, <1>5, Zenon DEF Next, Handler

\* Whatever happens meanwhile, a handler whose copies are up to date never changes a bridge, a port, a mapping
\* or an edited localnet port of somebody else, also in transactions whose reply is lost.
THEOREM OthersSpared == Spec => OnlyOwnRemoved
  <1>1. Init => Types /\ Synced
    BY InitInv, Zenon DEF IInv
  <1>2. Types /\ Synced /\ [Next]_vars => Types' /\ Synced'
    BY TypesKept, StepCareful, Zenon DEF Careful
  <1>3. Types /\ Synced /\ [Next]_vars =>
          [Program /\ ~setup.lag =>
            /\ HasBridge(ovs) =>
                /\ ~ovs.bridge.own => ovs'.bridge = ovs.bridge
                /\ ovs.bridge.ports # {} => HasBridge(ovs') /\ ovs'.bridge.ports = ovs.bridge.ports
            /\ \A p \in Physnets \ {Phys} : ovs'.map[p] = ovs.map[p]
            /\ ovs.mark = None /\ ovs.map[Phys] # None => ovs'.map[Phys] = ovs.map[Phys]
            /\ nb.lsp = "changed" => nb' = nb]_vars
    BY StepCareful, Zenon DEF Careful, Spares
  <1>. QED
    BY <1>1, <1>2, <1>3, PTL DEF Spec, OnlyOwnRemoved
=============================================================================
