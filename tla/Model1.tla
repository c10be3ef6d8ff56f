------------------------------- MODULE Model1 -------------------------------
(***************************************************************************)
(* The OVSDB-programmed importer (cmd/evpn-ovsdb,                          *)
(* pkg/evpn/ovsdb_programmer.go, ovsdb_provider_bridge.go).  One loop      *)
(* polls the read-only importer and brings two databases, the local OVS    *)
(* and the OVN northbound one, to the remote endpoints of one network: a   *)
(* provider bridge, its mapping, a localnet port and a tunnel per VTEP.    *)
(*                                                                         *)
(* Decisions are taken from a client's copy of a database and written by   *)
(* a transaction without preconditions; a step is one transaction.  The    *)
(* handler knows its tunnels in memory only.  Ports and interfaces exist   *)
(* as long as a bridge refers to them (the databases collect the rest), so *)
(* a tunnel is one record.                                                 *)
(***************************************************************************)
EXTENDS Naturals, FiniteSets

CONSTANTS
    VTEPs,
    Ribs,         \* sets of endpoints [mac, ip, vtep] the speaker may hold
    Phys,         \* physical network of the configured network
    Physnets,     \* all physical networks
    NoIP, None,
    Setups        \* bounds on what happens, see Setup

\* Whether changes by others reach the client's copy later than at once, and how
\* often the RIB changes, others change the databases, a transaction fails without
\* effect, one is committed and its reply is lost, and the importer restarts.
Setup == [lag : BOOLEAN, changes : Nat, admin : Nat, fails : Nat, lost : Nat, restarts : Nat]

\* The importer publishes one VTEP and at most one address per MAC (Type2Importer).
ASSUME Model1Assumption ==
    /\ Phys \in Physnets
    /\ \A R \in Ribs : IsFiniteSet(R) /\ \A e, f \in R : e.mac = f.mac => e = f
    /\ Setups \subseteq Setup

VARIABLES
    rib,          \* remote endpoints in the speaker's table
    pub,          \* the importer's snapshot: [gen, eps]
    ovs,          \* [bridge, tun, map, mark]
    nb,           \* [switch, lsp]
    covs, cnb,    \* the client's copies
    pc, snap,     \* reconciliation in progress
    active,       \* handler: address digest of each tunnel it made, None if none
    generation, digest,
    setup,        \* fixed
    changes, admin, fails, lost, restarts

handler == <<pub, snap, generation, digest>>
budgets == <<changes, admin, fails, lost, restarts>>
vars == <<setup, rib, ovs, nb, covs, cnb, pc, active, handler, budgets>>

EmptyTunnels == [v \in VTEPs |-> None]

\* The addresses of a set of endpoints behind a VTEP.
Addresses(eps, v) == { <<e.mac, e.ip>> : e \in { f \in eps : f.vtep = v } }
Digest == { Addresses(R, v) : R \in Ribs, v \in VTEPs }

\* The rows of the two databases that matter here.
Bridge == [own : BOOLEAN, ok : BOOLEAN, ports : SUBSET {"patch", "other"}]
TunnelRow == [own : {TRUE}, opts : BOOLEAN, addrs : Digest \ {{}}]

\* None is a value of its own.
ASSUME NoneAssumption ==
    None \notin Bridge \cup TunnelRow \cup Digest \cup {"br", "other", "ours", "changed"}

\* The node may already have a bridge of that name, or mappings of its own.
Init ==
    /\ setup \in Setups /\ rib \in Ribs /\ pub = [gen |-> 0, eps |-> {}]
    /\ \E b \in {None, [own |-> FALSE, ok |-> TRUE, ports |-> {}]}, q \in [Physnets -> {None, "br", "other"}] :
        /\ b = None => "br" \notin { q[p] : p \in Physnets }
        /\ ovs = [bridge |-> b, tun |-> EmptyTunnels, map |-> q, mark |-> None]
    /\ nb = [switch |-> TRUE, lsp |-> None]
    /\ covs = ovs /\ cnb = nb
    /\ pc = "idle" /\ snap = pub
    /\ active = EmptyTunnels /\ generation = 0 /\ digest = {}
    /\ changes = 0 /\ admin = 0 /\ fails = 0 /\ lost = 0 /\ restarts = 0

----------------------------------------------------------------------------
(* Speaker, ovn-controller, administrators *)

RibChanges(R) ==
    /\ changes < setup.changes /\ R # rib
    /\ rib' = R /\ changes' = changes + 1
    /\ UNCHANGED <<setup, ovs, nb, covs, cnb, pc, active, handler, admin, fails, lost, restarts>>

\* A change by somebody else; a client that does not lag sees it at once.
Others(o, n) ==
    /\ ovs' = o /\ nb' = n
    /\ covs' = IF setup.lag THEN covs ELSE o
    /\ cnb' = IF setup.lag THEN cnb ELSE n
    /\ UNCHANGED <<setup, rib, pc, active, handler, changes, fails, lost, restarts>>

HasBridge(o) == o.bridge # None
WithPorts(S) == [ovs EXCEPT !.bridge.ports = S]
Localnet == nb.lsp # None /\ ovs.map[Phys] = "br"

\* ovn-controller joins br-int and the mapped bridge while a localnet port asks for it.
Patch ==
    /\ HasBridge(ovs) /\ (Localnet <=> "patch" \notin ovs.bridge.ports)
    /\ Others(WithPorts(IF Localnet THEN ovs.bridge.ports \cup {"patch"} ELSE ovs.bridge.ports \ {"patch"}), nb)
    /\ UNCHANGED admin

Administrator ==
    /\ admin < setup.admin /\ admin' = admin + 1
    /\ \/ HasBridge(ovs) /\ Others(WithPorts(ovs.bridge.ports \cup {"other"}), nb)
       \/ HasBridge(ovs) /\ Others(WithPorts(ovs.bridge.ports \ {"other"}), nb)
       \/ HasBridge(ovs) /\ Others([ovs EXCEPT !.bridge.ok = ~@], nb)
       \/ \E v \in VTEPs : ovs.tun[v] # None /\ Others([ovs EXCEPT !.tun[v].opts = FALSE], nb)
       \/ \E p \in Physnets, b \in {"br", "other"} :
            ovs.map[p] = None /\ Others([ovs EXCEPT !.map[p] = b], nb)
       \/ nb.lsp = "ours" /\ Others(ovs, [nb EXCEPT !.lsp = "changed"])
       \/ Others(ovs, [switch |-> ~nb.switch, lsp |-> None])

Sync ==
    /\ <<covs, cnb>> # <<ovs, nb>>
    /\ covs' = ovs /\ cnb' = nb
    /\ UNCHANGED <<setup, rib, ovs, nb, pc, active, handler, budgets>>

----------------------------------------------------------------------------
(* One transaction *)

\* transactModel1 on OVS, bringing it to o and the handler's tunnels to act.  An
\* answered transaction is in the client's copy; the reply may also get lost.
OvsTransact(o, next, act) ==
    /\ ovs' = o
    /\ \/ covs' = o /\ pc' = next /\ active' = act /\ UNCHANGED lost
       \/ /\ lost < setup.lost /\ lost' = lost + 1
          /\ covs' = (IF setup.lag THEN covs ELSE o) /\ pc' = "idle" /\ UNCHANGED active
    /\ UNCHANGED <<setup, rib, nb, cnb, handler, changes, admin, fails, restarts>>

NbTransact(n, next) ==
    /\ nb' = n
    /\ \/ cnb' = n /\ pc' = next /\ UNCHANGED lost
       \/ /\ lost < setup.lost /\ lost' = lost + 1
          /\ cnb' = (IF setup.lag THEN cnb ELSE n) /\ pc' = "idle"
    /\ UNCHANGED <<setup, rib, ovs, covs, active, handler, changes, admin, fails, restarts>>

\* Nothing to write, or an error that ends the reconciliation.
Goto(next) == pc' = next /\ UNCHANGED <<setup, rib, ovs, nb, covs, cnb, active, handler, budgets>>
Refuse == Goto("idle")

----------------------------------------------------------------------------
(* The handler *)

\* The importer confirms a snapshot; a new generation names a new content.  Polls
\* that fail or are not yet authoritative change nothing here.
Poll ==
    IF pub.gen > 0 /\ pub.eps = rib THEN pub ELSE [gen |-> pub.gen + 1, eps |-> rib]

Used(eps) == { e.vtep : e \in eps }

\* One VTEP and one address for a MAC, one MAC for an address.
Consistent(eps) ==
    /\ \A e, f \in eps : e.mac = f.mac => e.ip = f.ip /\ e.vtep = f.vtep
    /\ \A e, f \in eps : e.ip # NoIP /\ e.ip = f.ip => e.mac = f.mac /\ e.vtep = f.vtep

\* The checks of ReconcileSnapshot on generation, endpoint identities and VTEPs.
Acceptable(s) ==
    /\ s.gen > 0 /\ s.gen >= generation
    /\ s.gen = generation => s.eps = digest
    /\ Consistent(s.eps) /\ Cardinality(Used(s.eps)) <= 1

ReconcileSnapshot ==
    /\ pc = "idle"
    /\ pub' = Poll /\ snap' = Poll
    /\ pc' = IF ~Acceptable(Poll) THEN "idle" ELSE IF rib = {} THEN "withdraw" ELSE "bridge"
    /\ UNCHANGED <<setup, rib, ovs, nb, covs, cnb, active, generation, digest, budgets>>

\* validateModel1BridgeMappings.
MappingsValid(o) ==
    /\ o.map[Phys] \in {None, "br"}
    /\ \A p \in Physnets \ {Phys} : o.map[p] # "br"
    /\ o.mark \in {None, "br"}

\* A provider bridge of ours as we made it: ids, fail mode, no controller, local port.
Intact(o) == o.bridge.own /\ o.bridge.ok

EnsureProviderBridge ==
    /\ pc = "bridge"
    /\ CASE ~MappingsValid(covs) -> Refuse
         [] MappingsValid(covs) /\ HasBridge(covs) -> IF Intact(covs) THEN Goto("mapping") ELSE Refuse
         [] OTHER ->
              IF HasBridge(ovs) THEN Refuse  \* the name is taken: constraint violation
              ELSE OvsTransact([ovs EXCEPT !.bridge = [own |-> TRUE, ok |-> TRUE, ports |-> {}]],
                               "mapping", active)

\* ensureModel1BridgeMapping: a mapping that is already there is borrowed.  The row
\* is written back as it was read.
EnsureBridgeMapping ==
    /\ pc = "mapping"
    /\ IF ~HasBridge(covs) \/ ~MappingsValid(covs) THEN Refuse
       ELSE IF ~covs.bridge.ok THEN Refuse
       ELSE IF covs.map[Phys] = "br" THEN Goto("localnet")
       ELSE OvsTransact([ovs EXCEPT !.map = [covs.map EXCEPT ![Phys] = "br"], !.mark = "br"],
                        "localnet", active)

\* ensureModel1LocalnetLSP.  A port on a switch that is gone is collected at once.
EnsureLocalnetLSP ==
    /\ pc = "localnet"
    /\ IF ~cnb.switch \/ cnb.lsp = "changed" THEN Refuse
       ELSE IF cnb.lsp = "ours" THEN Goto("withdraw")
       ELSE IF nb.lsp # None THEN Refuse
       ELSE NbTransact([nb EXCEPT !.lsp = IF nb.switch THEN "ours" ELSE None], "withdraw")

Obsolete == { v \in VTEPs : active[v] # None /\ v \notin Used(snap.eps) }

\* Variant: compared with the endpoints of the new snapshot.
DeletableNow(o, v) == o.tun[v].own /\ o.tun[v].addrs = Addresses(snap.eps, v)

\* deleteModel1OVSTunnel without a refusal: the rows are as the handler recorded them.
Deletable(o, v) ==
    /\ o.tun[v].own /\ o.tun[v].opts /\ o.tun[v].addrs = active[v]
    /\ HasBridge(o) /\ o.bridge.own

\* The copy has no such tunnel: nothing is written.
Forget(v) ==
    /\ active' = [active EXCEPT ![v] = None]
    /\ UNCHANGED <<setup, rib, ovs, nb, covs, cnb, pc, handler, budgets>>

DeleteTunnel(v) ==
    /\ pc = "withdraw" /\ v \in Obsolete
    /\ IF covs.tun[v] = None THEN Forget(v)
       ELSE IF ~Deletable(covs, v) THEN Refuse
       ELSE OvsTransact([ovs EXCEPT !.tun[v] = None], "withdraw", [active EXCEPT ![v] = None])

Withdrawn ==
    /\ pc = "withdraw" /\ Obsolete = {}
    /\ Goto(IF snap.eps = {} THEN "nolsp" ELSE "tunnel")

\* Interface and port with their options, their owner and the digest of the addresses.
Tunnel(addrs) == [own |-> TRUE, opts |-> TRUE, addrs |-> addrs]

\* Variant: an existing tunnel is left as it is.
EnsureTunnelOnce(v) ==
    /\ pc = "tunnel" /\ v \in Used(snap.eps)
    /\ OvsTransact([ovs EXCEPT !.tun[v] = IF @ # None THEN @ ELSE
         Tunnel(Addresses(snap.eps, v))], "done",
         [active EXCEPT ![v] = Addresses(snap.eps, v)])

\* ensureModel1OVSTunnel.  An update of a vanished row is an error, an insertion into
\* a vanished bridge is not: the new rows are collected.
EnsureTunnel(v) ==
    LET addrs == Addresses(snap.eps, v)
        new   == Tunnel(addrs)
        act   == [active EXCEPT ![v] = addrs]
    IN  /\ pc = "tunnel" /\ v \in Used(snap.eps)
        /\ CASE ~HasBridge(covs) -> Refuse
             [] HasBridge(covs) /\ covs.tun[v] = None ->
                  IF ~covs.bridge.own \/ ovs.tun[v] # None THEN Refuse
                  ELSE OvsTransact([ovs EXCEPT !.tun[v] = IF HasBridge(ovs) THEN new ELSE None], "done", act)
             [] OTHER ->
                  IF ~covs.bridge.own \/ ~covs.tun[v].own \/ ovs.tun[v] = None THEN Refuse
                  ELSE OvsTransact([ovs EXCEPT !.tun[v] = new], "done", act)

\* Variant: the tunnels the handler remembers.
NoTunnelsKnown(o) == active = EmptyTunnels

\* ensureModel1NetworkHasNoTunnels.
NoTunnels(o) == \A v \in VTEPs : o.tun[v] # None => ~o.tun[v].own

DeleteLocalnetLSP ==
    /\ pc = "nolsp"
    /\ IF ~NoTunnels(covs) \/ cnb.lsp = "changed" THEN Refuse
       ELSE IF cnb.lsp = None THEN Goto("unmap")
       ELSE NbTransact([nb EXCEPT !.lsp = None], "unmap")

\* Variant: the mapping goes, whoever made it.
DeleteBridgeMappingAny ==
    /\ pc = "unmap"
    /\ OvsTransact([ovs EXCEPT !.map = [covs.map EXCEPT ![Phys] = None], !.mark = None], "nobridge", active)

\* Only a mapping that carries our mark is removed.
DeleteBridgeMapping ==
    /\ pc = "unmap"
    /\ IF covs.mark = None THEN Goto("nobridge")
       ELSE IF covs.mark # "br" \/ covs.map[Phys] \notin {None, "br"} THEN Refuse
       ELSE OvsTransact([ovs EXCEPT !.map = [covs.map EXCEPT ![Phys] = None], !.mark = None],
                        "nobridge", active)

\* Only the local port is left on a bridge of ours.
Removable(o) ==
    /\ HasBridge(o) /\ Intact(o)
    /\ o.bridge.ports = {} /\ \A v \in VTEPs : o.tun[v] = None

\* The ports of a deleted bridge go with it.
DeleteProviderBridge ==
    /\ pc = "nobridge"
    /\ IF ~NoTunnels(covs) \/ \E p \in Physnets : covs.map[p] = "br" THEN Refuse
       ELSE IF ~HasBridge(covs) THEN Goto("done")
       ELSE IF ~Removable(covs) THEN Refuse
       ELSE OvsTransact([ovs EXCEPT !.bridge = None, !.tun = EmptyTunnels], "done", active)

Reconciled ==
    /\ pc = "done" /\ pc' = "idle"
    /\ generation' = snap.gen /\ digest' = snap.eps
    /\ UNCHANGED <<setup, rib, pub, ovs, nb, covs, cnb, active, snap, budgets>>

\* A list or a transaction fails without an effect.
Fails ==
    /\ pc \notin {"idle", "done"} /\ fails < setup.fails
    /\ fails' = fails + 1 /\ pc' = "idle"
    /\ UNCHANGED <<setup, rib, ovs, nb, covs, cnb, active, handler, changes, admin, lost, restarts>>

\* The process is replaced: clients and importer start afresh.
Restart ==
    /\ restarts < setup.restarts /\ restarts' = restarts + 1
    /\ pc' = "idle" /\ active' = EmptyTunnels
    /\ pub' = [gen |-> 0, eps |-> {}] /\ snap' = pub' /\ generation' = 0 /\ digest' = {}
    /\ covs' = ovs /\ cnb' = nb
    /\ UNCHANGED <<setup, rib, ovs, nb, changes, admin, fails, lost>>

Handler ==
    \/ ReconcileSnapshot \/ EnsureProviderBridge \/ EnsureBridgeMapping \/ EnsureLocalnetLSP
    \/ \E v \in VTEPs : DeleteTunnel(v) \/ EnsureTunnel(v)
    \/ Withdrawn \/ DeleteLocalnetLSP \/ DeleteBridgeMapping \/ DeleteProviderBridge \/ Reconciled

Next ==
    \/ Handler \/ Fails \/ Restart
    \/ \E R \in Ribs : RibChanges(R)
    \/ Patch \/ Administrator \/ Sync

Spec == Init /\ [][Next]_vars

\* The loop polls at every tick and the databases serve it; ovn-controller runs and
\* monitor updates arrive.
FairSpec == Spec /\ WF_vars(Handler) /\ WF_vars(Patch) /\ WF_vars(Sync)

----------------------------------------------------------------------------
(* Properties *)

TypeOK ==
    /\ rib \in Ribs /\ Poll.gen \in Nat
    /\ \A o \in {ovs, covs} :
        /\ HasBridge(o) => o.bridge.own \in BOOLEAN /\ o.bridge.ports \subseteq {"patch", "other"}
        /\ \A v \in VTEPs : o.tun[v] # None => HasBridge(o) /\ o.tun[v].addrs # {}
        /\ o.map \in [Physnets -> {None, "br", "other"}] /\ o.mark \in {None, "br"}
    /\ {nb.lsp, cnb.lsp} \subseteq {None, "ours", "changed"}
    /\ pc \in {"idle", "bridge", "mapping", "localnet", "withdraw", "tunnel", "done",
               "nolsp", "unmap", "nobridge"}

Program == pc' # pc \/ active' # active

\* No transaction of the importer changes what somebody else put there: a bridge of
\* that name made by others, ports attached by ovn-controller or an administrator,
\* mappings of other physical networks, a borrowed mapping, an edited localnet port.
\* The importer decides on its own copy: this is so when the copy is up to date.
OnlyOwnRemoved ==
    [][Program /\ ~setup.lag =>
        /\ HasBridge(ovs) =>
            /\ ~ovs.bridge.own => ovs'.bridge = ovs.bridge
            /\ ovs.bridge.ports # {} => HasBridge(ovs') /\ ovs'.bridge.ports = ovs.bridge.ports
        /\ \A p \in Physnets \ {Phys} : ovs'.map[p] = ovs.map[p]
        /\ ovs.mark = None /\ ovs.map[Phys] # None => ovs'.map[Phys] = ovs.map[Phys]
        /\ nb.lsp = "changed" => nb' = nb]_vars

\* A localnet port leads to a mapped bridge: the mapping is written before the port and
\* removed after it, although the two live in different databases and any step between
\* may fail, lose its reply or be the last before a restart.
LocalnetBacked == nb.lsp # None => ovs.map[Phys] = "br" /\ HasBridge(ovs)

\* The network goes after its tunnels: while a tunnel of ours is up so is the mapping
\* of its bridge, whatever failed in between.
TunnelBacked == (\E v \in VTEPs : ovs.tun[v] # None) => HasBridge(ovs) /\ ovs.map[Phys] = "br"

\* The standalone bridge learns addresses, so that it may have one tunnel at a time: an
\* obsolete one is withdrawn before its replacement is made.  The handler knows its
\* tunnels from memory, so this is while it runs and has all replies.
OneTunnel == lost = 0 /\ restarts = 0 => Cardinality({ v \in VTEPs : ovs.tun[v] # None }) <= 1

\* What is built in the two databases always rests on what is below it.
Backed == TypeOK /\ LocalnetBacked /\ TunnelBacked /\ OneTunnel

Unobstructed ==
    /\ nb.switch /\ nb.lsp # "changed" /\ MappingsValid(ovs)
    /\ HasBridge(ovs) => Intact(ovs)
    /\ \A v \in VTEPs : ovs.tun[v] # None => ovs.tun[v].opts

Programmed(v) ==
    /\ HasBridge(ovs) /\ ovs.map[Phys] = "br" /\ nb.lsp = "ours"
    /\ ovs.tun[v] # None
    /\ ovs.tun[v].addrs = Addresses(rib, v) /\ ovs.tun[v].opts

\* Consistent remote endpoints at one VTEP end up programmed, also after failures and a
\* restart, unless something of somebody else is in the way or a reply was lost: the
\* handler deletes a tunnel only with the addresses it remembers.
RoutesProgrammed ==
    \A v \in VTEPs : <>[](Used(rib) = {v} /\ Consistent(rib) /\ Unobstructed /\ lost = 0) => <>[]Programmed(v)

Clean == ovs.bridge = None /\ ovs.mark = None /\ nb.lsp = None

\* When the last route is withdrawn everything goes, the bridge once ovn-controller has
\* taken its patch port away, unless something of somebody else is in the way.  A
\* tunnel the handler does not remember, from before a restart or because the reply
\* was lost, would stay.
WithdrawalCompletes ==
    <>[](/\ rib = {} /\ Unobstructed /\ lost = 0 /\ restarts = 0
         /\ ovs.map[Phys] = "br" => ovs.mark = "br"
         /\ HasBridge(ovs) => "other" \notin ovs.bridge.ports) => <>[]Clean
====
