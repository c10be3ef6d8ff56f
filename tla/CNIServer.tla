----------------------------- MODULE CNIServer -----------------------------
(***************************************************************************)
(* The CNI service of the node agent in real-ovn-ovs mode without the      *)
(* continuity journal: Add, Del and Check of pkg/nodeagent/server.go, the  *)
(* veth backend (network_backend.go), the endpoint manager with its OVN    *)
(* backend (pkg/endpoint) and the OVS attachment manager (pkg/attachment), *)
(* called by a container runtime through cmd/evpn-cni.                     *)
(*                                                                         *)
(* The operations mutex admits one call at a time; a call is a sequence of *)
(* database transactions and kernel requests between which the agent may   *)
(* die.  The agent's records are in memory; the kernel's interfaces and    *)
(* the two databases survive it.                                           *)
(***************************************************************************)
EXTENDS Naturals, FiniteSets

CONSTANTS
    Requests,   \* what the runtime may attach: [key, uid, inc, ns, cfg, name, ls]
    Lsp,        \* port names, made from an interface name and a key and cut off at 63 bytes
    Host,       \* interface names, hashed from a key
    None,
    MaxSandboxes,  \* bound: requests the runtime makes
    MaxFaults,  \* bound: crashes and failed or unanswered requests
    MaxReboots  \* bound: restarts of the node

\* buildAddRequest and buildDelRequest: endpoint key, workload uid, incarnation,
\* network namespace, static configuration, interface name and logical switch.
Request == [key : STRING, uid : STRING, inc : STRING, ns : STRING, cfg : STRING, name : STRING, ls : STRING]

\* A sandbox asks for an endpoint once, and an incarnation is one sandbox: it is the
\* container's ID unless it is configured.
Identified ==
    \A r, q \in Requests :
        r.key = q.key /\ (r.ns = q.ns \/ (r.uid = q.uid /\ r.inc = q.inc)) => r = q

ASSUME CNIAssumption ==
    /\ Requests \subseteq Request /\ Identified
    /\ {MaxSandboxes, MaxFaults, MaxReboots} \subseteq Nat
    /\ Lsp \in [{ r.name : r \in Requests } \X { r.key : r \in Requests } -> STRING]
    /\ Host \in [{ r.key : r \in Requests } -> STRING]

\* The logical switch port of mapCNIAddRequestToEndpointSpec and buildRecoveredRecord.
PortName(r) == Lsp[<<r.name, r.key>>]

Key == { r.key : r \in Requests }
Uids == { r.uid : r \in Requests }
Incs == { r.inc : r \in Requests }
Cfgs == { r.cfg : r \in Requests }
Namespaces == { r.ns : r \in Requests }
Lsps == { PortName(r) : r \in Requests }
Switches == { r.ls : r \in Requests }
Hosts == { Host[k] : k \in Key }

\* Interfaces of the kernel, logical switch ports and OVS interfaces.
VethRec == [owner : Key \cup {None}, ns : Namespaces \cup {None}, cfg : Cfgs \cup {None}, ready : BOOLEAN]
PortRec == [key : Key, uid : Uids, inc : Incs, cfg : Cfgs, iface : Lsps, on : SUBSET Switches]
IfaceRec == [key : Key, uid : Uids, inc : Incs, lsp : Lsps]

\* None is a value of its own.
ASSUME NoneAssumption ==
    None \notin Requests \cup VethRec \cup PortRec \cup IfaceRec \cup Key \cup Cfgs \cup Namespaces

VARIABLES
    store,    \* Store.records: the request each key was added with, or None
    netrec,   \* linuxVethBackend.records: configuration per key, or None
    veth,     \* host interface: [owner, ns, cfg, ready] or None
    nb,       \* OVN logical switch ports, by name: [key, uid, inc, cfg, iface, on] or None;
              \* on: the switches whose ports it is among
    ovs,      \* OVS interfaces with their port on br-int: [key, uid, inc, lsp] or None
    nsUp,     \* the network namespaces that exist
    client,   \* what the runtime knows of each request
    up,       \* the agent runs
    pc, cur,  \* step of the call in progress and its request
    created, replay, known,  \* locals: veth is new; record was there; DEL found a record
    faults, reboots

memory == <<store, netrec>>
world == <<veth, nb, ovs>>
locals == <<created, replay, known>>
bounds == <<faults, reboots>>
vars == <<memory, world, nsUp, client, up, pc, cur, locals, bounds>>

Nothing(S) == [x \in S |-> None]
Idle == pc = "idle" /\ up

Init ==
    /\ store = Nothing(Key) /\ netrec = Nothing(Key)
    /\ veth = Nothing(Hosts) /\ nb = Nothing(Lsps) /\ ovs = Nothing(Hosts)
    /\ nsUp = Namespaces
    /\ client = [r \in Requests |-> "new"]
    /\ up = TRUE /\ pc = "idle" /\ cur = None
    /\ created = FALSE /\ replay = FALSE /\ known = FALSE
    /\ faults = 0 /\ reboots = 0

Fault == faults < MaxFaults /\ faults' = faults + 1 /\ UNCHANGED reboots
NoFault == UNCHANGED bounds

----------------------------------------------------------------------------
(* Identities *)

\* validateOVNOwnership: same endpoint and workload.
Owns(x, r) == x.key = r.key /\ x.uid = r.uid

\* validateIdentityMatch, on OVS interfaces.
Matches(x, r) == x.key = r.key /\ x.uid = r.uid

\* isStaleDelete.
StaleDelete(x, r) == x.uid # r.uid \/ x.inc # r.inc

Port(r, S) ==
    [key |-> r.key, uid |-> r.uid, inc |-> r.inc, cfg |-> r.cfg, iface |-> PortName(r), on |-> S]
Iface(r) == [key |-> r.key, uid |-> r.uid, inc |-> r.inc, lsp |-> PortName(r)]

\* linuxVethBackend.Check: the host end is owned and up, its peer is in the
\* namespace of the request, and the configuration is the recorded one.
VethChecks(r) ==
    LET v == veth[Host[r.key]]
        cfg == IF netrec[r.key] = None THEN r.cfg ELSE netrec[r.key]
    IN  v # None /\ v.owner = r.key /\ v.ready /\ v.ns = r.ns /\ v.cfg = cfg

\* The interface GetAttachmentByIdentity and DeleteAttachmentWithIdentity find.
Bound(l) == { h \in Hosts : ovs[h] # None /\ ovs[h].lsp = l }

\* CheckLogicalSwitchPortIdentity: findLogicalSwitchForPort answers with some
\* switch that has the port, here ls.
PortChecks(r, ls) ==
    LET p == nb[PortName(r)]
    IN  p # None /\ Owns(p, r) /\ p.inc = r.inc /\ p.iface = PortName(r) /\ ls \in p.on /\ ls = r.ls
\* CheckAttachmentWithIdentity.
AttachmentChecks(r) ==
    \E h \in Bound(PortName(r)) :
        h = Host[r.key] /\ Matches(ovs[h], r) /\ ovs[h].inc = r.inc

\* CNIServer.Check, when the port is found in switch ls.
Check(r, ls) ==
    /\ store[r.key] # None => ~StaleDelete(store[r.key], r)
    /\ PortChecks(r, ls) /\ VethChecks(r) /\ AttachmentChecks(r)

----------------------------------------------------------------------------
(* The runtime *)

\* cmdAdd; an attached sandbox may be added again.
CallAdd(r) ==
    /\ Idle /\ client[r] \in {"new", "added"}
    /\ Cardinality({ q \in Requests \ {r} : client[q] # "new" }) < MaxSandboxes
    /\ client' = [client EXCEPT ![r] = "adding"]
    /\ pc' = "add-net" /\ cur' = r
    /\ created' = FALSE /\ replay' = FALSE /\ known' = FALSE
    /\ UNCHANGED <<memory, world, nsUp, up, bounds>>

\* cmdDel, repeated until it succeeds.
CallDel(r) ==
    /\ Idle /\ client[r] \in {"added", "failed", "deleting"}
    /\ client' = [client EXCEPT ![r] = "deleting"]
    /\ pc' = "del-find" /\ cur' = r
    /\ created' = FALSE /\ replay' = FALSE /\ known' = FALSE
    /\ UNCHANGED <<memory, world, nsUp, up, bounds>>

\* cmdCheck changes nothing but the record of the veth backend.
CallCheck(r) ==
    /\ Idle /\ client[r] = "added"
    /\ store[r.key] # None => ~StaleDelete(store[r.key], r)
    /\ \E ls \in Switches : PortChecks(r, ls)
    /\ VethChecks(r) /\ netrec[r.key] = None
    /\ netrec' = [netrec EXCEPT ![r.key] = r.cfg]
    /\ UNCHANGED <<store, world, nsUp, client, up, pc, cur, locals, bounds>>

\* The reply reaches the runtime; a failed ADD is followed by a DEL.
Return(c) ==
    /\ client' = [client EXCEPT ![cur] = c]
    /\ pc' = "idle" /\ cur' = None
    /\ created' = FALSE /\ replay' = FALSE /\ known' = FALSE

----------------------------------------------------------------------------
(* Add *)

\* linuxVethBackend.Delete: by key, and only an interface with the key's alias.
MayDeleteVeth(k) == veth[Host[k]] # None => veth[Host[k]].owner = k
DeleteVeth(k) ==
    /\ MayDeleteVeth(k)
    /\ veth' = [veth EXCEPT ![Host[k]] = None]
    /\ netrec' = [netrec EXCEPT ![k] = None]

\* equivalentRecord.
Equivalent(x, r) == x = r

\* A new record, or the same one again.
PutRecord(isNew) ==
    \/ /\ store[cur.key] = None
       /\ store' = [store EXCEPT ![cur.key] = cur]
       /\ pc' = "add-nb" /\ created' = isNew /\ replay' = FALSE
       /\ UNCHANGED <<known, client, cur>>
    \/ /\ store[cur.key] # None /\ Equivalent(store[cur.key], cur)
       /\ pc' = "add-nb" /\ created' = isNew /\ replay' = TRUE
       /\ UNCHANGED <<store, known, client, cur>>

Conflicts == store[cur.key] # None /\ ~Equivalent(store[cur.key], cur)

NewVeth(r) == [owner |-> r.key, ns |-> r.ns, cfg |-> r.cfg, ready |-> TRUE]
KeepsRecord == netrec[cur.key] = None \/ netrec[cur.key] = cur.cfg

\* Variant: an interface with the right alias is taken as it is.
AddVerifyNetworkAlias ==
    /\ pc = "add-net" /\ KeepsRecord /\ veth[Host[cur.key]] # None
    /\ veth[Host[cur.key]].owner = cur.key
    /\ netrec' = [netrec EXCEPT ![cur.key] = cur.cfg]
    /\ IF Conflicts THEN Return("failed") /\ UNCHANGED store ELSE PutRecord(FALSE)
    /\ UNCHANGED <<world, nsUp, up, bounds>>

\* network.Ensure finds the interface of the key and verifies it.
AddVerifyNetwork ==
    /\ pc = "add-net" /\ KeepsRecord /\ veth[Host[cur.key]] # None
    /\ VethChecks(cur)
    /\ netrec' = [netrec EXCEPT ![cur.key] = cur.cfg]
    /\ IF Conflicts THEN Return("failed") /\ UNCHANGED store ELSE PutRecord(FALSE)
    /\ UNCHANGED <<world, nsUp, up, bounds>>

\* network.Ensure creates the pair; where the record conflicts it is removed again,
\* and an error of the removal is dropped.
AddCreateNetwork ==
    /\ pc = "add-net" /\ KeepsRecord /\ veth[Host[cur.key]] = None
    /\ cur.ns \in nsUp
    /\ \/ /\ Conflicts /\ Return("failed") /\ UNCHANGED <<store, veth>> /\ NoFault
          /\ netrec' = [netrec EXCEPT ![cur.key] = None]
       \/ /\ veth' = [veth EXCEPT ![Host[cur.key]] = NewVeth(cur)]
          /\ netrec' = [netrec EXCEPT ![cur.key] = cur.cfg]
          /\ IF Conflicts THEN Return("failed") /\ UNCHANGED store /\ Fault ELSE PutRecord(TRUE) /\ NoFault
    /\ UNCHANGED <<nb, ovs, nsUp, up>>

\* network.Ensure refuses, or fails and removes what it made.
AddNetworkFails ==
    /\ pc = "add-net"
    /\ \/ /\ \/ ~KeepsRecord
             \/ veth[Host[cur.key]] # None /\ ~VethChecks(cur)
             \/ veth[Host[cur.key]] = None /\ cur.ns \notin nsUp
          /\ NoFault
       \/ Fault
    /\ Return("failed")
    /\ UNCHANGED <<memory, world, nsUp, up>>

\* An error after the record was put: rolled back unless it was a replay.  An
\* error of the removal itself is dropped.
AddRollback ==
    /\ Return("failed")
    /\ store' = IF replay THEN store ELSE [store EXCEPT ![cur.key] = None]
    /\ \/ created /\ ~replay /\ DeleteVeth(cur.key)
       \/ UNCHANGED <<veth, netrec>>

\* EnsureLogicalSwitchPort: create in the switch, or take over for this incarnation
\* whatever switch it is in, ...
AddPort ==
    LET old == nb[PortName(cur)]
        new == [nb EXCEPT ![PortName(cur)] = Port(cur, IF old = None THEN {cur.ls} ELSE old.on)]
    IN
    /\ pc = "add-nb"
    /\ IF old # None /\ ~Owns(old, cur)
       THEN AddRollback /\ UNCHANGED nb /\ NoFault
       ELSE \/ /\ nb' = new /\ NoFault
               /\ pc' = IF cur.ls \in new[PortName(cur)].on THEN "add-ovs" ELSE "add-ls"
               /\ UNCHANGED <<store, netrec, veth, client, cur, locals>>
            \/ Fault /\ nb' \in {nb, new} /\ AddRollback
    /\ UNCHANGED <<ovs, nsUp, up>>

\* ... and then insert it into the switch of the request as well.
AddPortToSwitch ==
    LET new == [nb EXCEPT ![PortName(cur)].on = @ \cup {cur.ls}] IN
    /\ pc = "add-ls"
    /\ \/ nb' = new /\ NoFault /\ pc' = "add-ovs" /\ UNCHANGED <<store, netrec, veth, client, cur, locals>>
       \/ Fault /\ nb' \in {nb, new} /\ AddRollback
    /\ UNCHANGED <<ovs, nsUp, up>>

\* CreateInterfacePortAndAttachBridge, or UpdateInterface.
Attach(r) == [ovs EXCEPT ![Host[r.key]] = Iface(r)]

\* EnsureAttachmentWithIdentity: the same for the OVS interface.
AddAttachment ==
    LET old == ovs[Host[cur.key]] IN
    /\ pc = "add-ovs"
    /\ IF old # None /\ ~Matches(old, cur)
       THEN AddRollback /\ UNCHANGED ovs /\ NoFault
       ELSE \/ /\ ovs' = Attach(cur) /\ UNCHANGED <<store, netrec, veth>>
               /\ \/ Return("added") /\ NoFault
                  \/ Return("failed") /\ Fault  \* the runtime's deadline has passed
            \/ Fault /\ ovs' \in {ovs, Attach(cur)} /\ AddRollback
    /\ UNCHANGED <<nb, nsUp, up>>

----------------------------------------------------------------------------
(* Del *)

\* The endpoint of the record, or the one rebuilt from the request.
Target == IF known THEN store[cur.key] ELSE cur

\* Variant: without a record the endpoint is taken to be absent.
DelFindOrAbsent ==
    /\ pc = "del-find"
    /\ IF store[cur.key] = None THEN Return("deleted")
       ELSE IF StaleDelete(store[cur.key], cur) THEN Return("stale")
       ELSE known' = TRUE /\ pc' = "del-ovs" /\ UNCHANGED <<client, cur, created, replay>>
    /\ UNCHANGED <<memory, world, nsUp, up, bounds>>

\* deleteIfMatch.
DelFind ==
    /\ pc = "del-find"
    /\ IF store[cur.key] # None /\ StaleDelete(store[cur.key], cur)
       THEN Return("stale")
       ELSE known' = (store[cur.key] # None) /\ pc' = "del-ovs"
            /\ UNCHANGED <<client, cur, created, replay>>
    /\ UNCHANGED <<memory, world, nsUp, up, bounds>>

\* Variant: a stale operation is an error.
DelStaleFails == Return("deleting")

\* A stale operation is a success only where no record was found.
DelStale == IF known THEN Return("deleting") ELSE Return("stale")

\* DetachPortFromBridgeIfInterfaceOwned: OVSDB collects the port and interface.
Detach(h) == [ovs EXCEPT ![h] = None]

\* Variant: any incarnation's interface is detached.
DelAttachmentAnyInc ==
    /\ pc = "del-ovs"
    /\ ovs' = [h \in Hosts |-> IF h \in Bound(PortName(cur)) THEN None ELSE ovs[h]]
    /\ pc' = "del-nb" /\ NoFault
    /\ UNCHANGED <<client, cur, locals, memory, veth, nb, nsUp, up>>

\* DeleteAttachmentWithIdentity: an exact identity, in one conditional transaction.
DelAttachment ==
    /\ pc = "del-ovs"
    /\ \/ /\ Bound(PortName(Target)) = {} /\ NoFault
          /\ pc' = "del-nb" /\ UNCHANGED <<ovs, client, cur, locals>>
       \/ \E h \in Bound(PortName(Target)) :
            \/ ~Matches(ovs[h], Target) /\ Return("deleting") /\ UNCHANGED ovs /\ NoFault
            \/ /\ Matches(ovs[h], Target) /\ ovs[h].inc # Target.inc
               /\ DelStale /\ UNCHANGED ovs /\ NoFault
            \/ /\ Matches(ovs[h], Target) /\ ovs[h].inc = Target.inc
               /\ \/ /\ ovs' = Detach(h) /\ NoFault
                     /\ pc' = "del-nb" /\ UNCHANGED <<client, cur, locals>>
                  \/ /\ Fault /\ Return("deleting")
                     /\ ovs' \in {ovs, Detach(h)}
    /\ UNCHANGED <<memory, veth, nb, nsUp, up>>

\* DeleteLogicalSwitchPort.
DelPort ==
    LET old == nb[PortName(Target)] IN
    /\ pc = "del-nb"
    /\ IF old # None /\ ~Owns(old, Target)
       THEN Return("deleting") /\ UNCHANGED nb /\ NoFault
       ELSE IF old # None /\ old.inc # Target.inc
       THEN DelStale /\ UNCHANGED nb /\ NoFault
       ELSE \/ /\ nb' = [nb EXCEPT ![PortName(Target)] = None] /\ NoFault
               /\ pc' = "del-net" /\ UNCHANGED <<client, cur, locals>>
            \/ Fault /\ nb' \in {nb, [nb EXCEPT ![PortName(Target)] = None]} /\ Return("deleting")
    /\ UNCHANGED <<memory, veth, ovs, nsUp, up>>

\* network.Delete, and the record goes last.
DelNetwork ==
    /\ pc = "del-net"
    /\ \/ /\ ~MayDeleteVeth(cur.key) /\ NoFault
          /\ Return("deleting") /\ UNCHANGED <<memory, veth>>
       \/ /\ DeleteVeth(cur.key)
          /\ store' = [store EXCEPT ![cur.key] = None]
          /\ \/ Return("deleted") /\ NoFault
             \/ Return("deleting") /\ Fault  \* the runtime's deadline has passed
       \/ Fault /\ Return("deleting") /\ UNCHANGED <<memory, veth>>
    /\ UNCHANGED <<nb, ovs, nsUp, up>>

----------------------------------------------------------------------------
(* The agent and the node *)

\* A call in progress fails at the runtime.
Interrupt ==
    client' = [r \in Requests |-> IF r # cur THEN client[r]
                                   ELSE IF client[r] = "adding" THEN "failed" ELSE client[r]]
Stops ==
    /\ up' = FALSE /\ pc' = "idle" /\ cur' = None
    /\ store' = Nothing(Key) /\ netrec' = Nothing(Key)
    /\ created' = FALSE /\ replay' = FALSE /\ known' = FALSE

\* The agent dies, possibly while the veth pair is being made: then the host end
\* is left, with its alias or without, or the finished pair.
Crash ==
    /\ up /\ Fault /\ Stops /\ Interrupt
    /\ \/ UNCHANGED veth
       \/ /\ pc = "add-net" /\ veth[Host[cur.key]] = None /\ cur.ns \in nsUp
          /\ \E v \in {NewVeth(cur)} \cup [owner : {None, cur.key}, ns : {None}, cfg : {None},
                                           ready : {FALSE}] :
               veth' = [veth EXCEPT ![Host[cur.key]] = v]
    /\ UNCHANGED <<nb, ovs, nsUp>>

\* UnixServer.Stop waits for the operations mutex.
Stop ==
    /\ Idle /\ Fault /\ Stops
    /\ UNCHANGED <<world, nsUp, client>>

Start ==
    /\ ~up /\ up' = TRUE
    /\ UNCHANGED <<memory, world, nsUp, client, pc, cur, locals, bounds>>

\* The node restarts: interfaces and the namespaces of all sandboxes made so far
\* are gone, the databases are not.
Reboot ==
    /\ reboots < MaxReboots /\ reboots' = reboots + 1 /\ UNCHANGED faults
    /\ Stops /\ Interrupt
    /\ veth' = Nothing(Hosts)
    /\ nsUp' = { n \in Namespaces : \A r \in Requests : r.ns = n => client[r] = "new" }
    /\ UNCHANGED <<nb, ovs>>

\* The runtime removes the namespace of a sandbox, and with it the veth pairs of its
\* attachments.
RemoveNamespace(r) ==
    /\ r.ns \in nsUp /\ client[r] \in {"failed", "deleting", "deleted", "stale"}
    /\ \A q \in Requests : q.ns = r.ns => client[q] \notin {"adding", "added"}
    /\ nsUp' = nsUp \ {r.ns}
    /\ veth' = [h \in Hosts |-> IF veth[h] # None /\ veth[h].ns = r.ns THEN None ELSE veth[h]]
    /\ UNCHANGED <<memory, nb, ovs, client, up, pc, cur, locals, bounds>>

\* The steps of the endpoint manager.
EnsureEndpoint == AddPort \/ AddPortToSwitch \/ AddAttachment
DeleteEndpoint == DelAttachment \/ DelPort

Step ==
    \/ AddVerifyNetwork \/ AddCreateNetwork \/ AddNetworkFails \/ EnsureEndpoint
    \/ DelFind \/ DeleteEndpoint \/ DelNetwork
Call == \E r \in Requests : CallAdd(r) \/ CallDel(r) \/ CallCheck(r)
Next ==
    \/ Step \/ Call \/ Crash \/ Stop \/ Start \/ Reboot
    \/ \E r \in Requests : RemoveNamespace(r)

Spec == Init /\ [][Next]_vars
\* Calls finish, the agent is restarted, and the runtime repeats a failed DEL.
FairSpec ==
    /\ Spec /\ WF_vars(Step) /\ WF_vars(Start)
    /\ \A r \in Requests : SF_vars(CallDel(r) /\ client[r] \in {"failed", "deleting"})

----------------------------------------------------------------------------
(* Properties *)

Phase == {"new", "adding", "added", "failed", "deleting", "deleted", "stale"}
TypeOK ==
    /\ client \in [Requests -> Phase]
    /\ \A k \in Key : store[k] # None => store[k] \in Requests /\ store[k].key = k
    /\ \A h \in Hosts : ovs[h] # None =>
         ovs[h] \in IfaceRec
    /\ \A l \in Lsps : nb[l] # None => nb[l].key \in Key /\ nb[l].inc \in Incs
    /\ cur = None <=> pc = "idle"

\* The only way a port gets into two switches: a request with the same port name
\* and another switch has been before.
Moved(r) ==
    \E q \in Requests : PortName(q) = PortName(r) /\ Owns(q, r) /\ q.ls # r.ls /\ client[q] # "new"

\* "returning the CNI result only after the required operations succeed": at the
\* moment ADD succeeds, a CHECK of the same request can succeed, and must succeed
\* unless the endpoint has moved to another logical switch, also for a replay,
\* after crashes, and when an older incarnation is taken over.
AddedPassesCheck ==
    [][ \A r \in Requests :
          client[r] = "adding" /\ client'[r] = "added" =>
            /\ Check(r, r.ls)'
            /\ Moved(r) \/ \A ls \in nb'[PortName(r)].on : Check(r, ls)' ]_vars

\* When every sandbox of an endpoint that was ever attached has had a DEL answer
\* DELETED, nothing of the endpoint is left on the node or in the databases.  The
\* type invariant is a conjunct.
AllDeletedLeavesNothing ==
    TypeOK /\ \A k \in Key :
        (\A r \in Requests : r.key = k => client[r] \in {"new", "deleted"}) =>
            /\ store[k] = None
            /\ \A h \in Hosts : veth[h] # None => veth[h].owner # k
            /\ \A l \in Lsps : nb[l] # None => nb[l].key # k
            /\ \A h \in Hosts : ovs[h] # None => ovs[h].key # k

\* Agents that have lost their records recognise a replaced incarnation by its port:
\* a DEL of one with another port name finds nothing of the replacement.
Unrecognised(r) == store[r.key] = None /\ cur.key = r.key /\ PortName(cur) # PortName(r)

\* What r uses.
HasEndpoint(r) ==
    /\ nb[PortName(r)] # None /\ nb[PortName(r)] = Port(r, nb[PortName(r)].on) /\ r.ls \in nb[PortName(r)].on
    /\ ovs[Host[r.key]] = Iface(r)
HasVeth(r) == veth[Host[r.key]] = NewVeth(r)

\* A call for one request never takes away what an attached sandbox of another
\* one uses, be it another incarnation of the endpoint or an endpoint whose names
\* collide: "a stale workload incarnation must not delete a replacement endpoint".
\* Only the veth pair of an incarnation that was given another port name may go,
\* with a DEL after a restart of the agent.
AttachedIsKept ==
    [][ \A r \in Requests :
          client[r] = "added" /\ r.ns \in nsUp' /\ cur # None /\ cur # r /\ HasEndpoint(r) /\ HasVeth(r) =>
            HasEndpoint(r)' /\ (HasVeth(r)' \/ (pc = "del-net" /\ Unrecognised(r))) ]_<<nb, ovs, veth>>

\* The two states in which a DEL can fail for ever: an interface left without its
\* alias, and another endpoint, or workload, in possession of the names.
Stuck(r) ==
    \/ veth[Host[r.key]] # None /\ veth[Host[r.key]].owner # r.key
    \/ nb[PortName(r)] # None /\ ~Owns(nb[PortName(r)], r)
    \/ \E h \in Bound(PortName(r)) : ~Matches(ovs[h], r)

\* A DEL that the runtime repeats succeeds, or the endpoint is stuck.
DelSucceeds ==
    \A r \in Requests :
        client[r] = "deleting" ~> (client[r] \in {"deleted", "stale"} \/ Stuck(r))
====
