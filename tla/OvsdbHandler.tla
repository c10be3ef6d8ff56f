---------------------------- MODULE OvsdbHandler ----------------------------
(***************************************************************************)
(* services/bgp_ad_handler in OVSDB mode, with the ovsdb_mgmt server it    *)
(* calls.  A path is handled by a sequence of calls: the network is looked *)
(* up, then a remote route gets a VTEP and a client on its transit port, a *)
(* local one a port of its own.  A call that fails ends the handling; only *)
(* transient failures of some calls are tried again.  The port names of    *)
(* earlier releases, which are cleaned up too, hold nothing here.          *)
(***************************************************************************)
EXTENDS OvsdbMgmt, RouteStream

CONSTANTS Self,        \* the handler as a caller
          Net,         \* the network's name
          Kind,        \* of a route: "remote", "local", "odd" (neither neighbour nor local source), "novni"
          Transit,     \* the transit port named after a route's source
          Remote,      \* the neighbour's address
          LocalPort,   \* the client port named after a route's IP
          Addr,        \* its "mac ip"
          Attempts     \* bound: tries of ovsdbWithRetry

ASSUME NlriAssumption ==
  /\ Self # Old /\ {Self, Old} \subseteq Calls
  /\ \A r, q \in Routes : Nlri[r] = Nlri[q] => Addr[r] = Addr[q] /\ LocalPort[r] = LocalPort[q]

VARIABLES h        \* the path in hand: [pc, r, wd, told, att], and whether its address was seen on
                   \* the local client port (held) when it was looked for

hvars == <<vars, stream, h>>
nbovs == <<setup, sw, cfg, lsp, iface, port, networks>>

NoPath == [pc |-> "idle", r |-> None, wd |-> FALSE, told |-> FALSE, att |-> 1, held |-> FALSE]

\* Other callers are looked at without a handler.
NoWorld == [routes |-> {}, changes |-> 0, breaks |-> 0]
HInit ==
  /\ Init
  /\ IF setup.tables = {} THEN StreamInit({NoWorld}) /\ h = [NoPath EXCEPT !.pc = "off"]
                           ELSE StreamInit(setup.tables) /\ h = [NoPath EXCEPT !.pc = "boot"]

Returned == call[Self].pc = "idle"
Res == call[Self].res
Busy == IF h.pc \in {"off", "idle", "boot", "booting"} THEN {} ELSE {h.r}

Req(op, r) == [op |-> op, ls |-> Net,
               lsp |-> IF op \in {"AddLogicalSwitchPort", "DelLogicalSwitchPort"} THEN LocalPort[r] ELSE Transit[r],
               remote |-> Remote[r], addr |-> Addr[r]]
NetReq(op) == [op |-> op, ls |-> Net, lsp |-> "-", remote |-> "-", addr |-> "-"]

\* A call that starts, or does not reach the server.
Rpc(q) ==
  \/ Begin(Self, q)
  \/ /\ call[Self].pc = "idle" /\ faults < setup.faults
     /\ faults' = faults + 1
     /\ call' = [call EXCEPT ![Self] = [Idle EXCEPT !.res = "down"]]
     /\ UNCHANGED <<nbovs, book, raced>>

rest == <<world, table, rib, phase, todo, queue, shadowed, changes, breaks>>
Go(p) == h' = [h EXCEPT !.pc = p, !.att = 1] /\ UNCHANGED stream
Done == h' = NoPath /\ Handled(h.r, h.told) /\ UNCHANGED rest
GiveUp == h' = NoPath /\ Dropped(h.r) /\ UNCHANGED rest

Transient == Res \in {"transient", "down"}

\* ovsdbWithRetry: a transient failure is tried again, up to Attempts.
Again(p, q) ==
  /\ h.pc = p /\ Returned /\ Transient /\ h.att < Attempts
  /\ Rpc(q)
  /\ h' = [h EXCEPT !.att = @ + 1]
  /\ UNCHANGED stream
Failed == Res # "ok" /\ (Transient => h.att >= Attempts)

-----------------------------------------------------------------------------
\* main: the network is ensured, then the table is listed.
Boot ==
  /\ h.pc = "boot" /\ Returned
  /\ Rpc(NetReq("AddNetwork"))
  /\ Go("booting")

Booted ==
  /\ h.pc = "booting" /\ Returned
  /\ UNCHANGED vars
  /\ IF Res = "ok" THEN h' = NoPath /\ List
     ELSE Failed /\ h' = [h EXCEPT !.pc = "boot", !.att = 1] /\ UNCHANGED stream   \* log.Fatalf, and started again

\* A path is taken and its network looked up.
TakePath ==
  /\ h.pc = "idle" /\ Returned
  /\ \E r \in Routes, wd, told \in BOOLEAN :
       /\ Take(r, wd, told)
       /\ h' = [NoPath EXCEPT !.pc = "net", !.r = r, !.wd = wd, !.told = told]
  /\ Rpc(NetReq("GetNetwork"))
  /\ UNCHANGED <<world, table, rib, phase, missed, shadowed, dropped, changes, breaks>>

\* The local client port already has this address: the route is a reflection of it.
Reflected == lsp[LocalPort[h.r]] # None /\ Addr[h.r] \in lsp[LocalPort[h.r]].addrs

\* GetLogicalSwitchPort fails: the handler goes on as if there were no such port.
Unanswered == faults < setup.faults /\ faults' = faults + 1 /\ UNCHANGED <<nbovs, call, book, raced>>

\* The path goes on from the look at the local client port.
Looked(p) == h' = [h EXCEPT !.pc = p, !.held = Reflected] /\ UNCHANGED stream


\* What a path calls for once its network is there.
StartPath ==
  CASE Kind[h.r] = "novni" -> Done /\ UNCHANGED vars
    [] h.wd /\ Kind[h.r] = "remote" -> Rpc(Req("DelClient", h.r)) /\ Go("withdrawn")
    [] h.wd /\ Kind[h.r] = "local" ->
         IF lsp[LocalPort[h.r]] = None THEN Done /\ UNCHANGED vars ELSE Rpc(Req("DelLogicalSwitchPort", h.r)) /\ Go("removed")
    [] h.wd /\ Kind[h.r] = "odd" -> Done /\ UNCHANGED vars
    [] ~h.wd /\ Kind[h.r] = "remote" ->
         IF Reflected THEN (Rpc(Req("DelClient", h.r)) /\ Looked("cleaned")) \/ (Unanswered /\ Looked("unread"))
                      ELSE Rpc(Req("AddVtep", h.r)) /\ Looked("vtep")
    [] OTHER -> Rpc(Req("AddLogicalSwitchPort", h.r)) /\ Go("local")

\* Variant: an error of GetNetwork is left to a retry that never comes.
NetworkKnownAbsent ==
  /\ h.pc = "net" /\ Returned
  /\ \/ Res = "ok" /\ StartPath
     \/ Res = "absent" /\ Rpc(NetReq("AddNetwork")) /\ Go("ensured")

\* GetNetwork answered: an unknown network, or an error, is followed by AddNetwork.
NetworkKnown ==
  /\ h.pc = "net" /\ Returned
  /\ IF Res = "ok" THEN StartPath ELSE Rpc(NetReq("AddNetwork")) /\ Go("ensured")

NetworkEnsured ==
  /\ h.pc = "ensured" /\ Returned
  /\ IF Res = "ok" THEN StartPath ELSE GiveUp /\ UNCHANGED vars

LookupFailed == h.pc = "unread" /\ Returned /\ Rpc(Req("AddVtep", h.r)) /\ Go("vtep")

VtepAdded ==
  /\ h.pc = "vtep" /\ Returned
  /\ IF Res = "ok" THEN Rpc(Req("AddClient", h.r)) /\ Go("client")
     ELSE Failed /\ GiveUp /\ UNCHANGED vars

ClientAdded ==
  /\ h.pc = "client" /\ Returned
  /\ (Res = "ok" /\ Done) \/ (Failed /\ GiveUp)
  /\ UNCHANGED vars

LocalAdded ==
  /\ h.pc = "local" /\ Returned
  /\ (Res = "ok" /\ Done) \/ (Failed /\ GiveUp)
  /\ UNCHANGED vars

Retry ==
  \/ Again("booting", NetReq("AddNetwork"))
  \/ Again("vtep", Req("AddVtep", h.r))
  \/ Again("client", Req("AddClient", h.r))
  \/ Again("local", Req("AddLogicalSwitchPort", h.r))

\* The cleanup of a reflected route is best effort.
ReflectionCleaned == h.pc = "cleaned" /\ Returned /\ Done /\ UNCHANGED vars


\* A transport error ends the withdrawal, a refusal does not: the handler goes on, though the address may
\* still be there.  A port left without clients goes.
ClientWithdrawn ==
  /\ h.pc = "withdrawn" /\ Returned
  /\ IF Res = "down" THEN GiveUp /\ UNCHANGED vars
     ELSE IF lsp[Transit[h.r]] # None /\ lsp[Transit[h.r]].addrs = {}
     THEN Rpc(Req("DelVtep", h.r)) /\ Go("emptied")
     ELSE UNCHANGED vars /\ IF Res # "ok" /\ lsp[Transit[h.r]] # None THEN GiveUp ELSE Done

\* The address is gone, whatever DelVtep answers.
VtepRemoved == h.pc = "emptied" /\ Returned /\ Done /\ UNCHANGED vars

LocalRemoved == h.pc = "removed" /\ Returned /\ Done /\ UNCHANGED vars

\* The handler restarts.  A call it had made goes on in the server, beside those of the new process.
HRestart ==
  /\ StreamRestart(Busy)
  /\ h' = [NoPath EXCEPT !.pc = "boot"]
  /\ IF Returned THEN UNCHANGED call
     ELSE call[Old].pc = "idle" /\ call' = [call EXCEPT ![Old] = call[Self], ![Self] = Idle]
  /\ UNCHANGED <<nbovs, book, raced, faults>>

\* Only AddVtep, DelVtep, AddClient and DelClient run to their end without their caller.
Cancelled ==
  /\ call[Old].pc \in {"portNew", "portOVS", "portDel", "netNew", "netCfg"}
  /\ call' = [call EXCEPT ![Old] = Idle]
  /\ UNCHANGED <<nbovs, book, raced, faults, stream, h>>

Handler ==
  \/ Boot \/ Booted \/ TakePath \/ NetworkKnown \/ NetworkEnsured \/ LookupFailed \/ VtepAdded \/ ClientAdded \/ LocalAdded \/ Retry
  \/ ReflectionCleaned \/ ClientWithdrawn \/ VtepRemoved \/ LocalRemoved
  \/ (h.pc = "idle" /\ (ListEnd \/ Subscribe) /\ UNCHANGED <<vars, h>>)

Serve == (\E c \in {Self, Old} : Step(c)) /\ UNCHANGED <<stream, h>>

HNext ==
  \/ Handler
  \/ Serve
  \/ HRestart
  \/ Cancelled
  \/ (\E r \in Routes : RibChange(r)) /\ UNCHANGED <<vars, h>>
  \/ h.pc = "idle" /\ Break /\ UNCHANGED <<vars, h>>
  \/ (\E s \in Servers : Restart(s)) /\ UNCHANGED <<stream, h>>
  \/ \E c \in Calls \ {Self, Old} : Caller(c) /\ UNCHANGED <<stream, h>>

\* The handler is one goroutine that runs whenever its call has returned; the server works off its calls.
HSpec == HInit /\ [][HNext]_hvars
Running == h.pc # "off" /\ (Handler \/ Serve)
FairSpec == HSpec /\ WF_hvars(Running)

-----------------------------------------------------------------------------
(* Properties.                                                              *)

HType == TypeOK /\ StreamType

Learned(r) == lsp[Transit[r]] # None /\ Addr[r] \in lsp[Transit[r]].addrs
Quiet == phase = "watch" /\ queue = <<>> /\ h.pc = "idle" /\ Returned
Alone(r) ==
  /\ \A q \in world.routes \ Same(r) : Addr[q] # Addr[r]
  /\ \A c \in Calls : \A q \in setup.reqs[c] : q.addr # Addr[r]
Disturbed(r) == <<"write", Transit[r]>> \in raced

\* When the handler has nothing left to do, the clients on the transit ports are the best paths of the
\* speaker, except for paths that changed while it was not subscribed, that gave way to another path of
\* their NLRI, or whose handling gave up; and for ports that two calls, of the handler and of the one it
\* replaced, were at work on at once.
Converged ==
  Quiet => \A r \in world.routes \ (missed \cup shadowed \cup dropped) :
             (Kind[r] = "remote" /\ Alone(r) /\ ~Disturbed(r)) => (Learned(r) <=> r \in rib)

\* A transit port with clients has its tunnel, whichever call failed and wherever the server stopped.
TunnelBacked ==
  h.pc # "off" => \A n \in {Transit[r] : r \in world.routes} : (lsp[n] # None /\ lsp[n].addrs # {}) => iface[Srv(Self)][n] # None

\* What the two services hold agrees with each other and with the speaker: the server's map with the
\* switches, the ports with the acknowledged addresses and with the routes, the tunnels with the ports.
Consistent == HType /\ CacheCoherent /\ AddressesKept /\ Converged /\ TunnelBacked


\* The remote routes are all learned in the end, except for those that were missed or given up.
RoutesLearned ==
  []<>(\A r \in rib \ (missed \cup dropped) : (Kind[r] = "remote" /\ Alone(r) /\ ~Disturbed(r)) => Learned(r))
=============================================================================
