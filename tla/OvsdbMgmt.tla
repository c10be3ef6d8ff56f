----------------------------- MODULE OvsdbMgmt -----------------------------
(***************************************************************************)
(* services/ovsdb_mgmt: the gRPC service that keeps logical switches,     *)
(* logical switch ports and VXLAN interfaces for the legacy route          *)
(* handler.  Several servers (one per node) write one northbound database  *)
(* and each its own switch database.  A call is a sequence of reads of the *)
(* client's copy and of transactions; calls interleave between them.       *)
(* No transaction carries a precondition on what was read.                 *)
(***************************************************************************)
EXTENDS Integers, FiniteSets, FiniteSetsExt

CONSTANTS Calls,       \* the callers, one call in progress each
          Old,         \* the one among them for a call whose caller is gone
          Servers,     \* the ovsdb_mgmt processes
          Setups,      \* the server a caller talks to, the requests it makes, the switches
                       \* (old) that may be there, and whether a read of the northbound copy
                       \* may lack a recent row; what a List of the OVS client may show
                       \* (views: "rows", "empty"); the bound on failed transactions and
                       \* restarts; and the tables of the speaker, {} without a handler
          NetNames,    \* names of networks, as requested and as truncated
          Trunc,       \* truncateName on them
          Lsps,        \* names of logical switch ports and of their interfaces
          Foreign,     \* an OVS port and interface of somebody else
          Addrs,       \* "mac ip" strings
          Switches,    \* identities of logical switch rows
          Uids,        \* identities of logical switch port rows
          None

ASSUME TruncAssumption == Trunc \in [NetNames -> NetNames]
ASSUME SetupAssumption == \A s \in Setups : /\ s.server \in [Calls -> Servers] /\ s.lag \in BOOLEAN
                                          /\ s.old \subseteq NetNames
ASSUME UidAssumption == 0 \notin Uids /\ 0 \notin Switches

VARIABLES sw,        \* Logical_Switch rows: the name, or None
          cfg,       \* the ones with the dynamic-routing configuration
          lsp,       \* Logical_Switch_Port rows by name: identity, addresses, the switches that hold it
          iface,     \* Interface rows of a server's OVS, by name: iface-id and tunnel remote
          port,      \* Port rows by name: the interfaces they hold, {} when there is no row
          networks,  \* OvsdbServer.networks: a cached switch identity, or 0
          call,      \* the call in progress of a caller
          book,      \* history: addresses whose addition was acknowledged and not yet asked back
          raced,     \* history: the ports and servers whose state a call changed under another one
          setup,     \* fixed
          faults

ovs == <<iface, port>>
vars == <<setup, sw, cfg, lsp, iface, port, networks, call, book, raced, faults>>

Ifaces == Lsps \cup {Foreign}
Idle == [pc |-> "idle", req |-> None, ls |-> 0, uid |-> 0, seen |-> {}, res |-> "none"]
Srv(c) == setup.server[c]

\* The node's switch may be there already, made by somebody else and not configured.
Init ==
  /\ setup \in Setups
  /\ \E n \in setup.old \cup {None} : sw = [i \in Switches |-> IF i = Min(Switches) THEN n ELSE None]
  /\ cfg = {}
  /\ lsp = [n \in Lsps |-> None]
  /\ iface = [s \in Servers |-> [i \in Ifaces |-> IF i = Foreign THEN [ids |-> Foreign, opts |-> "system"] ELSE None]]
  /\ port = [s \in Servers |-> [p \in Ifaces |-> IF p = Foreign THEN {Foreign} ELSE {}]]
  /\ networks = [s \in Servers |-> [n \in NetNames |-> 0]]
  /\ call = [c \in Calls |-> Idle]
  /\ book = {} /\ raced = {}
  /\ faults = 0

-----------------------------------------------------------------------------
(* The databases.                                                           *)

ByName(n) == {i \in Switches : sw[i] = n}
Named(n) == {lsp[n]} \cup (IF setup.lag THEN {None} ELSE {})
Alive(n, u) == lsp[n] # None /\ lsp[n].uid = u

\* An identity no row, copy or call refers to.
FreshSwitch ==
  Min(Switches \ ({i \in Switches : sw[i] # None} \cup {call[c].ls : c \in Calls}
                  \cup {networks[s][n] : s \in Servers, n \in NetNames}))
FreshUid ==
  Min(Uids \ ({lsp[n].uid : n \in {m \in Lsps : lsp[m] # None}} \cup {call[c].uid : c \in Calls}
              \cup UNION {call[c].seen : c \in {d \in Calls : call[d].pc = "netCfg"}}))

\* Logical_Switch_Port is not a root table: a row no switch holds is collected.
Collect(rows) == [n \in Lsps |-> IF rows[n] # None /\ rows[n].on = {} THEN None ELSE rows[n]]

\* A mutation of a switch row that is gone changes nothing.
Attach(n, i) == IF sw[i] = None THEN lsp ELSE [lsp EXCEPT ![n].on = @ \cup {i}]

\* An Interface row no port holds is collected.
CommitOvs(s, ifs, ps) ==
  /\ port' = [port EXCEPT ![s] = ps]
  /\ iface' = [iface EXCEPT ![s] = [i \in Ifaces |-> IF \E p \in Ifaces : i \in ps[p] THEN ifs[i] ELSE None]]

\* A strong reference keeps a row from being deleted.  Every Port row is in the ports of the bridge it
\* was made for, and no call takes it out of there.
Deletable(row) == row.on = {}

-----------------------------------------------------------------------------
(* Calls and answers.                                                       *)

\* What a step of c changes while another call is at work on it: a port's row ("write"), the row or the
\* switches that hold it when it loses one ("lose"); or the switch a server's map or call still names
\* ("cache").  A row that is there although the call has not seen it counts as written, and so does what
\* a call without a caller changes, under whoever has come in its place.
Race(c) ==
  LET others == {d \in Calls \ {c} : call[d].pc # "idle"}
      Met(n) == c = Old \/ \E d \in others : call[d].req.lsp = n \/ call[d].pc \in {"netCfg", "netDel"}
      met == {n \in Lsps : lsp'[n] # lsp[n] /\ Met(n)}
      unseen == {n \in Lsps : call[c].pc = "portNew" /\ call[c].req.lsp = n /\ lsp[n] # None}
      gone == {i \in Switches : sw[i] # None /\ sw'[i] = None}
      Kept(n) == lsp[n] = None \/ (lsp'[n] # None /\ lsp'[n].uid = lsp[n].uid /\ lsp[n].on \subseteq lsp'[n].on)
      Stale(s) == \/ s # Srv(c) /\ \E n \in NetNames : networks[s][n] \in gone
                  \/ \E d \in others : Srv(d) = s /\ call[d].ls \in gone
  IN raced' = raced \cup ({"write"} \X (met \cup unseen)) \cup ({"lose"} \X {n \in met : ~Kept(n)})
                   \cup ({"cache"} \X {s \in Servers : Stale(s)})

\* The request asks for the removal of an address from a port.
Asks(r, b) ==
  \/ r.op = "DelClient" /\ b = <<r.lsp, r.addr>>
  \/ r.op \in {"DelVtep", "DelLogicalSwitchPort"} /\ b[1] = r.lsp
  \/ r.op = "DelNetwork"

\* An addition is booked when it is acknowledged, unless its removal is being asked for.
Answer(c, r, res) ==
  /\ call' = [call EXCEPT ![c] = [Idle EXCEPT !.res = res, !.req = IF res = "nonet" THEN r ELSE None]]
  /\ book' = IF /\ res = "ok" /\ r.op \in {"AddClient", "AddLogicalSwitchPort"}
                /\ \A d \in Calls : call[d].pc # "idle" => ~Asks(call[d].req, <<r.lsp, r.addr>>)
               THEN book \cup {<<r.lsp, r.addr>>} ELSE book
  /\ Race(c)

Proceed(c, st) == call' = [call EXCEPT ![c] = st] /\ UNCHANGED book /\ Race(c)

\* A removal that is asked for takes the addition out of the book at once.
Removal(c, r, st) == call' = [call EXCEPT ![c] = st] /\ book' = {b \in book : ~Asks(r, b)} /\ UNCHANGED raced

\* A transaction that fails: not connected (the client may retry) or refused.
Fault(c) ==
  /\ faults < setup.faults
  /\ faults' = faults + 1
  /\ UNCHANGED <<setup, sw, cfg, lsp, iface, port, networks>>
  /\ \E res \in {"transient", "fail"} : Answer(c, call[c].req, res)

\* AddVtep and DelVtep look the network up by the name of the request.
FindSwitch(s, n) == IF networks[s][n] # 0 THEN {networks[s][n]} ELSE ByName(n)

St(r, p, i, u, seen) == [pc |-> p, req |-> r, ls |-> i, uid |-> u, seen |-> seen, res |-> "none"]
UidOf(row) == IF row = None THEN 0 ELSE row.uid

-----------------------------------------------------------------------------
(* AddVtep.                                                                 *)

AddVtepBegin(c, r) ==
  /\ UNCHANGED <<setup, sw, cfg, lsp, iface, port, networks, faults>>
  /\ IF FindSwitch(Srv(c), r.ls) = {}
       THEN Answer(c, r, "nonet")
       ELSE \E i \in FindSwitch(Srv(c), r.ls), row \in Named(r.lsp) :
              Proceed(c, St(r, "vtepNB", i, UidOf(row), {}))

\* Variant: a duplicate name ends the call as done, without attaching the port that was there.
AddVtepNBNoAttach(c) ==
  LET k == call[c]
      n == k.req.lsp
  IN /\ k.pc = "vtepNB"
     /\ UNCHANGED <<setup, sw, cfg, iface, port, networks, faults>>
     /\ IF k.uid = 0 /\ lsp[n] = None
          THEN /\ lsp' = Collect([lsp EXCEPT ![n] = [uid |-> FreshUid, addrs |-> {}, on |-> {k.ls} \cap {i \in Switches : sw[i] # None}]])
               /\ Proceed(c, [k EXCEPT !.pc = "vtepOVS"])
          ELSE /\ UNCHANGED lsp
               /\ Proceed(c, [k EXCEPT !.pc = "vtepOVS"])

\* The transaction: create the port if it was not seen, and hold it in the switch.
AddVtepNB(c) ==
  LET k == call[c]
      n == k.req.lsp
  IN /\ k.pc = "vtepNB"
     /\ UNCHANGED <<setup, sw, cfg, iface, port, networks, faults>>
     /\ \/ /\ k.uid = 0 /\ lsp[n] = None
           /\ lsp' = Collect([lsp EXCEPT ![n] = [uid |-> FreshUid, addrs |-> {}, on |-> {k.ls} \cap {i \in Switches : sw[i] # None}]])
           /\ Proceed(c, [k EXCEPT !.pc = "vtepOVS"])
        \/ /\ k.uid = 0 /\ lsp[n] # None            \* the name is taken: query again
           /\ UNCHANGED lsp
           /\ \E row \in Named(n) :
                IF row = None THEN Answer(c, k.req, "fail")
                              ELSE Proceed(c, [k EXCEPT !.pc = "vtepAttach", !.uid = row.uid])
        \/ /\ k.uid # 0
           /\ IF Alive(n, k.uid) \/ sw[k.ls] = None
                THEN lsp' = (IF Alive(n, k.uid) THEN Attach(n, k.ls) ELSE lsp) /\ Proceed(c, [k EXCEPT !.pc = "vtepOVS"])
                ELSE UNCHANGED lsp /\ Answer(c, k.req, "fail")

\* The second mutation after a duplicate name; its errors are only logged.
AddVtepAttach(c) ==
  LET k == call[c]
      n == k.req.lsp
  IN /\ k.pc = "vtepAttach"
     /\ \/ lsp' = (IF Alive(n, k.uid) THEN Attach(n, k.ls) ELSE lsp) /\ UNCHANGED faults
        \/ faults < setup.faults /\ faults' = faults + 1 /\ UNCHANGED lsp
     /\ UNCHANGED <<setup, sw, cfg, iface, port, networks>>
     /\ Proceed(c, [k EXCEPT !.pc = "vtepOVS"])

\* The interface AddVtep works on: the one with the name, else one with the same tunnel, else none.
Resolved(ifs, s, n, remote) ==
  LET same == {i \in ifs : iface[s][i].opts = remote}
  IN IF n \in ifs THEN {n} ELSE IF same # {} THEN same ELSE {None}

\* Its repair: iface-id, and for the one with the name type and options too.
Repaired(s, n, t, remote) ==
  IF t = None THEN iface[s]
  ELSE IF t = n THEN [iface[s] EXCEPT ![n] = [ids |-> n, opts |-> remote]]
  ELSE [iface[s] EXCEPT ![t].ids = n]

\* The objects still missing, in one transaction; when the port is there, the first port
\* listed is made to hold the interface if it does not.  A duplicate name aborts and counts as done.
CreateTunnel(s, n, t, remote, ifs, ps) ==
  LET have == n \in ps \/ (t # None /\ \E p \in ps : t \in port[s][p])
      made == [ifs EXCEPT ![n] = [ids |-> n, opts |-> remote]]
      tgt  == IF t = None THEN n ELSE t
      new  == IF t = None THEN made ELSE ifs
  IN IF (t = None /\ ifs[n] # None) \/ (~have /\ port[s][n] # {})
       THEN CommitOvs(s, ifs, port[s])
       ELSE IF ~have THEN CommitOvs(s, new, [port[s] EXCEPT ![n] = {tgt}])
       ELSE \E first \in ps :
              IF tgt \in port[s][first] THEN CommitOvs(s, new, port[s])
                                        ELSE CommitOvs(s, new, [port[s] EXCEPT ![first] = {tgt}])

\* Interface, port and bridge; then the port is read back (getVtep).
AddVtepOVS(c) ==
  LET k == call[c]
      s == Srv(c)
      n == k.req.lsp
  IN /\ k.pc = "vtepOVS"
     /\ UNCHANGED <<setup, sw, cfg, lsp, networks>>
     /\ \E view \in setup.views :
          LET ifs == IF view = "rows" THEN {i \in Ifaces : iface[s][i] # None} ELSE {}
              ps  == IF view = "rows" THEN {p \in Ifaces : port[s][p] # {}} ELSE {}
          IN \E t \in Resolved(ifs, s, n, k.req.remote) :
               \/ CreateTunnel(s, n, t, k.req.remote, Repaired(s, n, t, k.req.remote), ps) /\ UNCHANGED faults
               \/ /\ t # None /\ faults < setup.faults /\ faults' = faults + 1   \* a failed repair is only logged
                  /\ CreateTunnel(s, n, t, k.req.remote, iface[s], ps)
     /\ Answer(c, k.req, IF lsp[n] # None THEN "ok" ELSE "fail")

-----------------------------------------------------------------------------
(* DelVtep: the northbound rows, then the OVS port.                         *)

DelVtepBegin(c, r) ==
  /\ UNCHANGED <<setup, sw, cfg, lsp, iface, port, networks, faults>>
  /\ IF FindSwitch(Srv(c), r.ls) = {}
       THEN Answer(c, r, "nonet")
       ELSE IF lsp[r.lsp] = None
       THEN Removal(c, r, [Idle EXCEPT !.res = "fail"])
       ELSE \E i \in FindSwitch(Srv(c), r.ls) : Removal(c, r, St(r, "delNB", i, lsp[r.lsp].uid, {}))

DelVtepNB(c) ==
  LET k == call[c]
      n == k.req.lsp
  IN /\ k.pc = "delNB"
     /\ UNCHANGED <<setup, sw, cfg, iface, port, networks, faults>>
     /\ IF Alive(n, k.uid) /\ ~Deletable([lsp[n] EXCEPT !.on = @ \ {k.ls}])
          THEN UNCHANGED lsp /\ Answer(c, k.req, "fail")
          ELSE /\ lsp' = IF Alive(n, k.uid) THEN [lsp EXCEPT ![n] = None] ELSE lsp
               /\ Proceed(c, [k EXCEPT !.pc = "delOVS"])

\* The Port row is deleted without being taken out of its bridge: the database refuses, if there is one.
DelVtepOVS(c) ==
  LET k == call[c]
  IN /\ k.pc = "delOVS"
     /\ UNCHANGED <<setup, sw, cfg, lsp, iface, port, networks, faults>>
     /\ Answer(c, k.req, IF port[Srv(c)][k.req.lsp] = {} THEN "ok" ELSE "fail")

-----------------------------------------------------------------------------
(* AddClient and DelClient: the address list is read, changed and written   *)
(* back by row identity.                                                    *)

Changed(r, seen) == IF r.op = "DelClient" THEN seen \ {r.addr} ELSE seen \cup {r.addr}

ClientBegin(c, r) ==
  /\ UNCHANGED <<setup, sw, cfg, lsp, iface, port, networks, faults>>
  /\ LET row == lsp[r.lsp]
     IN IF r.op = "DelClient"
          THEN Removal(c, r, IF row = None THEN [Idle EXCEPT !.res = "fail"]
                             ELSE IF r.addr \notin row.addrs THEN [Idle EXCEPT !.res = "ok"]
                             ELSE St(r, "client", 0, row.uid, row.addrs))
          ELSE IF row = None THEN Answer(c, r, "fail")
          ELSE IF r.addr \in row.addrs THEN Answer(c, r, "ok")
          ELSE Proceed(c, St(r, "client", 0, row.uid, row.addrs))

\* The update names the row it read: it changes nothing when that row is gone.
WriteBack(r, seen, u) ==
  IF Alive(r.lsp, u) THEN [lsp EXCEPT ![r.lsp].addrs = Changed(r, seen)] ELSE lsp

ClientUpdate(c) ==
  LET k == call[c]
  IN /\ k.pc = "client"
     /\ UNCHANGED <<setup, sw, cfg, iface, port, networks, faults>>
     /\ lsp' = WriteBack(k.req, k.seen, k.uid)
     /\ Answer(c, k.req, "ok")

-----------------------------------------------------------------------------
(* AddLogicalSwitchPort and DelLogicalSwitchPort: ports of local clients.   *)

AddPortBegin(c, r) ==
  LET found == FindSwitch(Srv(c), Trunc[r.ls])
  IN /\ UNCHANGED <<setup, sw, cfg, lsp, iface, port, networks, faults>>
     /\ IF found = {} THEN Answer(c, r, "nonet")
        ELSE \E i \in found, row \in Named(r.lsp) :
               Proceed(c, IF row = None THEN St(r, "portNew", i, 0, {})
                          ELSE IF r.addr \in row.addrs THEN St(r, "portOVS", i, row.uid, {})
                          ELSE St(r, "portMerge", i, row.uid, row.addrs))

\* A duplicate name is recovered by reading the row again; its addresses are not merged.
AddPortNew(c) ==
  LET k == call[c]
      n == k.req.lsp
  IN /\ k.pc = "portNew"
     /\ UNCHANGED <<setup, sw, cfg, iface, port, networks, faults>>
     /\ IF lsp[n] # None
          THEN /\ UNCHANGED lsp
               /\ \E row \in Named(n) : IF row = None THEN Answer(c, k.req, "fail") ELSE Proceed(c, [k EXCEPT !.pc = "portOVS"])
          ELSE IF sw[k.ls] = None
          THEN UNCHANGED lsp /\ Answer(c, k.req, "fail")     \* collected at once: not found after the transaction
          ELSE /\ lsp' = [lsp EXCEPT ![n] = [uid |-> FreshUid, addrs |-> {k.req.addr}, on |-> {k.ls}]]
               /\ Proceed(c, [k EXCEPT !.pc = "portOVS"])

AddPortMerge(c) ==
  LET k == call[c]
  IN /\ k.pc = "portMerge"
     /\ UNCHANGED <<setup, sw, cfg, iface, port, networks, faults>>
     /\ lsp' = WriteBack(k.req, k.seen, k.uid)
     /\ Proceed(c, [k EXCEPT !.pc = "portOVS", !.seen = {}])

\* An interface that is seen is updated, and its port made to hold it.  One without a netdev is to be
\* removed with its port first, but both rows are referred to and stay.
UpdateInterface(s, n) ==
  CommitOvs(s, [iface[s] EXCEPT ![n] = [ids |-> n, opts |-> "system"]],
            IF port[s][n] = {} THEN port[s] ELSE [port[s] EXCEPT ![n] = {n}])

\* One that is not seen is created with its port; a duplicate name aborts and counts as done.
CreateInterface(s, n) ==
  IF iface[s][n] # None \/ port[s][n] # {}
    THEN UNCHANGED ovs
    ELSE CommitOvs(s, [iface[s] EXCEPT ![n] = [ids |-> n, opts |-> "system"]], [port[s] EXCEPT ![n] = {n}])

AddPortOVS(c) ==
  LET k == call[c]
      s == Srv(c)
      n == k.req.lsp
  IN /\ k.pc = "portOVS"
     /\ UNCHANGED <<setup, sw, cfg, lsp, networks, faults>>
     /\ \E view \in setup.views :
          IF view = "rows" /\ iface[s][n] # None THEN UpdateInterface(s, n) ELSE CreateInterface(s, n)
     /\ Answer(c, k.req, "ok")

DelPortBegin(c, r) ==
  /\ UNCHANGED <<setup, sw, cfg, lsp, iface, port, networks, faults>>
  /\ Removal(c, r, IF lsp[r.lsp] = None THEN [Idle EXCEPT !.res = "fail"] ELSE St(r, "portDel", 0, lsp[r.lsp].uid, {}))

\* Deletes the row alone, which a switch holds; the OVS port is asked to go after that, is held by its
\* bridge, and the refusal is ignored.
DelPort(c) ==
  LET k == call[c]
      n == k.req.lsp
  IN /\ k.pc = "portDel"
     /\ UNCHANGED <<setup, sw, cfg, iface, port, networks, faults>>
     /\ IF Alive(n, k.uid) /\ ~Deletable(lsp[n])
          THEN UNCHANGED lsp /\ Answer(c, k.req, "fail")
          ELSE /\ lsp' = IF Alive(n, k.uid) THEN [lsp EXCEPT ![n] = None] ELSE lsp
               /\ Answer(c, k.req, "ok")

-----------------------------------------------------------------------------
(* Networks.                                                                *)

Cache(s, n, i) == networks' = [networks EXCEPT ![s][n] = i]
PortsOf(i) == {lsp[n].uid : n \in {m \in Lsps : lsp[m] # None /\ i \in lsp[m].on}}

AddNetworkBegin(c, r) ==
  LET n == Trunc[r.ls]
  IN /\ UNCHANGED <<setup, sw, cfg, lsp, iface, port, faults>>
     /\ IF ByName(n) = {} THEN Proceed(c, St(r, "netNew", 0, 0, {})) /\ UNCHANGED networks
        ELSE \E i \in ByName(n) :
               IF i \in cfg THEN Cache(Srv(c), n, i) /\ Answer(c, r, "ok")
                            ELSE Proceed(c, St(r, "netCfg", i, 0, PortsOf(i))) /\ UNCHANGED networks

AddNetworkNew(c) ==
  LET k == call[c]
      i == FreshSwitch
      n == Trunc[k.req.ls]
  IN /\ k.pc = "netNew"
     /\ sw' = [sw EXCEPT ![i] = n]
     /\ cfg' = cfg \cup {i}
     /\ Cache(Srv(c), n, i)
     /\ UNCHANGED <<setup, lsp, iface, port, faults>>
     /\ Answer(c, k.req, "ok")

\* The update writes every column as it was read, the ports too when there were any.
AddNetworkConfig(c) ==
  LET k == call[c]
      i == k.ls
      live == {lsp[m].uid : m \in {x \in Lsps : lsp[x] # None}}
  IN /\ k.pc = "netCfg"
     /\ UNCHANGED <<setup, sw, iface, port, faults>>
     /\ IF sw[i] # None /\ ~(k.seen \subseteq live)
          THEN UNCHANGED <<cfg, lsp, networks>> /\ Answer(c, k.req, "fail")
          ELSE /\ cfg' = IF sw[i] # None THEN cfg \cup {i} ELSE cfg
               /\ lsp' = IF sw[i] = None \/ k.seen = {} THEN lsp
                         ELSE Collect([m \in Lsps |-> IF lsp[m] = None THEN None
                                                      ELSE [lsp[m] EXCEPT !.on = IF lsp[m].uid \in k.seen THEN @ \cup {i} ELSE @ \ {i}]])
               /\ Cache(Srv(c), Trunc[k.req.ls], i)
               /\ Answer(c, k.req, "ok")

GetNetwork(c, r) ==
  LET s == Srv(c)
      n == Trunc[r.ls]
  IN /\ UNCHANGED <<setup, sw, cfg, lsp, iface, port, faults>>
     /\ IF networks[s][n] # 0 THEN Answer(c, r, "ok") /\ UNCHANGED networks
        ELSE IF ByName(n) = {} THEN Answer(c, r, "absent") /\ UNCHANGED networks
        ELSE Answer(c, r, "ok") /\ \E i \in ByName(n) : Cache(s, n, i)

GetNetworks(c, r) ==
  /\ \E f \in [{n \in NetNames : ByName(n) # {}} -> Switches] :
       /\ \A n \in DOMAIN f : f[n] \in ByName(n)
       /\ networks' = [networks EXCEPT ![Srv(c)] = [n \in NetNames |-> IF n \in DOMAIN f THEN f[n] ELSE @[n]]]
  /\ UNCHANGED <<setup, sw, cfg, lsp, iface, port, faults>>
  /\ Answer(c, r, "ok")

DelNetworkBegin(c, r) ==
  /\ UNCHANGED <<setup, sw, cfg, lsp, iface, port, networks, faults>>
  /\ IF ByName(Trunc[r.ls]) = {}
       THEN Removal(c, r, [Idle EXCEPT !.res = "fail"])
       ELSE \E i \in ByName(Trunc[r.ls]) : Removal(c, r, St(r, "netDel", i, 0, {}))

\* Its ports go with it; the server's cached copy goes too.
DelNetwork(c) ==
  LET k == call[c]
  IN /\ k.pc = "netDel"
     /\ sw' = [sw EXCEPT ![k.ls] = None]
     /\ cfg' = cfg \ {k.ls}
     /\ lsp' = Collect([m \in Lsps |-> IF lsp[m] = None THEN None ELSE [lsp[m] EXCEPT !.on = @ \ {k.ls}]])
     /\ Cache(Srv(c), Trunc[k.req.ls], 0)
     /\ Answer(c, k.req, "ok")
     /\ UNCHANGED <<setup, iface, port, faults>>

-----------------------------------------------------------------------------
(* Reads that write: GetVtep repairs the iface-id of the interface it finds. *)

GetVtep(c, r) ==
  LET s == Srv(c)
      n == r.lsp
  IN /\ UNCHANGED <<setup, sw, cfg, lsp, port, networks, faults>>
     /\ Answer(c, r, "ok")
     /\ \E view \in setup.views :
          iface' = IF lsp[n] # None /\ view = "rows" /\ iface[s][n] # None
                     THEN [iface EXCEPT ![s][n].ids = n]
                     ELSE iface

-----------------------------------------------------------------------------
Begin(c, r) ==
  /\ call[c].pc = "idle"
  /\ CASE r.op = "AddVtep" -> AddVtepBegin(c, r)
       [] r.op = "DelVtep" -> DelVtepBegin(c, r)
       [] r.op \in {"AddClient", "DelClient"} -> ClientBegin(c, r)
       [] r.op = "AddLogicalSwitchPort" -> AddPortBegin(c, r)
       [] r.op = "DelLogicalSwitchPort" -> DelPortBegin(c, r)
       [] r.op = "AddNetwork" -> AddNetworkBegin(c, r)
       [] r.op = "GetNetwork" -> GetNetwork(c, r)
       [] r.op = "GetNetworks" -> GetNetworks(c, r)
       [] r.op = "DelNetwork" -> DelNetworkBegin(c, r)
       [] r.op = "GetVtep" -> GetVtep(c, r)

\* The process ends: its map is lost and its calls break off.
Restart(s) ==
  /\ faults < setup.faults
  /\ faults' = faults + 1
  /\ networks' = [networks EXCEPT ![s] = [n \in NetNames |-> 0]]
  /\ call' = [c \in Calls |-> IF Srv(c) = s /\ call[c].pc # "idle" THEN [Idle EXCEPT !.res = "down"] ELSE call[c]]
  /\ raced' = raced \ {<<"cache", s>>}
  /\ UNCHANGED <<setup, sw, cfg, lsp, iface, port, book>>

Step(c) ==
  \/ AddVtepNB(c) \/ AddVtepAttach(c) \/ AddVtepOVS(c)
  \/ DelVtepNB(c) \/ DelVtepOVS(c)
  \/ ClientUpdate(c)
  \/ AddPortNew(c) \/ AddPortMerge(c) \/ AddPortOVS(c) \/ DelPort(c)
  \/ AddNetworkNew(c) \/ AddNetworkConfig(c) \/ DelNetwork(c)
  \/ call[c].pc \notin {"idle", "vtepAttach"} /\ Fault(c)

Caller(c) == (\E r \in setup.reqs[c] : Begin(c, r)) \/ Step(c)

-----------------------------------------------------------------------------
(* Properties.                                                              *)

TypeOK ==
  /\ sw \in [Switches -> NetNames \cup {None}]
  /\ cfg \subseteq {i \in Switches : sw[i] # None}
  /\ \A n \in Lsps : lsp[n] # None => /\ lsp[n].uid \in Uids /\ lsp[n].addrs \subseteq Addrs
                                      /\ lsp[n].on # {} /\ \A i \in lsp[n].on : sw[i] # None
  /\ \A n, m \in Lsps : (n # m /\ lsp[n] # None /\ lsp[m] # None) => lsp[n].uid # lsp[m].uid
  /\ \A s \in Servers, i \in Ifaces : (iface[s][i] # None) <=> \E p \in Ifaces : i \in port[s][p]
  /\ networks \in [Servers -> [NetNames -> Switches \cup {0}]]
  /\ faults \in 0..setup.faults

\* An address whose addition was acknowledged stays on its port until somebody asks for its removal, as
\* long as no two calls were at work on the port at once.  Of two that are, one may write back a list it
\* read before the other changed it: addClient reads the row again "to avoid stomping concurrent changes",
\* but its update has no precondition.
AddressesKept ==
  \A b \in book : <<"write", b[1]>> \notin raced => lsp[b[1]] # None /\ b[2] \in lsp[b[1]].addrs

\* The server's map, which GetNetwork, AddVtep and AddLogicalSwitchPort trust without asking the database,
\* names a switch that is not there only if another server, or a call made at the same time, deleted it.
CacheCoherent ==
  \A s \in Servers, n \in NetNames : (networks[s][n] # 0 /\ <<"cache", s>> \notin raced) => sw[networks[s][n]] = n

\* An acknowledged AddVtep leaves its logical port in the network and a tunnel behind it, whoever else
\* adds or removes the same VTEP at the same time.  It may be missing from the network if the port or the
\* network was deleted during the call, or the network behind the server's map; and after a failed second
\* mutation for a duplicate name, which is only logged.
AckedVtep ==
  [][\A c \in Calls : (call[c].pc = "vtepOVS" /\ call'[c].pc = "idle" /\ call'[c].res = "ok") =>
       LET n == call[c].req.lsp
       IN /\ lsp[n] # None
          /\ (faults' = 0 /\ raced \cap {<<"lose", n>>, <<"cache", Srv(c)>>} = {}) => call[c].ls \in lsp[n].on
          /\ \E i \in Ifaces : /\ iface'[Srv(c)][i] # None
                               /\ i = n \/ iface'[Srv(c)][i].opts = call[c].req.remote]_vars

=============================================================================
