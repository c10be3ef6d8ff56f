---------------------------- MODULE KernelHandler ----------------------------
(***************************************************************************)
(* services/bgp_ad_handler in netlink mode: every path is turned into a    *)
(* sequence of changes of the kernel's bridge, VXLAN device and neighbour  *)
(* tables.  Nothing is remembered between paths: a withdrawal undoes what  *)
(* its own announcement would do.  A step that fails ends the path.        *)
(* The device that neighbours are set on is there throughout.              *)
(***************************************************************************)
EXTENDS RouteStream

CONSTANTS Mac, IP,      \* of a path: its NLRI has the MAC, and an IP or None
          Vtep,         \* its next hop, or None for an unspecified one
          Provisioned,  \* the paths whose VNI is configured
          Setups,       \* [world, manage, learns]: the world, whether the handler creates the
                        \* VXLAN device itself, and the bound on what the bridge learns
          MaxFaults,    \* bound: failed commands
          None

VARIABLES bridge, vxlan,  \* whether the devices are there
          fdb,      \* of the VXLAN device: MAC to VTEP
          flood,    \* its entries for the all-zero MAC
          vneigh,   \* the VTEPs' neighbour entries
          neigh,    \* the clients' neighbour entries: IP to MAC
          local,    \* MACs the bridge has learned on other ports
          late,     \* history: MACs learned and not yet found so by the handler
          last,     \* history: the path that the entry of a MAC was last set for
          setup,    \* fixed: one of Setups
          learns, faults,
          h         \* the path in hand: [pc, r, wd, told, remote]

kernel == <<bridge, vxlan, fdb, flood, vneigh, neigh>>
env == <<setup, local, late, last, learns>>
vars == <<stream, kernel, env, faults, h>>

Macs == {Mac[r] : r \in Routes}
IPs == {IP[r] : r \in Routes} \ {None}
Vteps == {Vtep[r] : r \in Routes} \ {None}
Remotes == {r \in Provisioned : Vtep[r] # None}
NoPath == [pc |-> "idle", r |-> None, wd |-> FALSE, told |-> FALSE, remote |-> FALSE]

ASSUME KernelAssumption ==
  /\ Provisioned \subseteq Routes /\ MaxFaults \in Nat
  /\ \A s \in Setups : s.world \in World /\ s.learns \in Nat
  /\ \A r, q \in Routes : Nlri[r] = Nlri[q] =>
       Mac[r] = Mac[q] /\ IP[r] = IP[q] /\ (r \in Provisioned <=> q \in Provisioned)

Init ==
  /\ setup \in Setups /\ StreamInit({setup.world})
  /\ bridge \in BOOLEAN /\ vxlan \in BOOLEAN
  /\ fdb = [m \in Macs |-> None]
  /\ flood = {} /\ vneigh = {}
  /\ neigh = [a \in IPs |-> None]
  /\ local = {} /\ late = {} /\ last = [m \in Macs |-> None] /\ learns = 0 /\ faults = 0
  /\ h = [NoPath EXCEPT !.pc = "boot"]

-----------------------------------------------------------------------------
Busy == IF h.pc \in {"idle", "boot"} THEN {} ELSE {h.r}
rest == <<world, table, rib, phase, todo, queue, shadowed, changes, breaks>>
Go(p) == h' = [h EXCEPT !.pc = p] /\ UNCHANGED <<stream, faults>>
Done == h' = NoPath /\ Handled(h.r, h.told) /\ UNCHANGED <<rest, faults>>
GiveUp == h' = NoPath /\ Dropped(h.r) /\ UNCHANGED rest

\* A command fails, and the path is left where it is.
Fault ==
  /\ h.pc \in {"links", "vneigh", "check", "unlearn", "fdb", "flood", "neigh"} /\ faults < MaxFaults
  /\ faults' = faults + 1
  /\ GiveUp
  /\ UNCHANGED <<kernel, env>>

Boot == h.pc = "boot" /\ List /\ h' = NoPath /\ UNCHANGED <<kernel, env, faults>>

\* handlePathNetlink: a path of a VNI that is not provisioned is skipped.
HandlePath ==
  /\ h.pc = "idle"
  /\ \E r \in Routes, wd, told \in BOOLEAN :
       /\ Take(r, wd, told)
       /\ IF r \in Provisioned
            THEN /\ h' = [pc |-> "links", r |-> r, wd |-> wd, told |-> told, remote |-> Vtep[r] # None]
                 /\ UNCHANGED <<missed, dropped>>
            ELSE UNCHANGED h /\ Handled(r, told)
  /\ UNCHANGED <<world, table, rib, phase, shadowed, changes, breaks, kernel, env, faults>>

\* The VXLAN device is created when it is missing, but only by a handler that manages it.
ResolveVxlanLink(found) ==
  \/ found /\ (vxlan \/ setup.manage) /\ vxlan' = TRUE
  \/ ~found /\ ~vxlan /\ ~setup.manage /\ UNCHANGED vxlan

\* The bridge is created when it is missing; the VXLAN device is asked for by remote routes only.
EnsureLinks ==
  /\ h.pc = "links"
  /\ bridge' = TRUE
  /\ \/ ~h.remote /\ Go("neigh") /\ UNCHANGED vxlan
     \/ h.remote /\ ResolveVxlanLink(TRUE) /\ Go("vneigh")
     \/ h.remote /\ ResolveVxlanLink(FALSE) /\ GiveUp /\ UNCHANGED faults
  /\ UNCHANGED <<fdb, flood, vneigh, neigh, env>>

SetRemoteVtepNeighbor ==
  /\ h.pc = "vneigh"
  /\ vneigh' = IF h.wd THEN vneigh \ {Vtep[h.r]} ELSE vneigh \cup {Vtep[h.r]}
  /\ Go("check")
  /\ UNCHANGED <<bridge, vxlan, fdb, flood, neigh, env>>

\* isMacLearnedOnNonVxlanPort: whether the bridge has learned the MAC on another port.
CheckLocal ==
  /\ h.pc = "check"
  /\ Go(IF Mac[h.r] \in local /\ ~h.wd THEN "unlearn" ELSE "fdb")
  /\ UNCHANGED <<kernel, env>>

\* removeMacFromVxlanFdb: such a MAC gets no remote entry, and loses the one it had.
RemoveMac ==
  /\ h.pc = "unlearn"
  /\ fdb' = [fdb EXCEPT ![Mac[h.r]] = None]
  /\ late' = late \ {Mac[h.r]}
  /\ Go("neigh")
  /\ UNCHANGED <<bridge, vxlan, flood, vneigh, neigh, setup, local, last, learns>>

\* Variant: the entry is deleted whatever VTEP it points at.
SetRemoteMacFdbEntryAny ==
  /\ h.pc = "fdb"
  /\ fdb' = [fdb EXCEPT ![Mac[h.r]] = IF h.wd THEN None ELSE Vtep[h.r]]
  /\ last' = IF h.wd THEN last ELSE [last EXCEPT ![Mac[h.r]] = h.r]
  /\ Go("flood")
  /\ UNCHANGED <<bridge, vxlan, flood, vneigh, neigh, setup, local, late, learns>>

\* replace; or del of the entry with this dst, where a missing entry is no error.
SetRemoteMacFdbEntry ==
  /\ h.pc = "fdb"
  /\ fdb' = [fdb EXCEPT ![Mac[h.r]] = IF ~h.wd THEN Vtep[h.r] ELSE IF @ = Vtep[h.r] THEN None ELSE @]
  /\ last' = IF h.wd THEN last ELSE [last EXCEPT ![Mac[h.r]] = h.r]
  /\ Go("flood")
  /\ UNCHANGED <<bridge, vxlan, flood, vneigh, neigh, setup, local, late, learns>>

SetFloodEntry ==
  /\ h.pc = "flood"
  /\ flood' = IF h.wd THEN flood \ {Vtep[h.r]} ELSE flood \cup {Vtep[h.r]}
  /\ Go("neigh")
  /\ UNCHANGED <<bridge, vxlan, fdb, vneigh, neigh, env>>

\* NeighSet, or NeighDel, which goes by the IP and whose error is ignored; a route without IP has no
\* neighbour.
SetClientNeighbor ==
  /\ h.pc = "neigh"
  /\ neigh' = [a \in IPs |-> IF a # IP[h.r] THEN neigh[a] ELSE IF h.wd THEN None ELSE Mac[h.r]]
  /\ Done
  /\ UNCHANGED <<bridge, vxlan, fdb, flood, vneigh, env>>

\* The process restarts; the kernel's tables stay.
Restart ==
  /\ StreamRestart(Busy)
  /\ h' = [NoPath EXCEPT !.pc = "boot"]
  /\ UNCHANGED <<kernel, env, faults>>

-----------------------------------------------------------------------------
(* The rest of the node.                                                    *)

OvnController ==
  /\ ~setup.manage /\ ~vxlan /\ vxlan' = TRUE
  /\ UNCHANGED <<stream, bridge, fdb, flood, vneigh, neigh, env, faults, h>>

Learn(m) ==
  /\ bridge /\ learns < setup.learns
  /\ learns' = learns + 1
  /\ local' = IF m \in local THEN local \ {m} ELSE local \cup {m}
  /\ late' = IF m \in local THEN late \ {m} ELSE late \cup {m}
  /\ UNCHANGED <<stream, kernel, setup, last, faults, h>>

Handler ==
  \/ Boot \/ HandlePath \/ EnsureLinks \/ SetRemoteVtepNeighbor \/ CheckLocal \/ RemoveMac \/ SetRemoteMacFdbEntry
  \/ SetFloodEntry \/ SetClientNeighbor
  \/ (h.pc = "idle" /\ (ListEnd \/ Subscribe) /\ UNCHANGED <<kernel, env, faults, h>>)

Next ==
  \/ Handler \/ Fault \/ Restart \/ OvnController
  \/ \E m \in {Mac[r] : r \in world.routes} : Learn(m)
  \/ (\E r \in Routes : RibChange(r)) /\ UNCHANGED <<kernel, env, faults, h>>
  \/ h.pc = "idle" /\ Break /\ UNCHANGED <<kernel, env, faults, h>>

Spec == Init /\ [][Next]_vars

-----------------------------------------------------------------------------
(* Properties.                                                              *)

TypeOK ==
  /\ StreamType
  /\ bridge \in BOOLEAN /\ vxlan \in BOOLEAN
  /\ fdb \in [Macs -> Vteps \cup {None}]
  /\ flood \subseteq Vteps /\ vneigh \subseteq Vteps
  /\ neigh \in [IPs -> Macs \cup {None}]
  /\ local \subseteq Macs /\ late \subseteq local
  /\ last \in [Macs -> Routes \cup {None}]
  /\ learns \in 0..setup.learns /\ faults \in 0..MaxFaults
  /\ vneigh \cup flood # {} => vxlan

Quiet == phase = "watch" /\ queue = <<>> /\ h.pc = "idle"
Unsure == missed \cup dropped
Alone(r) == \A q \in world.routes \ Same(r) : Mac[q] # Mac[r] /\ IP[q] # IP[r] /\ Vtep[q] # Vtep[r]

\* A quiet handler has exactly the best paths of the speaker in the kernel, for NLRIs that share neither
\* VTEP nor MAC nor IP with another and whose MAC the bridge has not learned elsewhere.  The neighbour
\* and the forwarding entry follow from one path of the NLRI to the next, unless a listed path that was
\* not the best was handled last; the flood and VTEP entries of a path that another has replaced stay.
Converged ==
  Quiet => \A r \in Provisioned : (Alone(r) /\ learns = 0 /\ Same(r) \cap Unsure = {}) =>
     LET best == rib \cap Same(r) IN
     /\ IP[r] # None => neigh[IP[r]] = IF best = {} THEN None ELSE Mac[r]
     /\ Same(r) \subseteq Remotes /\ last[Mac[r]] \notin shadowed =>
          fdb[Mac[r]] \in IF best = {} THEN {None} ELSE {Vtep[b] : b \in best}
     /\ r \in Remotes \ shadowed => (Vtep[r] \in flood <=> r \in rib) /\ (Vtep[r] \in vneigh <=> r \in rib)

\* Forwarding state of a quiet handler belongs to a path that is still the best, whoever shares its VTEP
\* or MAC and whatever the bridge learns meanwhile, or to one of an NLRI that went over to another path:
\* the flood and VTEP entries of that one are not undone, while the entry of the MAC is, unless the path
\* was a listed one and handled last.
NoStray ==
  Quiet => LET Known(more, m, v) == \E r \in rib \cup Unsure \cup more : Mac[r] \in m /\ Vtep[r] = v IN
     /\ \A m \in Macs : fdb[m] # None => Known(shadowed \cap {last[m]}, {m}, fdb[m])
     /\ \A v \in flood \cup vneigh : Known(shadowed, Macs, v)

\* A MAC that moves keeps its entry for the new VTEP when the route of the old one is withdrawn afterwards.
\* Not so for two routes of a MAC behind one VTEP, which share the entry.
OwnEntry(r) == \A q \in world.routes \ {r} : Mac[q] = Mac[r] => Vtep[q] # Vtep[r]
LastWins ==
  (Quiet /\ learns = 0) => \A m \in Macs : (last[m] # None /\ last[m] \in rib \ Unsure /\ OwnEntry(last[m])) =>
     fdb[m] = Vtep[last[m]]

\* A MAC that an announcement found to be local has no remote entry while it stays so, even if it had one
\* before.  One that the bridge learns after the look keeps it until the next announcement.
LocalWins == Quiet => \A m \in local \ late : fdb[m] = None

\* The kernel tables of a quiet handler agree with the routes it was told of.
Consistent == TypeOK /\ Converged /\ NoStray /\ LastWins /\ LocalWins

=============================================================================
