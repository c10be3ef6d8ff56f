-------------------------- MODULE SpeakerContinuity --------------------------
(***************************************************************************)
(* pkg/nodeagent: the guard that ties a gRPC transport to one speaker      *)
(* process.  The kernel gives it a pidfd of the socket's peer; all other   *)
(* evidence (/proc, the API server, containerd's process list) is read by  *)
(* process number, one read after the other, while processes exit, numbers *)
(* are used again, executables are replaced and Kubernetes objects change. *)
(* All processes are in the host's PID namespace, so that comparing the    *)
(* namespaces refuses nothing; the user is part of what "exe" stands for.  *)
(* Any read may also fail, which ends the call.                            *)
(***************************************************************************)
EXTENDS Integers, FiniteSets

CONSTANTS Insts,       \* process instances, in the order in which they are started
          Pids,
          Containers,
          Ticks,       \* clock ticks in which instances start, several in one perhaps
          Nodes,       \* [insts, conts, edits, guards]: the instances and containers a node has, and
                       \* the bounds on changes of executables and Kubernetes objects and on guards made
          None

Procs == [pid : Pids, start : Nat, exe : {"speaker", "other"}, cont : Containers, alive : BOOLEAN]

ASSUME InstAssumption == Insts \subseteq Nat /\ 0 \notin Insts /\ Ticks \subseteq Nat
ASSUME NodeAssumption == \A n \in Nodes : /\ n.insts \subseteq Insts /\ n.conts \subseteq Containers
                                          /\ n.edits \in Nat /\ n.guards \in Nat \ {0}
ASSUME NoneAssumption == None \notin Procs

VARIABLES proc,      \* per instance: a member of Procs, or None
          listener,  \* the instance whose socket is at the path, or 0
          pinned,    \* whether configuration, node and DaemonSet are as the administrator pinned them
          pods,      \* containers that the API server shows as running provider containers
          edits,
          node,      \* fixed: one of Nodes
          g,         \* unixSpeakerContinuity: [pc, bound, pin, ev, closed]
          w,         \* the call in progress: [op, peer, one, todo, cont, two]
          who,       \* history: instances its reads were about
          conns,     \* peers of the connections handed to gRPC
          known,     \* history: incarnations reported, with their process
          guards

world == <<proc, listener, pinned, pods, edits, node>>
vars == <<world, g, w, who, conns, known, guards>>

NoCall == [op |-> "none", peer |-> 0, one |-> None, todo |-> {}, cont |-> None, two |-> None]
NewGuard == [pc |-> "idle", bound |-> FALSE, pin |-> 0, ev |-> None, closed |-> FALSE]

Init ==
  /\ node \in Nodes /\ proc = [i \in Insts |-> None]
  /\ listener = 0 /\ pinned = TRUE /\ pods = {} /\ edits = 0
  /\ g = NewGuard /\ w = NoCall /\ who = {} /\ conns = {} /\ known = {} /\ guards = 1

-----------------------------------------------------------------------------
(* The node.                                                                *)

Started == {i \in Insts : proc[i] # None}
Alive(i) == proc[i] # None /\ proc[i].alive
Members(c) == {i \in Started : proc[i].cont = c}
Running(c) == \E i \in Members(c) : proc[i].alive
Holder(p) == {i \in Started : proc[i].alive /\ proc[i].pid = p}

\* A container's ID is not used again once all its processes have exited.
Spawn(i) ==
  /\ i \in node.insts /\ proc[i] = None /\ \A j \in node.insts : j < i => proc[j] # None
  /\ \E p \in Pids, c \in Containers, e \in {"speaker", "other"} :
       /\ c \in node.conts /\ Holder(p) = {} /\ (Members(c) = {} \/ Running(c))
       /\ \E t \in Ticks :
            /\ \A j \in Started : proc[j].start <= t
            /\ proc' = [proc EXCEPT ![i] = [pid |-> p, start |-> t, exe |-> e, cont |-> c, alive |-> TRUE]]
  /\ UNCHANGED <<listener, pinned, pods, edits, node>>

Exit(i) ==
  /\ Alive(i)
  /\ proc' = [proc EXCEPT ![i].alive = FALSE]
  /\ listener' = IF listener = i THEN 0 ELSE listener
  /\ UNCHANGED <<pinned, pods, edits, node>>

Exec(i) ==
  /\ Alive(i) /\ edits < node.edits
  /\ edits' = edits + 1
  /\ proc' = [proc EXCEPT ![i].exe = IF @ = "speaker" THEN "other" ELSE "speaker"]
  /\ UNCHANGED <<listener, pinned, pods, node>>

Listen(i) == Alive(i) /\ listener # i /\ listener' = i /\ UNCHANGED <<proc, pinned, pods, edits, node>>

\* Configuration, node or DaemonSet change; the list of pods follows in its own time.
EditCluster ==
  /\ edits < node.edits /\ edits' = edits + 1
  /\ pinned' = ~pinned
  /\ UNCHANGED <<proc, listener, pods, node>>
ListPods(c) ==
  /\ Members(c) # {}
  /\ pods' = IF c \in pods THEN pods \ {c} ELSE pods \cup {c}
  /\ UNCHANGED <<proc, listener, pinned, edits, node>>

World ==
  /\ \/ \E i \in Insts : Spawn(i) \/ Exit(i) \/ Exec(i) \/ Listen(i)
     \/ EditCluster
     \/ \E c \in Containers : ListPods(c)
  /\ UNCHANGED <<g, w, who, conns, known, guards>>

-----------------------------------------------------------------------------
(* The guard.                                                               *)

rest == <<world, conns, known, guards>>
Go(p) == g' = [g EXCEPT !.pc = p]

\* A call ends without a result.
Refuse == g' = [g EXCEPT !.pc = "idle"] /\ w' = NoCall /\ who' = {}

\* checkLocked: the pidfd tells whether the pinned process still runs.
CheckLocked == g.bound /\ Alive(g.pin)

\* DialContext, and in bind the peer of the connection with its credentials and pidfd.
DialContext ==
  /\ g.pc = "idle" /\ ~g.closed
  /\ g.bound => CheckLocked
  /\ Go("connect")
  /\ UNCHANGED <<rest, w, who>>

Connect ==
  /\ g.pc = "connect" /\ listener # 0
  /\ g.bound => proc[listener].pid = g.ev.pid
  /\ w' = [NoCall EXCEPT !.op = "bind", !.peer = listener]
  /\ Go("one")
  /\ UNCHANGED <<rest, who>>

\* Check: the pidfd, and then all the evidence again.
Check ==
  /\ g.pc = "idle" /\ CheckLocked
  /\ w' = [NoCall EXCEPT !.op = "check", !.peer = g.pin]
  /\ Go("one")
  /\ UNCHANGED <<rest, who>>

Pid == IF w.op = "check" THEN g.ev.pid ELSE proc[w.peer].pid

\* readSpeakerProcess: the executable, then start time and user, each of whatever has the number now.
ReadExe(p, next) ==
  /\ g.pc = p
  /\ \E i \in Holder(Pid) :
       /\ w' = IF p = "one" THEN [w EXCEPT !.one = [pid |-> Pid, start |-> 0, exe |-> proc[i].exe]]
                            ELSE [w EXCEPT !.two = [pid |-> Pid, start |-> 0, exe |-> proc[i].exe]]
       /\ who' = who \cup {i}
  /\ Go(next)
  /\ UNCHANGED rest

ReadStat(p, next) ==
  /\ g.pc = p
  /\ \E i \in Holder(Pid) :
       /\ w' = IF p = "oneStat" THEN [w EXCEPT !.one.start = proc[i].start] ELSE [w EXCEPT !.two.start = proc[i].start]
       /\ who' = who \cup {i}
  /\ Go(next)
  /\ UNCHANGED rest

\* attest: the executable's pin and, for Check, the evidence of the binding; then the pinned objects.
AttestObjects ==
  /\ g.pc = "objects"
  /\ w.one.exe = "speaker" /\ pinned
  /\ w.op = "check" => w.one = g.ev.process
  /\ Go("pods")
  /\ UNCHANGED <<rest, w, who>>

AttestPods ==
  /\ g.pc = "pods"
  /\ w' = [w EXCEPT !.todo = pods]
  /\ Go("container")
  /\ UNCHANGED <<rest, who>>

\* Container: the process numbers that containerd shows for a running task.
Container(c) == {proc[i].pid : i \in {j \in Members(c) : proc[j].alive}}

\* One listed container after the other: it must run, and only one may have the process.
AttestContainer ==
  /\ g.pc = "container"
  /\ \E c \in w.todo :
       /\ Running(c)
       /\ Pid \in Container(c) => w.cont = None
       /\ w' = [w EXCEPT !.todo = @ \ {c}, !.cont = IF Pid \in Container(c) THEN c ELSE @]
       /\ who' = who \cup (Holder(Pid) \cap Members(c))
  /\ UNCHANGED <<rest, g>>

Attested ==
  /\ g.pc = "container" /\ w.todo = {} /\ w.cont # None
  /\ w.op = "check" => w.cont = g.ev.cont
  /\ Go("two")
  /\ UNCHANGED <<rest, w, who>>

\* Nothing may have changed since the first reading.
Compare ==
  /\ g.pc = "compare"
  /\ w.two = w.one
  /\ Go(IF w.op = "check" THEN "last" ELSE "poll")
  /\ UNCHANGED <<rest, w, who>>

Bound == [g EXCEPT !.pc = "done", !.bound = TRUE, !.pin = w.peer,
                   !.ev = [pid |-> Pid, process |-> w.one, cont |-> w.cont]]

\* Variant: the peer's pidfd is not looked at.
PollUnchecked ==
  /\ g.pc = "poll"
  /\ IF g.bound
     THEN /\ w.one = g.ev.process /\ w.cont = g.ev.cont
          /\ Go("last") /\ conns' = conns
     ELSE g' = Bound /\ conns' = conns \cup {w.peer}
  /\ UNCHANGED <<world, w, who, known, guards>>

\* bind: the peer's pidfd tells that what was read by number was about the peer.  The first binding pins it.
Poll ==
  /\ g.pc = "poll" /\ Alive(w.peer)
  /\ IF g.bound
     THEN /\ w.one = g.ev.process /\ w.cont = g.ev.cont
          /\ Go("last") /\ conns' = conns
     ELSE g' = Bound /\ conns' = conns \cup {w.peer}
  /\ UNCHANGED <<world, w, who, known, guards>>

\* The last word of Check and of a later binding: the pinned process still runs.
Last ==
  /\ g.pc = "last" /\ CheckLocked
  /\ Go("done")
  /\ conns' = IF w.op = "bind" THEN conns \cup {w.peer} ELSE conns
  /\ UNCHANGED <<world, w, who, known, guards>>

Return == g.pc = "done" /\ Refuse /\ UNCHANGED rest
Fail == g.pc \notin {"idle", "done"} /\ Refuse /\ UNCHANGED rest

\* Variant: the start time is left out.
NameOfPlain(e) == <<e.pid, e.process.exe, e.cont>>

NameOf(e) == <<e.pid, e.process.start, e.process.exe, e.cont>>

\* Incarnation: the digest of the evidence, for a process that still runs.
Incarnation ==
  /\ g.pc = "idle" /\ CheckLocked
  /\ known' = known \cup {<<NameOf(g.ev), g.pin>>}
  /\ UNCHANGED <<world, g, w, who, conns, guards>>

\* Close ends the guard and the transport it belongs to; a new transport gets a new guard.
Close ==
  /\ g.pc = "idle" /\ ~g.closed
  /\ g' = [g EXCEPT !.closed = TRUE, !.bound = FALSE, !.pin = 0]
  /\ conns' = {}
  /\ UNCHANGED <<world, w, who, known, guards>>

NewAttestedSpeakerContinuity ==
  /\ g.closed /\ guards < node.guards
  /\ g' = NewGuard
  /\ guards' = guards + 1
  /\ UNCHANGED <<world, w, who, conns, known>>

Guard ==
  \/ DialContext \/ Connect \/ Check
  \/ ReadExe("one", "oneStat") \/ ReadStat("oneStat", "objects")
  \/ AttestObjects \/ AttestPods \/ AttestContainer \/ Attested
  \/ ReadExe("two", "twoStat") \/ ReadStat("twoStat", "compare")
  \/ Compare \/ Poll \/ Last \/ Return \/ Fail
  \/ Incarnation \/ Close \/ NewAttestedSpeakerContinuity

Next == World \/ Guard
Spec == Init /\ [][Next]_vars

-----------------------------------------------------------------------------
(* Properties.                                                              *)

TypeOK ==
  /\ \A i \in Started : proc[i].pid \in Pids /\ proc[i].cont \in Containers /\ proc[i].start \in Nat
  /\ \A i, j \in Started : (i # j /\ Alive(i) /\ Alive(j)) => proc[i].pid # proc[j].pid
  /\ listener \in Insts \cup {0} /\ pods \subseteq Containers
  /\ g.pin \in Insts \cup {0} /\ (g.bound <=> g.pin # 0)
  /\ w.peer \in Insts \cup {0} /\ who \subseteq Insts /\ conns \subseteq Insts
  /\ guards \in 1..node.guards /\ edits \in 0..node.edits

\* A binding or check that succeeds has read nothing of any other process than the pinned one, although every
\* read goes by a process number that may be used again in between.
OneProcess == g.pc = "done" => who = {g.pin}

\* All connections that a guard lets through lead to the one process it is bound to, also when a process with
\* the same number and start tick takes its place.
ConnsPinned == conns \subseteq {g.pin}

\* What the guard reads and what it lets through is one process.
Pinned == OneProcess /\ ConnsPinned

\* Two transports that report the same incarnation talk to the same process, as long as a process number
\* is not used again within a tick.  The type invariant is a conjunct.
IncarnationIdentifies ==
  /\ TypeOK
  /\ (\A i, j \in Started : (i # j /\ proc[i].pid = proc[j].pid) => proc[i].start # proc[j].start) =>
       \A a, b \in known : a[1] = b[1] => a[2] = b[2]
=============================================================================
