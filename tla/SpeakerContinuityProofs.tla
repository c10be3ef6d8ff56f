---------------------- MODULE SpeakerContinuityProofs ----------------------
(***************************************************************************)
(* What the guard of SpeakerContinuity promises, for any number of         *)
(* processes, numbers and containers.  The argument is about one moment:   *)
(* the peer's pidfd is looked at after all the reads, and a process that   *)
(* still runs then was the only one with its number during all of them.    *)
(***************************************************************************)
EXTENDS SpeakerContinuity, TLAPS

Readings == [pid : Pids, start : Nat, exe : {"speaker", "other"}]
Evidence == [pid : Pids, process : Readings, cont : Containers]
Steps == {"idle", "connect", "one", "oneStat", "objects", "pods", "container", "two", "twoStat", "compare",
          "poll", "last", "done"}

Types ==
  /\ proc \in [Insts -> Procs \cup {None}]
  /\ listener \in Insts \cup {0}
  /\ pods \subseteq Containers
  /\ g \in [pc : Steps, bound : BOOLEAN, pin : Insts \cup {0}, ev : Evidence \cup {None}, closed : BOOLEAN]
  /\ w \in [op : {"none", "bind", "check"}, peer : Insts \cup {0}, one : Readings \cup {None},
            todo : SUBSET Containers, cont : Containers \cup {None}, two : Readings \cup {None}]

\* No two running processes have one number.
Distinct == \A i, j \in Insts : (Alive(i) /\ Alive(j) /\ proc[i].pid = proc[j].pid) => i = j

Before(S) == g.pc \in S
Busy == ~Before({"idle", "connect"})

\* A bound guard has the number of the process it pinned.
Binding == g.bound => /\ g.pin \in Insts /\ proc[g.pin] # None
                      /\ g.ev \in Evidence /\ g.ev.pid = proc[g.pin].pid

\* The call in progress has a peer; a bound guard only talks to a peer with the number it pinned.
Call == Busy => /\ w.op # "none"
                /\ w.peer \in Insts /\ proc[w.peer] # None
                /\ g.bound => proc[w.peer].pid = g.ev.pid
                /\ w.op = "check" => (g.bound /\ w.peer = g.pin)

Readable ==
  /\ ~Before({"idle", "connect", "one"}) => w.one \in Readings
  /\ ~Before({"idle", "connect", "one", "oneStat", "objects", "pods", "container", "two"}) => w.two \in Readings
  /\ ~Before({"idle", "connect", "one", "oneStat", "objects", "pods", "container"}) => w.cont \in Containers

\* As long as the peer runs, everything read so far was about the peer.
Reads == (Busy /\ Alive(w.peer)) => who \subseteq {w.peer}
Something == /\ ~Busy => who = {}
             /\ ~Before({"idle", "connect", "one"}) => who # {}

\* After the peer's pidfd was looked at, a pinned process that still runs is the peer.
Final == /\ g.pc = "last" => (g.bound /\ (Alive(g.pin) => w.peer = g.pin))
         /\ g.pc = "done" => (g.bound /\ w.peer = g.pin /\ who = {g.pin})
         /\ g.pc = "poll" => w.op = "bind"
         /\ g.closed => (g.pc = "idle" /\ ~g.bound)

Connections == conns \subseteq {g.pin} /\ (~g.bound => conns = {})

IInv == Types /\ Distinct /\ (listener # 0 => Alive(listener)) /\ Binding /\ Call /\ Readable
        /\ Reads /\ Something /\ Final /\ Connections
-----------------------------------------------------------------------------

USE DEF Before, Busy

\* A new guard on a node without processes.
LEMMA InitIInv == Init => IInv
  BY DEF Init, IInv, Types, Distinct, Binding, Call, Readable, Reads, Something, Final, Connections, Alive,
         NewGuard, NoCall, Steps

\* The number that the guard reads by is the peer's.
LEMMA PidOfPeer == IInv /\ Busy => Pid = proc[w.peer].pid /\ Pid \in Pids
  BY DEF IInv, Types, Call, Binding, Pid, Procs

\* While the peer runs, a number read is about the peer.
LEMMA HolderIsPeer == ASSUME IInv, Busy, Alive(w.peer) PROVE Holder(Pid) \subseteq {w.peer}
  <1>1. Pid = proc[w.peer].pid
    BY PidOfPeer
  <1>. QED
    BY <1>1 DEF IInv, Distinct, Call, Holder, Started, Alive

\* What the rest of the invariant needs of a step of the node: numbers stay, and none that stopped comes back.
Frame ==
  /\ Types' /\ Distinct' /\ (listener # 0 => Alive(listener))'
  /\ \A j \in Insts : proc[j] # None => /\ proc'[j] # None /\ proc'[j].pid = proc[j].pid
                                        /\ proc'[j].start = proc[j].start
                                        /\ Alive(j)' => Alive(j)
  /\ UNCHANGED <<g, w, who, conns>>

\* With that, the rest of the invariant is preserved.
LEMMA FrameIInv == ASSUME IInv, Frame PROVE IInv'
  <1>1. Binding' /\ Call'
    BY DEF IInv, Frame, Binding, Call
  <1>2. Readable' /\ Something' /\ Connections'
    BY DEF IInv, Frame, Readable, Something, Connections
  <1>3. Reads'
    BY DEF IInv, Frame, Reads, Call
  <1>4. Final'
    BY DEF IInv, Frame, Final, Binding
  <1>. QED
    BY <1>1, <1>2, <1>3, <1>4, Zenon DEF IInv, Frame

\* What happens on the node is such a step.
LEMMA WorldFrame == ASSUME IInv, World PROVE Frame
  <1>. UNCHANGED <<g, w, who, conns>>
    BY Zenon DEF World
  <1>1. ASSUME NEW i \in Insts, Spawn(i) PROVE Frame
    <2>1. PICK p \in Pids, c \in Containers, e \in {"speaker", "other"}, t \in Nat :
             /\ Holder(p) = {}
             /\ proc' = [proc EXCEPT ![i] = [pid |-> p, start |-> t, exe |-> e, cont |-> c, alive |-> TRUE]]
      BY <1>1, InstAssumption, Zenon DEF Spawn
    <2>2. proc[i] = None /\ UNCHANGED <<listener, pods>>
      BY <1>1 DEF Spawn
    <2>3. Types'
      BY <2>1, <2>2 DEF IInv, Types, Procs
    <2>4. Distinct'
      BY <2>1, <2>2 DEF IInv, Types, Distinct, Alive, Holder, Started
    <2>. QED
      BY <2>1, <2>2, <2>3, <2>4, NoneAssumption, Zenon DEF IInv, Types, Frame, Alive, Procs
  <1>2. ASSUME NEW i \in Insts, Exit(i) PROVE Frame
    <2>. DEFINE new == [proc[i] EXCEPT !.alive = FALSE]
    <2>1. proc[i] \in Procs
      BY <1>2 DEF IInv, Types, Exit, Alive
    <2>2. new \in Procs /\ new.pid = proc[i].pid /\ new.start = proc[i].start /\ ~new.alive
      BY <2>1, Zenon DEF Procs
    <2>3. proc' = [proc EXCEPT ![i] = new] /\ UNCHANGED pods
      BY <1>2 DEF Exit
    <2>. HIDE DEF new
    <2>4. Types'
      <3>1. proc' \in [Insts -> Procs \cup {None}]
        BY <2>2, <2>3 DEF IInv, Types
      <3>. QED
        BY <1>2, <2>3, <3>1 DEF IInv, Types, Exit
    <2>5. \A j \in Insts : /\ j # i => proc'[j] = proc[j]
                           /\ proc'[i] = new
      BY <2>3 DEF IInv, Types
    <2>6. proc'[i] # None /\ proc[i] # None /\ ~Alive(i)'
      BY <2>1, <2>2, <2>5, NoneAssumption DEF Alive
    <2>7. Distinct'
      BY <2>2, <2>5, <2>6 DEF IInv, Distinct, Alive
    <2>8. (listener # 0 => Alive(listener))'
      BY <1>2, <2>5, <2>6, Zenon DEF IInv, Types, Alive, Exit
    <2>. QED
      BY <2>2, <2>4, <2>5, <2>6, <2>7, <2>8 DEF Frame, Alive
  <1>3. ASSUME NEW i \in Insts, Exec(i) PROVE Frame
    <2>. DEFINE new == [proc[i] EXCEPT !.exe = IF @ = "speaker" THEN "other" ELSE "speaker"]
    <2>1. proc[i] \in Procs
      BY <1>3 DEF IInv, Types, Exec, Alive
    <2>2. new \in Procs /\ new.pid = proc[i].pid /\ new.start = proc[i].start /\ new.alive = proc[i].alive
      BY <2>1 DEF Procs
    <2>3. proc' = [proc EXCEPT ![i] = new] /\ UNCHANGED pods
      BY <1>3 DEF Exec
    <2>. HIDE DEF new
    <2>4. Types'
      BY <1>3, <2>2, <2>3 DEF IInv, Types, Exec
    <2>5. \A j \in Insts : /\ j # i => proc'[j] = proc[j]
                           /\ proc'[i] = new
      BY <2>3 DEF IInv, Types
    <2>6. proc'[i] # None /\ proc[i] # None /\ (Alive(i)' => Alive(i)) /\ (Alive(i) => Alive(i)')
      BY <2>1, <2>2, <2>5, NoneAssumption, Zenon DEF Alive
    <2>7. Distinct'
      BY <2>2, <2>5, <2>6 DEF IInv, Distinct, Alive
    <2>8. (listener # 0 => Alive(listener))'
      BY <1>3, <2>5, <2>6, Zenon DEF IInv, Types, Alive, Exec
    <2>. QED
      BY <2>2, <2>4, <2>5, <2>6, <2>7, <2>8 DEF Frame, Alive
  <1>4. ASSUME NEW i \in Insts, Listen(i) PROVE Frame
    BY <1>4 DEF IInv, Types, Frame, Distinct, Alive, Listen
  <1>5. ASSUME EditCluster PROVE Frame
    BY <1>5 DEF IInv, Types, Frame, Distinct, Alive, EditCluster
  <1>6. ASSUME NEW c \in Containers, ListPods(c) PROVE Frame
    BY <1>6 DEF IInv, Types, Frame, Distinct, Alive, ListPods
  <1>. QED
    BY <1>1, <1>2, <1>3, <1>4, <1>5, <1>6 DEF World

\* One read by number: what it returns, and whom it is about.
LEMMA ReadOne ==
  ASSUME IInv, Busy, NEW i \in Holder(Pid)
  PROVE  /\ i \in Insts /\ proc[i] \in Procs /\ Pid \in Pids
         /\ Alive(w.peer) => i = w.peer
  <1>1. i \in Insts /\ proc[i] \in Procs
    BY Zenon DEF IInv, Types, Holder, Started
  <1>. QED
    BY <1>1, PidOfPeer, HolderIsPeer

\* Every step of the guard leaves the node alone.
LEMMA GuardWorld == ASSUME Guard PROVE UNCHANGED world
  BY Zenon DEF Guard, DialContext, Connect, Check, ReadExe, ReadStat, AttestObjects, AttestPods, AttestContainer, Attested,
         Compare, Poll, Last, Return, Fail, Incarnation, Close, NewAttestedSpeakerContinuity, rest

\* Every step of the guard preserves the invariant.  Only the call, what it read and what it concludes change.
LEMMA GuardIInv == ASSUME IInv, Guard PROVE IInv'
  <1>. UNCHANGED world
    BY GuardWorld
  <1>0. Distinct' /\ (listener # 0 => Alive(listener))' /\ \A i \in Insts : Alive(i)' <=> Alive(i)
    BY DEF IInv, Distinct, Alive, world
  <1>1. CASE DialContext
    BY <1>0, <1>1
    DEF IInv, Types, Binding, Call, Readable, Reads, Something, Final, Connections, Steps, DialContext, rest, world,
        Go, CheckLocked
  <1>2. CASE Connect
    <2>1. listener \in Insts /\ Alive(listener)
      BY <1>2 DEF IInv, Types, Connect
    <2>2. Types'
      BY <1>2, Zenon DEF IInv, Types, Steps, Connect, rest, world, Go, NoCall
    <2>3. g'.pc = "one" /\ g'.bound = g.bound /\ g'.pin = g.pin /\ g'.ev = g.ev /\ g'.closed = g.closed
      BY <1>2 DEF IInv, Types, Connect, Go
    <2>4. w'.op = "bind" /\ w'.peer = listener /\ who' = who /\ conns' = conns
      BY <1>2 DEF Connect, NoCall, rest
    <2>. QED
      BY <1>0, <1>2, <2>1, <2>2, <2>3, <2>4
      DEF IInv, Binding, Call, Readable, Reads, Something, Final, Connections, Connect, Alive, world
  <1>3. CASE Check
    BY <1>0, <1>3, Zenon
    DEF IInv, Types, Binding, Call, Readable, Reads, Something, Final, Connections, Steps, Check, rest, world, Go,
        NoCall, CheckLocked
  <1>4. CASE ReadExe("one", "oneStat")
    <2>0. Busy
      BY <1>4 DEF ReadExe
    <2>1. PICK i \in Holder(Pid) : /\ w' = [w EXCEPT !.one = [pid |-> Pid, start |-> 0, exe |-> proc[i].exe]]
                                  /\ who' = who \cup {i}
      BY <1>4 DEF ReadExe
    <2>2. [pid |-> Pid, start |-> 0, exe |-> proc[i].exe] \in Readings
      BY <1>4, <2>0, <2>1, ReadOne DEF IInv, Readable, Readings, Procs, ReadExe
    <2>3. Types' /\ w'.op = w.op /\ w'.peer = w.peer /\ w'.one \in Readings
                 /\ w'.cont = w.cont
      BY <1>4, <2>1, <2>2, Zenon DEF IInv, Types, Steps, ReadExe, rest, world, Go
    <2>4. g'.pc = "oneStat" /\ g'.bound = g.bound /\ g'.pin = g.pin /\ g'.ev = g.ev /\ g'.closed = g.closed
          /\ conns' = conns /\ g.pc = "one"
      BY <1>4, Zenon DEF IInv, Types, ReadExe, Go, rest
    <2>5. Reads' /\ Something'
      BY <1>0, <2>0, <2>1, <2>3, <2>4, ReadOne, Zenon DEF IInv, Reads, Something, Call
    <2>. QED
      BY <1>0, <2>0, <2>3, <2>4, <2>5 DEF IInv, Binding, Call, Readable, Final, Connections, world
  <1>5. CASE ReadStat("oneStat", "objects")
    <2>0. Busy
      BY <1>5 DEF ReadStat
    <2>1. PICK i \in Holder(Pid) : /\ w' = [w EXCEPT !.one = [w.one EXCEPT !.start = proc[i].start]]
                                  /\ who' = who \cup {i}
      BY <1>5 DEF ReadStat
    <2>2. [w.one EXCEPT !.start = proc[i].start] \in Readings
      BY <1>5, <2>0, <2>1, ReadOne, Zenon DEF IInv, Readable, Readings, Procs, ReadStat
    <2>3. Types' /\ w'.op = w.op /\ w'.peer = w.peer /\ w'.one \in Readings
                 /\ w'.cont = w.cont
      BY <1>5, <2>1, <2>2, Zenon DEF IInv, Types, Steps, ReadStat, rest, world, Go
    <2>4. g'.pc = "objects" /\ g'.bound = g.bound /\ g'.pin = g.pin /\ g'.ev = g.ev /\ g'.closed = g.closed
          /\ conns' = conns /\ g.pc = "oneStat"
      BY <1>5 DEF IInv, Types, ReadStat, Go, rest
    <2>5. Reads' /\ Something'
      BY <1>0, <2>0, <2>1, <2>3, <2>4, ReadOne, Zenon DEF IInv, Reads, Something, Call
    <2>. QED
      BY <1>0, <2>0, <2>3, <2>4, <2>5 DEF IInv, Binding, Call, Readable, Final, Connections, world
  <1>6. CASE AttestObjects
    BY <1>0, <1>6
    DEF IInv, Types, Binding, Call, Readable, Reads, Something, Final, Connections, Steps, AttestObjects, rest,
        world, Go
  <1>7. CASE AttestPods
    BY <1>0, <1>7, Zenon
    DEF IInv, Types, Binding, Call, Readable, Reads, Something, Final, Connections, Steps, AttestPods, rest, world,
        Go
  <1>8. CASE AttestContainer
    <2>0. Busy /\ g.pc = "container" /\ g' = g /\ conns' = conns
      BY <1>8, Zenon DEF AttestContainer, rest
    <2>1. PICK c \in w.todo : /\ w' = [w EXCEPT !.todo = @ \ {c}, !.cont = IF Pid \in Container(c) THEN c ELSE @]
                             /\ who' = who \cup (Holder(Pid) \cap Members(c))
      BY <1>8, Zenon DEF AttestContainer
    <2>2. Types' /\ w'.op = w.op /\ w'.peer = w.peer /\ w'.one = w.one /\ w'.two = w.two
      BY <2>0, <2>1, Zenon DEF IInv, Types, world
    <2>3. Reads' /\ Something'
      BY <1>0, <2>0, <2>1, <2>2, HolderIsPeer DEF IInv, Reads, Something, Call
    <2>. QED
      BY <1>0, <2>0, <2>2, <2>3 DEF IInv, Binding, Call, Readable, Final, Connections, world
  <1>9. CASE Attested
    BY <1>0, <1>9
    DEF IInv, Types, Binding, Call, Readable, Reads, Something, Final, Connections, Steps, Attested, rest, world, Go
  <1>10. CASE ReadExe("two", "twoStat")
    <2>0. Busy
      BY <1>10 DEF ReadExe
    <2>1. PICK i \in Holder(Pid) : /\ w' = [w EXCEPT !.two = [pid |-> Pid, start |-> 0, exe |-> proc[i].exe]]
                                  /\ who' = who \cup {i}
      BY <1>10 DEF ReadExe
    <2>2. [pid |-> Pid, start |-> 0, exe |-> proc[i].exe] \in Readings
      BY <1>10, <2>0, <2>1, ReadOne DEF IInv, Readable, Readings, Procs, ReadExe
    <2>3. Types' /\ w'.op = w.op /\ w'.peer = w.peer /\ w'.two \in Readings
                 /\ w'.one = w.one /\ w'.cont = w.cont
      BY <1>10, <2>1, <2>2 DEF IInv, Types, Steps, ReadExe, rest, world, Go
    <2>4. g'.pc = "twoStat" /\ g'.bound = g.bound /\ g'.pin = g.pin /\ g'.ev = g.ev /\ g'.closed = g.closed
          /\ conns' = conns /\ g.pc = "two"
      BY <1>10 DEF IInv, Types, ReadExe, Go, rest
    <2>5. Reads' /\ Something'
      BY <1>0, <2>0, <2>1, <2>3, <2>4, ReadOne DEF IInv, Reads, Something, Call
    <2>. QED
      BY <1>0, <2>0, <2>3, <2>4, <2>5 DEF IInv, Binding, Call, Readable, Final, Connections, world
  <1>11. CASE ReadStat("twoStat", "compare")
    <2>0. Busy
      BY <1>11 DEF ReadStat
    <2>1. PICK i \in Holder(Pid) : /\ w' = [w EXCEPT !.two = [w.two EXCEPT !.start = proc[i].start]]
                                  /\ who' = who \cup {i}
      BY <1>11 DEF ReadStat
    <2>2. [w.two EXCEPT !.start = proc[i].start] \in Readings
      BY <1>11, <2>0, <2>1, ReadOne, Zenon DEF IInv, Readable, Readings, Procs, ReadStat
    <2>3. Types' /\ w'.op = w.op /\ w'.peer = w.peer /\ w'.two \in Readings
                 /\ w'.one = w.one /\ w'.cont = w.cont
      BY <1>11, <2>1, <2>2, Zenon DEF IInv, Types, Steps, ReadStat, rest, world, Go
    <2>4. g'.pc = "compare" /\ g'.bound = g.bound /\ g'.pin = g.pin /\ g'.ev = g.ev /\ g'.closed = g.closed
          /\ conns' = conns /\ g.pc = "twoStat"
      BY <1>11, Zenon DEF IInv, Types, ReadStat, Go, rest
    <2>5. Reads' /\ Something'
      BY <1>0, <2>0, <2>1, <2>3, <2>4, ReadOne, Zenon DEF IInv, Reads, Something, Call
    <2>. QED
      BY <1>0, <2>0, <2>3, <2>4, <2>5 DEF IInv, Binding, Call, Readable, Final, Connections, world
  <1>12. CASE Compare
    BY <1>0, <1>12
    DEF IInv, Types, Binding, Call, Readable, Reads, Something, Final, Connections, Steps, Compare, rest, world, Go
  <1>13. CASE Poll
    <2>0. Busy /\ g.pc = "poll" /\ Alive(w.peer) /\ w.op = "bind" /\ w.peer \in Insts /\ UNCHANGED <<w, who>>
      BY <1>13 DEF Poll, IInv, Final, Call
    <2>1. who = {w.peer}
      BY <2>0, Zenon DEF IInv, Reads, Something
    <2>2. CASE g.bound
      <3>1. g' = [g EXCEPT !.pc = "last"] /\ conns' = conns
        BY <1>13, <2>2, Zenon DEF Poll, Go
      <3>2. Alive(g.pin) => w.peer = g.pin
        BY <2>0, <2>2, Zenon DEF IInv, Distinct, Binding, Call
      <3>. QED
        BY <1>0, <2>0, <2>1, <2>2, <3>1, <3>2, Zenon
        DEF IInv, Types, Binding, Call, Readable, Reads, Something, Final, Connections, Steps, world
    <2>3. CASE ~g.bound
      <3>. DEFINE e == [pid |-> Pid, process |-> w.one, cont |-> w.cont]
      <3>1. g' = [g EXCEPT !.pc = "done", !.bound = TRUE, !.pin = w.peer, !.ev = e] /\ conns' = {w.peer}
        BY <1>13, <2>3 DEF Poll, Bound, IInv, Connections
      <3>2. e \in Evidence /\ e.pid = proc[w.peer].pid
        BY <2>0, PidOfPeer DEF IInv, Readable, Evidence
      <3>. HIDE DEF e
      <3>. QED
        BY <1>0, <2>0, <2>1, <2>3, <3>1, <3>2, Zenon
        DEF IInv, Types, Binding, Call, Readable, Reads, Something, Final, Connections, Steps, Alive, world
    <2>. QED
      BY <2>2, <2>3, Zenon
  <1>14. CASE Last
    BY <1>0, <1>14
    DEF IInv, Types, Binding, Call, Readable, Reads, Something, Final, Connections, Steps, Last, rest, world, Go,
        CheckLocked
  <1>15. CASE Return
    BY <1>0, <1>15
    DEF IInv, Types, Binding, Call, Readable, Reads, Something, Final, Connections, Steps, Return, rest, world, Go,
        Refuse, NoCall
  <1>16. CASE Fail
    BY <1>0, <1>16
    DEF IInv, Types, Binding, Call, Readable, Reads, Something, Final, Connections, Steps, Fail, rest, world, Go,
        Refuse, NoCall
  <1>17. CASE Incarnation
    BY <1>0, <1>17
    DEF IInv, Types, Binding, Call, Readable, Reads, Something, Final, Connections, Steps, Incarnation, rest, world,
        Go, CheckLocked
  <1>18. CASE Close
    BY <1>0, <1>18, Zenon
    DEF IInv, Types, Binding, Call, Readable, Reads, Something, Final, Connections, Steps, Close, rest, world, Go
  <1>19. CASE NewAttestedSpeakerContinuity
    BY <1>0, <1>19
    DEF IInv, Types, Binding, Call, Readable, Reads, Something, Final, Connections, Steps,
        NewAttestedSpeakerContinuity, rest, world, Go, NewGuard
  <1>. QED
    BY <1>1, <1>2, <1>3, <1>4, <1>5, <1>6, <1>7, <1>8, <1>9, <1>10, <1>11, <1>12, <1>13, <1>14, <1>15, <1>16, <1>17,
       <1>18, <1>19
    DEF Guard

\* The inductive invariant holds in every reachable state.
THEOREM IInvHolds == Spec => []IInv
  <1>1. IInv /\ UNCHANGED vars => IInv'
    BY DEF IInv, Types, Distinct, Binding, Call, Readable, Reads, Something, Final, Connections, Alive, vars, world
  <1>2. IInv /\ [Next]_vars => IInv'
    BY <1>1, WorldFrame, FrameIInv, GuardIInv DEF Next
  <1>. QED
    BY InitIInv, <1>2, PTL DEF Spec

\* A binding or a check that succeeds has read the pinned process and no other, and all connections let
\* through lead to it, for any set of processes.
THEOREM GuardPinned == Spec => []Pinned
  <1>1. IInv => OneProcess
    BY DEF IInv, Final, OneProcess
  <1>2. IInv => ConnsPinned
    BY DEF IInv, Connections, ConnsPinned
  <1>3. IInv => Pinned
    BY <1>1, <1>2 DEF Pinned
  <1>. QED
    BY IInvHolds, <1>3, PTL
-----------------------------------------------------------------------------
(* Whom an incarnation names *)

\* The pin and the counters.
Counted ==
  /\ node \in Nodes /\ guards \in 1..node.guards /\ edits \in 0..node.edits
  /\ who \subseteq Insts /\ (~g.bound => g.pin = 0)

\* The start time read is the peer's if the peer still runs; the evidence of a bound guard has that of the
\* pinned process, and so has every incarnation reported.
StartRead == (~Before({"idle", "connect", "one", "oneStat"}) /\ Alive(w.peer)) => w.one.start = proc[w.peer].start
StartBound == g.bound => g.ev.process.start = proc[g.pin].start
Reported ==
  \A a \in known : /\ a[2] \in Insts /\ proc[a[2]] # None
                   /\ a[1][1] = proc[a[2]].pid /\ a[1][2] = proc[a[2]].start

Names == Counted /\ StartRead /\ StartBound /\ Reported

LEMMA InitNames == Init => Names
  BY NodeAssumption DEF Init, Names, Counted, StartRead, StartBound, Reported, NewGuard

LEMMA WorldNames == ASSUME IInv, Names, World PROVE Names'
  <1>1. Frame
    BY WorldFrame
  <1>2. Counted'
    <2>1. edits' \in 0..node.edits
      BY NodeAssumption DEF World, Names, Counted, Spawn, Exit, Exec, Listen, EditCluster, ListPods
    <2>2. UNCHANGED <<node, guards, who, g>>
      BY DEF World, Spawn, Exit, Exec, Listen, EditCluster, ListPods
    <2>. QED
      BY <2>1, <2>2 DEF Names, Counted
  <1>3. StartRead'
    <2>. SUFFICES ASSUME ~Before({"idle", "connect", "one", "oneStat"}), Alive(w.peer)' PROVE w.one.start = proc'[w.peer].start
      BY <1>1, Zenon DEF StartRead, Frame
    <2>1. w.peer \in Insts /\ proc[w.peer] # None
      BY Zenon DEF IInv, Call
    <2>. QED
      BY <1>1, <2>1, Zenon DEF Names, StartRead, Frame
  <1>4. StartBound'
    BY <1>1, Zenon DEF IInv, Binding, Names, StartBound, Frame
  <1>5. Reported'
    <2>1. known' = known
      BY DEF World
    <2>. QED
      BY <1>1, <2>1 DEF Names, Reported, Frame
  <1>. QED
    BY <1>2, <1>3, <1>4, <1>5 DEF Names

Early == {"idle", "connect", "one", "oneStat"}

\* A step of the guard that neither binds nor reports.
LEMMA QuietNames ==
  ASSUME IInv, Names, UNCHANGED <<world, known, guards>>, who' \subseteq Insts,
         g'.bound = g.bound, g'.pin = g.pin, g'.ev = g.ev,
         g'.pc \in Early \/ (g.pc \notin Early /\ w'.one = w.one /\ w'.peer = w.peer)
  PROVE  Names'
  <1>1. Counted'
    BY Zenon DEF Names, Counted, world
  <1>2. StartRead'
    BY Zenon DEF Names, StartRead, Early, Alive, world
  <1>3. StartBound' /\ Reported'
    BY DEF Names, StartBound, Reported, world
  <1>. QED
    BY <1>1, <1>2, <1>3 DEF Names

LEMMA GuardNames == ASSUME IInv, Names, Guard PROVE Names'
  <1>0. UNCHANGED world
    BY GuardWorld
  <1>1. who \subseteq Insts /\ Holder(Pid) \subseteq Insts
    BY DEF Names, Counted, Holder, Started
  <1>2. ASSUME NEW p \in Steps, Go(p) PROVE g'.pc = p /\ g'.bound = g.bound /\ g'.pin = g.pin /\ g'.ev = g.ev
    BY <1>2, Zenon DEF IInv, Types, Go
  <1>3. CASE DialContext \/ Connect \/ Check \/ ReadExe("one", "oneStat")
    <2>1. PICK p \in Early : Go(p)
      BY <1>3 DEF DialContext, Connect, Check, ReadExe, Early
    <2>2. UNCHANGED <<known, guards>> /\ who' \subseteq Insts
      BY <1>1, <1>3 DEF DialContext, Connect, Check, ReadExe, rest
    <2>. QED
      BY <1>0, <1>2, <2>1, <2>2, QuietNames DEF Early, Steps
  <1>4. CASE ReadStat("oneStat", "objects")
    <2>0. Busy /\ UNCHANGED <<known, guards>> /\ Go("objects")
      BY <1>4 DEF ReadStat, rest
    <2>1. PICK i \in Holder(Pid) : /\ w' = [w EXCEPT !.one = [w.one EXCEPT !.start = proc[i].start]]
                                  /\ who' = who \cup {i}
      BY <1>4 DEF ReadStat
    <2>2. w.one \in Readings
      BY <1>4 DEF IInv, Readable, ReadStat
    <2>3. w'.one.start = proc[i].start /\ w'.peer = w.peer
      BY <2>1, <2>2, Zenon DEF IInv, Types, Readings
    <2>4. StartRead'
      BY <1>0, <2>0, <2>3, ReadOne, Zenon DEF StartRead, Alive, world
    <2>5. Counted' /\ StartBound' /\ Reported'
      BY <1>0, <1>1, <1>2, <2>0, <2>1, Zenon DEF Names, Counted, StartBound, Reported, world, Steps
    <2>. QED
      BY <2>4, <2>5 DEF Names
  <1>5. CASE \/ AttestObjects \/ AttestPods \/ Attested \/ ReadExe("two", "twoStat") \/ ReadStat("twoStat", "compare")
             \/ Compare \/ Last
    <2>1. PICK p \in Steps : Go(p)
      BY <1>5, Zenon DEF AttestObjects, AttestPods, Attested, ReadExe, ReadStat, Compare, Last, Steps
    <2>2. g.pc \notin Early /\ w'.one = w.one /\ w'.peer = w.peer
      BY <1>5 DEF IInv, Types, AttestObjects, AttestPods, Attested, ReadExe, ReadStat, Compare, Last, Early
    <2>3. UNCHANGED <<known, guards>> /\ who' \subseteq Insts
      BY <1>1, <1>5 DEF AttestObjects, AttestPods, Attested, ReadExe, ReadStat, Compare, Last, rest
    <2>. QED
      BY <1>0, <1>2, <2>1, <2>2, <2>3, QuietNames
  <1>6. CASE AttestContainer
    <2>1. g.pc \notin Early /\ w'.one = w.one /\ w'.peer = w.peer
      BY <1>6 DEF IInv, Types, AttestContainer, Early
    <2>2. UNCHANGED <<g, known, guards>> /\ who' \subseteq Insts
      BY <1>1, <1>6 DEF AttestContainer, rest
    <2>. QED
      BY <1>0, <2>1, <2>2, QuietNames
  <1>7. CASE Poll
    <2>0. g.pc = "poll" /\ Alive(w.peer) /\ UNCHANGED <<w, who, known, guards>>
      BY <1>7, Zenon DEF Poll
    <2>1. CASE g.bound
      <3>1. Go("last")
        BY <1>7, <2>1 DEF Poll
      <3>. QED
        BY <1>0, <1>1, <1>2, <2>0, <3>1, QuietNames, Zenon DEF Steps, Early
    <2>2. CASE ~g.bound
      <3>1. g' = Bound
        BY <1>7, <2>2 DEF Poll
      <3>2. g'.bound /\ g'.pin = w.peer /\ g'.ev.process = w.one
        BY <3>1 DEF Bound, IInv, Types
      <3>3. w.one.start = proc[w.peer].start
        BY <2>0, Zenon DEF Names, StartRead
      <3>4. Counted' /\ StartRead' /\ Reported'
        BY <1>0, <2>0, <3>2, <3>3, Zenon DEF Names, Counted, StartRead, Reported, Alive, world
      <3>5. StartBound'
        BY <1>0, <3>2, <3>3, Zenon DEF StartBound, world
      <3>. QED
        BY <3>4, <3>5 DEF Names
    <2>. QED
      BY <2>1, <2>2
  <1>8. CASE Return \/ Fail
    <2>1. g'.pc = "idle" /\ g'.bound = g.bound /\ g'.pin = g.pin /\ g'.ev = g.ev /\ who' = {}
      BY <1>8 DEF Return, Fail, Refuse, IInv, Types
    <2>2. UNCHANGED <<known, guards>>
      BY <1>8 DEF Return, Fail, rest
    <2>. QED
      BY <1>0, <2>1, <2>2, QuietNames DEF Early
  <1>9. CASE Incarnation
    <2>1. g.bound /\ UNCHANGED <<g, w, who, guards>> /\ known' = known \cup {<<NameOf(g.ev), g.pin>>}
      BY <1>9, Zenon DEF Incarnation, CheckLocked
    <2>2. g.pin \in Insts /\ proc[g.pin] # None /\ g.ev.pid = proc[g.pin].pid
      BY <2>1, Zenon DEF IInv, Binding
    <2>3. g.ev.process.start = proc[g.pin].start
      BY <2>1 DEF Names, StartBound
    <2>4. NameOf(g.ev)[1] = g.ev.pid /\ NameOf(g.ev)[2] = g.ev.process.start
      BY Zenon DEF NameOf
    <2>5. Reported'
      BY <1>0, <2>1, <2>2, <2>3, <2>4 DEF Names, Reported, world
    <2>6. Counted' /\ StartRead' /\ StartBound'
      BY <1>0, <2>1, Zenon DEF Names, Counted, StartRead, StartBound, Alive, world
    <2>. QED
      BY <2>5, <2>6 DEF Names
  <1>10. CASE Close
    <2>1. g'.pc = "idle" /\ ~g'.bound /\ g'.pin = 0 /\ UNCHANGED <<w, who, known, guards>>
      BY <1>10, Zenon DEF Close, IInv, Types
    <2>. QED
      BY <1>0, <2>1 DEF Names, Counted, StartRead, StartBound, Reported, world
  <1>11. CASE NewAttestedSpeakerContinuity
    <2>1. /\ g'.pc = "idle" /\ ~g'.bound /\ g'.pin = 0 /\ UNCHANGED <<w, who, known>>
          /\ guards < node.guards /\ guards' = guards + 1
      BY <1>11, Zenon DEF NewAttestedSpeakerContinuity, NewGuard
    <2>2. Counted'
      BY <1>0, <2>1, NodeAssumption DEF Names, Counted, world
    <2>. QED
      BY <1>0, <2>1, <2>2, Zenon DEF Names, StartRead, StartBound, Reported, world
  <1>. QED
    BY <1>3, <1>4, <1>5, <1>6, <1>7, <1>8, <1>9, <1>10, <1>11 DEF Guard

THEOREM NamesHold == Spec => []Names
  <1>1. ASSUME IInv, Names, UNCHANGED vars PROVE Names'
    BY <1>1 DEF Names, Counted, StartRead, StartBound, Reported, Alive, vars, world
  <1>2. IInv /\ Names /\ [Next]_vars => Names'
    BY <1>1, WorldNames, GuardNames DEF Next
  <1>. QED
    BY InitNames, IInvHolds, <1>2, PTL DEF Spec

\* Two transports that report the same incarnation talk to the same process, for any processes, numbers and
\* containers, as long as a process number is not used again within a tick.
THEOREM IncarnationsIdentify == Spec => []IncarnationIdentifies
  <1>1. ASSUME IInv, Names PROVE TypeOK
    <2>1. /\ \A i \in Started : proc[i].pid \in Pids /\ proc[i].cont \in Containers /\ proc[i].start \in Nat
          /\ \A i, j \in Started : (i # j /\ Alive(i) /\ Alive(j)) => proc[i].pid # proc[j].pid
      BY <1>1, Zenon DEF IInv, Types, Distinct, Started, Procs
    <2>2. g.pin \in Insts \cup {0} /\ (g.bound <=> g.pin # 0)
      BY <1>1, InstAssumption, Zenon DEF IInv, Types, Binding, Names, Counted
    <2>3. conns \subseteq Insts
      BY <1>1 DEF IInv, Connections, Binding
    <2>4. listener \in Insts \cup {0} /\ pods \subseteq Containers /\ w.peer \in Insts \cup {0}
      BY <1>1, Zenon DEF IInv, Types
    <2>. QED
      BY <1>1, <2>1, <2>2, <2>3, <2>4, Zenon DEF Names, Counted, TypeOK
  <1>2. ASSUME IInv, Names,
               \A i, j \in Started : (i # j /\ proc[i].pid = proc[j].pid) => proc[i].start # proc[j].start,
               NEW a \in known, NEW b \in known, a[1] = b[1]
        PROVE  a[2] = b[2]
    <2>1. a[2] \in Started /\ b[2] \in Started
      BY <1>2, Zenon DEF Names, Reported, Started
    <2>2. proc[a[2]].pid = proc[b[2]].pid /\ proc[a[2]].start = proc[b[2]].start
      BY <1>2 DEF Names, Reported
    <2>. QED
      BY <1>2, <2>1, <2>2, Zenon
  <1>3. IInv /\ Names => IncarnationIdentifies
    BY <1>1, <1>2 DEF IncarnationIdentifies
  <1>. QED
    BY IInvHolds, NamesHold, <1>3, PTL
=============================================================================
