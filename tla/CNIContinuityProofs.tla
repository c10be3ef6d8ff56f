------------------------ MODULE CNIContinuityProofs ------------------------
(***************************************************************************)
(* What the continuity journal gives the CNI server, for any number of     *)
(* pods, sandboxes, faults and restarts.  The argument rests on one fact:  *)
(* a running agent whose journal handle is not fenced holds in memory what *)
(* is on disk, also in the middle of a call.                               *)
(***************************************************************************)
EXTENDS CNIContinuity, TLAPS

Calls == {"add", "add-net", "add-nb", "add-ovs", "add-ack", "del", "del-ovs", "del-nb", "del-net", "del-ack"}

Types ==
    /\ disk \in [state : {disk.state}, pending : {disk.pending}]
    /\ disk.state = [k \in Key |-> disk.state[k]]
    /\ mem = [k \in Key |-> mem[k]]
    /\ nb \in [Key -> Nat] /\ ovs \in [Key -> Nat] /\ veth \in [Key -> Nat]
    /\ gen \in Nat /\ now \in Nat
    /\ client = [r \in Requests |-> client[r]]
    /\ pc \in Calls => cur \in Requests /\ up = "up"
    /\ pc = "export" => up = "up"

\* While the handle is not fenced, memory and disk agree, also between an intent and its acknowledgement.
Follow == (up = "up" /\ ~fenced) => mem = disk.state

IInv == Types /\ Follow

\* A fresh agent with an empty journal.
LEMMA InitIInv == Init => IInv
  BY DEF Init, IInv, Types, Follow, Absent, NoACK, Calls

\* A step of ADD.
LEMMA AddIInv == ASSUME IInv, Add PROVE IInv'
  <1>. USE DEF IInv, Types, Follow, resources, cluster, call, NoFault, Fault, Reply, Fails, Calls
  <1>1. CASE AddReplay
    BY <1>1, Zenon DEF AddReplay
  <1>2. CASE AddBegin
    BY <1>2 DEF AddBegin, Begin, Write
  <1>3. CASE AddRefused
    BY <1>3, Zenon DEF AddRefused
  <1>4. CASE AddNetwork
    BY <1>4 DEF AddNetwork, Creates
  <1>5. CASE AddPort
    BY <1>5 DEF AddPort, Creates
  <1>6. CASE AddAttachment
    BY <1>6 DEF AddAttachment, Creates
  <1>7. CASE AddAcknowledge
    BY <1>7 DEF AddAcknowledge, Commit, Write
  <1>. QED
    BY <1>1, <1>2, <1>3, <1>4, <1>5, <1>6, <1>7, Zenon DEF Add
\* A step of DEL.
LEMMA DelIInv == ASSUME IInv, Del PROVE IInv'
  <1>. USE DEF IInv, Types, Follow, resources, cluster, call, NoFault, Fault, Reply, Fails, Calls
  <1>1. CASE DelNothing
    BY <1>1, Zenon DEF DelNothing
  <1>2. CASE DelBegin
    BY <1>2, Zenon DEF DelBegin, Begin, Write
  <1>3. CASE DelRefused
    BY <1>3, Zenon DEF DelRefused
  <1>4. CASE DelAttachment
    BY <1>4 DEF DelAttachment, Deletes
  <1>5. CASE DelPort
    BY <1>5 DEF DelPort, Deletes
  <1>6. CASE DelNetwork
    BY <1>6 DEF DelNetwork, Deletes
  <1>7. CASE DelAcknowledge
    BY <1>7 DEF DelAcknowledge, Commit, Write
  <1>. QED
    BY <1>1, <1>2, <1>3, <1>4, <1>5, <1>6, <1>7, Zenon DEF Del

\* A step of the background pass.
LEMMA VerifyIInv == ASSUME IInv, VerifyStart \/ Verify PROVE IInv'
  <1>. USE DEF IInv, Types, Follow, resources, cluster, call, NoFault, Fault, Reply, Fails, Calls
  <1>1. CASE VerifyStart
    BY <1>1, Zenon DEF VerifyStart
  <1>2. ASSUME NEW k \in Key, VerifyOne(k) PROVE IInv'
    BY <1>2 DEF VerifyOne, Decide
  <1>3. CASE VerifyStamp
    BY <1>3 DEF VerifyStamp
  <1>4. CASE VerifyBegin
    BY <1>4, Zenon DEF VerifyBegin, Begin, Write, EndPass
  <1>5. CASE VerifyCommit
    BY <1>5 DEF VerifyCommit, Commit, Write, EndPass
  <1>. QED
    BY <1>1, <1>2, <1>3, <1>4, <1>5, Zenon DEF Verify

\* Exports, stops, crashes and recovery.
LEMMA AgentIInv ==
  ASSUME IInv,
         ExportRefused \/ Recover \/ Retry \/ Stop \/ Crash \/ Tick \/ \E k \in Key : Export(k) \/ ExportAdd(k) \/ Withdraw(k)
  PROVE  IInv'
  <1>. USE DEF IInv, Types, Follow, resources, cluster, call, NoFault, Fault, Reply, Fails, Calls
  <1>1. CASE ExportRefused
    BY <1>1, Zenon DEF ExportRefused
  <1>2. CASE Recover
    BY <1>2, Zenon DEF Recover
  <1>3. CASE Retry
    BY <1>3, Zenon DEF Retry
  <1>4. CASE Stop
    BY <1>4 DEF Stop, NoACK, Idle
  <1>5. CASE Crash
    BY <1>5, Zenon DEF Crash, NoACK
  <1>6. CASE Tick
    BY <1>6 DEF Tick, environment
  <1>7. ASSUME NEW k \in Key, Export(k) PROVE IInv'
    BY <1>7 DEF Export, Idle
  <1>8. ASSUME NEW k \in Key, Withdraw(k) PROVE IInv'
    BY <1>8, Zenon DEF Withdraw
  <1>9. ASSUME NEW k \in Key, ExportAdd(k) PROVE IInv'
    BY <1>9 DEF ExportAdd, EndPass
  <1>. QED
    BY <1>1, <1>2, <1>3, <1>4, <1>5, <1>6, <1>7, <1>8, <1>9, Zenon DEF IInv

\* The runtime calls, and the cluster changes.
LEMMA ClusterIInv == ASSUME IInv, \/ \E r \in Requests : CallAdd(r) \/ CallDel(r) \/ Publish(r) \/ RemoveNamespace(r)
                                  \/ \E k \in Key : DeletePod(k) \/ LoseAttachment(k) PROVE IInv'
  <1>. USE DEF IInv, Types, Follow, resources, cluster, call, NoFault, Fault, Reply, Fails, Calls
  <1>1. ASSUME NEW r \in Requests, CallAdd(r) PROVE IInv'
    BY <1>1, Zenon DEF CallAdd, Idle
  <1>2. ASSUME NEW r \in Requests, CallDel(r) PROVE IInv'
    BY <1>2, Zenon DEF CallDel, Idle
  <1>3. ASSUME NEW r \in Requests, Publish(r) PROVE IInv'
    BY <1>3, Zenon DEF Publish, environment
  <1>4. ASSUME NEW r \in Requests, RemoveNamespace(r) PROVE IInv'
    BY <1>4, Zenon DEF RemoveNamespace, environment
  <1>5. ASSUME NEW k \in Key, DeletePod(k) PROVE IInv'
    BY <1>5, Zenon DEF DeletePod, environment
  <1>6. ASSUME NEW k \in Key, LoseAttachment(k) PROVE IInv'
    BY <1>6 DEF LoseAttachment, environment
  <1>. QED
    BY <1>1, <1>2, <1>3, <1>4, <1>5, <1>6, Zenon DEF IInv

\* Every step preserves the invariant.
LEMMA NextIInv == IInv /\ [Next]_vars => IInv'
  <1>1. IInv /\ Next => IInv'
    BY AddIInv, DelIInv, VerifyIInv, AgentIInv, ClusterIInv, Zenon DEF Next
  <1>2. IInv /\ UNCHANGED vars => IInv'
    BY DEF IInv, Types, Follow, vars, resources, cluster, call
  <1>. QED
    BY <1>1, <1>2

\* The inductive invariant holds in every reachable state.
THEOREM IInvHolds == Spec => []IInv
  BY InitIInv, NextIInv, PTL DEF Spec

\* Between calls, an agent whose journal is usable decides on exactly what the journal holds.
THEOREM JournalFollowed == Spec => []MemoryFollowsJournal
  <1>1. IInv => MemoryFollowsJournal
    BY Zenon DEF IInv, Follow, MemoryFollowsJournal, Idle, Ready
  <1>. QED
    BY IInvHolds, <1>1, PTL
-----------------------------------------------------------------------------
(* Exports *)

\* Between its validation and its AddPath an export keeps what it validated on disk.
Exporting == pc = "export" => Settled /\ \A k \in todo : disk.state[k] = ack

\* Only an export adds routes, after its validation, and nothing but the cluster
\* moves between the two.
LEMMA OnlyExportAdds ==
  ASSUME IInv, Next
  PROVE  /\ routes' \subseteq routes \/ \E k \in Key : ExportAdd(k)
         /\ pc' = "export" => UNCHANGED <<pc, disk, ack, todo>> \/ \E k \in Key : Export(k)
  <1>. USE DEF Reply, Fails
  <1>1. CASE Add
    <2>1. routes' \subseteq routes
      BY <1>1, Zenon DEF Add, AddReplay, AddBegin, AddRefused, AddNetwork, AddPort, AddAttachment, AddAcknowledge, Creates
    <2>2. pc' # "export"
      BY <1>1, Zenon DEF Add, AddReplay, AddBegin, AddRefused, AddNetwork, AddPort, AddAttachment, AddAcknowledge, Creates,
                  Begin, Commit, Write
    <2>. QED
      BY <2>1, <2>2, Zenon
  <1>2. CASE Del
    <2>1. routes' \subseteq routes
      BY <1>2, Zenon DEF Del, DelNothing, DelBegin, DelRefused, DelAttachment, DelPort, DelNetwork, DelAcknowledge, Deletes
    <2>2. pc' # "export"
      BY <1>2 DEF Del, DelNothing, DelBegin, DelRefused, DelAttachment, DelPort, DelNetwork, DelAcknowledge, Deletes,
                  Begin, Commit, Write
    <2>. QED
      BY <2>1, <2>2
  <1>3. CASE VerifyStart \/ Verify
    <2>1. routes' \subseteq routes
      BY <1>3, Zenon DEF VerifyStart, Verify, VerifyOne, VerifyStamp, VerifyBegin, VerifyCommit
    <2>2. pc' # "export"
      BY <1>3, Zenon DEF VerifyStart, Verify, VerifyOne, VerifyStamp, VerifyBegin, VerifyCommit, Decide, EndPass,
                         Begin, Commit, Write
    <2>. QED
      BY <2>1, <2>2
  <1>4. CASE ExportRefused \/ Recover \/ Retry \/ Stop \/ Crash \/ Tick
    BY <1>4 DEF ExportRefused, Recover, Retry, Stop, Crash, Tick, environment, call, Idle, IInv, Types
  <1>5. ASSUME NEW r \in Requests, CallAdd(r) \/ CallDel(r) \/ Publish(r) \/ RemoveNamespace(r)
        PROVE  routes' \subseteq routes /\ (pc' = "export" => UNCHANGED <<pc, disk, ack, todo>>)
    BY <1>5, Zenon DEF CallAdd, CallDel, Publish, RemoveNamespace, environment, call
  <1>6. ASSUME NEW k \in Key, Withdraw(k) \/ DeletePod(k) \/ LoseAttachment(k)
        PROVE  routes' \subseteq routes /\ (pc' = "export" => UNCHANGED <<pc, disk, ack, todo>>)
    BY <1>6 DEF Withdraw, DeletePod, LoseAttachment, environment, call
  <1>7. ASSUME NEW k \in Key, Export(k) PROVE routes' \subseteq routes
    BY <1>7 DEF Export
  <1>8. ASSUME NEW k \in Key, ExportAdd(k) PROVE pc' # "export"
    BY <1>8, Zenon DEF ExportAdd, EndPass
  <1>. QED
    BY <1>1, <1>2, <1>3, <1>4, <1>5, <1>6, <1>7, <1>8, Zenon DEF Next

\* What an export that goes on has validated.
LEMMA ExportValidates ==
  ASSUME IInv, NEW k \in Key, Export(k), pc' = "export"
  PROVE  /\ Settled /\ todo' = {k} /\ disk' = disk /\ disk.state[k] # None /\ disk.state[k] = ack'
         /\ Verified(disk.state[k]) /\ Workload(disk.state[k]) = "ok"
  <1>1. mem = disk.state
    BY DEF IInv, Follow, Export, Idle, Ready
  <1>2. Gate /\ pc # "export" /\ disk' = disk
    BY DEF Export, Idle
  <1>3. /\ mem[k] # None /\ mem[k].state = "active" /\ k \notin Dropped
        /\ ack' = mem[k] /\ todo' = {k}
    BY <1>2, Zenon DEF Export, call
  <1>4. Live(mem[k]) /\ Workload(mem[k]) = "ok" /\ Verified(mem[k])
    BY <1>2, <1>3 DEF Gate, Live, Dropped
  <1>. QED
    BY <1>1, <1>2, <1>3, <1>4, Zenon DEF Gate, Settled

\* What was validated stays on disk until the route is added.
THEOREM ExportingKept == Spec => []Exporting
  <1>1. Init => Exporting
    BY DEF Init, Exporting
  <1>2. ASSUME IInv, Exporting, Next PROVE Exporting'
    <2>1. CASE UNCHANGED <<pc, disk, ack, todo>>
      BY <1>2, <2>1, Zenon DEF Exporting, Settled, Live
    <2>2. ASSUME NEW k \in Key, Export(k), pc' = "export" PROVE Exporting'
      BY <1>2, <2>2, ExportValidates DEF Exporting, Settled
    <2>3. pc' # "export" => Exporting'
      BY Zenon DEF Exporting
    <2>. QED
      BY <1>2, <2>1, <2>2, <2>3, OnlyExportAdds, Zenon
  <1>3. Exporting /\ UNCHANGED vars => Exporting'
    BY DEF Exporting, Settled, vars, call
  <1>. QED
    BY IInvHolds, <1>1, <1>2, <1>3, PTL DEF Spec

\* An export is validated against a journal all of whose live endpoints are active
\* and for an endpoint that is verified, and its route is added while the journal
\* still says so.
THEOREM ExportsVerified == Spec => ExportedIsVerified
  <1>. DEFINE V == pc # "export" /\ pc' = "export" =>
                      \A k \in todo' :
                         /\ Settled /\ disk.state[k] # None /\ disk.state[k] = ack'
                         /\ Verified(disk.state[k]) /\ Workload(disk.state[k]) = "ok"
              A == \A k \in routes' \ routes :
                      Settled /\ pc = "export" /\ k \in todo /\ disk.state[k] = ack
  <1>1. ASSUME IInv, Next PROVE V
    BY <1>1, OnlyExportAdds, ExportValidates, Zenon
  <1>2. ASSUME IInv, Exporting, Next PROVE A
    BY <1>2, OnlyExportAdds, Zenon DEF ExportAdd, Exporting
  <1>3. IInv /\ Exporting /\ [Next]_vars => [V /\ A]_<<routes, pc>>
    BY <1>1, <1>2 DEF vars, call
  <1>. QED
    BY IInvHolds, ExportingKept, <1>3, PTL DEF Spec, ExportedIsVerified

-----------------------------------------------------------------------------
(* ADD *)

\* What an ADD acknowledges is not None.
LEMMA ProposedIsACK == ASSUME IInv, pc \in Calls PROVE Live(Proposed) /\ cur.key \in Key
  <1>1. cur \in Requests /\ cur.key \in Key
    BY DEF IInv, Types, Key
  <1>2. Observed(cur.key) \in Receipts
    BY <1>1 DEF IInv, Types, Observed, Receipts
  <1>3. now + Window \in Nat
    BY ContinuityAssumption DEF IInv, Types
  <1>4. Proposed \in Records
    BY <1>1, <1>2, <1>3 DEF Proposed, Records, States
  <1>5. Proposed.state # "deleted"
    BY Zenon DEF Proposed
  <1>. QED
    BY <1>1, <1>4, <1>5, ContinuityAssumption, Zenon DEF Live
\* The state a successful ADD leaves, as AddedIsDurable describes it.
Durable(r) ==
    /\ Live(disk'.state[r.key]) /\ disk'.state[r.key].r = r
    /\ disk'.state[r.key].receipt = Observed(r.key)' /\ disk'.pending = None

\* A replayed ADD answers from an acknowledgement that is on disk.
LEMMA ReplayDurable ==
  ASSUME IInv, AddReplay, NEW r \in Requests, client[r] # client'[r] PROVE Durable(r)
  <1>1. r = cur /\ cur.key \in Key
    BY DEF AddReplay, Reply, IInv, Types, Key
  <1>2. mem = disk.state /\ disk.pending = None
    BY Zenon DEF AddReplay, Ready, IInv, Types, Follow, Calls
  <1>3. Live(mem[r.key]) /\ mem[r.key].r = r /\ mem[r.key].receipt = Observed(r.key)
    BY <1>1, Zenon DEF AddReplay, Replays, Verified
  <1>4. disk' = disk /\ Observed(r.key)' = Observed(r.key)
    BY Zenon DEF AddReplay, Observed, resources
  <1>. QED
    BY <1>2, <1>3, <1>4, Zenon DEF Durable

\* A fresh ADD answers after its acknowledgement was written.
LEMMA AcknowledgeDurable ==
  ASSUME IInv, AddAcknowledge, NEW r \in Requests, client[r] = "adding", client'[r] = "added" PROVE Durable(r)
  <1>1. ~(client' = [client EXCEPT ![cur] = IF client[cur] = "adding" THEN "failed" ELSE "deleting"])
    BY Zenon DEF IInv, Types
  <1>2. /\ mem' = [mem EXCEPT ![cur.key] = Proposed]
        /\ disk' = [state |-> mem', pending |-> None]
        /\ \E c \in {"added", "failed"} : client' = [client EXCEPT ![cur] = c]
    BY <1>1, Zenon DEF AddAcknowledge, Commit, Write, Fails, Reply
  <1>3. r = cur /\ cur.key \in Key /\ Live(Proposed)
    BY <1>2, ProposedIsACK DEF IInv, Types, AddAcknowledge, Calls
  <1>4. disk'.state[r.key] = Proposed /\ disk'.pending = None
    BY <1>2, <1>3, Zenon DEF IInv, Types
  <1>5. Proposed.r = r /\ Proposed.receipt = Observed(r.key)
    BY <1>3, Zenon DEF Proposed
  <1>6. Observed(r.key)' = Observed(r.key)
    BY DEF AddAcknowledge, Observed, resources
  <1>. QED
    BY <1>3, <1>4, <1>5, <1>6 DEF Durable

\* No other step tells a runtime that its ADD succeeded.
LEMMA OthersTellNothing ==
  ASSUME IInv, Next, NEW r \in Requests, client[r] = "adding", client'[r] = "added"
  PROVE  AddReplay \/ AddAcknowledge
  <1>. USE DEF IInv, Types, Reply, Fails
  <1>1. CASE Add
    BY <1>1, Zenon DEF Add, AddBegin, AddRefused, AddNetwork, AddPort, AddAttachment, Creates, Begin, Write
  <1>2. CASE Del
    BY <1>2, Zenon DEF Del, DelNothing, DelBegin, DelRefused, DelAttachment, DelPort, DelNetwork, DelAcknowledge, Deletes,
                Begin, Commit, Write
  <1>3. CASE VerifyStart \/ Verify
    BY <1>3, Zenon DEF VerifyStart, Verify, VerifyOne, VerifyStamp, VerifyBegin, VerifyCommit, EndPass, Begin, Commit, Write
  <1>4. CASE ExportRefused \/ Recover \/ Retry \/ Stop \/ Crash \/ Tick
    BY <1>4, Zenon DEF ExportRefused, Recover, Retry, Stop, Crash, Tick
  <1>5. ASSUME NEW q \in Requests, CallAdd(q) \/ CallDel(q) \/ Publish(q) \/ RemoveNamespace(q)
        PROVE  FALSE
    BY <1>5, Zenon DEF CallAdd, CallDel, Publish, RemoveNamespace
  <1>6. ASSUME NEW k \in Key, Export(k) \/ ExportAdd(k) \/ Withdraw(k) \/ DeletePod(k) \/ LoseAttachment(k)
        PROVE  FALSE
    BY <1>6 DEF Export, ExportAdd, EndPass, Withdraw, DeletePod, LoseAttachment
  <1>. QED
    BY <1>1, <1>2, <1>3, <1>4, <1>5, <1>6, Zenon DEF Next

\* When ADD succeeds, the journal holds its acknowledgement with the resources that exist.
THEOREM AddsDurable == Spec => AddedIsDurable
  <1>. DEFINE A == \A r \in Requests : client[r] = "adding" /\ client'[r] = "added" => Durable(r)
  <1>1. IInv /\ Next => A
    BY ReplayDurable, AcknowledgeDurable, OthersTellNothing, Zenon
  <1>2. IInv /\ [Next]_vars => [A]_client
    BY <1>1, Zenon DEF vars
  <1>. QED
    BY IInvHolds, <1>2, PTL DEF Spec, AddedIsDurable, Durable
-----------------------------------------------------------------------------
(* What the disk accounts for *)

AddSteps == {"add-net", "add-nb", "add-ovs", "add-ack"}
DelSteps == {"del-ovs", "del-nb", "del-net", "del-ack"}
Passes == {"verify", "verify-stamp", "verify-begin", "verify-commit"}
Intents == [op : {"add", "del", "identity"}, ack : ACK]

Typed ==
    /\ disk \in [state : [Key -> ACK \cup {None}], pending : Intents \cup {None}]
    /\ mem \in [Key -> ACK \cup {None}] /\ ack \in ACK \cup {None}
    /\ store \subseteq Key /\ routes \subseteq Key /\ todo \subseteq Key
    /\ nb \in [Key -> 0..MaxGen] /\ ovs \in [Key -> 0..MaxGen] /\ veth \in [Key -> 0..MaxGen]
    /\ gen \in 0..MaxGen /\ now \in 0..MaxNow
    /\ \A k \in Key : disk.state[k] # None => disk.state[k].r.key = k

\* A call that has begun is the one its intent names.
Calling ==
    /\ up # "up" => pc = "idle"
    /\ pc \in AddSteps \cup DelSteps => ~fenced /\ ack \in ACK /\ ack.r = cur
    /\ pc \in AddSteps => disk.pending = [op |-> "add", ack |-> ack] /\ now + Window <= MaxNow
    /\ pc \in DelSteps => disk.pending = [op |-> "del", ack |-> ack]
    /\ pc \in {"add"} \cup AddSteps => client[cur] = "adding"
    /\ pc \in {"del"} \cup DelSteps => client[cur] = "deleting"

\* The pass decides on endpoints that are pending, and changes nothing else of them.
Passing ==
    /\ pc \in Passes => ~fenced /\ \A k \in todo : Pending(k)
    /\ pc \in Passes \ {"verify-commit"} => disk.pending = None
    /\ pc = "verify-commit" => disk.pending = [op |-> "identity", ack |-> ack]
    /\ pc \in Passes \ {"verify"} =>
         /\ ack \in ACK /\ ack.state # "deleted" /\ ack.r.key \notin todo /\ Pending(ack.r.key)
         /\ ack.r = mem[ack.r.key].r /\ ack.receipt = mem[ack.r.key].receipt

Books == Typed /\ Calling /\ Passing /\ ResourcesAccounted /\ AddedStaysAcknowledged

LEMMA NoneApart == None \notin ACK /\ None \notin Intents
  <1>1. ACK \subseteq Records
    BY ContinuityAssumption DEF ACK, Records, Receipts
  <1>. QED
    BY <1>1, ContinuityAssumption DEF Intents

\* An intent that names a key, the resources that a live acknowledgement pins, and
\* what the runtime was told.
Named(k) == disk.pending # None /\ disk.pending.op # "identity" /\ disk.pending.ack.r.key = k
Pinned(a) == IF Live(a) THEN a.receipt ELSE [nb |-> 0, ovs |-> 0, veth |-> 0]
Held(k) == /\ nb[k] \in {0, Pinned(disk.state[k]).nb} /\ ovs[k] \in {0, Pinned(disk.state[k]).ovs}
           /\ veth[k] \in {0, Pinned(disk.state[k]).veth}
Told(r) == Live(disk.state[r.key]) /\ disk.state[r.key].r = r /\ ~Named(r.key)

LEMMA Accounts == /\ ResourcesAccounted <=> \A k \in Key : Named(k) \/ Held(k)
                  /\ AddedStaysAcknowledged <=> \A r \in Requests : client[r] = "added" => Told(r)
  <1>1. ResourcesAccounted <=> \A k \in Key : Named(k) \/ Held(k)
    BY Zenon DEF ResourcesAccounted, Named, Held, Pinned
  <1>2. AddedStaysAcknowledged <=> \A r \in Requests : client[r] = "added" => Told(r)
    BY Zenon DEF AddedStaysAcknowledged, Told, Named
  <1>. QED
    BY <1>1, <1>2

\* The same of the next state.
LEMMA AccountsNext ==
  ASSUME \A k \in Key : Named(k)' \/ Held(k)', \A r \in Requests : client'[r] = "added" => Told(r)'
  PROVE  ResourcesAccounted' /\ AddedStaysAcknowledged'
  <1>1. ResourcesAccounted'
    BY Zenon DEF ResourcesAccounted, Named, Held, Pinned
  <1>2. AddedStaysAcknowledged'
    BY Zenon DEF AddedStaysAcknowledged, Told, Named
  <1>. QED
    BY <1>1, <1>2

\* A step that leaves the journal alone and takes resources away, or has an intent
\* for them.
LEMMA JournalLeft ==
  ASSUME Books, UNCHANGED disk,
         \A k \in Key : Named(k) \/ (nb'[k] \in {0, nb[k]} /\ ovs'[k] \in {0, ovs[k]} /\ veth'[k] \in {0, veth[k]}),
         \A r \in Requests : client'[r] = "added" => client[r] = "added" \/ Told(r)
  PROVE  ResourcesAccounted' /\ AddedStaysAcknowledged'
  <1>1. ASSUME NEW k \in Key PROVE Named(k)' \/ Held(k)'
    <2>1. Named(k) \/ Held(k)
      BY Accounts, Zenon DEF Books
    <2>. QED
      BY <2>1, Zenon DEF Named, Held
  <1>2. ASSUME NEW r \in Requests, client'[r] = "added" PROVE Told(r)'
    <2>1. Told(r)
      BY <1>2, Accounts, Zenon DEF Books
    <2>. QED
      BY <2>1, Zenon DEF Told, Named
  <1>. QED
    BY <1>1, <1>2, AccountsNext, Zenon

\* Begin: an intent about an endpoint that no other sandbox was told of.
LEMMA IntentAdded ==
  ASSUME Books, NEW i \in Intents, disk.pending = None, disk' = [disk EXCEPT !.pending = i], UNCHANGED resources,
         \A r \in Requests : client'[r] = "added" => client[r] = "added" /\ (i.op # "identity" => r.key # i.ack.r.key)
  PROVE  ResourcesAccounted' /\ AddedStaysAcknowledged'
  <1>1. disk'.state = disk.state /\ disk'.pending = i
    BY DEF Books, Typed
  <1>2. ASSUME NEW k \in Key PROVE Held(k)'
    <2>1. Held(k)
      BY Accounts, Zenon DEF Books, Named
    <2>. QED
      BY <1>1, <2>1, Zenon DEF Held, resources
  <1>3. ASSUME NEW r \in Requests, client'[r] = "added" PROVE Told(r)'
    <2>1. Told(r)
      BY <1>3, Accounts, Zenon DEF Books
    <2>. QED
      BY <1>1, <1>3, <2>1, Zenon DEF Told, Named
  <1>. QED
    BY <1>2, <1>3, AccountsNext, Zenon

\* Commit: the acknowledgement of the one endpoint that the intent may name.
LEMMA Acknowledged ==
  ASSUME Books, NEW k \in Key, NEW a \in ACK, a.r.key = k,
         disk' = [state |-> [disk.state EXCEPT ![k] = a], pending |-> None], UNCHANGED resources,
         \A j \in Key : Named(j) => j = k,
         nb[k] \in {0, Pinned(a).nb}, ovs[k] \in {0, Pinned(a).ovs}, veth[k] \in {0, Pinned(a).veth},
         \A r \in Requests : client'[r] = "added" =>
             (client[r] = "added" /\ r.key # k) \/ (r.key = k /\ Live(a) /\ a.r = r)
  PROVE  /\ ResourcesAccounted' /\ AddedStaysAcknowledged'
         /\ disk' \in [state : [Key -> ACK \cup {None}], pending : Intents \cup {None}]
         /\ \A j \in Key : disk'.state[j] # None => disk'.state[j].r.key = j
  <1>1. /\ disk'.pending = None /\ disk'.state \in [Key -> ACK \cup {None}]
        /\ \A j \in Key : disk'.state[j] = IF j = k THEN a ELSE disk.state[j]
    BY Zenon DEF Books, Typed
  <1>2. ASSUME NEW j \in Key PROVE Held(j)'
    <2>1. CASE j = k
      BY <1>1, <2>1, Zenon DEF Held, resources
    <2>2. CASE j # k
      <3>1. Held(j)
        BY <2>2, Accounts, Zenon DEF Books
      <3>. QED
        BY <1>1, <2>2, <3>1, Zenon DEF Held, resources
    <2>. QED
      BY <2>1, <2>2
  <1>3. ASSUME NEW r \in Requests, client'[r] = "added" PROVE Told(r)'
    <2>1. r.key \in Key
      BY DEF Key
    <2>2. CASE r.key = k /\ Live(a) /\ a.r = r
      BY <1>1, <2>1, <2>2, Zenon DEF Told, Named
    <2>3. CASE client[r] = "added" /\ r.key # k
      <3>1. Told(r)
        BY <2>3, Accounts, Zenon DEF Books
      <3>. QED
        BY <1>1, <2>1, <2>3, <3>1, Zenon DEF Told, Named
    <2>. QED
      BY <1>3, <2>2, <2>3, Zenon
  <1>4. \A j \in Key : disk'.state[j] # None => disk'.state[j].r.key = j
    BY <1>1 DEF Books, Typed
  <1>. QED
    BY <1>1, <1>2, <1>3, <1>4, AccountsNext, Zenon

\* What an action leaves of the types.
LEMMA TypesLeft ==
  ASSUME Books, UNCHANGED <<disk, mem, gen, now>>, ack' \in ACK \cup {None},
         store' \subseteq Key, routes' \subseteq Key, todo' \subseteq Key,
         nb' \in [Key -> 0..MaxGen], ovs' \in [Key -> 0..MaxGen], veth' \in [Key -> 0..MaxGen]
  PROVE  Typed'
  BY Zenon DEF Books, Typed

LEMMA IdleNext == ASSUME pc' = "idle" PROVE Calling' /\ Passing'
  BY DEF Calling, Passing, AddSteps, DelSteps, Passes

\* A call that fails has not been told that its ADD succeeded.
LEMMA FailsReply ==
  ASSUME IInv, pc \in Calls, Fails
  PROVE  /\ pc' = "idle" /\ ack' = None /\ UNCHANGED todo
         /\ \A r \in Requests : client'[r] = "added" => client[r] = "added" /\ r # cur
  <1>1. /\ pc' = "idle" /\ ack' = None /\ UNCHANGED todo
        /\ client' = [client EXCEPT ![cur] = IF client[cur] = "adding" THEN "failed" ELSE "deleting"]
    BY Zenon DEF Fails, Reply
  <1>2. client = [r \in Requests |-> client[r]]
    BY DEF IInv, Types
  <1>. QED
    BY <1>1, <1>2, Zenon

\* A step of the agent that only ends its call, or moves on in it.
LEMMA QuietBooks ==
  ASSUME IInv, Books, UNCHANGED <<disk, mem, resources, gen, now>>, ack' \in ACK \cup {None},
         store' \subseteq Key, routes' \subseteq Key, todo' \subseteq Key, Calling', Passing',
         \A r \in Requests : client'[r] = "added" => client[r] = "added" \/ Told(r)
  PROVE  Books'
  <1>1. Typed'
    <2>1. nb' \in [Key -> 0..MaxGen] /\ ovs' \in [Key -> 0..MaxGen] /\ veth' \in [Key -> 0..MaxGen]
      BY Zenon DEF Books, Typed, resources
    <2>. QED
      BY <2>1, TypesLeft
  <1>2. ResourcesAccounted' /\ AddedStaysAcknowledged'
    <2>1. \A k \in Key : nb'[k] \in {0, nb[k]} /\ ovs'[k] \in {0, ovs[k]} /\ veth'[k] \in {0, veth[k]}
      BY Zenon DEF resources
    <2>. QED
      BY <2>1, JournalLeft, Zenon
  <1>. QED
    BY <1>1, <1>2, Zenon DEF Books

\* A call that fails and changed nothing.
LEMMA FailsBooks ==
  ASSUME IInv, Books, pc \in Calls, Fails, UNCHANGED <<disk, mem, store, routes, resources, gen, now>>
  PROVE  Books'
  <1>1. pc' = "idle" /\ ack' = None /\ todo' = todo /\ \A r \in Requests : client'[r] = "added" => client[r] = "added"
    BY FailsReply, Zenon
  <1>2. store' \subseteq Key /\ routes' \subseteq Key /\ todo' \subseteq Key
    BY <1>1, Zenon DEF Books, Typed
  <1>. QED
    BY <1>1, <1>2, IdleNext, QuietBooks, Zenon

LEMMA AddReplayBooks == ASSUME IInv, Books, AddReplay PROVE Books'
  <1>1. /\ pc' = "idle" /\ ack' = None /\ UNCHANGED <<disk, mem, routes, resources, gen, now, todo>>
        /\ client' = [client EXCEPT ![cur] = "added"] /\ store' = store \cup {cur.key}
    BY Zenon DEF AddReplay, Reply
  <1>2. cur.key \in Key /\ cur \in Requests /\ up = "up"
    BY DEF AddReplay, IInv, Types, Key, Calls
  <1>3. mem = disk.state /\ disk.pending = None
    BY <1>2 DEF AddReplay, Ready, IInv, Follow
  <1>4. Told(cur)
    BY <1>3, Zenon DEF AddReplay, Replays, Told, Named
  <1>5. \A r \in Requests : client'[r] = "added" => client[r] = "added" \/ Told(r)
    BY <1>1, <1>4, Zenon DEF IInv, Types
  <1>6. store' \subseteq Key /\ routes' \subseteq Key /\ todo' \subseteq Key
    BY <1>1, <1>2 DEF Books, Typed
  <1>. QED
    BY <1>1, <1>5, <1>6, IdleNext, QuietBooks, Zenon

\* Every sandbox that was told of an acknowledgement is the one it is of.
LEMMA OneTold == ASSUME Books, NEW r \in Requests, client[r] = "added" PROVE Told(r)
  BY Accounts, Zenon DEF Books

\* A journal write of which only the intent is new.
LEMMA BeginTyped ==
  ASSUME Books, NEW i \in Intents, disk' \in {disk, [disk EXCEPT !.pending = i]}, UNCHANGED <<mem, store, routes, resources, now>>,
         gen' \in 0..MaxGen, ack' \in ACK \cup {None}, todo' \subseteq Key
  PROVE  Typed'
  <1>1. disk'.state = disk.state /\ disk' \in [state : [Key -> ACK \cup {None}], pending : Intents \cup {None}]
    BY DEF Books, Typed
  <1>. QED
    BY <1>1, Zenon DEF Books, Typed, resources

LEMMA BeginBooks ==
  ASSUME IInv, Books, NEW i \in Intents, disk.pending = None, disk' \in {disk, [disk EXCEPT !.pending = i]},
         UNCHANGED <<mem, store, routes, resources, now>>,
         gen' \in 0..MaxGen, ack' \in ACK \cup {None}, todo' \subseteq Key, Calling', Passing',
         \A r \in Requests : client'[r] = "added" => client[r] = "added" /\ (i.op # "identity" => r.key # i.ack.r.key)
  PROVE  Books'
  <1>1. Typed'
    BY BeginTyped
  <1>2. ResourcesAccounted' /\ AddedStaysAcknowledged'
    <2>1. CASE disk' = disk
      <3>1. \A k \in Key : nb'[k] \in {0, nb[k]} /\ ovs'[k] \in {0, ovs[k]} /\ veth'[k] \in {0, veth[k]}
        BY Zenon DEF resources
      <3>. QED
        BY <2>1, <3>1, JournalLeft, Zenon
    <2>2. CASE disk' = [disk EXCEPT !.pending = i]
      BY <2>2, IntentAdded, Zenon
    <2>. QED
      BY <2>1, <2>2
  <1>. QED
    BY <1>1, <1>2, Zenon DEF Books

LEMMA AddBeginBooks == ASSUME IInv, Books, AddBegin PROVE Books'
  <1>. DEFINE a == [r |-> cur, receipt |-> Observed(cur.key), state |-> "new", by |-> 0, at |-> 0]
              i == [op |-> "add", ack |-> a]
  <1>1. /\ pc = "add" /\ ~fenced /\ disk.pending = None /\ ~Live(mem[cur.key]) /\ gen < MaxGen /\ now + Window <= MaxNow
        /\ UNCHANGED <<mem, store, resources, routes, up, now>>
    BY Zenon DEF AddBegin, Ready, Fresh
  <1>2. cur \in Requests /\ cur.key \in Key /\ up = "up" /\ mem = disk.state /\ client[cur] = "adding"
    BY <1>1, Zenon DEF IInv, Types, Follow, Calls, Key, Books, Calling
  <1>3. a \in ACK /\ i \in Intents /\ i.ack.r.key = cur.key /\ a.r = cur /\ i.op = "add"
    <2>1. Observed(cur.key) \in [nb : 0..MaxGen, ovs : 0..MaxGen, veth : 0..MaxGen]
      BY <1>2, Zenon DEF Observed, Books, Typed
    <2>2. a \in ACK
      BY <1>2, <2>1, ContinuityAssumption DEF ACK, States
    <2>. QED
      BY <2>2, Zenon DEF Intents
  <1>4. \A r \in Requests : client[r] = "added" => r.key # cur.key
    BY <1>1, <1>2, OneTold, Zenon DEF Told
  <1>5. \/ /\ disk' = [disk EXCEPT !.pending = i] /\ UNCHANGED <<fenced, client, cur, todo>>
           /\ pc' = "add-net" /\ ack' = a /\ gen' = gen + 1
        \/ disk' \in {disk, [disk EXCEPT !.pending = i]} /\ Fails /\ UNCHANGED gen
    BY DEF AddBegin, Begin, Write
  <1>. HIDE DEF a, i
  <1>6. CASE /\ disk' = [disk EXCEPT !.pending = i] /\ UNCHANGED <<fenced, client, cur, todo>>
             /\ pc' = "add-net" /\ ack' = a /\ gen' = gen + 1
    <2>1. disk'.pending = i /\ i = [op |-> "add", ack |-> a]
      BY <1>6 DEF Books, Typed, i
    <2>2. Calling'
      BY <1>1, <1>2, <1>3, <1>6, <2>1, Zenon DEF Calling, AddSteps, DelSteps
    <2>3. Passing'
      BY <1>6 DEF Passing, Passes
    <2>4. gen' \in 0..MaxGen /\ ack' \in ACK \cup {None} /\ todo' \subseteq Key
      <3>1. gen \in 0..MaxGen /\ todo \subseteq Key
        BY Zenon DEF Books, Typed
      <3>2. gen + 1 \in 0..MaxGen
        BY <1>1, <3>1, ContinuityAssumption
      <3>. QED
        BY <1>3, <1>6, <3>1, <3>2, Zenon
    <2>. QED
      BY <1>1, <1>3, <1>4, <1>6, <2>2, <2>3, <2>4, BeginBooks, Zenon
  <1>7. CASE disk' \in {disk, [disk EXCEPT !.pending = i]} /\ Fails /\ UNCHANGED gen
    <2>1. /\ pc' = "idle" /\ ack' = None /\ todo' = todo /\ \A r \in Requests : client'[r] = "added" => client[r] = "added"
      BY <1>1, <1>7, FailsReply, Zenon DEF Calls
    <2>2. gen' \in 0..MaxGen /\ ack' \in ACK \cup {None} /\ todo' \subseteq Key
      BY <1>7, <2>1, Zenon DEF Books, Typed
    <2>3. Calling' /\ Passing'
      BY <2>1, IdleNext, Zenon
    <2>4. \A r \in Requests : client'[r] = "added" => client[r] = "added" /\ r.key # i.ack.r.key
      BY <1>3, <1>4, <2>1, Zenon
    <2>. QED
      BY <1>1, <1>3, <1>7, <2>2, <2>3, <2>4, BeginBooks, Zenon
  <1>. QED
    BY <1>5, <1>6, <1>7, Zenon

\* One of the resources of the endpoint that an intent names is changed.
LEMMA ChangeBooks ==
  ASSUME IInv, Books, pc \in AddSteps \cup DelSteps, UNCHANGED <<disk, fenced, mem, store, routes, gen, up, now>>,
         nb' \in [Key -> 0..MaxGen], ovs' \in [Key -> 0..MaxGen], veth' \in [Key -> 0..MaxGen],
         \A k \in Key : k # cur.key => nb'[k] = nb[k] /\ ovs'[k] = ovs[k] /\ veth'[k] = veth[k],
         \/ Fails
         \/ /\ UNCHANGED <<client, cur, ack, todo>>
            /\ (pc \in AddSteps /\ pc' \in AddSteps) \/ (pc \in DelSteps /\ pc' \in DelSteps)
  PROVE  Books'
  <1>1. Named(cur.key)
    <2>1. /\ disk.pending \in {[op |-> "add", ack |-> ack], [op |-> "del", ack |-> ack]}
          /\ ack \in ACK /\ ack.r = cur
      BY Zenon DEF Books, Calling
    <2>2. disk.pending \in Intents /\ disk.pending.op # "identity" /\ disk.pending.ack = ack
      BY <2>1 DEF Intents
    <2>. QED
      BY <2>1, <2>2, NoneApart, Zenon DEF Named
  <1>2. /\ \A r \in Requests : client'[r] = "added" => client[r] = "added"
        /\ ack' \in ACK \cup {None} /\ todo' = todo
        /\ pc' = "idle" \/ UNCHANGED <<client, cur, ack>>
    <2>1. pc \in Calls
      BY DEF AddSteps, DelSteps, Calls
    <2>. QED
      BY <2>1, FailsReply, Zenon DEF Books, Typed
  <1>3. Typed'
    <2>1. store' \subseteq Key /\ routes' \subseteq Key /\ todo' \subseteq Key
      BY <1>2, Zenon DEF Books, Typed
    <2>. QED
      BY <1>2, <2>1, TypesLeft, Zenon
  <1>4. ResourcesAccounted' /\ AddedStaysAcknowledged'
    BY <1>1, <1>2, JournalLeft, Zenon
  <1>5. Calling' /\ Passing'
    <2>1. CASE pc' = "idle"
      BY <2>1, IdleNext, Zenon
    <2>2. CASE pc' # "idle"
      <3>1. /\ UNCHANGED <<client, cur, ack, todo>>
            /\ (pc \in AddSteps /\ pc' \in AddSteps) \/ (pc \in DelSteps /\ pc' \in DelSteps)
        BY <1>2, <2>2, Zenon DEF Fails, Reply
      <3>2. Passing'
        BY <3>1, Zenon DEF Passing, Passes, AddSteps, DelSteps
      <3>3. up = "up"
        BY Zenon DEF IInv, Types, AddSteps, DelSteps, Calls
      <3>4. Calling'
        BY <3>1, <3>3 DEF Books, Calling, AddSteps, DelSteps
      <3>. QED
        BY <3>2, <3>4, Zenon
    <2>. QED
      BY <2>1, <2>2
  <1>. QED
    BY <1>3, <1>4, <1>5, Zenon DEF Books

LEMMA AddNetworkBooks == ASSUME IInv, Books, AddNetwork \/ AddPort \/ AddAttachment PROVE Books'
  <1>0. pc \in AddSteps /\ pc \in Calls
    BY DEF AddNetwork, AddPort, AddAttachment, Creates, AddSteps, Calls
  <1>1. CASE /\ pc = "add-net" /\ Fails
             /\ UNCHANGED <<disk, fenced, mem, store, resources, gen, cluster, routes, up, now, faults>>
    BY <1>0, <1>1, FailsBooks, Zenon
  <1>2. cur.key \in Key /\ gen \in 0..MaxGen
    BY <1>0, Zenon DEF IInv, Types, Key, Books, Typed
  <1>4. nb \in [Key -> 0..MaxGen] /\ ovs \in [Key -> 0..MaxGen] /\ veth \in [Key -> 0..MaxGen]
    BY Zenon DEF Books, Typed
  <1>5. CASE Creates("add-net", "add-nb", veth, <<nb, ovs>>)
    <2>1. /\ veth' \in {veth, [veth EXCEPT ![cur.key] = gen]} /\ UNCHANGED <<nb, ovs>>
          /\ UNCHANGED <<disk, fenced, mem, store, routes, gen, up, now>>
          /\ (pc' \in AddSteps /\ UNCHANGED <<client, cur, ack, todo>>) \/ Fails
      BY <1>5, Zenon DEF Creates, AddSteps
    <2>2. /\ nb' \in [Key -> 0..MaxGen] /\ ovs' \in [Key -> 0..MaxGen] /\ veth' \in [Key -> 0..MaxGen]
          /\ \A k \in Key : k # cur.key => nb'[k] = nb[k] /\ ovs'[k] = ovs[k] /\ veth'[k] = veth[k]
      BY <1>2, <1>4, <2>1, Zenon
    <2>. QED
      BY <1>0, <2>1, <2>2, ChangeBooks, Zenon
  <1>6. CASE AddPort
    <2>1. /\ nb' \in {nb, [nb EXCEPT ![cur.key] = gen]} /\ UNCHANGED <<ovs, veth>>
          /\ UNCHANGED <<disk, fenced, mem, store, routes, gen, up, now>>
          /\ (pc' \in AddSteps /\ UNCHANGED <<client, cur, ack, todo>>) \/ Fails
      BY <1>6, Zenon DEF AddPort, Creates, AddSteps
    <2>2. /\ nb' \in [Key -> 0..MaxGen] /\ ovs' \in [Key -> 0..MaxGen] /\ veth' \in [Key -> 0..MaxGen]
          /\ \A k \in Key : k # cur.key => nb'[k] = nb[k] /\ ovs'[k] = ovs[k] /\ veth'[k] = veth[k]
      BY <1>2, <1>4, <2>1, Zenon
    <2>. QED
      BY <1>0, <2>1, <2>2, ChangeBooks, Zenon
  <1>7. CASE AddAttachment
    <2>1. /\ ovs' \in {ovs, [ovs EXCEPT ![cur.key] = gen]} /\ UNCHANGED <<nb, veth>>
          /\ UNCHANGED <<disk, fenced, mem, store, routes, gen, up, now>>
          /\ (pc' \in AddSteps /\ UNCHANGED <<client, cur, ack, todo>>) \/ Fails
      BY <1>7, Zenon DEF AddAttachment, Creates, AddSteps
    <2>2. /\ nb' \in [Key -> 0..MaxGen] /\ ovs' \in [Key -> 0..MaxGen] /\ veth' \in [Key -> 0..MaxGen]
          /\ \A k \in Key : k # cur.key => nb'[k] = nb[k] /\ ovs'[k] = ovs[k] /\ veth'[k] = veth[k]
      BY <1>2, <1>4, <2>1, Zenon
    <2>. QED
      BY <1>0, <2>1, <2>2, ChangeBooks, Zenon
  <1>. QED
    BY <1>1, <1>5, <1>6, <1>7, Zenon DEF AddNetwork

LEMMA DelNetworkBooks == ASSUME IInv, Books, DelAttachment \/ DelPort \/ DelNetwork PROVE Books'
  <1>0. pc \in DelSteps
    BY Zenon DEF DelNetwork, DelPort, DelAttachment, Deletes, DelSteps
  <1>1. nb \in [Key -> 0..MaxGen] /\ ovs \in [Key -> 0..MaxGen] /\ veth \in [Key -> 0..MaxGen] /\ 0 \in 0..MaxGen
    BY ContinuityAssumption DEF Books, Typed
  <1>3. CASE DelAttachment
    <2>1. /\ ovs' \in {ovs, [ovs EXCEPT ![cur.key] = 0]} /\ UNCHANGED <<nb, veth>>
          /\ UNCHANGED <<disk, fenced, mem, store, routes, gen, up, now>>
          /\ (pc' \in DelSteps /\ UNCHANGED <<client, cur, ack, todo>>) \/ Fails
      BY <1>3, Zenon DEF DelAttachment, Deletes, DelSteps
    <2>2. /\ nb' \in [Key -> 0..MaxGen] /\ ovs' \in [Key -> 0..MaxGen] /\ veth' \in [Key -> 0..MaxGen]
          /\ \A k \in Key : k # cur.key => nb'[k] = nb[k] /\ ovs'[k] = ovs[k] /\ veth'[k] = veth[k]
      BY <1>1, <2>1
    <2>. QED
      BY <1>0, <2>1, <2>2, ChangeBooks, Zenon
  <1>4. CASE DelPort
    <2>1. /\ nb' \in {nb, [nb EXCEPT ![cur.key] = 0]} /\ UNCHANGED <<ovs, veth>>
          /\ UNCHANGED <<disk, fenced, mem, store, routes, gen, up, now>>
          /\ (pc' \in DelSteps /\ UNCHANGED <<client, cur, ack, todo>>) \/ Fails
      BY <1>4, Zenon DEF DelPort, Deletes, DelSteps
    <2>2. /\ nb' \in [Key -> 0..MaxGen] /\ ovs' \in [Key -> 0..MaxGen] /\ veth' \in [Key -> 0..MaxGen]
          /\ \A k \in Key : k # cur.key => nb'[k] = nb[k] /\ ovs'[k] = ovs[k] /\ veth'[k] = veth[k]
      BY <1>1, <2>1
    <2>. QED
      BY <1>0, <2>1, <2>2, ChangeBooks, Zenon
  <1>5. CASE DelNetwork
    <2>1. /\ veth' \in {veth, [veth EXCEPT ![cur.key] = 0]} /\ UNCHANGED <<nb, ovs>>
          /\ UNCHANGED <<disk, fenced, mem, store, routes, gen, up, now>>
          /\ (pc' \in DelSteps /\ UNCHANGED <<client, cur, ack, todo>>) \/ Fails
      BY <1>5, Zenon DEF DelNetwork, Deletes, DelSteps, resources
    <2>2. /\ nb' \in [Key -> 0..MaxGen] /\ ovs' \in [Key -> 0..MaxGen] /\ veth' \in [Key -> 0..MaxGen]
          /\ \A k \in Key : k # cur.key => nb'[k] = nb[k] /\ ovs'[k] = ovs[k] /\ veth'[k] = veth[k]
      BY <1>1, <2>1
    <2>. QED
      BY <1>0, <2>1, <2>2, ChangeBooks, Zenon
  <1>. QED
    BY <1>3, <1>4, <1>5, Zenon

\* An acknowledgement a of the endpoint of cur is written, or the write fails.
LEMMA CommitBooks ==
  ASSUME IInv, Books, NEW k \in Key, NEW a \in ACK, a.r.key = k, ~fenced, mem = disk.state,
         disk' \in {disk, [state |-> [mem EXCEPT ![k] = a], pending |-> None]},
         mem' \in {mem, [mem EXCEPT ![k] = a]}, UNCHANGED resources,
         UNCHANGED <<gen, routes, now>>, store' \subseteq Key, ack' \in ACK \cup {None}, todo' \subseteq Key, Calling', Passing',
         \A j \in Key : Named(j) => j = k,
         nb[k] \in {0, Pinned(a).nb}, ovs[k] \in {0, Pinned(a).ovs}, veth[k] \in {0, Pinned(a).veth},
         \A r \in Requests : client'[r] = "added" =>
             (client[r] = "added" /\ r.key # k) \/ (r.key = k /\ Live(a) /\ a.r = r),
         disk' # disk \/ \A r \in Requests : client'[r] = "added" => client[r] = "added"
  PROVE  Books'
  <1>1. mem' \in [Key -> ACK \cup {None}]
    BY DEF Books, Typed
  <1>2. UNCHANGED <<nb, ovs, veth>>
    BY Zenon DEF resources
  <1>3. CASE disk' = disk
    <2>1. Typed'
      BY <1>1, <1>2, <1>3, Zenon DEF Books, Typed
    <2>2. \A j \in Key : nb'[j] \in {0, nb[j]} /\ ovs'[j] \in {0, ovs[j]} /\ veth'[j] \in {0, veth[j]}
      BY <1>2, Zenon
    <2>3. \A r \in Requests : client'[r] = "added" => client[r] = "added"
      BY <1>3, Zenon
    <2>4. ResourcesAccounted' /\ AddedStaysAcknowledged'
      BY <1>3, <2>2, <2>3, JournalLeft, Zenon
    <2>. QED
      BY <2>1, <2>4, Zenon DEF Books
  <1>4. CASE disk' = [state |-> [disk.state EXCEPT ![k] = a], pending |-> None]
    <2>2. /\ ResourcesAccounted' /\ AddedStaysAcknowledged'
          /\ disk' \in [state : [Key -> ACK \cup {None}], pending : Intents \cup {None}]
          /\ \A j \in Key : disk'.state[j] # None => disk'.state[j].r.key = j
      BY <1>4, Acknowledged
    <2>3. Typed'
      BY <1>1, <1>2, <2>2, Zenon DEF Books, Typed
    <2>. QED
      BY <2>2, <2>3, Zenon DEF Books
  <1>. QED
    BY <1>3, <1>4, Zenon

LEMMA AddAcknowledgeBooks == ASSUME IInv, Books, AddAcknowledge PROVE Books'
  <1>1. /\ pc = "add-ack" /\ pc \in AddSteps /\ pc \in Calls /\ UNCHANGED <<resources, gen, routes, up, now>>
    BY DEF AddAcknowledge, AddSteps, Calls
  <1>2. /\ cur \in Requests /\ cur.key \in Key /\ up = "up" /\ ~fenced /\ ack \in ACK /\ ack.r = cur
        /\ disk.pending = [op |-> "add", ack |-> ack] /\ now + Window <= MaxNow
    BY <1>1, Zenon DEF IInv, Types, Key, Books, Calling
  <1>3. mem = disk.state
    BY <1>2, Zenon DEF IInv, Follow
  <1>4. Named(cur.key) /\ \A j \in Key : Named(j) => j = cur.key
    <2>1. disk.pending \in Intents /\ disk.pending.op = "add" /\ disk.pending.ack = ack
      BY <1>2 DEF Intents
    <2>. QED
      BY <1>2, <2>1, NoneApart, Zenon DEF Named
  <1>5. PICK a \in ACK : a = Proposed
    <2>1. Observed(cur.key) \in [nb : 0..MaxGen, ovs : 0..MaxGen, veth : 0..MaxGen]
      BY <1>2, Zenon DEF Observed, Books, Typed
    <2>2. now + Window \in 0..MaxNow /\ 0 \in 0..MaxNow
      BY <1>2, ContinuityAssumption DEF Books, Typed
    <2>3. Proposed \in ACK
      BY <1>2, <2>1, <2>2, Zenon DEF Proposed, ACK, States
    <2>. QED
      BY <2>3, Zenon
  <1>6. a.r = cur /\ a.receipt = Observed(cur.key) /\ Live(a)
    <2>1. a.state # "deleted" /\ a.r = cur /\ a.receipt = Observed(cur.key)
      BY <1>5, Zenon DEF Proposed
    <2>. QED
      BY <2>1, NoneApart, Zenon DEF Live
  <1>7. Pinned(a).nb = nb[cur.key] /\ Pinned(a).ovs = ovs[cur.key] /\ Pinned(a).veth = veth[cur.key]
    BY <1>6 DEF Pinned, Observed
  <1>8. \A r \in Requests : client[r] = "added" => r.key # cur.key
    BY <1>4, OneTold, Zenon DEF Told
  <1>9. CASE Fails /\ UNCHANGED <<disk, fenced, mem, store>>
    BY <1>1, <1>9, FailsBooks, Zenon
  <1>10. CASE /\ mem' = [mem EXCEPT ![cur.key] = Proposed] /\ disk' = [state |-> mem', pending |-> None]
              /\ store' = store \cup {cur.key} /\ \E c \in {"added", "failed"} : Reply(c)
    <2>1. pc' = "idle" /\ ack' = None /\ todo' = todo /\ \E c \in {"added", "failed"} : client' = [client EXCEPT ![cur] = c]
      BY <1>10, Zenon DEF Reply
    <2>2. \A r \in Requests : client'[r] = "added" => client[r] = "added" \/ r = cur
      BY <2>1, Zenon DEF IInv, Types
    <2>3. store' \subseteq Key /\ todo' \subseteq Key
      BY <1>2, <1>10, <2>1, Zenon DEF Books, Typed
    <2>4. disk'.pending = None /\ disk.pending # None /\ disk' # disk
      BY <1>4, <1>10 DEF Named
    <2>5. Calling' /\ Passing'
      BY <2>1, IdleNext, Zenon
    <2>6. \A r \in Requests : client'[r] = "added" =>
            (client[r] = "added" /\ r.key # cur.key) \/ (r.key = cur.key /\ Live(a) /\ a.r = r)
      BY <1>6, <1>8, <2>2, Zenon
    <2>7. PICK k \in Key : k = cur.key
      BY <1>2, Zenon
    <2>8. disk' = [state |-> [mem EXCEPT ![k] = a], pending |-> None] /\ mem' = [mem EXCEPT ![k] = a]
      BY <1>5, <1>10, <2>7, Zenon
    <2>9. a.r.key = k /\ ack' \in ACK \cup {None}
      BY <1>6, <2>1, <2>7, Zenon
    <2>. QED
      BY <1>1, <1>2, <1>3, <1>4, <1>7, <2>3, <2>4, <2>5, <2>6, <2>7, <2>8, <2>9, CommitBooks
  <1>11. CASE /\ mem' = [mem EXCEPT ![cur.key] = Proposed] /\ disk' \in {disk, [state |-> mem', pending |-> None]}
              /\ Fails /\ UNCHANGED store
    <2>1. pc' = "idle" /\ ack' = None /\ todo' = todo /\ \A r \in Requests : client'[r] = "added" => client[r] = "added"
      BY <1>1, <1>11, FailsReply, Zenon
    <2>2. store' \subseteq Key /\ todo' \subseteq Key
      BY <1>11, <2>1, Zenon DEF Books, Typed
    <2>3. Calling' /\ Passing'
      BY <2>1, IdleNext, Zenon
    <2>4. \A r \in Requests : client'[r] = "added" => client[r] = "added" /\ r.key # cur.key
      BY <1>8, <2>1, Zenon
    <2>5. PICK k \in Key : k = cur.key
      BY <1>2
    <2>6. disk' \in {disk, [state |-> [mem EXCEPT ![k] = a], pending |-> None]} /\ mem' = [mem EXCEPT ![k] = a]
      BY <1>5, <1>11, <2>5, Zenon
    <2>7. a.r.key = k /\ ack' \in ACK \cup {None}
      BY <1>6, <2>1, <2>5, Zenon
    <2>. QED
      BY <1>1, <1>2, <1>3, <1>4, <1>7, <2>1, <2>2, <2>3, <2>4, <2>5, <2>6, <2>7, CommitBooks
  <1>. QED
    BY <1>9, <1>10, <1>11, Zenon DEF AddAcknowledge, Commit, Write

\* DEL of an endpoint without a live acknowledgement, and calls that are refused.
LEMMA RefusedBooks == ASSUME IInv, Books, AddRefused \/ DelRefused \/ DelNothing PROVE Books'
  <1>1. CASE AddRefused
    BY <1>1, FailsBooks, Zenon DEF AddRefused, Calls
  <1>2. CASE DelRefused
    BY <1>2, FailsBooks, Zenon DEF DelRefused, Calls
  <1>3. CASE DelNothing
    <2>1. /\ pc' = "idle" /\ ack' = None /\ client' = [client EXCEPT ![cur] = "gone"]
          /\ UNCHANGED <<disk, mem, resources, gen, now>> /\ UNCHANGED <<store, routes, todo>>
      BY <1>3, Zenon DEF DelNothing, Reply
    <2>2. \A r \in Requests : client'[r] = "added" => client[r] = "added"
      BY <2>1 DEF IInv, Types
    <2>3. store' \subseteq Key /\ routes' \subseteq Key /\ todo' \subseteq Key
      BY <2>1, Zenon DEF Books, Typed
    <2>. QED
      BY <2>1, <2>2, <2>3, IdleNext, QuietBooks, Zenon
  <1>. QED
    BY <1>1, <1>2, <1>3, Zenon

LEMMA DelBeginBooks == ASSUME IInv, Books, DelBegin PROVE Books'
  <1>1. /\ pc = "del" /\ ~fenced /\ disk.pending = None /\ Live(mem[cur.key]) /\ mem[cur.key].r = cur
        /\ UNCHANGED <<mem, store, routes, resources, now>> /\ UNCHANGED <<gen, up>>
    BY Zenon DEF DelBegin, Ready
  <1>2. cur \in Requests /\ cur.key \in Key /\ up = "up" /\ mem = disk.state /\ client[cur] = "deleting"
    BY <1>1 DEF IInv, Types, Follow, Calls, Key, Books, Calling
  <1>3. PICK a \in ACK : a = mem[cur.key]
    BY <1>1, <1>2, Zenon DEF Live, Books, Typed
  <1>4. PICK i \in Intents : i = [op |-> "del", ack |-> a]
    BY Zenon DEF Intents
  <1>5. i.ack = a /\ i.op = "del" /\ a.r = cur
    BY <1>1, <1>3, <1>4, Zenon
  <1>6. \A r \in Requests : client[r] = "added" => r.key # i.ack.r.key
    <2>. SUFFICES ASSUME NEW r \in Requests, client[r] = "added", r.key = cur.key PROVE FALSE
      BY <1>5, Zenon
    <2>1. disk.state[cur.key].r = r
      BY OneTold, Zenon DEF Told
    <2>. QED
      BY <1>1, <1>2, <2>1, Zenon
  <1>7. gen' \in 0..MaxGen
    BY <1>1, Zenon DEF Books, Typed
  <1>8. \/ /\ disk' = [disk EXCEPT !.pending = i] /\ UNCHANGED <<fenced, client, cur, todo>>
           /\ pc' = "del-ovs" /\ ack' = a
        \/ disk' \in {disk, [disk EXCEPT !.pending = i]} /\ Fails
    BY <1>3, <1>4 DEF DelBegin, Begin, Write
  <1>9. CASE /\ disk' = [disk EXCEPT !.pending = i] /\ UNCHANGED <<fenced, client, cur, todo>>
             /\ pc' = "del-ovs" /\ ack' = a
    <2>1. disk'.pending = [op |-> "del", ack |-> ack']
      BY <1>4, <1>9, Zenon DEF Books, Typed
    <2>2. Calling'
      BY <1>1, <1>2, <1>5, <1>9, <2>1, Zenon DEF Calling, AddSteps, DelSteps
    <2>3. Passing'
      BY <1>9 DEF Passing, Passes
    <2>4. ack' \in ACK \cup {None} /\ todo' \subseteq Key
      BY <1>9, Zenon DEF Books, Typed
    <2>. QED
      BY <1>1, <1>6, <1>7, <1>9, <2>2, <2>3, <2>4, BeginBooks, Zenon
  <1>10. CASE disk' \in {disk, [disk EXCEPT !.pending = i]} /\ Fails
    <2>1. /\ pc' = "idle" /\ ack' = None /\ todo' = todo /\ \A r \in Requests : client'[r] = "added" => client[r] = "added"
      BY <1>1, <1>10, FailsReply, Zenon DEF Calls
    <2>2. ack' \in ACK \cup {None} /\ todo' \subseteq Key
      BY <2>1, Zenon DEF Books, Typed
    <2>3. Calling' /\ Passing'
      BY <2>1, IdleNext, Zenon
    <2>4. \A r \in Requests : client'[r] = "added" => client[r] = "added" /\ r.key # i.ack.r.key
      BY <1>6, <2>1, Zenon
    <2>. QED
      BY <1>1, <1>7, <1>10, <2>2, <2>3, <2>4, BeginBooks, Zenon
  <1>. QED
    BY <1>8, <1>9, <1>10, Zenon

LEMMA DelAcknowledgeBooks == ASSUME IInv, Books, DelAcknowledge PROVE Books'
  <1>1. /\ pc = "del-ack" /\ pc \in DelSteps /\ pc \in Calls
        /\ UNCHANGED resources /\ UNCHANGED <<gen, routes, now>>
    BY DEF DelAcknowledge, DelSteps, Calls
  <1>2. /\ cur \in Requests /\ cur.key \in Key /\ up = "up" /\ ~fenced /\ ack \in ACK /\ ack.r = cur
        /\ disk.pending = [op |-> "del", ack |-> ack]
    BY <1>1, Zenon DEF IInv, Types, Key, Books, Calling
  <1>3. mem = disk.state
    BY <1>2, Zenon DEF IInv, Follow
  <1>4. Named(cur.key) /\ \A j \in Key : Named(j) => j = cur.key
    <2>1. disk.pending \in Intents /\ disk.pending.op = "del" /\ disk.pending.ack = ack
      BY <1>2 DEF Intents
    <2>. QED
      BY <1>2, <2>1, NoneApart, Zenon DEF Named
  <1>5. PICK a \in ACK : a = [ack EXCEPT !.state = "deleted"]
    BY <1>2, Zenon DEF ACK, States
  <1>6. a.r = cur /\ ~Live(a)
    BY <1>2, <1>5, Zenon DEF Live, ACK
  <1>7. Pinned(a).nb = 0 /\ Pinned(a).ovs = 0 /\ Pinned(a).veth = 0
    BY <1>6, Zenon DEF Pinned
  <1>8. \A r \in Requests : client[r] = "added" => r.key # cur.key
    BY <1>4, OneTold, Zenon DEF Told
  <1>9. CASE Fails /\ UNCHANGED <<disk, fenced, mem, store>>
    BY <1>1, <1>9, FailsBooks, Zenon
  <1>10. CASE /\ mem' = [mem EXCEPT ![cur.key] = [ack EXCEPT !.state = "deleted"]]
              /\ disk' \in {disk, [state |-> mem', pending |-> None]}
              /\ nb[cur.key] = 0 /\ ovs[cur.key] = 0 /\ veth[cur.key] = 0
              /\ store' \subseteq store /\ (Fails \/ \E c \in {"gone", "deleting"} : Reply(c))
    <2>1. pc' = "idle" /\ ack' = None /\ todo' = todo
      BY <1>10, Zenon DEF Fails, Reply
    <2>2. \A r \in Requests : client'[r] = "added" => client[r] = "added"
      <3>1. CASE Fails
        BY <1>1, <3>1, FailsReply, Zenon
      <3>2. ASSUME NEW c \in {"gone", "deleting"}, Reply(c) PROVE \A r \in Requests : client'[r] = "added" => client[r] = "added"
        BY <3>2, Zenon DEF Reply, IInv, Types
      <3>. QED
        BY <1>10, <3>1, <3>2, Zenon
    <2>3. store' \subseteq Key /\ todo' \subseteq Key
      BY <1>10, <2>1, Zenon DEF Books, Typed
    <2>4. Calling' /\ Passing'
      BY <2>1, IdleNext, Zenon
    <2>5. \A r \in Requests : client'[r] = "added" => client[r] = "added" /\ r.key # cur.key
      BY <1>8, <2>2, Zenon
    <2>6. PICK k \in Key : k = cur.key
      BY <1>2, Zenon
    <2>7. disk' \in {disk, [state |-> [mem EXCEPT ![k] = a], pending |-> None]} /\ mem' = [mem EXCEPT ![k] = a]
      BY <1>5, <1>10, <2>6, Zenon
    <2>8. a.r.key = k /\ ack' \in ACK \cup {None} /\ nb[k] = 0 /\ ovs[k] = 0 /\ veth[k] = 0
      BY <1>6, <1>10, <2>1, <2>6, Zenon
    <2>. QED
      BY <1>1, <1>2, <1>3, <1>4, <2>2, <2>3, <2>4, <2>5, <2>6, <2>7, <2>8, CommitBooks, Zenon
  <1>. QED
    BY <1>9, <1>10, Zenon DEF DelAcknowledge, Commit, Write, Nothing

\* The state of a pass: memory is the journal, and the agent is up.
LEMMA PassState == ASSUME IInv, Books, pc \in Passes PROVE up = "up" /\ ~fenced /\ mem = disk.state
  <1>1. up = "up" /\ ~fenced
    BY Zenon DEF Passes, Books, Calling, Passing
  <1>. QED
    BY <1>1, Zenon DEF IInv, Follow

\* A pending endpoint has an acknowledgement under its own key.
LEMMA PendingACK ==
  ASSUME Books, mem = disk.state, NEW k \in Key, Pending(k)
  PROVE  mem[k] \in ACK /\ mem[k].r.key = k /\ Live(mem[k])
  <1>1. mem[k] # None /\ mem[k].state = "pending_creation" /\ mem[k] \in ACK \cup {None}
    BY Zenon DEF Pending, Books, Typed
  <1>. QED
    BY <1>1 DEF Live, Books, Typed

LEMMA VerifyStartBooks == ASSUME IInv, Books, VerifyStart PROVE Books'
  <1>1. /\ up = "up" /\ ~fenced /\ disk.pending = None /\ pc' = "verify" /\ todo' = {k \in Key : Pending(k)}
        /\ UNCHANGED <<disk, mem, resources, gen, now>> /\ UNCHANGED <<store, routes, ack, client, fenced, up, cur>>
    BY Zenon DEF VerifyStart, Idle, Ready
  <1>2. Calling'
    BY <1>1, Zenon DEF Calling, AddSteps, DelSteps
  <1>3. Passing'
    BY <1>1, Zenon DEF Passing, Passes, Pending
  <1>4. ack' \in ACK \cup {None} /\ store' \subseteq Key /\ routes' \subseteq Key /\ todo' \subseteq Key
    BY <1>1, Zenon DEF Books, Typed
  <1>. QED
    BY <1>1, <1>2, <1>3, <1>4, QuietBooks, Zenon

LEMMA VerifyOneBooks == ASSUME IInv, Books, NEW k \in Key, VerifyOne(k) PROVE Books'
  <1>1. /\ pc = "verify" /\ pc \in Passes /\ k \in todo
        /\ UNCHANGED <<disk, mem, resources, gen, now>> /\ UNCHANGED <<store, routes, client, fenced, up, cur>>
        /\ todo' = IF pc' = "idle" THEN {} ELSE todo \ {k}
    BY Zenon DEF VerifyOne, Passes
  <1>2. up = "up" /\ ~fenced /\ mem = disk.state
    BY <1>1, PassState, Zenon
  <1>3. disk.pending = None /\ \A j \in todo : Pending(j)
    BY <1>1, Zenon DEF Books, Passing, Passes
  <1>4. store' \subseteq Key /\ routes' \subseteq Key /\ todo' \subseteq Key
    BY <1>1 DEF Books, Typed
  <1>5. CASE pc' = "idle" /\ UNCHANGED ack
    <2>1. ack' \in ACK \cup {None}
      BY <1>5, Zenon DEF Books, Typed
    <2>. QED
      BY <1>1, <1>4, <1>5, <2>1, IdleNext, QuietBooks, Zenon
  <1>6. ASSUME NEW s \in {"quarantined", "active"}, Decide(k, s) PROVE Books'
    <2>1. mem[k] \in ACK /\ mem[k].r.key = k /\ Pending(k)
      BY <1>1, <1>2, <1>3, PendingACK, Zenon
    <2>2. ack' = [mem[k] EXCEPT !.state = s] /\ pc' \in {"verify-stamp", "verify-begin"} /\ todo' = todo \ {k}
      BY <1>1, <1>6, Zenon DEF Decide
    <2>3. ack' \in ACK /\ ack'.state = s /\ ack'.r = mem[k].r /\ ack'.receipt = mem[k].receipt
      BY <2>1, <2>2, Zenon DEF ACK, States
    <2>4. Calling'
      BY <1>1, <1>2, <2>2, Zenon DEF Calling, AddSteps, DelSteps
    <2>5. Passing'
      BY <1>1, <1>2, <1>3, <2>1, <2>2, <2>3, Zenon DEF Passing, Passes, Pending
    <2>. QED
      BY <1>1, <1>4, <2>3, <2>4, <2>5, QuietBooks, Zenon
  <1>. QED
    BY <1>5, <1>6, Zenon DEF VerifyOne

LEMMA VerifyStampBooks == ASSUME IInv, Books, VerifyStamp PROVE Books'
  <1>1. /\ pc = "verify-stamp" /\ pc \in Passes /\ pc' = "verify-begin" /\ ack' = [ack EXCEPT !.at = now]
        /\ UNCHANGED <<disk, mem, resources, gen, now>> /\ UNCHANGED <<store, routes, client, fenced, up, cur, todo>>
    BY Zenon DEF VerifyStamp, Passes
  <1>2. /\ up = "up" /\ ~fenced /\ disk.pending = None /\ now \in 0..MaxNow
        /\ ack \in ACK /\ ack.state # "deleted" /\ ack.r.key \notin todo /\ Pending(ack.r.key)
        /\ ack.r = mem[ack.r.key].r /\ ack.receipt = mem[ack.r.key].receipt /\ \A k \in todo : Pending(k)
    BY <1>1, PassState, Zenon DEF Books, Typed, Passing, Passes
  <1>3. ack' \in ACK /\ ack'.state = ack.state /\ ack'.r = ack.r /\ ack'.receipt = ack.receipt
    BY <1>1, <1>2, Zenon DEF ACK
  <1>4. Calling'
    BY <1>1, <1>2, Zenon DEF Calling, AddSteps, DelSteps
  <1>5. Passing'
    BY <1>1, <1>2, <1>3 DEF Passing, Passes, Pending
  <1>6. store' \subseteq Key /\ routes' \subseteq Key /\ todo' \subseteq Key
    BY <1>1, Zenon DEF Books, Typed
  <1>. QED
    BY <1>1, <1>3, <1>4, <1>5, <1>6, QuietBooks, Zenon

LEMMA VerifyBeginBooks == ASSUME IInv, Books, VerifyBegin PROVE Books'
  <1>1. /\ pc = "verify-begin" /\ pc \in Passes
        /\ UNCHANGED <<mem, store, routes, resources, now>> /\ UNCHANGED <<gen, up>>
    BY Zenon DEF VerifyBegin, Passes
  <1>2. /\ up = "up" /\ ~fenced /\ disk.pending = None
        /\ ack \in ACK /\ ack.state # "deleted" /\ ack.r.key \notin todo /\ Pending(ack.r.key)
        /\ ack.r = mem[ack.r.key].r /\ ack.receipt = mem[ack.r.key].receipt /\ \A k \in todo : Pending(k)
    BY <1>1, PassState, Zenon DEF Books, Passing, Passes
  <1>3. PICK i \in Intents : i = [op |-> "identity", ack |-> ack]
    BY <1>2, Zenon DEF Intents
  <1>4. i.op = "identity" /\ gen' \in 0..MaxGen
    BY <1>1, <1>3, Zenon DEF Books, Typed
  <1>5. CASE disk' = [disk EXCEPT !.pending = i] /\ pc' = "verify-commit" /\ UNCHANGED <<fenced, ack, todo, client, cur>>
    <2>1. disk'.pending = [op |-> "identity", ack |-> ack']
      BY <1>3, <1>5, Zenon DEF Books, Typed
    <2>2. Calling'
      BY <1>1, <1>2, <1>5, Zenon DEF Calling, AddSteps, DelSteps
    <2>3. Passing'
      BY <1>1, <1>2, <1>5, <2>1, Zenon DEF Passing, Passes, Pending
    <2>4. ack' \in ACK \cup {None} /\ todo' \subseteq Key
      BY <1>5, Zenon DEF Books, Typed
    <2>. QED
      BY <1>1, <1>2, <1>4, <1>5, <2>2, <2>3, <2>4, BeginBooks, Zenon
  <1>6. CASE disk' \in {disk, [disk EXCEPT !.pending = i]} /\ EndPass
    <2>1. pc' = "idle" /\ ack' = None /\ todo' = {} /\ UNCHANGED client
      BY <1>6, Zenon DEF EndPass
    <2>2. Calling' /\ Passing'
      BY <2>1, IdleNext, Zenon
    <2>3. ack' \in ACK \cup {None} /\ todo' \subseteq Key
      BY <2>1, Zenon
    <2>. QED
      BY <1>1, <1>2, <1>4, <1>6, <2>1, <2>2, <2>3, BeginBooks, Zenon
  <1>. QED
    BY <1>3, <1>5, <1>6, Zenon DEF VerifyBegin, Begin, Write

LEMMA VerifyCommitBooks == ASSUME IInv, Books, VerifyCommit PROVE Books'
  <1>1. /\ pc = "verify-commit" /\ pc \in Passes /\ UNCHANGED resources /\ UNCHANGED <<gen, routes, now>> /\ UNCHANGED up
    BY Zenon DEF VerifyCommit, Passes
  <1>2. /\ up = "up" /\ ~fenced /\ mem = disk.state /\ disk.pending = [op |-> "identity", ack |-> ack]
        /\ ack \in ACK /\ ack.state # "deleted" /\ ack.r.key \notin todo /\ Pending(ack.r.key)
        /\ ack.r = mem[ack.r.key].r /\ ack.receipt = mem[ack.r.key].receipt /\ \A k \in todo : Pending(k)
    BY <1>1, PassState, Zenon DEF Books, Passing, Passes
  <1>3. PICK a \in ACK : a = ack
    BY <1>2, Zenon
  <1>4. PICK k \in Key : k = ack.r.key
    BY <1>2, Zenon DEF ACK, Key
  <1>5. \A j \in Key : ~Named(j)
    BY <1>2 DEF Named
  <1>6. a.r.key = k /\ Live(a) /\ Live(disk.state[k]) /\ disk.state[k].r = a.r /\ disk.state[k].receipt = a.receipt
    BY <1>2, <1>3, <1>4, NoneApart, PendingACK, Zenon DEF Live
  <1>7. nb[k] \in {0, Pinned(a).nb} /\ ovs[k] \in {0, Pinned(a).ovs} /\ veth[k] \in {0, Pinned(a).veth}
    <2>1. Held(k)
      BY <1>5, Accounts, Zenon DEF Books
    <2>2. Pinned(disk.state[k]) = Pinned(a)
      BY <1>6 DEF Pinned
    <2>. QED
      BY <2>1, <2>2, Zenon DEF Held
  <1>8. \A r \in Requests : client[r] = "added" =>
          (client[r] = "added" /\ r.key # k) \/ (r.key = k /\ Live(a) /\ a.r = r)
    BY <1>6, OneTold, Zenon DEF Told
  <1>9. /\ disk' \in {disk, [state |-> [mem EXCEPT ![k] = a], pending |-> None]}
        /\ mem' \in {mem, [mem EXCEPT ![k] = a]} /\ store' \subseteq store /\ UNCHANGED client
        /\ todo' \subseteq todo /\ ack' = None
        /\ \/ pc' = "idle"
           \/ /\ pc' = "verify" /\ UNCHANGED <<todo, fenced>>
              /\ disk'.pending = None /\ mem' = [mem EXCEPT ![k] = a]
    BY <1>3, <1>4 DEF VerifyCommit, Commit, Write, EndPass
  <1>10. store' \subseteq Key /\ todo' \subseteq Key /\ ack' \in ACK \cup {None}
    BY <1>9 DEF Books, Typed
  <1>11. Calling' /\ Passing'
    <2>1. CASE pc' = "idle"
      BY <2>1, IdleNext, Zenon
    <2>2. CASE /\ pc' = "verify" /\ UNCHANGED <<todo, fenced>>
               /\ disk'.pending = None /\ mem' = [mem EXCEPT ![k] = a]
      <3>1. \A j \in todo : mem'[j] = mem[j]
        BY <1>2, <1>4, <2>2, Zenon DEF Books, Typed
      <3>2. Calling'
        BY <1>1, <1>2, <2>2, Zenon DEF Calling, AddSteps, DelSteps
      <3>3. Passing'
        BY <1>2, <2>2, <3>1, Zenon DEF Passing, Passes, Pending
      <3>. QED
        BY <3>2, <3>3, Zenon
    <2>. QED
      BY <1>9, <2>1, <2>2, Zenon
  <1>12. /\ \A r \in Requests : client'[r] = "added" => client[r] = "added"
         /\ \A r \in Requests : client'[r] = "added" =>
              (client[r] = "added" /\ r.key # k) \/ (r.key = k /\ Live(a) /\ a.r = r)
         /\ \A j \in Key : Named(j) => j = k
    BY <1>5, <1>8, <1>9, Zenon
  <1>. QED
    BY <1>1, <1>2, <1>6, <1>7, <1>9, <1>10, <1>11, <1>12, CommitBooks

LEMMA CallBooks == ASSUME IInv, Books, NEW r \in Requests, CallAdd(r) \/ CallDel(r) PROVE Books'
  <1>1. /\ up = "up" /\ ack' = None /\ cur' = r
        /\ UNCHANGED <<disk, mem, resources, gen, now>> /\ UNCHANGED <<store, routes, todo, fenced, up>>
        /\ \/ pc' = "add" /\ client' = [client EXCEPT ![r] = "adding"]
           \/ pc' = "del" /\ client' = [client EXCEPT ![r] = "deleting"]
    BY Zenon DEF CallAdd, CallDel, Idle
  <1>2. \A q \in Requests : client'[q] = "added" => client[q] = "added"
    BY <1>1, Zenon DEF IInv, Types
  <1>3. Calling'
    BY <1>1, Zenon DEF Calling, AddSteps, DelSteps, IInv, Types
  <1>4. Passing'
    BY <1>1 DEF Passing, Passes
  <1>5. ack' \in ACK \cup {None} /\ store' \subseteq Key /\ routes' \subseteq Key /\ todo' \subseteq Key
    BY <1>1, Zenon DEF Books, Typed
  <1>. QED
    BY <1>1, <1>2, <1>3, <1>4, <1>5, QuietBooks, Zenon

\* A step that leaves the call, the journal and the runtime alone.
LEMMA CallLeft ==
  ASSUME Books, UNCHANGED <<disk, fenced, mem, client, up, call, now>>
  PROVE  Calling' /\ Passing' /\ ack' \in ACK \cup {None} /\ todo' \subseteq Key
  <1>1. Calling'
    BY Zenon DEF Books, Calling, call
  <1>2. Passing'
    BY DEF Books, Passing, Pending, call
  <1>. QED
    BY <1>1, <1>2, Zenon DEF Books, Typed, call

LEMMA RoutesBooks ==
  ASSUME IInv, Books, \/ ExportRefused
                      \/ \E k \in Key : Withdraw(k) \/ DeletePod(k)
                      \/ \E r \in Requests : Publish(r)
  PROVE  Books'
  <1>1. /\ UNCHANGED <<disk, fenced, mem, client, up, call, now>> /\ UNCHANGED <<disk, mem, resources, gen, now>>
        /\ store' \subseteq store /\ \E k \in Key : routes' \subseteq routes \cup {k}
    <2>1. CASE ExportRefused
      <3>1. PICK k \in Key : TRUE
        BY <2>1, Zenon DEF ExportRefused, Gate
      <3>. QED
        BY <2>1, <3>1, Zenon DEF ExportRefused
    <2>2. ASSUME NEW k \in Key, Withdraw(k) \/ DeletePod(k)
          PROVE  /\ UNCHANGED <<disk, fenced, mem, client, up, call, now>> /\ UNCHANGED <<disk, mem, resources, gen, now>>
                 /\ store' \subseteq store /\ routes' \subseteq routes \cup {k}
      BY <2>2, Zenon DEF Withdraw, DeletePod, environment
    <2>3. ASSUME NEW r \in Requests, Publish(r)
          PROVE  /\ UNCHANGED <<disk, fenced, mem, client, up, call, now>> /\ UNCHANGED <<disk, mem, resources, gen, now>>
                 /\ store' \subseteq store /\ \E k \in Key : routes' \subseteq routes \cup {k}
      BY <2>3, Zenon DEF Publish, environment, Key
    <2>. QED
      BY <2>1, <2>2, <2>3, Zenon
  <1>2. store' \subseteq Key /\ routes' \subseteq Key
    BY <1>1 DEF Books, Typed
  <1>3. Calling' /\ Passing' /\ ack' \in ACK \cup {None} /\ todo' \subseteq Key
    BY <1>1, CallLeft, Zenon
  <1>4. \A r \in Requests : client'[r] = "added" => client[r] = "added"
    BY <1>1, Zenon
  <1>. QED
    BY <1>1, <1>2, <1>3, <1>4, QuietBooks, Zenon

\* An export touches neither the journal nor any resource.
LEMMA ExportBooks == ASSUME IInv, Books, NEW k \in Key, Export(k) \/ ExportAdd(k) PROVE Books'
  <1>1. /\ UNCHANGED <<disk, fenced, mem, up, client, now>> /\ UNCHANGED <<disk, mem, resources, gen, now>>
        /\ store' \subseteq store /\ routes' \subseteq routes \cup {k}
    BY Zenon DEF Export, ExportAdd, EndPass
  <1>2. store' \subseteq Key /\ routes' \subseteq Key
    BY <1>1 DEF Books, Typed
  <1>3. Calling' /\ Passing' /\ ack' \in ACK \cup {None} /\ todo' \subseteq Key
    <2>1. CASE UNCHANGED call
      BY <1>1, <2>1, CallLeft, Zenon
    <2>2. CASE pc' = "export" /\ ack' = mem[k] /\ todo' = {k} /\ up = "up"
      BY <1>1, <2>2, Zenon DEF Books, Typed, Calling, Passing, AddSteps, DelSteps, Passes
    <2>3. CASE EndPass
      BY <2>3, IdleNext, Zenon DEF EndPass
    <2>. QED
      BY <2>1, <2>2, <2>3, Zenon DEF Export, ExportAdd, Idle
  <1>4. \A r \in Requests : client'[r] = "added" => client[r] = "added"
    BY <1>1, Zenon
  <1>. QED
    BY <1>1, <1>2, <1>3, <1>4, QuietBooks, Zenon

\* The cluster takes resources away.
LEMMA LossBooks ==
  ASSUME IInv, Books, (\E r \in Requests : RemoveNamespace(r)) \/ \E k \in Key : LoseAttachment(k)
  PROVE  Books'
  <1>1. nb \in [Key -> 0..MaxGen] /\ ovs \in [Key -> 0..MaxGen] /\ veth \in [Key -> 0..MaxGen] /\ 0 \in 0..MaxGen
    BY ContinuityAssumption DEF Books, Typed
  <1>2. /\ UNCHANGED <<disk, fenced, mem, client, up, call, now>> /\ UNCHANGED <<disk, mem, gen, now>> /\ UNCHANGED <<store, routes>>
        /\ UNCHANGED nb
        /\ \/ UNCHANGED ovs /\ \E k \in Key : veth' \in {veth, [veth EXCEPT ![k] = 0]}
           \/ UNCHANGED veth /\ \E k \in Key : ovs' = [ovs EXCEPT ![k] = 0]
    BY Zenon DEF RemoveNamespace, LoseAttachment, environment, Key
  <1>3. /\ nb' \in [Key -> 0..MaxGen] /\ ovs' \in [Key -> 0..MaxGen] /\ veth' \in [Key -> 0..MaxGen]
        /\ \A k \in Key : nb'[k] \in {0, nb[k]} /\ ovs'[k] \in {0, ovs[k]} /\ veth'[k] \in {0, veth[k]}
    BY <1>1, <1>2
  <1>4. Calling' /\ Passing' /\ ack' \in ACK \cup {None} /\ todo' \subseteq Key
    BY <1>2, CallLeft, Zenon
  <1>5. store' \subseteq Key /\ routes' \subseteq Key
    BY <1>2, Zenon DEF Books, Typed
  <1>6. Typed'
    BY <1>2, <1>3, <1>4, <1>5, TypesLeft, Zenon
  <1>7. ResourcesAccounted' /\ AddedStaysAcknowledged'
    BY <1>2, <1>3, JournalLeft, Zenon
  <1>. QED
    BY <1>4, <1>6, <1>7, Zenon DEF Books

LEMMA TickBooks == ASSUME IInv, Books, Tick PROVE Books'
  <1>1. /\ UNCHANGED <<disk, fenced, mem, store, gen, routes, up>> /\ UNCHANGED resources /\ UNCHANGED <<pc, cur, ack, todo, client>>
        /\ UNCHANGED <<nb, ovs, veth>>
    BY DEF Tick, environment, call, resources
  <1>2. now' \in 0..MaxNow /\ (pc \in AddSteps => now' + Window <= MaxNow)
    BY ContinuityAssumption DEF Tick, AddSteps, Books, Typed
  <1>3. Typed'
    BY <1>1, <1>2, Zenon DEF Books, Typed
  <1>4. Calling'
    BY <1>1, <1>2, Zenon DEF Books, Calling
  <1>5. Passing'
    BY <1>1, Zenon DEF Books, Passing, Pending
  <1>6. ResourcesAccounted' /\ AddedStaysAcknowledged'
    BY <1>1, JournalLeft, Zenon
  <1>. QED
    BY <1>3, <1>4, <1>5, <1>6, Zenon DEF Books

\* Recovery may roll back an intent of the pass, which names no resources.
LEMMA RecoverBooks == ASSUME IInv, Books, Recover PROVE Books'
  <1>1. /\ UNCHANGED resources /\ UNCHANGED <<gen, routes, client, now>> /\ UNCHANGED <<pc, cur, ack, todo>> /\ up = "down"
        /\ disk' \in {disk, [disk EXCEPT !.pending = None]} /\ (disk' # disk => Resolved)
        /\ mem' \in {mem, disk.state} /\ (store' = store \/ store' \subseteq Key)
    BY Zenon DEF Recover, call
  <1>2. pc' = "idle"
    BY <1>1, Zenon DEF Books, Calling
  <1>3. Calling' /\ Passing'
    BY <1>2, IdleNext, Zenon
  <1>4. disk'.state = disk.state /\ disk' \in [state : [Key -> ACK \cup {None}], pending : Intents \cup {None}]
    BY <1>1, Zenon DEF Books, Typed
  <1>5. Typed'
    BY <1>1, <1>4, Zenon DEF Books, Typed, resources
  <1>6. ResourcesAccounted' /\ AddedStaysAcknowledged'
    <2>1. CASE disk' = disk
      BY <1>1, <2>1, JournalLeft, Zenon DEF resources
    <2>2. CASE disk' # disk
      <3>1. disk'.pending = None /\ \A k \in Key : ~Named(k)
        BY <1>1, <2>2, Zenon DEF Resolved, Named, Books, Typed
      <3>2. \A k \in Key : Held(k)'
        <4>1. \A k \in Key : Held(k)
          BY <3>1, Accounts, Zenon DEF Books
        <4>. QED
          BY <1>1, <1>4, <4>1, Zenon DEF Held, resources
      <3>3. \A r \in Requests : client'[r] = "added" => Told(r)'
        <4>1. \A r \in Requests : client[r] = "added" => Told(r)
          BY OneTold, Zenon
        <4>. QED
          BY <1>1, <1>4, <3>1, <4>1, Zenon DEF Told, Named
      <3>. QED
        BY <3>2, <3>3, AccountsNext, Zenon
    <2>. QED
      BY <2>1, <2>2, Zenon
  <1>. QED
    BY <1>3, <1>5, <1>6, Zenon DEF Books

LEMMA StopBooks == ASSUME IInv, Books, Retry \/ Stop \/ Crash PROVE Books'
  <1>1. /\ UNCHANGED disk /\ UNCHANGED <<nb, ovs, veth>> /\ UNCHANGED <<gen, routes, now>>
        /\ mem' \in {mem, NoACK} /\ (store' = store \/ store' = {})
        /\ (ack' = ack \/ ack' = None) /\ (todo' = todo \/ todo' = {})
    BY Zenon DEF Retry, Stop, Crash, call, resources
  <1>2. pc' = "idle"
    BY Zenon DEF Retry, Stop, Crash, Idle, call, Books, Calling
  <1>3. \A r \in Requests : client'[r] = "added" => client[r] = "added"
    BY DEF Retry, Stop, Crash
  <1>4. Calling' /\ Passing'
    BY <1>2, IdleNext, Zenon
  <1>5. NoACK \in [Key -> ACK \cup {None}]
    BY DEF NoACK
  <1>6. Typed'
    BY <1>1, <1>5, Zenon DEF Books, Typed
  <1>7. ResourcesAccounted' /\ AddedStaysAcknowledged'
    BY <1>1, <1>3, JournalLeft, Zenon
  <1>. QED
    BY <1>4, <1>6, <1>7, Zenon DEF Books

LEMMA InitBooks == ASSUME Init PROVE Books
  <1>1. Typed
    BY ContinuityAssumption DEF Init, Typed, Absent, NoACK
  <1>2. Calling /\ Passing
    BY Zenon DEF Init, Calling, Passing, AddSteps, DelSteps, Passes
  <1>3. \A k \in Key : Held(k)
    BY Zenon DEF Init, Held, Absent
  <1>4. \A r \in Requests : client[r] # "added"
    BY DEF Init
  <1>. QED
    BY <1>1, <1>2, <1>3, <1>4, Accounts, Zenon DEF Books

LEMMA StutterBooks == ASSUME Books, UNCHANGED vars PROVE Books'
  <1>1. UNCHANGED <<disk, fenced, mem, client, up, call, now>>
    BY Zenon DEF vars
  <1>2. Calling' /\ Passing'
    BY <1>1, CallLeft, Zenon
  <1>3. Typed'
    BY Zenon DEF vars, Books, Typed, resources, call
  <1>4. ResourcesAccounted' /\ AddedStaysAcknowledged'
    BY JournalLeft, Zenon DEF vars, resources
  <1>. QED
    BY <1>2, <1>3, <1>4, Zenon DEF Books

LEMMA NextBooks == ASSUME IInv, Books, [Next]_vars PROVE Books'
  <1>1. CASE Add
    BY <1>1, AddReplayBooks, AddBeginBooks, RefusedBooks, AddNetworkBooks, AddAcknowledgeBooks, Zenon DEF Add
  <1>2. CASE Del
    BY <1>2, RefusedBooks, DelBeginBooks, DelNetworkBooks, DelAcknowledgeBooks, Zenon DEF Del
  <1>3. CASE VerifyStart \/ Verify
    BY <1>3, VerifyStartBooks, VerifyOneBooks, VerifyStampBooks, VerifyBeginBooks, VerifyCommitBooks, Zenon DEF Verify
  <1>4. CASE ExportRefused \/ Recover \/ Retry \/ Stop \/ Crash \/ Tick
    BY <1>4, RoutesBooks, RecoverBooks, StopBooks, TickBooks, Zenon
  <1>5. CASE \E r \in Requests : CallAdd(r) \/ CallDel(r) \/ Publish(r) \/ RemoveNamespace(r)
    BY <1>5, CallBooks, RoutesBooks, LossBooks, Zenon
  <1>6. CASE \E k \in Key : Export(k) \/ ExportAdd(k) \/ Withdraw(k) \/ DeletePod(k) \/ LoseAttachment(k)
    BY <1>6, RoutesBooks, ExportBooks, LossBooks, Zenon
  <1>7. CASE UNCHANGED vars
    BY <1>7, StutterBooks, Zenon
  <1>. QED
    BY <1>1, <1>2, <1>3, <1>4, <1>5, <1>6, <1>7, Zenon DEF Next

\* The books are kept in every reachable state.
THEOREM BooksKept == Spec => []Books
  BY IInvHolds, InitBooks, NextBooks, PTL DEF Spec

\* Whatever failed, crashed or was interrupted, every resource of an endpoint is pinned
\* by a live acknowledgement on disk or named by an unresolved intent, and an ADD that
\* succeeded keeps its acknowledgement until the runtime calls for it again.
THEOREM DiskAccounts == Spec => []Accounted
  <1>1. Books => Accounted
    BY Zenon DEF Books, Typed, Accounted, TypeOK, Intents
  <1>. QED
    BY BooksKept, <1>1, PTL
=============================================================================
