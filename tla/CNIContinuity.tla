--------------------------- MODULE CNIContinuity ---------------------------
(***************************************************************************)
(* CNI ADD and DEL with the continuity journal (pkg/nodeagent,             *)
(* cni_continuity*.go, cni_activation.go): every mutation is bracketed by  *)
(* a durable intent and an acknowledgement that pins the created           *)
(* resources; a new endpoint is pending until its sandbox is published, and *)
(* is then promoted or quarantined by a background pass; exports are gated *)
(* on verified acknowledgements; a restart restores only what it can       *)
(* verify.  The journal is used through the promises of IntentLog: one     *)
(* intent at a time, durable when the call returns; a failed write leaves  *)
(* either record on disk and fences the handle until a restart.            *)
(***************************************************************************)
EXTENDS Naturals, FiniteSets

CONSTANTS
    Requests,   \* sandboxes to attach: [key, inc, ns]; a key belongs to one pod
    None,
    Admission,  \* creation authority configured: endpoints start as pending
    Scenarios,  \* the sandboxes a runtime may start, and the faults already spent
    Window,     \* publication deadline (two minutes), in clock ticks
    MaxNow,     \* bound: clock
    MaxGen,     \* bound: fresh ADDs
    MaxFaults   \* bound: crashes, failed requests and writes, deletions by others

Key == { r.key : r \in Requests }

States == {"new", "pending_creation", "active", "quarantined", "deleted"}
Receipts == [nb : Nat, ovs : Nat, veth : Nat]
Records == [r : Requests, receipt : Receipts, state : States, by : Nat, at : Nat]

ASSUME ContinuityAssumption ==
    /\ Admission \in BOOLEAN
    /\ Scenarios \subseteq [reqs : SUBSET Requests, faults : 0..MaxFaults]
    /\ {Window, MaxNow, MaxGen, MaxFaults} \subseteq Nat
    /\ None \notin Records \cup [op : {"add", "del", "identity"}, ack : Records]

VARIABLES
    disk,     \* the journal: [state, pending]
    fenced,   \* the handle refuses further calls
    mem,      \* cniContinuity.state.Endpoints
    store,    \* keys with a record in Store
    nb, ovs, veth,  \* generation of each key's resources, 0 when absent
    gen,      \* generations used
    pods,     \* each pod: "running", "deleting" or "gone"
    ready,    \* published sandboxes
    nsUp,     \* network namespaces
    routes,   \* exported endpoints
    client,   \* what the runtime knows of each request
    up,       \* "up", "down", or "blocked": recovery refused
    pc, cur, ack, todo,  \* call in progress, its request, the ACK in hand, keys of the pass
    now, faults

resources == <<nb, ovs, veth>>
cluster == <<pods, ready, nsUp>>
call == <<pc, cur, ack, todo>>
vars == <<disk, fenced, mem, store, resources, gen, cluster, routes, client, up, call, now, faults>>

Absent == [k \in Key |-> 0]
NoACK == [k \in Key |-> None]

Init ==
    /\ disk = [state |-> NoACK, pending |-> None] /\ fenced = FALSE
    /\ mem = NoACK /\ store = {}
    /\ nb = Absent /\ ovs = Absent /\ veth = Absent /\ gen = 0
    /\ \E s \in Scenarios :
        /\ pods = [k \in Key |-> IF \E r \in s.reqs : r.key = k THEN "running" ELSE "gone"]
        /\ nsUp = { r.ns : r \in s.reqs }
        /\ client = [r \in Requests |-> IF r \in s.reqs THEN "new" ELSE "gone"]
        /\ faults = s.faults
    /\ ready = {} /\ routes = {}
    /\ up = "up" /\ pc = "idle" /\ cur = None /\ ack = None /\ todo = {}
    /\ now = 0

Fault == faults < MaxFaults /\ faults' = faults + 1
NoFault == UNCHANGED faults
Idle == pc = "idle" /\ up = "up"

----------------------------------------------------------------------------
(* The journal and the checks *)

\* cniContinuity.ready.
Ready == ~fenced /\ disk.pending = None

\* Journal.Begin and Journal.Commit; Then is what the caller does on success.
Write(d, Then, Else) ==
    \/ ~fenced /\ disk' = d /\ UNCHANGED fenced /\ NoFault /\ Then
    \/ ~fenced /\ Fault /\ disk' \in {disk, d} /\ fenced' = TRUE /\ Else

Begin(op, a, Then, Else) ==
    Write([disk EXCEPT !.pending = [op |-> op, ack |-> a]], Then, Else)
Commit(s, Then, Else) == Write([state |-> s, pending |-> None], Then, Else)

\* nativeCNIObserver.Observe: what the databases and the kernel hold for a key.
Nothing(k) == nb[k] = 0 /\ ovs[k] = 0
Observed(k) == [nb |-> nb[k], ovs |-> ovs[k], veth |-> veth[k]]

\* verifyResources: the acknowledged UUIDs, interface and namespace are there.
Verified(a) ==
    /\ a.receipt.nb # 0 /\ a.receipt.ovs # 0 /\ a.receipt.veth # 0
    /\ Observed(a.r.key) = a.receipt
    /\ a.r.ns \in nsUp

\* KubernetesCNIWorkloadAttestor.VerifyPod and Verify.
Pod(k) == [running |-> "ok", deleting |-> "conflict", gone |-> "deleted"][pods[k]]
Workload(a) ==
    IF Pod(a.r.key) # "ok" THEN Pod(a.r.key)
    ELSE IF a.r \in ready /\ a.r.ns \in nsUp THEN "ok" ELSE "pending"

\* validateCNIACK.
Valid(a) == a.state = "active" /\ Admission => a.at <= a.by

Live(a) == a # None /\ a.state # "deleted"

----------------------------------------------------------------------------
(* ADD *)

Reply(c) ==
    /\ client' = [client EXCEPT ![cur] = c]
    /\ pc' = "idle" /\ cur' = None /\ ack' = None /\ UNCHANGED todo

Fails == Reply(IF client[cur] = "adding" THEN "failed" ELSE "deleting")

\* The runtime calls the plugin.
CallAdd(r) ==
    /\ Idle /\ client[r] \in {"new", "added"}
    /\ client' = [client EXCEPT ![r] = "adding"]
    /\ pc' = "add" /\ cur' = r /\ ack' = None
    /\ UNCHANGED <<disk, fenced, mem, store, resources, gen, cluster, routes, up, todo, now, faults>>

\* An ADD of an endpoint that has a live ACK: answered without any Ensure.
Replays ==
    /\ Live(mem[cur.key]) /\ mem[cur.key].r = cur
    /\ mem[cur.key].state = "active" => Workload(mem[cur.key]) = "ok"
    /\ mem[cur.key].state # "quarantined"
    /\ Verified(mem[cur.key])

AddReplay ==
    /\ pc = "add" /\ Ready /\ Pod(cur.key) = "ok" /\ Replays
    /\ store' = store \cup {cur.key}
    /\ Reply("added")
    /\ UNCHANGED <<disk, fenced, mem, resources, gen, cluster, routes, up, now, faults>>

\* What a fresh ADD needs: nothing under the names of the endpoint.
Fresh == ~Live(mem[cur.key]) /\ Nothing(cur.key) /\ veth[cur.key] = 0 /\ cur.ns \in nsUp

\* Variant: resources are created before anything is on disk.
AddBeginUnjournalled ==
    /\ pc = "add" /\ Ready /\ Pod(cur.key) = "ok" /\ Fresh
    /\ gen < MaxGen /\ now + Window <= MaxNow
    /\ pc' = "add-net" /\ gen' = gen + 1
    /\ ack' = [r |-> cur, receipt |-> Observed(cur.key), state |-> "new", by |-> 0, at |-> 0]
    /\ UNCHANGED <<disk, fenced, mem, store, resources, cluster, routes, client, up, cur, todo, now, faults>>

AddBegin ==
    /\ pc = "add" /\ Ready /\ Pod(cur.key) = "ok" /\ Fresh
    /\ gen < MaxGen /\ now + Window <= MaxNow
    /\ LET a == [r |-> cur, receipt |-> Observed(cur.key), state |-> "new", by |-> 0, at |-> 0] IN
       Begin("add", a,
             pc' = "add-net" /\ ack' = a /\ gen' = gen + 1 /\ UNCHANGED <<client, cur, todo>>,
             Fails /\ UNCHANGED gen)
    /\ UNCHANGED <<mem, store, resources, cluster, routes, up, now>>

\* Any refusal before the intent; the authorities may also be unreachable.
AddRefused ==
    /\ pc = "add" /\ Fails
    /\ UNCHANGED <<disk, fenced, mem, store, resources, gen, cluster, routes, up, now, faults>>

\* A step of ADD that creates one resource; an error leaves the intent behind.
Creates(here, there, res, others) ==
    /\ pc = here
    /\ \/ /\ res' = [res EXCEPT ![cur.key] = gen] /\ NoFault
          /\ pc' = there /\ UNCHANGED <<client, cur, ack, todo>>
       \/ Fault /\ res' \in {res, [res EXCEPT ![cur.key] = gen]} /\ Fails
    /\ UNCHANGED <<disk, fenced, mem, store, others, gen, cluster, routes, up, now>>

AddNetwork ==
    \/ pc = "add-net" /\ cur.ns \in nsUp /\ Creates("add-net", "add-nb", veth, <<nb, ovs>>)
    \/ /\ pc = "add-net" /\ cur.ns \notin nsUp /\ Fails
       /\ UNCHANGED <<disk, fenced, mem, store, resources, gen, cluster, routes, up, now, faults>>
AddPort == Creates("add-nb", "add-ovs", nb, <<ovs, veth>>)
AddAttachment == Creates("add-ovs", "add-ack", ovs, <<nb, veth>>)

\* The created resources are read back and pinned; pod and caller are verified
\* a second time before the acknowledgement; each of these may also be unreachable.
Proposed ==
    [r |-> cur, receipt |-> Observed(cur.key), by |-> now + Window, at |-> 0,
     state |-> IF Admission THEN "pending_creation" ELSE "active"]

AddAcknowledge ==
    /\ pc = "add-ack"
    /\ \/ /\ Verified(Proposed) /\ Pod(cur.key) = "ok"
          /\ mem' = [mem EXCEPT ![cur.key] = Proposed]
          /\ Commit(mem',
                    store' = store \cup {cur.key} /\ \E c \in {"added", "failed"} : Reply(c),
                    Fails /\ UNCHANGED store)
       \/ /\ ~(Verified(Proposed) /\ Pod(cur.key) = "ok")
          /\ Fails /\ UNCHANGED <<disk, fenced, mem, store, faults>>
       \/ Fault /\ Fails /\ UNCHANGED <<disk, fenced, mem, store>>
    /\ UNCHANGED <<resources, gen, cluster, routes, up, now>>

----------------------------------------------------------------------------
(* DEL *)

CallDel(r) ==
    /\ Idle /\ client[r] \in {"added", "failed", "deleting"}
    /\ client' = [client EXCEPT ![r] = "deleting"]
    /\ pc' = "del" /\ cur' = r /\ ack' = None
    /\ UNCHANGED <<disk, fenced, mem, store, resources, gen, cluster, routes, up, todo, now, faults>>

\* STALE_OPERATION and ALREADY_ABSENT.
DelNothing ==
    /\ pc = "del" /\ Ready
    /\ Live(mem[cur.key]) => mem[cur.key].r # cur
    /\ Reply("gone")
    /\ UNCHANGED <<disk, fenced, mem, store, resources, gen, cluster, routes, up, now, faults>>

DelBegin ==
    /\ pc = "del" /\ Ready
    /\ Live(mem[cur.key]) /\ mem[cur.key].r = cur /\ Verified(mem[cur.key])
    /\ Begin("del", mem[cur.key],
             pc' = "del-ovs" /\ ack' = mem[cur.key] /\ UNCHANGED <<client, cur, todo>>,
             Fails)
    /\ UNCHANGED <<mem, store, resources, gen, cluster, routes, up, now>>

\* Blocked, or a pinned resource is not confirmed (changed, or unreachable).
DelRefused ==
    /\ pc = "del"
    /\ Ready => Live(mem[cur.key]) /\ mem[cur.key].r = cur
    /\ Fails
    /\ UNCHANGED <<disk, fenced, mem, store, resources, gen, cluster, routes, up, now, faults>>

\* A step that deletes one pinned resource, refused if it changed.
Deletes(here, there, res, id, others) ==
    /\ pc = here
    /\ \/ /\ res[cur.key] = id /\ NoFault
          /\ res' = [res EXCEPT ![cur.key] = 0]
          /\ pc' = there /\ UNCHANGED <<client, cur, ack, todo>>
       \/ res[cur.key] # id /\ NoFault /\ Fails /\ UNCHANGED res
       \/ /\ res[cur.key] = id /\ Fault /\ Fails
          /\ res' \in {res, [res EXCEPT ![cur.key] = 0]}
    /\ UNCHANGED <<disk, fenced, mem, store, others, gen, cluster, routes, up, now>>

DelAttachment == Deletes("del-ovs", "del-nb", ovs, ack.receipt.ovs, <<nb, veth>>)
DelPort == Deletes("del-nb", "del-net", nb, ack.receipt.nb, <<ovs, veth>>)

\* DeleteAcknowledged: a missing interface is fine, a changed one is not.
DelNetwork ==
    \/ Deletes("del-net", "del-ack", veth, ack.receipt.veth, <<nb, ovs>>)
    \/ /\ pc = "del-net" /\ veth[cur.key] = 0
       /\ pc' = "del-ack"
       /\ UNCHANGED <<disk, fenced, mem, store, resources, gen, cluster, routes, client, up,
                      cur, ack, todo, now, faults>>

\* The absence is read back, which may fail too.
DelAcknowledge ==
    /\ pc = "del-ack"
    /\ \/ /\ Nothing(cur.key) /\ veth[cur.key] = 0
          /\ mem' = [mem EXCEPT ![cur.key] = [ack EXCEPT !.state = "deleted"]]
          /\ Commit(mem', store' = store \ {cur.key} /\ \E c \in {"gone", "deleting"} : Reply(c),
                    Fails /\ UNCHANGED store)
       \/ /\ ~(Nothing(cur.key) /\ veth[cur.key] = 0)
          /\ Fails /\ UNCHANGED <<disk, fenced, mem, store, faults>>
       \/ Fault /\ Fails /\ UNCHANGED <<disk, fenced, mem, store>>
    /\ UNCHANGED <<resources, gen, cluster, routes, up, now>>

----------------------------------------------------------------------------
(* Activation: verifyPendingCNI, once per second under the same mutex *)

Pending(k) == mem[k] # None /\ mem[k].state = "pending_creation"

VerifyStart ==
    /\ Idle /\ Ready /\ \E k \in Key : Pending(k)
    /\ pc' = "verify" /\ todo' = { k \in Key : Pending(k) }
    /\ UNCHANGED <<disk, fenced, mem, store, resources, gen, cluster, routes, client, up,
                   cur, ack, now, faults>>

Decide(k, s) ==
    /\ ack' = [mem[k] EXCEPT !.state = s]
    /\ pc' = IF s = "active" THEN "verify-stamp" ELSE "verify-begin"

\* Variant: only what the runtime says ends the wait.
VerifyOneNoDeadline(k) ==
    /\ pc = "verify" /\ k \in todo
    /\ \/ Workload(mem[k]) \in {"deleted", "conflict"} /\ Decide(k, "quarantined")
       \/ pc' = "idle" /\ UNCHANGED ack
       \/ Workload(mem[k]) = "ok" /\ Decide(k, "quarantined")
       \/ Workload(mem[k]) = "ok" /\ Verified(mem[k]) /\ Decide(k, "active")
    /\ todo' = IF pc' = "idle" THEN {} ELSE todo \ {k}
    /\ UNCHANGED <<disk, fenced, mem, store, resources, gen, cluster, routes, client, up,
                   cur, now, faults>>

\* One endpoint, in any order: the reasons to quarantine, among them resources that
\* changed or could not be observed; the error that ends the pass (the workload
\* could not be asked, for whatever cause); and the promotion.
VerifyOne(k) ==
    /\ pc = "verify" /\ k \in todo
    /\ \/ Workload(mem[k]) \in {"deleted", "conflict"} /\ Decide(k, "quarantined")
       \/ now >= mem[k].by /\ Decide(k, "quarantined")
       \/ now < mem[k].by /\ pc' = "idle" /\ UNCHANGED ack
       \/ now < mem[k].by /\ Workload(mem[k]) = "ok" /\ Decide(k, "quarantined")
       \/ /\ now < mem[k].by /\ Workload(mem[k]) = "ok" /\ Verified(mem[k])
          /\ Decide(k, "active")
    /\ todo' = IF pc' = "idle" THEN {} ELSE todo \ {k}
    /\ UNCHANGED <<disk, fenced, mem, store, resources, gen, cluster, routes, client, up,
                   cur, now, faults>>

\* The last deadline check has passed; the clock is read once more.
VerifyStamp ==
    /\ pc = "verify-stamp"
    /\ ack' = [ack EXCEPT !.at = now]
    /\ pc' = "verify-begin"
    /\ UNCHANGED <<disk, fenced, mem, store, resources, gen, cluster, routes, client, up,
                   cur, todo, now, faults>>

EndPass == pc' = "idle" /\ ack' = None /\ todo' = {} /\ UNCHANGED <<client, cur>>

VerifyBegin ==
    /\ pc = "verify-begin"
    /\ Begin("identity", ack, pc' = "verify-commit" /\ UNCHANGED <<ack, todo, client, cur>>, EndPass)
    /\ UNCHANGED <<mem, store, resources, gen, cluster, routes, up, now>>

\* Variant: the state in memory is not replaced.
VerifyCommitDiskOnly ==
    /\ pc = "verify-commit"
    /\ Commit([mem EXCEPT ![ack.r.key] = ack],
              /\ IF todo = {} THEN EndPass
                 ELSE pc' = "verify" /\ ack' = None /\ UNCHANGED <<client, cur, todo>>
              /\ UNCHANGED <<mem, store>>,
              EndPass /\ UNCHANGED <<mem, store>>)
    /\ UNCHANGED <<resources, gen, cluster, routes, up, now>>

VerifyCommit ==
    LET next == [mem EXCEPT ![ack.r.key] = ack] IN
    /\ pc = "verify-commit"
    /\ Commit(next,
              /\ mem' = next
              /\ store' = IF ack.state = "quarantined" THEN store \ {ack.r.key} ELSE store
              /\ IF todo = {} THEN EndPass
                 ELSE pc' = "verify" /\ ack' = None /\ UNCHANGED <<client, cur, todo>>,
              EndPass /\ UNCHANGED <<mem, store>>)
    /\ UNCHANGED <<resources, gen, cluster, routes, up, now>>

----------------------------------------------------------------------------
(* Export *)

\* Variant: an endpoint that waits for its sandbox does not block the others.
GateActiveOnly == \A k \in Key : mem[k] # None /\ mem[k].state = "active" => Verified(mem[k])

\* validateContinuityLocked: every endpoint is settled and verified.
Gate ==
    \A k \in Key : Live(mem[k]) =>
        /\ mem[k].state = "active"
        /\ Workload(mem[k]) \in {"ok", "deleted"}
        /\ Workload(mem[k]) = "ok" => Verified(mem[k])
Dropped == { k \in Key : Live(mem[k]) /\ Workload(mem[k]) = "deleted" }

\* continuityRouteApplier.Add validates, and keeps the operations mutex until the
\* applier has returned: no call and no pass comes in between, but pods, namespaces
\* and rows are not under that mutex.
Export(k) ==
    /\ Idle /\ Ready /\ Gate /\ k \notin routes
    /\ store' = store \ Dropped
    /\ IF mem[k] # None /\ mem[k].state = "active" /\ k \in store'
       THEN pc' = "export" /\ ack' = mem[k] /\ todo' = {k} /\ UNCHANGED cur
       ELSE UNCHANGED call
    /\ UNCHANGED <<disk, fenced, mem, resources, gen, cluster, routes, client, up, now, faults>>

\* applier.Add: one AddPath, whose answer may be lost.
ExportAdd(k) ==
    /\ pc = "export" /\ k \in todo
    /\ \/ NoFault /\ routes' = routes \cup {k}
       \/ Fault /\ routes' \in {routes, routes \cup {k}}
    /\ EndPass
    /\ UNCHANGED <<disk, fenced, mem, store, resources, gen, cluster, up, now>>

\* A gate that fails may have dropped the records of some deleted pods already.
ExportRefused ==
    /\ Idle /\ Ready /\ ~Gate
    /\ \E d \in SUBSET Dropped : store' = store \ d
    /\ UNCHANGED <<disk, fenced, mem, resources, gen, cluster, routes, client, up, call, now, faults>>

\* continuityRouteApplier.Delete: not gated; the exporter makes one call at a time.
Withdraw(k) ==
    /\ up = "up" /\ pc # "export" /\ k \in routes /\ nb[k] = 0
    /\ routes' = routes \ {k}
    /\ UNCHANGED <<disk, fenced, mem, store, resources, gen, cluster, client, up, call, now, faults>>

----------------------------------------------------------------------------
(* Restart *)

\* A pending identity checkpoint about a pending endpoint is rolled back; any
\* other intent blocks.
Resolved ==
    disk.pending # None =>
       /\ disk.pending.op = "identity"
       /\ LET p == disk.state[disk.pending.ack.r.key] IN
          /\ p # None /\ p.state = "pending_creation"
          /\ [disk.pending.ack EXCEPT !.state = p.state, !.at = p.at] = p

Restorable(a) ==
    /\ Valid(a)
    /\ a.state = "pending_creation" => Verified(a)
    /\ a.state = "active" /\ Workload(a) # "deleted" => Workload(a) = "ok" /\ Verified(a)

Restored(a) ==
    \/ a.state = "pending_creation"
    \/ a.state = "active" /\ Workload(a) # "deleted"

\* recoverCNI; the roll back is a journal write of its own, which may fail.
Recover ==
    /\ up = "down"
    /\ \/ /\ NoFault
          /\ disk' = IF Resolved THEN [disk EXCEPT !.pending = None] ELSE disk
          /\ IF Resolved /\ \A k \in Key : disk.state[k] # None => Restorable(disk.state[k])
             THEN /\ up' = "up" /\ mem' = disk.state
                  /\ store' = { k \in Key : disk.state[k] # None /\ Restored(disk.state[k]) }
             ELSE up' = "blocked" /\ UNCHANGED <<mem, store>>
       \/ /\ Resolved /\ disk.pending # None /\ Fault
          /\ disk' \in {disk, [disk EXCEPT !.pending = None]}
          /\ up' = "blocked" /\ UNCHANGED <<mem, store>>
    /\ fenced' = FALSE
    /\ UNCHANGED <<resources, gen, cluster, routes, client, call, now>>

\* EnableCNIContinuity closes what it opened; the agent is started again.
Retry ==
    /\ up = "blocked" /\ up' = "down"
    /\ UNCHANGED <<disk, fenced, mem, store, resources, gen, cluster, routes, client, call, now, faults>>

\* The close function: waits for the pass and for the call in progress.
Stop ==
    /\ Idle /\ up' = "down" /\ mem' = NoACK /\ store' = {} /\ fenced' = FALSE
    /\ UNCHANGED <<disk, resources, gen, cluster, routes, client, call, now, faults>>

Crash ==
    /\ up = "up" /\ Fault /\ up' = "down"
    /\ mem' = NoACK /\ store' = {} /\ fenced' = FALSE
    /\ client' = [r \in Requests |-> IF r = cur /\ client[r] = "adding" THEN "failed" ELSE client[r]]
    /\ pc' = "idle" /\ cur' = None /\ ack' = None /\ todo' = {}
    /\ UNCHANGED <<disk, resources, gen, cluster, routes, now>>

----------------------------------------------------------------------------
(* The cluster *)

environment == <<disk, fenced, mem, store, gen, routes, up, call>>

Tick ==
    /\ now < MaxNow /\ now' = now + 1
    /\ pc \in {"add-net", "add-nb", "add-ovs", "add-ack"} => now + Window < MaxNow
    /\ UNCHANGED <<environment, resources, cluster, client, faults>>

\* The runtime publishes the sandbox after ADD has returned.
Publish(r) ==
    /\ client[r] = "added" /\ r.ns \in nsUp /\ ready' = ready \cup {r}
    /\ UNCHANGED <<environment, resources, pods, nsUp, client, now, faults>>

DeletePod(k) ==
    /\ \/ pods[k] = "running" /\ pods' = [pods EXCEPT ![k] = "deleting"] /\ Fault
       \/ pods[k] = "deleting" /\ pods' = [pods EXCEPT ![k] = "gone"] /\ NoFault
    /\ UNCHANGED <<environment, resources, ready, nsUp, client, now>>

\* The sandbox a key's interface was made for.
User(k) ==
    IF disk.pending # None /\ disk.pending.ack.r.key = k THEN disk.pending.ack.r
    ELSE IF Live(disk.state[k]) THEN disk.state[k].r ELSE None

\* With the namespace of a sandbox that is no longer used, or torn down while it
\* is being attached, goes its veth pair.
RemoveNamespace(r) ==
    /\ r.ns \in nsUp
    /\ \/ client[r] \in {"failed", "deleting", "gone"} /\ NoFault
       \/ client[r] = "adding" /\ Fault
    /\ nsUp' = nsUp \ {r.ns} /\ ready' = ready \ {r}
    /\ veth' = IF User(r.key) = r
               THEN [veth EXCEPT ![r.key] = 0] ELSE veth
    /\ UNCHANGED <<environment, nb, ovs, pods, client, now>>

\* Somebody else removes an OVS interface.
LoseAttachment(k) ==
    /\ ovs[k] # 0 /\ Fault /\ ovs' = [ovs EXCEPT ![k] = 0]
    /\ UNCHANGED <<environment, nb, veth, cluster, client, now>>

Add == AddReplay \/ AddBegin \/ AddRefused \/ AddNetwork \/ AddPort \/ AddAttachment \/ AddAcknowledge
Del == DelNothing \/ DelBegin \/ DelRefused \/ DelAttachment \/ DelPort \/ DelNetwork \/ DelAcknowledge
Verify ==
    \/ \E k \in Key : VerifyOne(k)
    \/ VerifyStamp \/ VerifyBegin \/ VerifyCommit
Next ==
    \/ \E r \in Requests : CallAdd(r) \/ CallDel(r) \/ Publish(r) \/ RemoveNamespace(r)
    \/ Add \/ Del \/ VerifyStart \/ Verify
    \/ \E k \in Key : Export(k) \/ ExportAdd(k) \/ Withdraw(k) \/ DeletePod(k) \/ LoseAttachment(k)
    \/ ExportRefused \/ Recover \/ Retry \/ Stop \/ Crash \/ Tick

Spec == Init /\ [][Next]_vars

\* Calls finish, the ticker fires again and again between calls, time passes and
\* the agent is started again.
FairSpec ==
    /\ Spec /\ WF_vars(Add \/ Del \/ Verify \/ (\E k \in Key : ExportAdd(k)) \/ Recover \/ Retry)
    /\ SF_vars(VerifyStart) /\ WF_vars(Tick)

----------------------------------------------------------------------------
(* Properties *)

ACK == [r : Requests, receipt : [nb : 0..MaxGen, ovs : 0..MaxGen, veth : 0..MaxGen],
        state : States, by : 0..MaxNow, at : 0..MaxNow]
TypeOK ==
    /\ disk.state \in [Key -> ACK \cup {None}]
    /\ disk.pending # None => disk.pending \in [op : {"add", "del", "identity"}, ack : ACK]
    /\ mem \in [Key -> ACK \cup {None}] /\ ack \in ACK \cup {None}
    /\ store \subseteq Key /\ routes \subseteq Key /\ todo \subseteq Key

\* Between calls, an agent whose journal is usable decides on exactly what the
\* journal holds, whatever failed or was interrupted before.
MemoryFollowsJournal == Idle /\ Ready => mem = disk.state

\* Every resource in the databases or the kernel is accounted for on disk: pinned
\* by a live acknowledgement, or named by an unresolved intent of its endpoint.
ResourcesAccounted ==
    \A k \in Key :
        \/ disk.pending # None /\ disk.pending.op # "identity" /\ disk.pending.ack.r.key = k
        \/ LET a == disk.state[k]
               pin == IF Live(a) THEN a.receipt ELSE [nb |-> 0, ovs |-> 0, veth |-> 0]
           IN  nb[k] \in {0, pin.nb} /\ ovs[k] \in {0, pin.ovs} /\ veth[k] \in {0, pin.veth}

\* "BGP export is prohibited" for a pending endpoint: an export is validated only
\* while every live endpoint on disk is active, and for an endpoint whose pinned
\* resources are in place and whose pod and sandbox exist; and when its route is
\* added, nothing that the journal says of this or any other endpoint has changed
\* since.  What others took away in between, the mutex does not protect.
Settled == \A i \in Key : Live(disk.state[i]) => disk.state[i].state = "active"
ExportedIsVerified ==
    [][ /\ pc # "export" /\ pc' = "export" =>
             \A k \in todo' :
                /\ Settled /\ disk.state[k] # None /\ disk.state[k] = ack'
                /\ Verified(disk.state[k]) /\ Workload(disk.state[k]) = "ok"
        /\ \A k \in routes' \ routes :
             Settled /\ pc = "export" /\ k \in todo /\ disk.state[k] = ack ]_<<routes, pc>>

\* When ADD succeeds, the journal on disk holds a live acknowledgement of exactly
\* this sandbox with the resources that exist, and no intent: a restart at that
\* moment finds what the runtime was told of.
AddedIsDurable ==
    [][ \A r \in Requests :
          client[r] = "adding" /\ client'[r] = "added" =>
            /\ Live(disk'.state[r.key]) /\ disk'.state[r.key].r = r
            /\ disk'.state[r.key].receipt = Observed(r.key)' /\ disk'.pending = None ]_client

\* Whatever the sandboxes of a pod do to each other, a sandbox that was told its
\* ADD succeeded stays acknowledged on disk, and no intent threatens it, until
\* the runtime calls for it again.
AddedStaysAcknowledged ==
    \A r \in Requests :
        client[r] = "added" =>
            /\ Live(disk.state[r.key]) /\ disk.state[r.key].r = r
            /\ disk.pending # None /\ disk.pending.op # "identity" => disk.pending.ack.r.key # r.key

\* The disk accounts for both sides: for what exists in the databases and the
\* kernel, and for what the runtime was told.
Accounted == TypeOK /\ ResourcesAccounted /\ AddedStaysAcknowledged

\* An endpoint does not stay pending: it is promoted, quarantined or deleted, or
\* the agent is held up by an unresolved intent or a recovery that is refused.
PendingIsSettled ==
    \A k \in Key :
        LET waits == disk.state[k] # None /\ disk.state[k].state = "pending_creation"
        IN  waits ~> (~waits \/ disk.pending # None \/ fenced \/ up = "blocked")
====
