# TLA+ models of evpn-for-ovn

The repository connects OVN to a BGP EVPN fabric. On every node an agent serves
CNI requests, creates OVN and OVS state for pods, advertises local endpoints as
EVPN Type-2 routes through a local GoBGP speaker, and programs the remote ones
into the kernel or into OVSDB. An operator installs it, and a set of older gRPC
services drives OVSDB and the kernel directly. What makes the system hard is
ownership: every piece of outside state (a BGP path, a kernel entry, an OVS row, a
Kubernetes object) may also belong to somebody else, and processes die between an
external operation and the record of it.

## The system and its models

| Component | Source | Module | What is hard |
|---|---|---|---|
| Ownership journal | `pkg/ownership/journal.go` | `Journal`, `JournalRecord`, `IntentLog` | kill or power cut between any two system calls, two openers, replaced lock |
| Type-2 exporter | `pkg/evpn/exporter.go`, `export_recovery.go`, `type2*.go`, `pkg/nodeagent/export_runtime.go` | `Type2Exporter` | lost or late replies, speaker restart inside a tick, other writers |
| Speaker continuity | `pkg/nodeagent/speaker_continuity_linux.go`, `provider_*.go` | `SpeakerContinuity` | process numbers used again between two reads |
| Read-only importer | `pkg/evpn/remote_type2.go` | `Type2Importer` | a table that changes while it is streamed; two equal observations |
| Netlink importer | `pkg/evpn/remote_netlink_import.go`, `owned_netlink*.go`, `remote_recovery.go`, `pkg/nodeagent/remote_runtime.go` | `NetlinkImporter` | two kernel objects per endpoint, foreign entries, crash inside a checkpoint |
| CNI server, endpoint and attachment managers | `pkg/nodeagent/server.go`, `network_backend.go`, `pkg/endpoint`, `pkg/attachment` | `CNIServer` | stale DEL, repeated ADD, rollback after a partial failure |
| CNI continuity | `pkg/nodeagent/cni_continuity*.go`, `cni_activation.go` | `CNIContinuity` | deadline against late verification, two databases in one deletion |
| Operator | `deploy/operator/controllers` | `Operator` | competing installations, stale cache, edits during a reconciliation |
| OVSDB-programmed importer | `pkg/evpn/ovsdb_programmer.go`, `ovsdb_provider_bridge.go`, `cmd/evpn-ovsdb` | `Model1` | two databases, decisions on a copy, state lost on restart |
| `ovsdb_mgmt` service | `services/ovsdb_mgmt/main.go` | `OvsdbMgmt` | reads and writes in separate transactions, several callers |
| `bgp_ad_handler` service | `services/bgp_ad_handler/main.go` | `RouteStream` with `OvsdbHandler` or `KernelHandler` | gap between list and watch, retries, shared entries |

How they fit together. The exporter, the netlink importer and CNI continuity each
keep a journal of the first row; `Journal` shows that file protocol to implement
`IntentLog`, and the three others use it as `IntentLog` promises (one record that a
write replaces, or fails to replace and fences the handle). `SpeakerContinuity`
justifies that the exporter and the importer see the speaker as one process with an
incarnation. `NetlinkImporter` and `Model1` take the snapshots that `Type2Importer`
publishes, of which they use `GenerationNamesResult` and that an endpoint has one
VTEP. `OvsdbHandler` is a composition: it extends `RouteStream` and `OvsdbMgmt`, and
each call of the handler is a call of the modelled server.

`*Proofs` modules hold theorems, `MC*` modules and `.cfg` files the instances for
TLC. Definitions introduced by a comment that starts with "Variant:" are faulty
forms of the definition that follows them. No specification uses them; they exist
to confirm that the properties notice such a fault. A variable `setup`, `world`,
`node` or a set `Scenarios` fixes at the start which of several configurations a
behaviour belongs to, so that one run covers them all.

## The models

### Journal

`fs` is the directory as processes see it, `disk` what a power cut is certain to
leave. Each system call that a kill, a power cut or another process can tell apart
is an action: `OpenDirectory`, `CreateLock` or `OpenLock`, `Flock`, then
`InitJournal` or `ReadJournal`; `Begin` and `Commit` up to their call of persist;
`WriteTemp`, `SyncTemp`, `Rename`, `SyncDirectory` inside it. `PersistFails` is any
error of persist, with the fence its deferred function sets. `told` is a history
variable: the last intent for which Begin returned success.

Abstractions. A record's payload and state are opaque. The checksum, strict
decoding, file modes and size limits become "the file is intact" (`Torn` is the
file that is not). `Domain` is reduced to the boot ID and one digest for all its
other fields. Temporary files are never read back and are not represented.
`ReplaceLock` (an administrator replaces the lock file) may happen anywhere except
between persist's own lock check and its return: the code cannot see it there and
asks not to do it ("never unlink an active lock").

Two observations from the model. A process that reopens after a kill between
rename and directory fsync reads a record that is not yet durable; this is
harmless because a power cut changes the boot ID, which blocks every later Open.
And a process that dies between creating the directory and its first record, like
two processes opening a new directory at once, can leave a directory that every
later Open refuses; the code means this ("An existing directory with missing lock
or journal always blocks").

### Type2Exporter

A route's NLRI is a member of `Key`, the rest of its payload a member of `Attr`.
One action is one stretch of the tick that no outside event can divide with a
visible effect: an observation of the RIB, which the code brackets by two checks
of the speaker's identity, is joined with the local decision and the journal write
after it. Between the observation and that write, events outside can only change
the RIB, which the journal write does not read; so the joined step followed by the
event and the event after the write reach the same state. A mutating RPC is a step
of its own, and has separate outcomes for its effect and its reply. The journal is
one record whose replacement succeeds, or fails before or after the record was
replaced and fences the instance: `Journal` justifies that.

`setup` fixes the configuration: with a Recovery section or without, a speaker that
shows UUIDs or hides them, and `LateDelivery`.

The tick is `Connect`, `ConnectRefused`, `Disconnect` or `KeepTransport`
(`export_runtime.go`); `Observe` (`EndpointExporter.reconcile`); the `Recover...`
actions (`ExportRecovery.Recover`); `Resync`, `PathDisappeared` and `Reconcile`
(`RouteReconciler`); then for each operation `BeginOperation`, `AddRpc` or
`DeleteRpc`, and `AcknowledgeOperation`, or `RawAdd` and `RawDelete` where the
adapter is used without recovery. `TickFails` stands for every early return on an
error without effect.

Surroundings: the process crashes, the speaker restarts with an empty RIB, another
writer adds to a free route or deletes any path, endpoints change, and, with
`LateDelivery`, an AddPath takes effect after its call failed. The adapter looks at
the RIB and then calls AddPath, and GoBGP cannot compare and swap. A writer that
takes the route in between is excluded, as the adapter's comment demands
("callers must ensure exclusive local writer ownership of each wire route").

A late AddPath may land on a path that another writer, or the exporter itself, added
since, and nothing in the exporter can prevent that. So `LateArrival` is a step of
the surroundings, `ForeignPreserved` speaks of the exporter's own steps only, and
`OwnPathsAccounted` is not claimed with `LateDelivery`: it fails when Recover has
found the route absent and discharged the intent before the path arrives. The path is
then an unclaimed one,
which the exporter does not touch.

The history fields `mine`, `acked` and `raw` of a path exist for the properties
only. A UUID that nothing refers to any more is reused, which keeps the state
space finite and cannot be told apart from a new one.

Not modelled: dry run, configuration reload, the drain of native networks at
shutdown, status files. DeletePath is not delivered late; it names one UUID, so a
late one removes the path it was meant for or nothing.

### SpeakerContinuity

The surroundings are processes with a number, a start tick, an executable and a
container (`Spawn`, `Exit`, `Exec`, `Listen`), the objects the API server shows
(`EditCluster`, `ListPods`). Against them the guard dials (`DialContext`, `Connect`),
binds and checks: `ReadExe` and `ReadStat` twice, `AttestObjects`, `AttestPods`,
`AttestContainer` between, then `Compare`, `Poll` (the pidfd of the peer) and `Last`
(the pidfd of the pinned process). Each read is a step, because the number it goes by
may be another process's when the next one is made. `who` records whose data was
read. File ownership checks and the parsing of `/proc` and of the objects are
reduced to a reading or a failure.

### Type2Importer

A poll is `ListPath`, one `Recv` per destination in any order, and `PollEnds`, which
folds the paths (`Step`, `Merge`, `Quarantine`) and either counts the result as a
first observation, publishes it or refuses. The table may change between any two
deliveries. Decoding and policy are the operators `Decodes`, `Classification` and
`ValidateRoute` on a path whose fields are what they decide on. `RebindSource` and
`DialFails` are the transport of the tick. The fold's reference definition (`Sound`,
`EndpointsOf`, `IssuesOf`) reads the result off the set of paths.

### NetlinkImporter

The tick checks its mapping (`MappingRefused`), polls (`PollDiffers`, `PollConfirms`)
and runs `applyValidatedSnapshot`: withdrawals first (`WithdrawRoute`, then per kernel
object `DeleteBegin`, `DeleteSend`, `DeleteConfirm`, `DeleteAck`), then additions
(`ApplyRoute`, `AddBegin`, `AddSend`, `AddConfirm`, `AddAck`), with a checkpoint of the
receipts before and after. Start-up is `Start` (`openRecovery`), `CreateMarker` and
`Verify`; `Quarantine` and `StartQuarantines` make a stop durable. Surroundings: crash,
devices made anew, other writers, the logical switch of the mapping gone or another,
and the remote endpoints. Netlink encodings and the status file are left out.

### CNIServer

One call at a time, as the operations mutex has it. ADD is `AddVerifyNetwork` or
`AddCreateNetwork`, then `EnsureEndpoint` (port, then interface) and the record, with
the rollback of each failure; DEL is `DelFind`, `DeleteEndpoint` and `DelNetwork`, with
and without a record. Each database transaction or kernel request may fail with or
without effect, and the agent may die in between, which empties its records.
`Check(r)` is the CHECK call: it changes nothing. The names made from an endpoint key
are constants, so that the instance can let two of them collide. The in-memory modes
and the file handling of the socket are not modelled.

### CNIContinuity

ADD, DEL and the verification pass with the intent before and the acknowledgement
after each, the export gate, recovery and restart. A resource is the generation in
which it was created; a receipt pins the three of an endpoint. The clock is a counter,
read separately by the deadline check and by the stamp, as the code does. The process
walk of the creation authority and the checks of the CRI socket are an admission that
succeeds or fails.

### Operator

One step is one API request. `Reconcile` reads the cached EvpnCore, the `Claim`,
`PersistFinalizer` and `AcquireLock` steps take the installation lock, `Plan`, `Delete`
and `Deleted` clean up what the new spec no longer has, and for each object `Get`,
`CreationIntent`, `Create` or `Patch`, `Remember` apply it; `Report` writes the status.
`Interrupt` ends a reconciliation anywhere: the operator keeps nothing in memory, so
this is a failed request, a lost reply and a crash at once. Users create, edit and
delete EvpnCores; others strip, replace and edit child objects; `Upgrade` changes the
template default. Manifest text, events and messages are left out, and two operator
processes at once are excluded by its leader election.

### Model1

One step is one transaction, decided on the client's copy (`covs`, `cnb`) and applied
to the database (`ovs`, `nb`) without precondition: bridge, mapping, localnet port and
tunnel are ensured in this order and removed in the opposite one. A transaction may
fail, or be committed with its reply lost; `Restart` clears the handler's memory.
ovn-controller adds and removes its patch port, and an administrator edits rows.

### OvsdbMgmt, RouteStream, OvsdbHandler, KernelHandler

`OvsdbMgmt` has a call in progress per caller; a call is the reads and transactions
its method makes, and calls interleave between them. Two servers may share the
northbound database. `RouteStream` is list-then-watch: after a broken stream it
subscribes again without listing, so what changed meanwhile is in `missed`.
`OvsdbHandler` turns a path into calls of that server and waits for each; a failed one
ends the path (`dropped`) unless the code tries again. `KernelHandler` is the netlink
mode: each path becomes a sequence of commands on bridge, VXLAN device, FDB, flood and
neighbour tables, while the bridge learns MACs. Idle modes, port names of earlier
releases and the choice of the neighbour device are left out.

## What the runs check

Twelve runs; sizes are distinct states.

| Run | Instance | States | Properties |
|---|---|---|---|
| `journal` | 2 processes, 2 digests, 2 operations, 2 states, 2 sequence numbers, 1 reboot, 2 lock files | see below | `IntentSurvives`, `NoLostUpdate`, `DomainKept`, `Refinement` (implements `IntentLog`) |
| `exporter` | 2 routes, 2 payloads, 2 faults, 2 endpoint changes; with journal, with late delivery, without journal | 825,000 | `WellFormed`, `OwnPathsAccounted`, `NoAdoption`, `ForeignPreserved`, `ConvergesOrStops` |
| `exporter_open_fails` | 1 route, 1 fault | | a counterexample to `IntentPrecedesRpc` |
| `importer` | all tables of up to 3 of 10 kinds of path; 3 changes, 1 restart, 1 error from the empty table | 229,000 | `FoldIsOrderFree`, `PublishedWasStable`, `GenerationNamesResult`, `ConfirmsOrFreezes` |
| `netlink` | one MAC with address, moved, without address; 2 faults, 1 timeout, 1 change; with and without journal | 372,000 | `WellFormed`, `OwnEntriesAccounted`, `ForeignPreserved`, `ConvergesOrStops` |
| `cni` | 2 sandboxes of a pod with different configurations, 1 of another with the same cut-off port name; 1 fault, 1 reboot | 152,000 | `AllDeletedLeavesNothing`, `AddedPassesCheck`, `AttachedIsKept`, `DelSucceeds` |
| `continuity` | 2 sandboxes of a pod with 2 faults, or one of each of 2 pods without; 1 clock tick, 2 creations | 342,000 | `MemoryFollowsJournal`, `Accounted`, `ExportedIsVerified`, `PendingIsSettled` |
| `operator` | 1 or 2 EvpnCores, 4 specs, 2 releases, up to 2 edits and 1 interruption, in 4 scenarios | 284,000 | `InstallationLock`, `Children`, `OnlyOwnTouched`, `DeletionCompletes` |
| `model1` | 2 VTEPs, 5 tables, 4 setups of route changes, administrator, failure, lost reply, restart, lag | 396,000 | `Backed`, `OnlyOwnRemoved`, `RoutesProgrammed`, `WithdrawalCompletes` |
| `handler` | handler with 2 to 4 routes; or callers: every call from one, two racing on a VTEP with one server or two, two on a port | 412,000 | `Consistent`, `AckedVtep`, `NoReflection`, `RoutesLearned` |
| `kernel` | routes that share nothing, a VTEP or a MAC, a learning bridge; 1 failed command, 1 break | 1,880,000 | `Consistent` |
| `speaker` | 3 processes, 2 numbers, 2 ticks, 2 containers; 1 edit or 2 guards | 1,990,000 | `Pinned`, `IncarnationIdentifies` |

Composite invariants. `WellFormed` is `TypeOK` and `JournalStaysReadable`;
`Accounted` is `TypeOK`, `ResourcesAccounted` and `AddedStaysAcknowledged`;
`InstallationLock` is `TypeOK`, `Singleton` and `LockNotStranded`; `Children` is
`ChildrenTracked`, `OneNodeAgent`, `OverrideKept` and `ReadyIsApplied`; `Backed` is
`TypeOK`, `LocalnetBacked`, `TunnelBacked` and `OneTunnel`; `Consistent` of the
handler is `HType`, `CacheCoherent`, `AddressesKept`, `Converged` and `TunnelBacked`,
and of the kernel `TypeOK`, `Converged`, `NoStray`, `LastWins` and `LocalWins`;
`Pinned` is `OneProcess` and `ConnsPinned`. In the other modules the type invariant is
a conjunct of the first invariant. Each part is defined and explained where it stands.

Bounds. Two processes are enough for a lock to be contended and for one of them to be
fenced, dead or stale while the other writes; two sequence numbers for an
acknowledgement to be one intent late. Two routes and two payloads give independent
operations and a replacement at one route. Two faults allow a lost reply followed by a
crash, or a crash and a foreign write, in one behaviour; every fault of a module draws
on one budget. In `netlink` the three endpoints share the FDB slot and two of them the
key, which is where withdrawal and addition meet. In `handler` and `kernel` the routes
are the smallest sets that share a port, a VTEP, a MAC or an address. In `speaker`
three processes with two numbers make a number come back, also within a tick and in
the same container. Symmetry is used in `journal` only, over sets its specification
treats as interchangeable; the runs with liveness use none.

`CHECK_DEADLOCK FALSE` stands where the system may really stop: a quarantined importer,
sandboxes and EvpnCores that are all deleted, a guard that is closed, a handler with
an empty queue.

### Fairness

`exporter`, `importer`, `netlink`, `model1`: the ticker fires again after every tick
and each step of a tick has a deadline, so that the process's enabled steps are taken.
In `model1` ovn-controller runs and monitor updates arrive too. `cni`: calls finish,
the agent is restarted, and the runtime repeats a failed DEL, as CNI asks of it.
`continuity`: calls and passes finish, the agent is restarted, time passes, and the
ticker of the verification pass gets its turn between calls (strong fairness, since
calls keep disabling it). `operator`: the work queue retries every EvpnCore (strong
fairness, since the worker may be busy with another), the cache catches up and the
garbage collector finishes. `handler`: the handler is one goroutine that goes on when
its call has returned, and the server works off its calls. No fairness is asked of
faults, users, other writers or the speaker's table. Failures consume a budget, so that
they cannot go on for ever.

### What liveness excludes

`ConvergesOrStops` (exporter) lists the states in which the code waits for somebody:
blocked or fenced; a retained ambiguous AddPath or a conflicting receipt; contradictory
endpoints; a foreign path at a wanted route. Model checking showed three more. With
UUIDs hidden, another writer's path with the same payload at a receipt's route looks
like the exporter's own and cannot be withdrawn by the old UUID. Without recovery the
unclaimed routes are read once per process, so a foreign path deleted later still
blocks its route; and the transport is dialled once, so a speaker that restarts before
the first resynchronisation leaves every later tick failing.

`ConvergesOrStops` (netlink) excludes a blocked backend or mapping, a start that
`openRecovery` refuses, and `Wedged`: a deadline that passes in Apply leaves a retained
route without its receipt, or an object that was never attempted as pending, and the
later withdrawal of that route is refused on every tick.

`ConfirmsOrFreezes` excludes tables that Poll refuses, which include those where a
rejected route claims the MAC or address of an endpoint published earlier. `DelSucceeds`
excludes an interface without its alias (the agent died between creating it and naming
it) and names held by another endpoint. `PendingIsSettled` excludes an agent held up by
an unresolved intent or a refused recovery. `DeletionCompletes` excludes a child that is
no longer the EvpnCore's. `RoutesLearned` excludes routes in `missed` and `dropped`.

### Finding

`exporter_open_fails`: if `OpenExportRecovery` fails, `export_runtime.go:313` has
already installed the plain adapter, the connection is kept and
`exporter.Recovery` is nil. The next tick finds a connection, skips the opening,
and advertises through the adapter without journal or intent, until the speaker or
the agent restarts. `docs/architecture/type2-restart-ownership.md:385` says that
intents precede the actual RPC, and line 422 that such a state is
`RECOVERY_BLOCKED`. `OwnPathsAccounted` therefore speaks of journalled paths only.

### Where properties are conditional

Each condition below stands in a property because the code does less without it.

- `OneTunnel`, `WithdrawalCompletes` (and for lost replies `RoutesProgrammed`): the
  handler of `ovsdb_programmer.go` knows its tunnels from memory. After a restart with
  another VTEP the bridge gets a second tunnel; a tunnel whose creation lost its reply
  is never deleted and keeps the network from going.
- `OnlyOwnRemoved`: with a copy that lags, the provider bridge is deleted with a port
  that was attached after the copy was read (`ovsdb_provider_bridge.go:298`).
- `AddressesKept` is checked with one caller per port. Two AddClient calls at once read
  the same list and one address is lost, although the comment at
  `services/ovsdb_mgmt/main.go:1034` says that the fresh read avoids it.
- Two AddNetwork calls for one name can create two switches (`:765`). A name longer
  than 13 characters is created shortened and not found by AddVtep (`:53`).
  DelLogicalSwitchPort is refused by the database while a switch holds the port
  (`:580`). AddVtep looks interfaces up in a copy of the OVS database that nothing in
  the service asks to be monitored; the model lets that copy have the rows or be empty
  (`views`), and with an empty one AddVtep never points an existing tunnel at another
  neighbour (`:1210`). The
  model has all of these behaviours and no property denies them.
- `AckedVtep` asks for the attachment to the switch only without faults: a failed
  second mutation is logged and the call succeeds.
- `NoReflection` is stated without failed calls: when the lookup of the local client is
  not answered, the handler goes on.
- `Converged` of `KernelHandler` is about routes that share nothing. Withdrawing one of
  two routes behind a VTEP removes the flood and neighbour entries the other one needs
  (`services/bgp_ad_handler/main.go:1064`), and a client's neighbour entry is deleted by
  address alone (`:917`).
- `IncarnationIdentifies` assumes that a process number is not used again within a
  clock tick: start times are measured in ticks. `Pinned` does not need this.
- In `CNIContinuity` the clock may pass the deadline between the last deadline check
  and the journalled stamp (`cni_activation.go:70`); recovery then refuses the
  acknowledgement, which is one of the cases `PendingIsSettled` excludes.

## What is proved

Five modules hold theorems, each for every value of the constants allowed by the
assumptions named in the module it extends.

| Theorem | Module | Statement |
|---|---|---|
| `TypeCorrect` | `JournalProofs` | `Spec => []TypeOK` |
| `IntentSurvival` | `JournalProofs` | `Spec => []IntentSurvives` |
| `SingleWriter` | `JournalProofs` | `Spec => []NoLostUpdate` |
| `DomainsKept` | `JournalProofs` | `Spec => DomainKept` |
| `JournalImplementsIntentLog` | `JournalProofs` | `Spec => Refinement` |
| `GuardPinned` | `SpeakerContinuityProofs` | `Spec => []Pinned` |
| `GenerationsNameResults` | `Type2ImporterProofs` | `Spec => GenerationNamesResult` |
| `EntriesAccounted` | `NetlinkImporterProofs` | `Spec => []OwnEntriesAccounted` |
| `JournalFollowed` | `CNIContinuityProofs` | `Spec => []MemoryFollowsJournal` |
| `ExportsVerified` | `CNIContinuityProofs` | `Spec => ExportedIsVerified` |
| `AddsDurable` | `CNIContinuityProofs` | `Spec => AddedIsDurable` |

**Journal.** From the assumptions that `None` is no record, intent, operation or state,
that `Torn` is neither a record nor `None`, and that the bounds are naturals. All rest on
`Invariance`, `Spec => []Inv`. None of the safety properties is inductive by itself:
that a durable intent survives the next write depends on the writer having started from
the current record (`WriterInv`), which depends on the lock excluding other writers and
on its inode being the current one (`LockInv`); that a new journal overwrites nothing
depends on nothing having been told before the directory had one (`FreshInv`); and that
a power cut leaves a readable record depends on contents being synced before the rename
(`FileInv`). One lemma per action shows that it keeps `Inv`. The refinement proof maps
`log` to the file and `settled` to its durable contents, and shows each action to be a
step of `IntentLog` or to change neither.

**Speaker guard.** From natural instance numbers and ticks. `Pinned` only speaks of a
call that is over. The invariant follows the call: no two running processes have one
number (`Distinct`); the guard reads by its peer's number (`Binding`, `Call`); as long as
the peer runs, everything read so far was the peer's (`Reads`); and after the pidfds were
looked at, the pinned process is the peer (`Final`). The step that matters is `Poll`: a
peer found running then has held its number during all the reads.

**Generations.** Publish is the only step that replaces the result, and it counts when
the result changes; the invariant is that the generation is a natural number.

**Netlink importer.** From endpoints of one snapshot that share no MAC or address and
from `None` being none of the records. `OwnEntriesAccounted` is about the disk, while the
process writes what it has in memory; so the invariant also says what memory knows
(`InMemory`: all entries, apart from the slot of an outstanding intent), that the intent
on disk is that of the operation in progress (`Intended`), that an addition is
acknowledged together with its receipt (`Added`), that a withdrawal leaves nothing
confirmed behind (`Withdrawing`) and that only objects an endpoint has are confirmed
(`SaneStates`). One lemma per action, with lemmas for the writes that may fail. The
invariant is proved for configurations with a Recovery section, which no step changes.

**CNI continuity.** From `None` not being an acknowledgement. The invariant is that an
agent that runs with an unfenced handle holds in memory what is on disk, also in the
middle of a call (`Follow`). The export gate decides on memory; by `Follow` that is a
decision on the disk (`ExportsVerified`). ADD succeeds by a replay, which compares with
memory, or by an acknowledgement, which has just been written (`AddsDurable`).

Only model-checked: every other property of the runs. Liveness is out of the proof
system's reach, and so is `FoldIsOrderFree`, which is about a fold over sequences of any
length. `TypeCorrect` and `AddsDurable` are proved and not part of a run.

## Not modelled

- Parsing, encoding and text: NLRI and attributes, netlink messages, manifests, OVSDB
  column formats, status files. The models have what they decide.
- Exporter: dry run, configuration reload, the drain of native networks at shutdown.
- Endpoint observers (`export_observer.go`, `local_netlink*.go`, `observer*.go`): reads
  joined into a set, without state of their own. They appear as the variable `want`.
- Export authority (`export_authority.go`): one bind of an abstract socket, which the
  kernel decides.
- Command-driven importer (`route_importer.go`): a loop that no component of the
  standard deployment starts (`docs/architecture/integrations.md:40`) and whose lifecycle
  for a shared VTEP is documented as open (`:43`). `KernelHandler` has the same commands
  and the same sharing.
- `evpn_mgmt`: each call is one call of the speaker with its arguments converted.
- CNI: the in-memory modes, the socket's file handling, legacy interfaces without owner.
- Generated code (`gen/`, `services/ovsdb_mgmt/ovnnb/`) has no behaviour of its own.
