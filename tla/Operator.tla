------------------------------ MODULE Operator ------------------------------
(***************************************************************************)
(* The EvpnCore operator (deploy/operator/controllers): one worker         *)
(* reconciles the EvpnCore objects of the cluster against the API server,  *)
(* while users edit and delete them and others touch the managed objects.  *)
(* An installation lock admits one EvpnCore, an inventory in its status    *)
(* journals every child before it is created, and deletions and patches    *)
(* carry preconditions.  A step is one API request; the operator keeps     *)
(* nothing between two reconciliations, so that a failed request, a lost   *)
(* reply and a crash are all the end of a reconciliation at some step.     *)
(***************************************************************************)
EXTENDS Naturals

CONSTANTS
    Cores,      \* EvpnCore UIDs, numbered by creation time
    Desired,    \* the names rendered for each valid spec, one node agent at most
    Specs,      \* all specs, valid or not
    Agents,     \* names of node agent workloads
    None, Gone, \* not there yet; deleted
    Defaults,   \* GOBGP_ENDPOINT in the templates of successive releases: 1..n
    Scenarios,  \* the cores at first (not created, gone, or new with a spec), the
                \* release that runs, and the edits and stops already spent
    MaxEdits,   \* bound: edits of a core or of a child object
    MaxStops    \* bound: interrupted reconciliations

Names == UNION { Desired[s] : s \in DOMAIN Desired }
Owners == Cores \cup {None}
CoreRec == [deleting : BOOLEAN, enabled : BOOLEAN, spec : Specs, gen : Nat, fin : BOOLEAN,
            mr : [Names -> Nat \cup {None}], ready : BOOLEAN, observed : Nat]
ObjectRec == [uid : Nat, owner : Owners, label : Owners, deleting : BOOLEAN,
              spec : Specs \cup {"other"}, env : Nat, def : Nat]

ASSUME OperatorAssumption ==
    /\ Cores \subseteq Nat /\ DOMAIN Desired \subseteq Specs
    /\ {MaxEdits, MaxStops} \subseteq Nat /\ Defaults \subseteq Nat \ {0}
    /\ \A s \in DOMAIN Desired : \A m, n \in Desired[s] \cap Agents : m = n
    /\ Scenarios \subseteq [cores : [Cores -> Specs \cup {None, Gone}], release : Defaults,
                            edits : 0..MaxEdits, stops : 0..MaxStops]
ASSUME NoneAssumption ==
    None \notin Nat \cup {Gone} \cup CoreRec \cup ObjectRec /\ Gone \notin CoreRec

VARIABLES
    core,     \* EvpnCore objects; None before creation, Gone after
    cache,    \* the controller's cached copies
    lock,     \* holder of the Lease, None if free
    res,      \* child objects
    uids,     \* UIDs used
    release,  \* operator release: which template defaults it renders
    pc, cur, snap, todo, seen,  \* reconciliation in progress
    applied,  \* history: what was applied for the current generation of a core
    custom,   \* history: UIDs whose endpoint an administrator changed
    made,     \* history: UIDs created by the operator
    edits, stops

history == <<applied, custom, made>>
worker == <<pc, cur, snap, todo, seen>>
vars == <<core, cache, lock, res, uids, release, worker, history, edits, stops>>

Exists(u) == core[u] \notin {None, Gone}

\* An EvpnCore as its creator leaves it.
New(s) == [deleting |-> FALSE, enabled |-> TRUE, spec |-> s, gen |-> 1, fin |-> FALSE,
           mr |-> [n \in Names |-> None], ready |-> FALSE, observed |-> 0]

Init ==
    /\ \E s \in Scenarios :
        /\ core = [u \in Cores |-> IF s.cores[u] \in Specs THEN New(s.cores[u]) ELSE s.cores[u]]
        /\ release = s.release /\ edits = s.edits /\ stops = s.stops
    /\ cache = core /\ lock = None
    /\ res = [n \in Names |-> None] /\ uids = 0
    /\ pc = "idle" /\ cur = None /\ snap = None /\ todo = {} /\ seen = None
    /\ applied = [u \in Cores |-> {}] /\ custom = {} /\ made = {}

----------------------------------------------------------------------------
(* Users and others *)

users == <<cache, lock, worker, made, stops>>

CreateCore(u, s) ==
    /\ core[u] = None /\ \A v \in Cores : v < u => core[v] # None
    /\ core' = [core EXCEPT ![u] = New(s)]
    /\ UNCHANGED <<users, res, uids, release, applied, custom, edits>>

EditCore(u, s, on) ==
    /\ Exists(u) /\ <<s, on>> # <<core[u].spec, core[u].enabled>>
    /\ edits < MaxEdits /\ edits' = edits + 1
    /\ core' = [core EXCEPT ![u] = [core[u] EXCEPT !.spec = s, !.enabled = on, !.gen = @ + 1]]
    /\ applied' = [applied EXCEPT ![u] = {}]
    /\ UNCHANGED <<users, res, uids, release, custom>>

DeleteCore(u) ==
    /\ Exists(u) /\ ~core[u].deleting
    /\ core' = [core EXCEPT ![u] = IF core[u].fin THEN [core[u] EXCEPT !.deleting = TRUE] ELSE Gone]
    /\ UNCHANGED <<users, res, uids, release, applied, custom, edits>>

Foreign(n, o) ==
    /\ edits < MaxEdits /\ edits' = edits + 1
    /\ res[n] # None /\ res' = [res EXCEPT ![n] = o]
    /\ UNCHANGED <<users, core, release, applied>>

\* Somebody removes the ownership annotations of an object, takes its name for
\* another object, changes a managed field or the GoBGP endpoint.
Strip(n) == Foreign(n, [res[n] EXCEPT !.owner = None]) /\ UNCHANGED <<uids, custom>>
Replace(n) ==
    /\ uids' = uids + 1
    /\ Foreign(n, [uid |-> uids + 1, owner |-> None, label |-> None, deleting |-> FALSE,
                   spec |-> "other", env |-> 0, def |-> 0])
    /\ UNCHANGED custom
Drift(n) == Foreign(n, [res[n] EXCEPT !.spec = "other"]) /\ UNCHANGED <<uids, custom>>
Override(n) ==
    /\ n \notin Agents
    /\ Foreign(n, [res[n] EXCEPT !.env = 0])
    /\ custom' = custom \cup {res[n].uid}
    /\ UNCHANGED uids

\* Foreground deletion completes.
Collect(n) ==
    /\ res[n] # None /\ res[n].deleting /\ res' = [res EXCEPT ![n] = None]
    /\ UNCHANGED <<users, core, uids, release, applied, custom, edits>>

\* Another release of the operator takes over.
Upgrade ==
    /\ pc = "idle" /\ release + 1 \in Defaults /\ release' = release + 1
    /\ UNCHANGED <<users, core, res, uids, applied, custom, edits>>

\* A cached copy, without the status that Announce reads of it.
View(c) == IF c \in {None, Gone} THEN c ELSE [c EXCEPT !.ready = FALSE, !.observed = 0]
Sync(u) ==
    /\ cache[u] # View(core[u]) /\ cache' = [cache EXCEPT ![u] = View(core[u])]
    /\ UNCHANGED <<core, lock, res, uids, release, worker, history, edits, stops>>

----------------------------------------------------------------------------
(* Reading and writing the EvpnCore *)

\* currentSnapshot: the object still has the reconciled intent.
Current ==
    /\ Exists(cur) /\ core[cur].gen = snap.gen
    /\ core[cur].deleting = snap.deleting

\* editStatus, atomic through the resource version.
EditStatus(c) ==
    /\ core' = [core EXCEPT ![cur] = c]
    /\ snap' = [snap EXCEPT !.mr = c.mr]

Stop == pc' = "idle" /\ cur' = None /\ snap' = None /\ todo' = {} /\ seen' = None

\* setStatus.
Status(ready) == [core[cur] EXCEPT !.ready = ready, !.observed = snap.gen]

\* failed: Degraded, unless the intent changed.
Fail ==
    /\ Stop
    /\ core' = IF Current THEN [core EXCEPT ![cur] = Status(FALSE)] ELSE core

objects == <<res, uids, made, custom>>
outside == <<cache, release, edits, stops>>

----------------------------------------------------------------------------
(* Reconcile and the installation lock *)

Reconcile(u) ==
    /\ pc = "idle" /\ cache[u] \notin {None, Gone} /\ (cache[u].deleting => cache[u].fin)
    /\ cur' = u /\ snap' = cache[u] /\ todo' = {} /\ seen' = None
    /\ pc' = IF cache[u].deleting \/ (cache[u].enabled /\ cache[u].spec \in DOMAIN Desired)
             THEN "announce" ELSE "refuse"
    /\ UNCHANGED <<core, lock, objects, applied, outside>>

\* The status may show this generation, or the deletion, already, and the cached copy with it.
Announced == Exists(cur) => IF snap.deleting THEN ~core[cur].ready ELSE core[cur].observed >= snap.gen

\* NewGeneration or CleanupInProgress is written unless the cached status has it.
Announce ==
    /\ pc = "announce"
    /\ \/ ~Current /\ Fail
       \/ /\ \/ Current /\ EditStatus(Status(FALSE))
             \/ Announced /\ UNCHANGED <<core, snap>>
          /\ pc' = IF snap.deleting THEN "discover" ELSE "claim"
          /\ UNCHANGED <<cur, todo, seen>>
    /\ UNCHANGED <<lock, objects, applied, outside>>

\* Disabled or invalid: nothing but the status.
Refuse ==
    /\ pc = "refuse" /\ Fail
    /\ UNCHANGED <<lock, objects, applied, outside>>

\* The oldest core that is enabled with a valid spec or has the finalizer.
Candidate ==
    LET Counts(v) == Exists(v) /\ (core[v].fin \/ (core[v].enabled /\ core[v].spec \in DOMAIN Desired))
    IN  \A v \in Cores : Counts(v) => cur <= v

\* claimLock reads the cores and the lock.
Claim ==
    /\ pc = "claim"
    /\ IF lock = cur
       THEN pc' = "place" /\ UNCHANGED <<core, cur, snap, todo, seen>>
       ELSE IF lock = None /\ Candidate
            THEN pc' = "finalizer" /\ UNCHANGED <<core, cur, snap, todo, seen>>
            ELSE Fail
    /\ UNCHANGED <<lock, objects, applied, outside>>

\* Variant: the finalizer is left for later.
FinalizerLater ==
    /\ pc = "finalizer"
    /\ IF Current THEN pc' = "lock" /\ UNCHANGED <<core, cur, snap, todo, seen>> ELSE Fail
    /\ UNCHANGED <<lock, objects, applied, outside>>

\* editFinalizer, skipped when the snapshot has it; then one more look.
PersistFinalizer ==
    /\ pc = "finalizer"
    /\ IF Current
       THEN /\ core' = [core EXCEPT ![cur].fin = TRUE]
            /\ pc' = "lock" /\ UNCHANGED <<cur, snap, todo, seen>>
       ELSE Fail
    /\ UNCHANGED <<lock, objects, applied, outside>>

AcquireLock ==
    /\ pc = "lock" /\ lock = None /\ lock' = cur
    /\ pc' = "place" /\ UNCHANGED <<cur, snap, todo, seen>>
    /\ UNCHANGED <<core, objects, applied, outside>>

\* checkNodeAgentConflict, for a spec with a node agent.
NoOtherAgents ==
    Desired[snap.spec] \cap Agents # {} =>
        \A n \in Agents \cap Names : res[n] # None => res[n].owner = cur

\* The designated node, the namespaces or the manifest may be unusable.
Place ==
    /\ pc = "place"
    /\ \/ /\ NoOtherAgents
          /\ pc' = "discover" /\ UNCHANGED <<core, cur, snap, todo, seen>>
       \/ Fail
    /\ UNCHANGED <<lock, objects, applied, outside>>

----------------------------------------------------------------------------
(* Cleanup *)

\* ownershipProblem: the recorded UID, and the annotations with the journal.
Problem(n) ==
    \/ snap.mr[n] \notin {None, 0} /\ snap.mr[n] # res[n].uid
    \/ res[n].owner # cur

\* discover: labelled objects enter the inventory.
Found(n) ==
    IF /\ res[n] # None /\ res[n].label = cur
       /\ core[cur].mr[n] = None \/ ~Problem(n)
    THEN res[n].uid ELSE core[cur].mr[n]

Discover ==
    /\ pc = "discover"
    /\ IF Current
       THEN /\ EditStatus([core[cur] EXCEPT !.mr = [n \in Names |-> Found(n)]])
            /\ pc' = "plan" /\ UNCHANGED <<cur, todo, seen>>
       ELSE Fail
    /\ UNCHANGED <<lock, objects, applied, outside>>

Wanted == IF snap.deleting THEN {} ELSE Desired[snap.spec]
Listed == { n \in Names : snap.mr[n] # None /\ res[n] # None }

\* Variant: an obsolete object leaves the inventory when its deletion is planned.
KeptWanted == [core[cur] EXCEPT !.mr =
                 [n \in Names |-> IF n \in Listed \cap Wanted THEN snap.mr[n] ELSE None]]

Kept == [core[cur] EXCEPT !.mr = [n \in Names |-> IF n \in Listed THEN snap.mr[n] ELSE None]]

Obsolete == Listed \ Wanted

\* The inventory keeps what still exists; a conflict ends the cleanup.
Plan ==
    /\ pc = "plan"
    /\ IF ~Current THEN Fail
       ELSE IF \E n \in Listed : Problem(n)
       THEN core' = [core EXCEPT ![cur] = [Kept EXCEPT !.ready = FALSE, !.observed = snap.gen]] /\ Stop
       ELSE /\ EditStatus(Kept) /\ UNCHANGED cur
            /\ IF Obsolete # {}
               THEN pc' = "delete" /\ todo' = Obsolete /\ seen' = [n \in Obsolete |-> res[n]]
               ELSE /\ pc' = IF snap.deleting THEN "unlock" ELSE "apply"
                    /\ todo' = Wanted /\ UNCHANGED seen
    /\ UNCHANGED <<lock, objects, applied, outside>>

\* The last look before a write.
Check(here, there) ==
    /\ pc = here
    /\ IF Current THEN pc' = there /\ UNCHANGED <<core, cur, snap, todo, seen>> ELSE Fail
    /\ UNCHANGED <<lock, objects, applied, outside>>

CheckDelete == todo # {} /\ Check("delete", "remove")

\* Variant: no preconditions.
DeleteAny(n) ==
    /\ pc = "remove" /\ n \in todo
    /\ res' = IF res[n] = None THEN res ELSE [res EXCEPT ![n].deleting = TRUE]
    /\ pc' = "delete" /\ todo' = todo \ {n} /\ UNCHANGED <<core, cur, snap, seen>>
    /\ UNCHANGED <<lock, uids, made, custom, applied, outside>>

\* Delete with the UID and resource version that were read.
Delete(n) ==
    /\ pc = "remove" /\ n \in todo
    /\ IF seen[n].deleting \/ res[n] \in {None, seen[n]}
       THEN /\ res' = IF seen[n].deleting \/ res[n] = None THEN res ELSE [res EXCEPT ![n].deleting = TRUE]
            /\ pc' = "delete" /\ todo' = todo \ {n} /\ UNCHANGED <<core, cur, snap, seen>>
       ELSE Fail /\ UNCHANGED res
    /\ UNCHANGED <<lock, uids, made, custom, applied, outside>>

\* Not done: come back later.
Deleted == pc = "delete" /\ todo = {} /\ Fail /\ UNCHANGED <<lock, objects, applied, outside>>

\* Variant: a lock that is not held is an error.
ReleaseLockHeld ==
    /\ pc = "unlock"
    /\ IF Current /\ lock = cur
       THEN lock' = None /\ pc' = "drop" /\ UNCHANGED <<core, cur, snap, todo, seen>>
       ELSE Fail /\ UNCHANGED lock
    /\ UNCHANGED <<objects, applied, outside>>

\* releaseLock, then the finalizer.
ReleaseLock ==
    /\ pc = "unlock"
    /\ IF Current
       THEN /\ lock' = IF lock = cur THEN None ELSE lock
            /\ pc' = "drop" /\ UNCHANGED <<core, cur, snap, todo, seen>>
       ELSE Fail /\ UNCHANGED lock
    /\ UNCHANGED <<objects, applied, outside>>

DropFinalizer ==
    /\ pc = "drop" /\ Stop
    /\ core' = IF Current THEN [core EXCEPT ![cur] = Gone] ELSE core
    /\ UNCHANGED <<lock, objects, applied, outside>>

----------------------------------------------------------------------------
(* applyResource *)

Remembered(n, id) == [core[cur] EXCEPT !.mr[n] = IF id # 0 \/ @ = None THEN id ELSE @]

Intent(n) ==
    /\ pc = "apply" /\ n \in todo
    /\ IF Current
       THEN EditStatus(Remembered(n, 0)) /\ pc' = "get" /\ seen' = n /\ UNCHANGED <<cur, todo>>
       ELSE Fail
    /\ UNCHANGED <<lock, objects, applied, outside>>

\* preserveRuntimeEnvOverrides: an endpoint that differs from the recorded default.
Env(o) == IF o.env # o.def THEN o.env ELSE release

Target(o) == [o EXCEPT !.spec = snap.spec, !.env = Env(o), !.def = release]

\* Nothing declared differs: controlledFieldsEqual and the last-applied annotation.
UpToDate(o) == o = Target(o)

\* The object as it is decides what follows.
Get ==
    /\ pc = "get"
    /\ LET n == seen IN
       IF res[n] = None THEN pc' = "intent" /\ UNCHANGED <<core, cur, snap, todo, seen>>
       ELSE IF Problem(n) \/ res[n].deleting THEN Fail
       ELSE /\ pc' = IF UpToDate(res[n]) THEN "remember" ELSE "patch"
            /\ seen' = [n |-> n, o |-> res[n]] /\ UNCHANGED <<core, cur, snap, todo>>
    /\ UNCHANGED <<lock, objects, applied, outside>>

\* creationIntent: confirmed absent, and no UID on record.
CreationIntent ==
    /\ pc = "intent"
    /\ IF Current /\ res[seen] = None
       THEN /\ EditStatus([core[cur] EXCEPT !.mr[seen] = 0])
            /\ pc' = "check" /\ UNCHANGED <<cur, todo, seen>>
       ELSE Fail
    /\ UNCHANGED <<lock, objects, applied, outside>>

\* One more look before each of the writes.
CheckCreate == Check("check", "create")
CheckPatch == Check("patch", "write")

Create ==
    /\ pc = "create"
    /\ IF res[seen] # None THEN Fail /\ UNCHANGED objects
       ELSE LET o == [uid |-> uids + 1, owner |-> cur, label |-> cur, deleting |-> FALSE,
                      spec |-> snap.spec, env |-> release, def |-> release]
            IN  /\ res' = [res EXCEPT ![seen] = o] /\ uids' = uids + 1
                /\ made' = made \cup {uids + 1} /\ UNCHANGED custom
                /\ pc' = "remember" /\ seen' = [n |-> seen, o |-> o]
                /\ UNCHANGED <<core, cur, snap, todo>>
    /\ UNCHANGED <<lock, applied, outside>>

Patch ==
    /\ pc = "write"
    /\ IF res[seen.n] # seen.o THEN Fail /\ UNCHANGED res
       ELSE /\ res' = [res EXCEPT ![seen.n] = Target(seen.o)]
            /\ pc' = "remember" /\ UNCHANGED <<core, cur, snap, todo, seen>>
    /\ UNCHANGED <<lock, uids, made, custom, applied, outside>>

Remember ==
    /\ pc = "remember"
    /\ IF Current
       THEN /\ EditStatus(Remembered(seen.n, seen.o.uid))
            /\ applied' = [applied EXCEPT ![cur] = @ \cup {seen.n}]
            /\ todo' = todo \ {seen.n} /\ seen' = None /\ UNCHANGED cur
            /\ pc' = IF todo' = {} THEN "report" ELSE "apply"
       ELSE Fail /\ UNCHANGED applied
    /\ UNCHANGED <<lock, objects, outside>>

\* workloadStatus and setStatus: Ready only with every workload owned and rolled out.
Report ==
    /\ pc = "report"
    /\ \/ /\ Current /\ \A n \in Wanted : res[n] # None /\ ~Problem(n) /\ ~res[n].deleting
          /\ core' = [core EXCEPT ![cur] = Status(TRUE)] /\ Stop
       \/ Fail
    /\ UNCHANGED <<lock, objects, applied, outside>>

\* A request fails or the operator dies.
Interrupt ==
    /\ pc # "idle" /\ stops < MaxStops /\ stops' = stops + 1 /\ Stop
    /\ UNCHANGED <<core, cache, lock, objects, applied, release, edits>>

----------------------------------------------------------------------------

Work ==
    \/ Announce \/ Refuse \/ Claim \/ PersistFinalizer \/ AcquireLock \/ Place \/ Discover \/ Plan
    \/ \E n \in Names : Delete(n) \/ Intent(n)
    \/ CheckDelete \/ Deleted \/ ReleaseLock \/ DropFinalizer
    \/ Get \/ CreationIntent \/ CheckCreate \/ CheckPatch \/ Create \/ Patch \/ Remember \/ Report
Next ==
    \/ \E u \in Cores :
         \/ \E s \in Specs : CreateCore(u, s) \/ \E on \in BOOLEAN : EditCore(u, s, on)
         \/ DeleteCore(u) \/ Sync(u) \/ Reconcile(u)
    \/ \E n \in Names : Strip(n) \/ Replace(n) \/ Drift(n) \/ Override(n) \/ Collect(n)
    \/ Upgrade \/ Work \/ Interrupt

Spec == Init /\ [][Next]_vars

\* The work queue retries every core, the cache catches up, and the garbage
\* collector finishes.
FairSpec ==
    /\ Spec /\ WF_vars(Work) /\ \A u \in Cores : SF_vars(Reconcile(u))
    /\ WF_vars((\E u \in Cores : Sync(u)) \/ (\E n \in Names : Collect(n)))

----------------------------------------------------------------------------
(* Properties *)

TypeOK ==
    /\ lock \in Owners /\ uids \in Nat /\ made \subseteq 1..uids
    /\ \A n \in Names : res[n] # None => res[n].uid \in 1..uids /\ res[n].owner \in Owners
    /\ \A u \in Cores : Exists(u) =>
         core[u].mr \in [Names -> {None} \cup 0..uids] /\ core[u].observed \in 0..core[u].gen

\* "Operator downtime never transfers ownership": children of two installations
\* never exist side by side, however late a cached EvpnCore is.
Singleton ==
    \A m, n \in Names :
        res[m] # None /\ res[n] # None /\ res[m].owner # None /\ res[n].owner # None =>
            res[m].owner = res[n].owner

\* The holder of the installation lock exists and has the finalizer: the lock
\* cannot be stranded by a deletion at any moment of the claim.
LockNotStranded == lock # None => Exists(lock) /\ core[lock].fin

\* One installation at a time, and its owner can always be cleaned up.
InstallationLock == TypeOK /\ Singleton /\ LockNotStranded

\* "A crash cannot strand an untracked child": whatever carries the annotations of
\* an EvpnCore is in the inventory of that EvpnCore, which still exists.
ChildrenTracked ==
    \A n \in Names :
        res[n] # None /\ res[n].owner # None =>
            Exists(res[n].owner) /\ core[res[n].owner].mr[n] # None

\* "Applying first could briefly run two node agents": of the node agents the
\* operator created, no two exist at once, also across a move between namespaces.
OneNodeAgent ==
    \A m, n \in Agents \cap Names :
        m # n => res[m] = None \/ res[n] = None \/ ~{res[m].uid, res[n].uid} \subseteq made

\* What an administrator sets as GoBGP endpoint survives reconciliation, drift
\* repair and new template defaults.
OverrideKept == \A n \in Names : res[n] # None /\ res[n].uid \in custom => res[n].env = 0

\* The operator deletes and patches only objects whose annotations name the core
\* it is reconciling at that moment.
OnlyOwnTouched ==
    [][ \A n \in Names :
          pc \in {"remove", "write"} /\ res[n] # None /\ res'[n] # res[n] /\ edits' = edits
              /\ res'[n] # None =>
            res[n].owner = cur ]_vars

\* Ready for the current generation is reported only when every object of that
\* generation's spec was applied for it.
ReadyIsApplied ==
    \A u \in Cores :
        Exists(u) /\ core[u].ready /\ core[u].observed = core[u].gen /\ core[u].spec \in DOMAIN Desired =>
            Desired[core[u].spec] \subseteq applied[u]

\* The children of an EvpnCore are tracked, run one node agent, keep what an
\* administrator set, and are all there when it is reported ready.
Children == ChildrenTracked /\ OneNodeAgent /\ OverrideKept /\ ReadyIsApplied

\* A deleted EvpnCore goes away, unless an object in its inventory is not its own
\* any more.
DeletionCompletes ==
    \A u \in Cores :
        (Exists(u) /\ core[u].deleting) ~>
            (~Exists(u) \/ \E n \in Names : res[n] # None /\ res[n].owner # u)
====
