--------------------------- MODULE OperatorProofs ---------------------------
(***************************************************************************)
(* The EvpnCore operator keeps one installation at a time, tracks every    *)
(* child it creates and touches nothing else, for any number of EvpnCores, *)
(* objects, edits and interrupted reconciliations.                         *)
(***************************************************************************)
EXTENDS Operator, TLAPS

----------------------------------------------------------------------------
(* The inductive invariant: what holds of the cluster *)

ObjectMap == [Names -> ObjectRec \cup {None}]

Stored ==
    /\ core \in [Cores -> CoreRec \cup {None, Gone}]
    /\ cache \in [Cores -> CoreRec \cup {None, Gone}]
    /\ lock \in Owners /\ applied \in [Cores -> SUBSET Names]

\* No two objects have the same UID.
Distinct ==
    \A m, n \in Names : res[m] # None /\ res[n] # None /\ res[m].uid = res[n].uid => m = n

Counted ==
    /\ res \in ObjectMap /\ uids \in Nat /\ release \in Defaults
    /\ made \subseteq 1..uids /\ custom \subseteq 1..uids
    /\ \A n \in Names : res[n] # None => res[n].uid \in 1..uids
    /\ Distinct
Recorded ==
    \A u \in Cores : Exists(u) =>
        /\ \A n \in Names : core[u].mr[n] \in {None} \cup 0..uids
        /\ core[u].observed <= core[u].gen

\* a is the core b as it was, and has its spec unless the generation changed.
Older(a, b) == a.gen <= b.gen /\ (a.gen = b.gen => a.spec = b.spec)

\* A cached copy is an older version of the core.
Cached ==
    \A u \in Cores :
        /\ core[u] = None => cache[u] = None
        /\ Exists(u) /\ cache[u] \in CoreRec => Older(cache[u], core[u])

\* An object the operator created.
Made(n) == res[n] # None /\ res[n].uid \in made

\* What carries annotations belongs to the holder of the lock, who tracks it, and
\* tracks whatever was created, also when somebody has taken the annotations away.
Locked ==
    /\ LockNotStranded
    /\ \A n \in Names : res[n] # None /\ res[n].owner # None =>
         res[n].owner = lock /\ core[lock].mr[n] # None
    /\ \A n \in Names : Made(n) => lock # None /\ core[lock].mr[n] # None

\* What carries annotations has the default of a release on record.
Endpoints ==
    /\ OverrideKept
    /\ \A n \in Names : res[n] # None /\ res[n].owner # None => res[n].def # 0

----------------------------------------------------------------------------
(* The inductive invariant: how far the reconciliation in progress is *)

Applying == {"apply", "get", "intent", "check", "create", "patch", "write", "remember", "report"}
Claiming == {"claim", "finalizer", "lock", "place"}
Cleaning == {"discover", "plan", "delete", "remove"}
Ending == {"unlock", "drop"}
Planned == {"plan", "delete", "remove"} \cup Ending \cup Applying

Stage ==
    /\ pc \in {"idle", "refuse", "announce"} \cup Claiming \cup Cleaning \cup Ending \cup Applying
    /\ pc # "idle" => cur \in Cores /\ snap \in CoreRec /\ todo \subseteq Names
    /\ pc \in Claiming \cup Applying => ~snap.deleting
    /\ pc \in Ending => snap.deleting
    /\ pc \notin {"idle", "refuse"} /\ ~snap.deleting => snap.spec \in DOMAIN Desired
    /\ pc \in Applying => todo \subseteq Desired[snap.spec]
    /\ pc = "report" => todo = {}

\* What was read of the objects.
Looked ==
    /\ pc \in {"delete", "remove"} => \A n \in todo : seen[n] \in ObjectRec /\ seen[n].owner = cur
    /\ pc \in {"get", "intent", "check", "create"} => seen \in todo
    /\ pc \in {"patch", "write", "remember"} =>
         /\ seen \in [n : todo, o : ObjectRec]
         /\ seen.o.owner = cur /\ seen.o.uid \in 1..uids

\* The snapshot is an older version of the core, with its inventory once that was read.
Snapshot ==
    pc # "idle" =>
        /\ core[cur] # None
        /\ Exists(cur) => Older(snap, core[cur])
        /\ Exists(cur) /\ pc \in Planned => snap.mr = core[cur].mr

Holding ==
    /\ pc \in {"place"} \cup Applying => lock = cur
    /\ pc \in Cleaning /\ ~snap.deleting => lock = cur
    /\ pc = "lock" => Exists(cur) /\ core[cur].fin
    /\ pc = "drop" => lock # cur
    /\ pc = "unlock" => \A n \in Names : res[n] # None => res[n].owner # cur
    /\ pc = "unlock" /\ lock = cur => \A n \in Names : ~Made(n)
    /\ pc \in {"check", "create"} => core[cur].mr[seen] # None

\* Once objects are applied, the node agents that run are wanted.
Agent ==
    /\ OneNodeAgent
    /\ pc \in Applying =>
         \A n \in Agents \cap Names : Made(n) => n \in Desired[snap.spec]

Progress ==
    /\ ReadyIsApplied
    /\ pc \in Applying /\ core[cur].gen = snap.gen => Desired[snap.spec] \ todo \subseteq applied[cur]

IInv ==
    /\ Stored /\ Counted /\ Recorded /\ Cached /\ Locked /\ Endpoints
    /\ Stage /\ Looked /\ Snapshot /\ Holding /\ Agent /\ Progress
----------------------------------------------------------------------------
(* Records and their absence *)

\* A stored record is neither of the two marks of absence.
LEMMA Marks ==
    /\ None \notin Nat /\ None # Gone /\ 0 # None
    /\ \A c \in CoreRec : c # None /\ c # Gone
    /\ \A o \in ObjectRec : o # None
  BY NoneAssumption

\* Names rendered for a valid spec are names.
LEMMA DesiredNames == \A s \in DOMAIN Desired : Desired[s] \subseteq Names
  BY DEF Names

\* The fields of an EvpnCore.
LEMMA CoreFields ==
    ASSUME NEW c \in CoreRec
    PROVE  /\ c.gen \in Nat /\ c.observed \in Nat /\ c.spec \in Specs
           /\ c.deleting \in BOOLEAN /\ c.fin \in BOOLEAN /\ c.ready \in BOOLEAN
           /\ c.enabled \in BOOLEAN /\ c.mr \in [Names -> Nat \cup {None}]
  BY DEF CoreRec

\* A core that exists is a record.
LEMMA ExistsIsRecord ==
    ASSUME Stored, NEW u \in Cores
    PROVE  Exists(u) <=> core[u] \in CoreRec
  BY Marks DEF Stored, Exists

\* The UID after the last one.
LEMMA NextUid ==
    ASSUME NEW n \in Nat
    PROVE  /\ n + 1 \notin 1..n /\ 1..n \subseteq 1..(n + 1) /\ n + 1 \in 1..(n + 1)
           /\ 0..n \subseteq 0..(n + 1) /\ n + 1 \in Nat /\ n <= n + 1 /\ n + 1 # n
  OBVIOUS

\* Versions follow one another.
LEMMA OlderTransitive ==
    ASSUME NEW a \in CoreRec, NEW b \in CoreRec, NEW c \in CoreRec, Older(a, b), Older(b, c)
    PROVE  Older(a, c)
  BY CoreFields DEF Older

----------------------------------------------------------------------------
(* Initial states *)

LEMMA NewIsRecord == ASSUME NEW s \in Specs PROVE New(s) \in CoreRec
  BY DEF New, CoreRec

LEMMA NewFields ==
    ASSUME NEW s
    PROVE  /\ ~New(s).ready /\ New(s).observed = 0 /\ New(s).gen = 1
           /\ New(s).mr = [n \in Names |-> None]
  BY DEF New

LEMMA InitIInv == Init => IInv
  <1> SUFFICES ASSUME Init PROVE IInv
    OBVIOUS
  <1>1. PICK s \in Scenarios :
            /\ core = [u \in Cores |-> IF s.cores[u] \in Specs THEN New(s.cores[u]) ELSE s.cores[u]]
            /\ release = s.release
    BY DEF Init
  <1>2. s.cores \in [Cores -> Specs \cup {None, Gone}] /\ s.release \in Defaults
    BY OperatorAssumption
  <1>3. \A u \in Cores : core[u] \in {None, Gone} \/ \E t \in Specs : core[u] = New(t)
    BY <1>1, <1>2, Zenon
  <1>4. Stored
    <2>1. core \in [Cores -> CoreRec \cup {None, Gone}]
      BY <1>1, <1>3, NewIsRecord
    <2> QED
      BY <2>1 DEF Init, Stored, Owners
  <1>5. Counted
    BY <1>1, <1>2 DEF Init, Counted, Distinct, ObjectMap
  <1>6. \A u \in Cores : Exists(u) =>
            /\ ~core[u].ready /\ core[u].observed = 0 /\ core[u].gen = 1
            /\ core[u].mr = [n \in Names |-> None]
    BY <1>3, NewFields DEF Exists
  <1>7. Recorded
    BY <1>6 DEF Recorded
  <1>8. Cached
    <2>1. cache = core
      BY DEF Init
    <2>2. \A c \in CoreRec : Older(c, c)
      BY CoreFields DEF Older
    <2> QED
      BY <2>1, <2>2 DEF Cached
  <1>9. Locked /\ Endpoints
    BY DEF Init, Locked, LockNotStranded, Endpoints, OverrideKept, Made
  <1>10. Stage /\ Looked /\ Snapshot /\ Holding
    BY DEF Init, Stage, Looked, Snapshot, Holding, Claiming, Cleaning, Ending, Applying
  <1>11. Agent
    BY Zenon DEF Init, Agent, OneNodeAgent, Applying
  <1>12. Progress
    BY <1>6 DEF Init, Progress, ReadyIsApplied, Applying
  <1> QED
    BY <1>4, <1>5, <1>7, <1>8, <1>9, <1>10, <1>11, <1>12 DEF IInv

----------------------------------------------------------------------------
(* Users create, edit and delete cores *)

\* Every core stays, with its inventory and its finalizer, or goes if it has none.
Evolves ==
    /\ core' \in [Cores -> CoreRec \cup {None, Gone}]
    /\ \A v \in Cores :
         /\ core[v] # None => core'[v] # None
         /\ Exists(v) /\ core[v].fin => Exists(v)' /\ core'[v].fin
         /\ Exists(v)' /\ core[v] # None =>
              /\ Exists(v) /\ Older(core[v], core'[v]) /\ core'[v].mr = core[v].mr
              /\ core'[v].gen = core[v].gen => applied'[v] = applied[v]

\* What users do to the cores disturbs neither the installation nor a
\* reconciliation in progress.
LEMMA UserCoreKept ==
    ASSUME IInv, Evolves, UNCHANGED <<users, res, uids, release, custom>>,
           applied' \in [Cores -> SUBSET Names]
    PROVE  /\ Stored' /\ Counted' /\ Cached' /\ Locked' /\ Endpoints'
           /\ Stage' /\ Looked' /\ Snapshot' /\ Holding' /\ Agent'
           /\ ReadyIsApplied' => Progress'
  <1> USE DEF users, worker
  <1>1. Stored'
    BY Zenon DEF IInv, Stored, Evolves
  <1>2. Counted' /\ Endpoints' /\ Stage' /\ Looked'
    BY DEF IInv, Counted, Distinct, Endpoints, OverrideKept, Stage, Looked
  <1>3. Cached'
    <2> SUFFICES ASSUME NEW u \in Cores
                 PROVE  /\ core'[u] = None => cache[u] = None
                        /\ Exists(u)' /\ cache[u] \in CoreRec => Older(cache[u], core'[u])
      BY DEF Cached
    <2>1. core'[u] = None => cache[u] = None
      BY DEF IInv, Evolves, Cached
    <2>2. ASSUME Exists(u)', cache[u] \in CoreRec PROVE Older(cache[u], core'[u])
      <3>1. core[u] # None
        BY <2>2, Marks DEF IInv, Cached
      <3>2. Exists(u) /\ Older(core[u], core'[u])
        BY <2>2, <3>1 DEF Evolves
      <3>3. Older(cache[u], core[u])
        BY <2>2, <3>2, Zenon DEF IInv, Cached
      <3>4. core[u] \in CoreRec /\ core'[u] \in CoreRec
        BY <2>2, <3>2, ExistsIsRecord DEF IInv, Evolves, Exists
      <3> QED
        BY <2>2, <3>2, <3>3, <3>4, OlderTransitive
    <2> QED
      BY <2>1, <2>2
  <1>4. lock # None => lock \in Cores /\ Exists(lock) /\ core[lock].fin
    BY DEF IInv, Stored, Owners, Locked, LockNotStranded
  <1>5. lock # None => Exists(lock)' /\ core'[lock].fin /\ core[lock] # None /\ core'[lock].mr = core[lock].mr
    BY <1>4, Zenon DEF Evolves, Exists
  <1>6. \A n \in Names : res[n] # None /\ res[n].owner # None =>
            res[n].owner = lock /\ core[lock].mr[n] # None
    BY DEF IInv, Locked
  <1>7. Locked'
    <2>1. \A n \in Names : Made(n)' => lock # None /\ core'[lock].mr[n] # None
      BY <1>5, Zenon DEF IInv, Locked, Made
    <2> QED
      BY <1>5, <1>6, <2>1, Zenon DEF Locked, LockNotStranded
  <1>8. Snapshot'
    <2> SUFFICES ASSUME pc # "idle"
                 PROVE  /\ core'[cur] # None
                        /\ Exists(cur)' => Older(snap, core'[cur])
                        /\ Exists(cur)' /\ pc \in Planned => snap.mr = core'[cur].mr
      BY Zenon DEF Snapshot
    <2>1. /\ cur \in Cores /\ snap \in CoreRec /\ core[cur] # None
          /\ Exists(cur) => Older(snap, core[cur])
          /\ Exists(cur) /\ pc \in Planned => snap.mr = core[cur].mr
      BY Zenon DEF IInv, Stage, Snapshot
    <2>2. core'[cur] # None
      BY <2>1, Zenon DEF Evolves
    <2>3. ASSUME Exists(cur)' PROVE Older(snap, core'[cur]) /\ (pc \in Planned => snap.mr = core'[cur].mr)
      <3>1. Exists(cur) /\ Older(core[cur], core'[cur]) /\ core'[cur].mr = core[cur].mr
        BY <2>1, <2>3, Zenon DEF Evolves
      <3>2. core[cur] \in CoreRec /\ core'[cur] \in CoreRec
        BY <2>1, <2>3, <3>1, ExistsIsRecord DEF IInv, Evolves, Exists
      <3> QED
        BY <2>1, <3>1, <3>2, OlderTransitive, Zenon
    <2> QED
      BY <2>2, <2>3
  <1>9. lock = cur /\ cur \in Cores => core'[cur].mr = core[cur].mr
    BY <1>5, Marks, OperatorAssumption, Zenon
  <1>10. Holding'
    <2>1. pc = "lock" => cur \in Cores /\ Exists(cur) /\ core[cur].fin
      BY Zenon DEF IInv, Holding, Stage
    <2>2. pc = "lock" => Exists(cur)' /\ core'[cur].fin
      BY <2>1, Zenon DEF Evolves
    <2>3. pc \in {"check", "create"} => cur \in Cores /\ lock = cur /\ core[cur].mr[seen] # None
      BY Zenon DEF IInv, Holding, Stage, Applying
    <2> QED
      BY <1>9, <2>2, <2>3, Zenon DEF IInv, Holding, Made
  <1>11. Agent'
    BY Zenon DEF IInv, Agent, OneNodeAgent, Made
  <1>12. ASSUME ReadyIsApplied' PROVE Progress'
    <2> SUFFICES ASSUME pc \in Applying, core'[cur].gen = snap.gen
                 PROVE  Desired[snap.spec] \ todo \subseteq applied'[cur]
      BY <1>12, Zenon DEF Progress
    <2>1. pc # "idle" /\ cur \in Cores /\ lock = cur /\ snap \in CoreRec
      BY Zenon DEF IInv, Stage, Holding, Applying
    <2>2. Exists(cur) /\ Exists(cur)' /\ core[cur] # None
      BY <2>1, <1>4, <1>5, Marks, OperatorAssumption, Zenon
    <2>3. Older(snap, core[cur]) /\ Older(core[cur], core'[cur])
      BY <2>1, <2>2, Zenon DEF IInv, Snapshot, Evolves
    <2>4. core[cur] \in CoreRec /\ core'[cur] \in CoreRec
      BY <2>1, <2>2, ExistsIsRecord, Zenon DEF IInv, Evolves, Exists
    <2>5. core[cur].gen = snap.gen /\ core'[cur].gen = core[cur].gen
      BY <2>1, <2>3, <2>4, CoreFields DEF Older
    <2>6. applied'[cur] = applied[cur]
      BY <2>1, <2>2, <2>5, Zenon DEF Evolves
    <2> QED
      BY <2>5, <2>6 DEF IInv, Progress
  <1> QED
    BY <1>1, <1>2, <1>3, <1>7, <1>8, <1>10, <1>11, <1>12, Zenon
\* Another core appears: the lock and the reconciliation are of older ones.
LEMMA CreateCoreIInv ==
    ASSUME IInv, NEW u \in Cores, NEW s \in Specs, CreateCore(u, s)
    PROVE  IInv'
  <1>1. /\ core[u] = None /\ core' = [core EXCEPT ![u] = New(s)]
        /\ UNCHANGED <<users, res, uids, release, custom>> /\ applied' = applied
    BY DEF CreateCore
  <1>2. core \in [Cores -> CoreRec \cup {None, Gone}] /\ applied' \in [Cores -> SUBSET Names]
    BY <1>1 DEF IInv, Stored
  <1>3. core' \in [Cores -> CoreRec \cup {None, Gone}]
    BY <1>1, <1>2, NewIsRecord
  <1>4. core'[u] = New(s) /\ \A v \in Cores : v # u => core'[v] = core[v]
    BY <1>1, <1>2
  <1>5. \A v \in Cores : Exists(v) => Older(core[v], core[v])
    BY ExistsIsRecord, CoreFields DEF IInv, Older
  <1>6. Evolves
    BY <1>1, <1>3, <1>4, <1>5, NewIsRecord, Marks, Zenon DEF Evolves, Exists
  <1>7. Recorded'
    <2>1. \A n \in Names : New(s).mr[n] = None
      BY NewFields
    <2>2. New(s).observed <= New(s).gen
      BY NewFields
    <2> QED
      BY <1>1, <1>4, <2>1, <2>2 DEF IInv, Recorded, Exists
  <1>8. ReadyIsApplied'
    BY <1>1, <1>4, NewFields DEF IInv, Progress, ReadyIsApplied, Exists
  <1> QED
    BY <1>1, <1>2, <1>6, <1>7, <1>8, UserCoreKept DEF IInv

\* A new generation has the same inventory, and nothing is applied for it yet.
LEMMA EditCoreIInv ==
    ASSUME IInv, NEW u \in Cores, NEW s \in Specs, NEW on \in BOOLEAN, EditCore(u, s, on)
    PROVE  IInv'
  <1> DEFINE c == [core[u] EXCEPT !.spec = s, !.enabled = on, !.gen = @ + 1]
  <1>1. /\ Exists(u) /\ core' = [core EXCEPT ![u] = c]
        /\ UNCHANGED <<users, res, uids, release, custom>>
        /\ applied' = [applied EXCEPT ![u] = {}]
    BY DEF EditCore
  <1>2. core \in [Cores -> CoreRec \cup {None, Gone}] /\ applied' \in [Cores -> SUBSET Names]
    BY <1>1 DEF IInv, Stored
  <1>3. core[u] \in CoreRec
    BY <1>1, ExistsIsRecord DEF IInv
  <1>4. /\ c \in CoreRec /\ c.gen = core[u].gen + 1 /\ c.mr = core[u].mr /\ c.fin = core[u].fin
        /\ c.observed = core[u].observed
    <2>1. c \in CoreRec
      <3>1. PICK g \in Nat : g = core[u].gen + 1
        BY <1>3, CoreFields
      <3>2. c = [core[u] EXCEPT !.spec = s, !.enabled = on, !.gen = g]
        BY <3>1
      <3> HIDE DEF c
      <3> QED
        BY <1>3, <3>2, Zenon DEF CoreRec
    <2>2. /\ c.gen = core[u].gen + 1 /\ c.mr = core[u].mr /\ c.fin = core[u].fin
          /\ c.observed = core[u].observed
      BY <1>3 DEF CoreRec
    <2> QED
      BY <2>1, <2>2
  <1> HIDE DEF c
  <1>5. core' \in [Cores -> CoreRec \cup {None, Gone}]
    BY <1>1, <1>2, <1>4
  <1>6. core'[u] = c /\ \A v \in Cores : v # u => core'[v] = core[v] /\ applied'[v] = applied[v]
    BY <1>1, <1>2, Zenon DEF IInv, Stored
  <1>7. \A v \in Cores : Exists(v) => Older(core[v], core[v])
    BY ExistsIsRecord, CoreFields DEF IInv, Older
  <1>8. Older(core[u], c) /\ c.gen # core[u].gen
    BY <1>3, <1>4, CoreFields DEF Older
  <1>9. Evolves
    BY <1>1, <1>4, <1>5, <1>6, <1>7, <1>8, Marks, Zenon DEF Evolves, Exists
  <1>10. core[u].observed <= core[u].gen /\ core[u].observed \in Nat /\ core[u].gen \in Nat
    BY <1>1, <1>3, CoreFields, Zenon DEF IInv, Recorded
  <1>11. c.observed <= c.gen /\ c.observed # c.gen
    BY <1>4, <1>10
  <1>12. Recorded'
    <2>1. \A v \in Cores : v # u => (Exists(v)' <=> Exists(v)) /\ core'[v] = core[v]
      BY <1>6, Zenon DEF Exists
    <2>2. \A n \in Names : c.mr[n] \in {None} \cup 0..uids
      BY <1>1, <1>4, Zenon DEF IInv, Recorded
    <2> QED
      BY <1>1, <1>6, <1>11, <2>1, <2>2, Zenon DEF IInv, Recorded
  <1>13. ReadyIsApplied'
    BY <1>1, <1>6, <1>11, Zenon DEF IInv, Progress, ReadyIsApplied, Exists
  <1> QED
    BY <1>1, <1>2, <1>9, <1>12, <1>13, UserCoreKept DEF IInv

\* A core with the finalizer waits for the operator; one without has no lock.
LEMMA DeleteCoreIInv ==
    ASSUME IInv, NEW u \in Cores, DeleteCore(u)
    PROVE  IInv'
  <1> DEFINE c == IF core[u].fin THEN [core[u] EXCEPT !.deleting = TRUE] ELSE Gone
  <1>1. /\ Exists(u) /\ core' = [core EXCEPT ![u] = c]
        /\ UNCHANGED <<users, res, uids, release, custom>> /\ applied' = applied
    BY DEF DeleteCore
  <1>2. core \in [Cores -> CoreRec \cup {None, Gone}] /\ applied' \in [Cores -> SUBSET Names]
    BY <1>1 DEF IInv, Stored
  <1>3. core[u] \in CoreRec
    BY <1>1, ExistsIsRecord DEF IInv
  <1>4. \/ c = Gone /\ ~core[u].fin
        \/ /\ c \in CoreRec /\ c.gen = core[u].gen /\ c.mr = core[u].mr /\ c.fin = core[u].fin
           /\ c.observed = core[u].observed /\ c.spec = core[u].spec /\ c.ready = core[u].ready
    BY <1>3, Zenon DEF CoreRec
  <1> HIDE DEF c
  <1>5. core' \in [Cores -> CoreRec \cup {None, Gone}]
    BY <1>1, <1>2, <1>4
  <1>6. core'[u] = c /\ \A v \in Cores : v # u => core'[v] = core[v]
    BY <1>1, <1>2, Zenon
  <1>7. \A v \in Cores : Exists(v) => Older(core[v], core[v])
    BY ExistsIsRecord, CoreFields DEF IInv, Older
  <1>8. c # Gone => Older(core[u], c)
    BY <1>3, <1>4, CoreFields DEF Older
  <1>9. Evolves
    BY <1>1, <1>4, <1>5, <1>6, <1>7, <1>8, Marks, Zenon DEF Evolves, Exists
  <1>10. Recorded'
    BY <1>1, <1>4, <1>6, Marks, Zenon DEF IInv, Recorded, Exists
  <1>11. ReadyIsApplied'
    BY <1>1, <1>4, <1>6, Marks DEF IInv, Progress, ReadyIsApplied, Exists
  <1> QED
    BY <1>1, <1>2, <1>9, <1>10, <1>11, UserCoreKept DEF IInv
----------------------------------------------------------------------------
(* Objects change or go *)

\* No object has come to carry annotations, or a UID the operator made.
Shrinks ==
    /\ res' \in ObjectMap
    /\ \A n \in Names : res'[n] # None =>
         /\ res'[n].owner # None => res[n] # None /\ res[n].owner = res'[n].owner
         /\ res'[n].uid \in made => res[n] # None /\ res[n].uid = res'[n].uid

\* Then the lock still covers every child and no second node agent runs.
LEMMA ShrinkKeeps ==
    ASSUME IInv, Shrinks, UNCHANGED <<core, lock, made>>
    PROVE  Locked' /\ OneNodeAgent' /\ \A n \in Names : Made(n)' => Made(n)
  <1>1. \A n \in Names : Made(n)' => Made(n) /\ res[n].uid = res'[n].uid
    BY Zenon DEF Made, Shrinks
  <1>2. Locked'
    BY <1>1, Zenon DEF IInv, Shrinks, Locked, LockNotStranded, Exists
  <1>3. OneNodeAgent'
    BY <1>1 DEF IInv, Agent, OneNodeAgent, Made
  <1> QED
    BY <1>1, <1>2, <1>3, Zenon

\* A reconciliation in progress goes on undisturbed.
LEMMA OthersKeep ==
    ASSUME IInv, Shrinks, UNCHANGED <<users, core, applied>>, uids' \in Nat, uids <= uids'
    PROVE  /\ Stored' /\ Recorded' /\ Cached' /\ Locked' /\ Stage' /\ Looked'
           /\ Snapshot' /\ Holding' /\ Agent' /\ Progress'
  <1> USE DEF users, worker
  <1>1. Stored' /\ Cached' /\ Stage' /\ Snapshot' /\ Progress'
    BY DEF IInv, Stored, Cached, Stage, Snapshot, Progress, ReadyIsApplied, Exists
  <1>2. Locked' /\ OneNodeAgent' /\ \A n \in Names : Made(n)' => Made(n)
    BY ShrinkKeeps, Zenon
  <1>3. uids \in Nat
    BY DEF IInv, Counted
  <1>4. 0..uids \subseteq 0..uids' /\ 1..uids \subseteq 1..uids'
    BY <1>3
  <1>5. Recorded'
    BY <1>4, Zenon DEF IInv, Recorded, Exists
  <1>6. Looked'
    BY <1>4, Zenon DEF IInv, Looked
  <1>7. Holding'
    <2>1. ASSUME pc = "unlock", NEW n \in Names, res'[n] # None PROVE res'[n].owner # cur
      <3>1. cur # None
        BY <2>1, Marks, OperatorAssumption, Zenon DEF IInv, Stage
      <3> QED
        BY <2>1, <3>1 DEF IInv, Holding, Shrinks
    <2> QED
      BY <1>2, <2>1, Zenon DEF IInv, Holding, Exists
  <1>8. Agent'
    BY <1>2 DEF IInv, Agent
  <1> QED
    BY <1>1, <1>2, <1>5, <1>6, <1>7, <1>8, Zenon

\* The fields of an object.
LEMMA ObjectFields ==
    ASSUME NEW o \in ObjectRec
    PROVE  /\ o.uid \in Nat /\ o.owner \in Owners /\ o.label \in Owners /\ o.deleting \in BOOLEAN
           /\ o.spec \in Specs \cup {"other"} /\ o.env \in Nat /\ o.def \in Nat
  BY Zenon DEF ObjectRec

\* One object is replaced by o, with its UID and its annotations or none.
LEMMA ObjectEdited ==
    ASSUME IInv, NEW n \in Names, res[n] # None, NEW o \in ObjectRec, res' = [res EXCEPT ![n] = o],
           o.uid = res[n].uid, o.owner \in {None, res[n].owner}
    PROVE  /\ Shrinks /\ \A m \in Names : m # n => res'[m] = res[m]
           /\ res'[n] = o /\ o.uid \in 1..uids /\ Distinct'
  <1>1. res \in ObjectMap
    BY DEF IInv, Counted
  <1>2. res' \in ObjectMap
    BY <1>1, Zenon DEF ObjectMap
  <1>3. res'[n] = o /\ \A m \in Names : m # n => res'[m] = res[m]
    BY <1>1, Zenon DEF ObjectMap
  <1>4. o.uid \in 1..uids
    BY Zenon DEF IInv, Counted
  <1>5. Distinct'
    BY <1>3 DEF IInv, Counted, Distinct
  <1> QED
    BY <1>2, <1>3, <1>4, <1>5, Zenon DEF Shrinks

\* Somebody takes the annotations away.
LEMMA StripIInv ==
    ASSUME IInv, NEW n \in Names, Strip(n)
    PROVE  IInv'
  <1> DEFINE o == [res[n] EXCEPT !.owner = None]
  <1>1. /\ res[n] # None /\ res' = [res EXCEPT ![n] = o]
        /\ UNCHANGED <<users, core, applied, release, uids, custom>>
    BY DEF Strip, Foreign
  <1>2. res[n] \in ObjectRec
    BY <1>1 DEF IInv, Counted, ObjectMap
  <1>3. o \in ObjectRec /\ o.owner = None /\ o.uid = res[n].uid /\ o.env = res[n].env
    BY <1>2 DEF ObjectRec, Owners
  <1> HIDE DEF o
  <1>4. /\ Shrinks /\ res'[n] = o /\ o.uid \in 1..uids /\ Distinct'
        /\ \A m \in Names : m # n => res'[m] = res[m]
    BY <1>1, <1>3, ObjectEdited, Zenon
  <1>5. Counted'
    BY <1>1, <1>4, Zenon DEF IInv, Counted, Shrinks, users
  <1>6. Endpoints'
    BY <1>1, <1>3, <1>4 DEF IInv, Endpoints, OverrideKept
  <1>7. uids' \in Nat /\ uids <= uids'
    BY <1>1 DEF IInv, Counted
  <1> QED
    BY <1>1, <1>4, <1>5, <1>6, <1>7, OthersKeep DEF IInv

\* Somebody changes a managed field.
LEMMA DriftIInv ==
    ASSUME IInv, NEW n \in Names, Drift(n)
    PROVE  IInv'
  <1> DEFINE o == [res[n] EXCEPT !.spec = "other"]
  <1>1. /\ res[n] # None /\ res' = [res EXCEPT ![n] = o]
        /\ UNCHANGED <<users, core, applied, release, uids, custom>>
    BY DEF Drift, Foreign
  <1>2. res[n] \in ObjectRec
    BY <1>1 DEF IInv, Counted, ObjectMap
  <1>3. /\ o \in ObjectRec /\ o.owner = res[n].owner /\ o.uid = res[n].uid
        /\ o.env = res[n].env /\ o.def = res[n].def
    BY <1>2 DEF ObjectRec
  <1> HIDE DEF o
  <1>4. /\ Shrinks /\ res'[n] = o /\ o.uid \in 1..uids /\ Distinct'
        /\ \A m \in Names : m # n => res'[m] = res[m]
    BY <1>1, <1>3, ObjectEdited, Zenon
  <1>5. Counted'
    BY <1>1, <1>4, Zenon DEF IInv, Counted, Shrinks, users
  <1>6. Endpoints'
    BY <1>1, <1>3, <1>4 DEF IInv, Endpoints, OverrideKept
  <1>7. uids' \in Nat /\ uids <= uids'
    BY <1>1 DEF IInv, Counted
  <1> QED
    BY <1>1, <1>4, <1>5, <1>6, <1>7, OthersKeep DEF IInv

\* An administrator sets the endpoint.
LEMMA OverrideIInv ==
    ASSUME IInv, NEW n \in Names, Override(n)
    PROVE  IInv'
  <1> DEFINE o == [res[n] EXCEPT !.env = 0]
  <1>1. /\ res[n] # None /\ res' = [res EXCEPT ![n] = o] /\ custom' = custom \cup {res[n].uid}
        /\ UNCHANGED <<users, core, applied, release, uids>>
    BY DEF Override, Foreign
  <1>2. res[n] \in ObjectRec
    BY <1>1 DEF IInv, Counted, ObjectMap
  <1>3. /\ o \in ObjectRec /\ o.owner = res[n].owner /\ o.uid = res[n].uid
        /\ o.env = 0 /\ o.def = res[n].def
    BY <1>2 DEF ObjectRec
  <1> HIDE DEF o
  <1>4. /\ Shrinks /\ res'[n] = o /\ o.uid \in 1..uids /\ Distinct'
        /\ \A m \in Names : m # n => res'[m] = res[m]
    BY <1>1, <1>3, ObjectEdited, Zenon
  <1>5. Counted'
    BY <1>1, <1>3, <1>4, Zenon DEF IInv, Counted, Shrinks, users
  <1>6. Endpoints'
    <2>1. \A m \in Names : m # n /\ res[m] # None => res[m].uid # res[n].uid
      BY <1>1 DEF IInv, Counted, Distinct
    <2>2. OverrideKept'
      BY <1>1, <1>3, <1>4, <2>1 DEF IInv, Endpoints, OverrideKept
    <2>3. \A m \in Names : res'[m] # None /\ res'[m].owner # None => res'[m].def # 0
      BY <1>1, <1>3, <1>4, Zenon DEF IInv, Endpoints
    <2> QED
      BY <2>2, <2>3 DEF Endpoints
  <1>7. uids' \in Nat /\ uids <= uids'
    BY <1>1 DEF IInv, Counted
  <1> QED
    BY <1>1, <1>4, <1>5, <1>6, <1>7, OthersKeep DEF IInv
\* Another object takes the name.
LEMMA ReplaceIInv ==
    ASSUME IInv, NEW n \in Names, Replace(n)
    PROVE  IInv'
  <1> DEFINE o == [uid |-> uids + 1, owner |-> None, label |-> None, deleting |-> FALSE,
                   spec |-> "other", env |-> 0, def |-> 0]
  <1>1. /\ res[n] # None /\ res' = [res EXCEPT ![n] = o] /\ uids' = uids + 1
        /\ UNCHANGED <<users, core, applied, release, custom>>
    BY Zenon DEF Replace, Foreign
  <1>2. /\ res \in ObjectMap /\ uids \in Nat /\ made \subseteq 1..uids /\ custom \subseteq 1..uids
        /\ release \in Defaults /\ \A m \in Names : res[m] # None => res[m].uid \in 1..uids
    BY Zenon DEF IInv, Counted
  <1>3. o \in ObjectRec /\ o.owner = None /\ o.uid = uids + 1
    BY <1>2 DEF ObjectRec, Owners
  <1> HIDE DEF o
  <1>4. /\ res' \in ObjectMap /\ res'[n] = o
        /\ \A m \in Names : m # n => res'[m] = res[m]
    BY <1>1, <1>2, <1>3, Zenon DEF ObjectMap
  <1>5. uids + 1 \notin 1..uids /\ 1..uids \subseteq 1..(uids + 1) /\ uids + 1 \in 1..(uids + 1)
    BY <1>2, NextUid, Zenon
  <1>6. Shrinks
    BY <1>2, <1>3, <1>4, <1>5, Zenon DEF Shrinks
  <1>7. Distinct'
    BY <1>2, <1>3, <1>4, <1>5 DEF IInv, Counted, Distinct
  <1>8. \A m \in Names : res'[m] # None => res'[m].uid \in 1..(uids + 1)
    BY <1>2, <1>3, <1>4, <1>5, Zenon
  <1>9. uids' \in Nat /\ uids <= uids'
    BY <1>1, <1>2, NextUid, Zenon
  <1>10. Counted'
    BY <1>1, <1>2, <1>4, <1>5, <1>7, <1>8, <1>9, Zenon DEF Counted, users
  <1>11. Endpoints'
    BY <1>1, <1>2, <1>3, <1>4, <1>5 DEF IInv, Endpoints, OverrideKept
  <1> QED
    BY <1>1, <1>6, <1>9, <1>10, <1>11, OthersKeep, Zenon DEF IInv

\* The garbage collector removes a deleted object.
LEMMA CollectIInv ==
    ASSUME IInv, NEW n \in Names, Collect(n)
    PROVE  IInv'
  <1>1. /\ res' = [res EXCEPT ![n] = None]
        /\ UNCHANGED <<users, core, applied, release, uids, custom>>
    BY Zenon DEF Collect
  <1>2. res \in ObjectMap /\ uids \in Nat
    BY Zenon DEF IInv, Counted
  <1>3. res' \in ObjectMap /\ res'[n] = None /\ \A m \in Names : m # n => res'[m] = res[m]
    BY <1>1, <1>2, Zenon DEF ObjectMap
  <1>4. Shrinks
    BY <1>3, Zenon DEF Shrinks
  <1>5. Counted'
    BY <1>1, <1>3, Zenon DEF IInv, Counted, Distinct, users
  <1>6. Endpoints'
    BY <1>1, <1>3 DEF IInv, Endpoints, OverrideKept
  <1>7. uids' \in Nat /\ uids <= uids'
    BY <1>1, <1>2
  <1> QED
    BY <1>1, <1>4, <1>5, <1>6, <1>7, OthersKeep, Zenon DEF IInv

\* Another release changes the defaults that are rendered.
LEMMA UpgradeIInv ==
    ASSUME IInv, Upgrade
    PROVE  IInv'
  <1>1. /\ release' \in Defaults /\ UNCHANGED <<users, core, applied, res, uids, custom>>
    BY Zenon DEF Upgrade
  <1>2. Shrinks /\ uids' \in Nat /\ uids <= uids'
    BY <1>1 DEF IInv, Counted, Shrinks
  <1>3. Counted' /\ Endpoints'
    BY <1>1, Zenon DEF IInv, Counted, Distinct, Endpoints, OverrideKept, users
  <1> QED
    BY <1>1, <1>2, <1>3, OthersKeep, Zenon DEF IInv

\* The cache catches up with a core.
LEMMA SyncIInv ==
    ASSUME IInv, NEW u \in Cores, Sync(u)
    PROVE  IInv'
  <1>1. /\ cache' = [cache EXCEPT ![u] = View(core[u])]
        /\ UNCHANGED <<core, lock, res, uids, release, worker, history, edits, stops>>
    BY DEF Sync
  <1>2. \/ core[u] \in {None, Gone} /\ View(core[u]) = core[u]
        \/ /\ core[u] \in CoreRec /\ View(core[u]) \in CoreRec
           /\ View(core[u]).gen = core[u].gen /\ View(core[u]).spec = core[u].spec
    <2>1. core[u] \in {None, Gone} \/ (core[u] \in CoreRec /\ core[u] \notin {None, Gone})
      BY ExistsIsRecord DEF IInv, Exists
    <2>2. ASSUME NEW c \in CoreRec
          PROVE  LET d == [c EXCEPT !.ready = FALSE, !.observed = 0]
                 IN  d \in CoreRec /\ d.gen = c.gen /\ d.spec = c.spec
      BY Zenon DEF CoreRec
    <2> QED
      BY <2>1, <2>2, Zenon DEF View
  <1>3. Stored'
    BY <1>1, <1>2, Zenon DEF IInv, Stored, history
  <1>4. Cached'
    <2>1. cache'[u] = View(core[u]) /\ \A v \in Cores : v # u => cache'[v] = cache[v]
      BY <1>1, Zenon DEF IInv, Stored
    <2>2. ASSUME core[u] \in CoreRec PROVE Older(View(core[u]), core[u])
      <3>1. View(core[u]).gen = core[u].gen /\ View(core[u]).spec = core[u].spec
        BY <1>2, <2>2, Marks
      <3>2. core[u].gen \in Nat
        BY <2>2, CoreFields, Zenon
      <3> QED
        BY <3>1, <3>2 DEF Older
    <2> QED
      BY <1>1, <1>2, <2>1, <2>2, Marks, Zenon DEF IInv, Cached, Exists
  <1>5. Counted' /\ Recorded' /\ Endpoints'
    BY <1>1, Zenon DEF IInv, Counted, Distinct, Recorded, Endpoints, OverrideKept, Exists, history
  <1>6. Locked' /\ Stage' /\ Looked'
    BY <1>1, Zenon DEF IInv, Locked, LockNotStranded, Stage, Looked, Exists, Made, worker, history
  <1>7. Snapshot' /\ Holding'
    BY <1>1, Zenon DEF IInv, Snapshot, Holding, Exists, Made, worker, history
  <1>8. Agent' /\ Progress'
    BY <1>1, Zenon DEF IInv, Agent, OneNodeAgent, Made, Progress, ReadyIsApplied, Exists, worker, history
  <1> QED
    BY <1>3, <1>4, <1>5, <1>6, <1>7, <1>8, Zenon DEF IInv

----------------------------------------------------------------------------
(* A step of the reconciliation that leaves cores and objects alone *)

\* What holds of the cluster whatever the worker is doing.
Cluster == Stored /\ Counted /\ Recorded /\ Cached /\ Locked /\ Endpoints /\ OneNodeAgent /\ ReadyIsApplied

LEMMA ClusterKept ==
    ASSUME IInv, UNCHANGED <<core, lock, objects, applied, outside>>
    PROVE  Cluster'
  <1> USE DEF objects, outside
  <1>1. Stored' /\ Counted' /\ Recorded' /\ Cached'
    BY DEF IInv, Stored, Counted, Distinct, Recorded, Cached, Exists
  <1>2. Locked' /\ Endpoints' /\ OneNodeAgent' /\ ReadyIsApplied'
    BY Zenon DEF IInv, Locked, LockNotStranded, Endpoints, OverrideKept, Agent, OneNodeAgent, Progress,
           ReadyIsApplied, Exists, Made
  <1> QED
    BY <1>1, <1>2, Zenon DEF Cluster

\* The end of a reconciliation.
LEMMA StopIInv == ASSUME Cluster', Stop PROVE IInv'
  <1>1. Stage' /\ Looked' /\ Snapshot' /\ Holding'
    BY Zenon DEF Stop, Stage, Looked, Snapshot, Holding, Claiming, Cleaning, Ending, Applying
  <1>2. Agent' /\ Progress'
    BY Zenon DEF Cluster, Stop, Agent, Progress, Applying
  <1> QED
    BY <1>1, <1>2 DEF IInv, Cluster

LEMMA InterruptIInv == ASSUME IInv, Interrupt PROVE IInv'
  <1>1. Stop /\ UNCHANGED <<core, cache, lock, objects, applied, release>>
    BY DEF Interrupt
  <1>2. Cluster'
    <2> USE DEF objects
    <2>1. Stored' /\ Counted' /\ Recorded' /\ Cached'
      BY <1>1 DEF IInv, Stored, Counted, Distinct, Recorded, Cached, Exists
    <2>2. Locked' /\ Endpoints' /\ OneNodeAgent' /\ ReadyIsApplied'
      BY <1>1, Zenon DEF IInv, Locked, LockNotStranded, Endpoints, OverrideKept, Agent, OneNodeAgent, Progress,
             ReadyIsApplied, Exists, Made
    <2> QED
      BY <2>1, <2>2, Zenon DEF Cluster
  <1> QED
    BY <1>1, <1>2, StopIInv, Zenon

\* A reconciliation starts from the cached copy.
LEMMA ReconcileIInv ==
    ASSUME IInv, NEW u \in Cores, Reconcile(u)
    PROVE  IInv'
  <1>1. /\ cache[u] \notin {None, Gone} /\ cur' = u /\ snap' = cache[u] /\ todo' = {}
        /\ pc' = IF cache[u].deleting \/ (cache[u].enabled /\ cache[u].spec \in DOMAIN Desired)
                 THEN "announce" ELSE "refuse"
        /\ UNCHANGED <<core, lock, objects, applied, outside>>
    BY Zenon DEF Reconcile
  <1>2. cache[u] \in CoreRec /\ core[u] # None
    BY <1>1, Zenon DEF IInv, Stored, Cached
  <1>3. Cluster'
    BY <1>1, ClusterKept, Zenon
  <1>4. pc' = "refuse" \/ (pc' = "announce" /\ (~snap'.deleting => snap'.spec \in DOMAIN Desired))
    BY <1>1
  <1>5. Stage' /\ Looked'
    BY <1>1, <1>2, <1>4, Zenon DEF Stage, Looked, Claiming, Cleaning, Ending, Applying
  <1>6. Snapshot'
    BY <1>1, <1>2, <1>4, Zenon DEF IInv, Cached, Snapshot, Exists, Planned, Ending, Applying
  <1>7. Holding' /\ Agent' /\ Progress'
    BY <1>1, <1>3, <1>4, Zenon DEF Cluster, Holding, Agent, Progress, Applying, Cleaning
  <1> QED
    BY <1>3, <1>5, <1>6, <1>7, Zenon DEF IInv, Cluster
----------------------------------------------------------------------------
(* A step that writes the status or the finalizer of the core *)

\* c is core u with another inventory or status, which lists no UID that is not
\* used and still lists what exists.
Rewrites(u, c) ==
    /\ c \in CoreRec /\ c.gen = core[u].gen /\ c.spec = core[u].spec /\ (core[u].fin => c.fin)
    /\ c.observed <= c.gen
    /\ \A n \in Names : c.mr[n] \in {None} \cup 0..uids
    /\ \A n \in Names : res[n] # None /\ core[u].mr[n] # None => c.mr[n] # None
    /\ c.ready /\ c.observed = c.gen /\ c.spec \in DOMAIN Desired => Desired[c.spec] \subseteq applied'[u]

LEMMA RewriteKeeps ==
    ASSUME IInv, NEW u \in Cores, Exists(u), NEW c, Rewrites(u, c), core' = [core EXCEPT ![u] = c],
           UNCHANGED <<lock, objects, outside>>, applied' \in [Cores -> SUBSET Names],
           \A v \in Cores : applied[v] \subseteq applied'[v]
    PROVE  Cluster' /\ core'[u] = c /\ c \notin {None, Gone}
  <1> USE DEF objects, outside
  <1>1. core \in [Cores -> CoreRec \cup {None, Gone}] /\ core[u] \in CoreRec
    BY ExistsIsRecord DEF IInv, Stored
  <1>2. core'[u] = c /\ \A v \in Cores : v # u => core'[v] = core[v]
    BY <1>1, Zenon
  <1>3. c \in CoreRec /\ c # None /\ c # Gone
    BY Marks, Zenon DEF Rewrites
  <1>4. Exists(u)' /\ \A v \in Cores : Exists(v)' <=> Exists(v)
    BY <1>2, <1>3 DEF Exists
  <1>5. Stored'
    <2>1. core' \in [Cores -> CoreRec \cup {None, Gone}]
      BY <1>1, <1>3
    <2> QED
      BY <2>1, Zenon DEF IInv, Stored
  <1>6. Counted' /\ Endpoints' /\ OneNodeAgent'
    BY Zenon DEF IInv, Counted, Distinct, Endpoints, OverrideKept, Agent, OneNodeAgent
  <1>7. Recorded'
    BY <1>2, <1>4 DEF IInv, Recorded, Rewrites
  <1>8. Cached'
    <2>1. \A v \in Cores : cache'[v] = cache[v]
      BY Zenon
    <2>2. \A a : Older(a, core[u]) => Older(a, c)
      BY Zenon DEF Rewrites, Older
    <2> QED
      BY <1>2, <1>3, <1>4, <2>1, <2>2, Zenon DEF IInv, Cached
  <1>9. Locked'
    <2>1. lock # None => lock \in Cores
      BY Zenon DEF IInv, Stored, Owners
    <2>2. LockNotStranded'
      BY <1>2, <1>4, <2>1, Zenon DEF IInv, Locked, LockNotStranded, Rewrites
    <2>3. ASSUME NEW n \in Names, res[n] # None, lock \in Cores, core[lock].mr[n] # None
          PROVE  core'[lock].mr[n] # None
      BY <1>2, <2>3, Zenon DEF Rewrites
    <2>4. \A n \in Names : res[n] # None /\ res[n].owner # None =>
              res[n].owner = lock /\ core'[lock].mr[n] # None
      BY <2>1, <2>3 DEF IInv, Locked
    <2>5. \A n \in Names : Made(n) => lock # None /\ core'[lock].mr[n] # None
      BY <2>1, <2>3, Zenon DEF IInv, Locked, Made
    <2> QED
      BY <2>2, <2>4, <2>5, Zenon DEF Locked, Made
  <1>10. ReadyIsApplied'
    <2>1. c.ready /\ c.observed = c.gen /\ c.spec \in DOMAIN Desired => Desired[c.spec] \subseteq applied'[u]
      BY Zenon DEF Rewrites
    <2>2. ReadyIsApplied
      BY DEF IInv, Progress
    <2> QED
      BY <1>2, <1>4, <2>1, <2>2, Zenon DEF ReadyIsApplied
  <1> QED
    BY <1>2, <1>3, <1>5, <1>6, <1>7, <1>8, <1>9, <1>10, Zenon DEF Cluster

\* The core with a status that is not ready.
LEMMA StatusRewrite ==
    ASSUME IInv, pc # "idle", Current
    PROVE  /\ cur \in Cores /\ snap \in CoreRec /\ Exists(cur)
           /\ Rewrites(cur, Status(FALSE)) /\ Status(FALSE).mr = core[cur].mr
  <1>1. cur \in Cores /\ snap \in CoreRec /\ Exists(cur) /\ core[cur].gen = snap.gen
    BY Zenon DEF IInv, Stage, Current
  <1>2. PICK g \in Nat : g = snap.gen
    BY <1>1, CoreFields, Zenon
  <1>3. PICK c \in CoreRec : c = core[cur]
    BY <1>1, ExistsIsRecord DEF IInv
  <1> DEFINE d == [c EXCEPT !.ready = FALSE, !.observed = g]
  <1>4. Status(FALSE) = d
    BY <1>2, <1>3 DEF Status
  <1>5. d \in CoreRec /\ d.gen = c.gen /\ d.spec = c.spec /\ d.fin = c.fin /\ d.mr = c.mr
    BY Zenon DEF CoreRec
  <1>6. d.observed = g /\ ~d.ready
    BY Zenon DEF CoreRec
  <1>7. g <= c.gen
    BY <1>1, <1>2, <1>3
  <1> HIDE DEF d
  <1>8. \A n \in Names : c.mr[n] \in {None} \cup 0..uids
    BY <1>1, <1>3, Zenon DEF IInv, Recorded
  <1> QED
    BY <1>1, <1>3, <1>4, <1>5, <1>6, <1>7, <1>8, Zenon DEF Rewrites

\* failed: at most the status says so.
LEMMA FailIInv ==
    ASSUME IInv, pc # "idle", Fail, UNCHANGED <<lock, objects, applied, outside>>
    PROVE  IInv'
  <1>1. CASE ~Current
    <2>1. Stop /\ core' = core
      BY <1>1 DEF Fail
    <2> QED
      BY <2>1, ClusterKept, StopIInv, Zenon
  <1>2. CASE Current
    <2>1. Stop /\ core' = [core EXCEPT ![cur] = Status(FALSE)]
      BY <1>2, Zenon DEF Fail
    <2>2. cur \in Cores /\ Exists(cur) /\ Rewrites(cur, Status(FALSE))
      BY <1>2, StatusRewrite, Zenon
    <2>3. applied' \in [Cores -> SUBSET Names] /\ \A v \in Cores : applied[v] \subseteq applied'[v]
      BY DEF IInv, Stored
    <2>4. Cluster'
      BY <2>1, <2>2, <2>3, RewriteKeeps, Zenon
    <2> QED
      BY <2>1, <2>4, StopIInv, Zenon
  <1> QED
    BY <1>1, <1>2, Zenon
\* The core with inventory f.
LEMMA InventoryRewrite ==
    ASSUME IInv, NEW u \in Cores, Exists(u), NEW f \in [Names -> Nat \cup {None}],
           \A n \in Names : f[n] \in {None} \cup 0..uids,
           \A n \in Names : res[n] # None /\ core[u].mr[n] # None => f[n] # None,
           \A v \in Cores : applied[v] \subseteq applied'[v]
    PROVE  /\ Rewrites(u, [core[u] EXCEPT !.mr = f])
           /\ [core[u] EXCEPT !.mr = f].mr = f
  <1>1. PICK c \in CoreRec : c = core[u]
    BY ExistsIsRecord DEF IInv
  <1> DEFINE d == [c EXCEPT !.mr = f]
  <1>2. /\ d \in CoreRec /\ d.gen = c.gen /\ d.spec = c.spec /\ d.fin = c.fin
        /\ d.ready = c.ready /\ d.observed = c.observed /\ d.mr = f
    BY DEF CoreRec
  <1>3. [core[u] EXCEPT !.mr = f] = d
    BY <1>1
  <1> HIDE DEF d
  <1>4. c.observed <= c.gen
    BY <1>1, Zenon DEF IInv, Recorded
  <1>5. c.ready /\ c.observed = c.gen /\ c.spec \in DOMAIN Desired => Desired[c.spec] \subseteq applied'[u]
    BY <1>1 DEF IInv, Progress, ReadyIsApplied
  <1> QED
    BY <1>1, <1>2, <1>3, <1>4, <1>5, Zenon DEF Rewrites

\* editStatus: the snapshot follows the inventory.
LEMMA EditStatusKeeps ==
    ASSUME IInv, pc # "idle", Exists(cur), NEW f \in [Names -> Nat \cup {None}],
           \A n \in Names : f[n] \in {None} \cup 0..uids,
           \A n \in Names : res[n] # None /\ core[cur].mr[n] # None => f[n] # None,
           EditStatus([core[cur] EXCEPT !.mr = f]),
           UNCHANGED <<lock, objects, outside>>, applied' \in [Cores -> SUBSET Names],
           \A v \in Cores : applied[v] \subseteq applied'[v]
    PROVE  /\ Cluster' /\ Exists(cur) /\ core'[cur].mr = f /\ core'[cur].gen = core[cur].gen
           /\ core'[cur] \in CoreRec
           /\ snap' \in CoreRec /\ snap'.mr = f /\ Older(snap', core'[cur])
           /\ snap'.gen = snap.gen /\ snap'.spec = snap.spec /\ snap'.deleting = snap.deleting
  <1>1. cur \in Cores /\ snap \in CoreRec /\ Older(snap, core[cur])
    BY DEF IInv, Stage, Snapshot
  <1>2. PICK c : c = [core[cur] EXCEPT !.mr = f]
    OBVIOUS
  <1>3. Rewrites(cur, c) /\ c.mr = f
    BY <1>1, <1>2, InventoryRewrite
  <1>4. core' = [core EXCEPT ![cur] = c] /\ snap' = [snap EXCEPT !.mr = f]
    BY <1>2, <1>3 DEF EditStatus
  <1>5. Cluster' /\ core'[cur] = c
    BY <1>1, <1>3, <1>4, RewriteKeeps, Zenon
  <1>6. c \in CoreRec /\ c.gen = core[cur].gen /\ c.spec = core[cur].spec
    BY <1>3 DEF Rewrites
  <1>7. /\ snap' \in CoreRec /\ snap'.mr = f
        /\ snap'.gen = snap.gen /\ snap'.spec = snap.spec /\ snap'.deleting = snap.deleting
    BY <1>1, <1>4 DEF CoreRec
  <1>8. Older(snap', core'[cur])
    BY <1>1, <1>5, <1>6, <1>7, Zenon DEF Older
  <1> QED
    BY <1>3, <1>5, <1>6, <1>7, <1>8, Zenon

----------------------------------------------------------------------------
(* Claiming the lock *)

LEMMA RefuseIInv == ASSUME IInv, Refuse PROVE IInv'
  BY FailIInv, Zenon DEF Refuse

\* A step to another stage that reads only.
LEMMA MoveKeeps ==
    ASSUME IInv, pc # "idle", UNCHANGED <<core, lock, objects, applied, outside, cur, snap>>
    PROVE  /\ Cluster' /\ cur' \in Cores /\ snap' \in CoreRec /\ core'[cur'] # None
           /\ Exists(cur') => Older(snap', core'[cur'])
           /\ Exists(cur)' <=> Exists(cur)
  <1>1. Cluster'
    BY ClusterKept, Zenon
  <1>2. cur \in Cores /\ snap \in CoreRec /\ core[cur] # None /\ (Exists(cur) => Older(snap, core[cur]))
    BY Zenon DEF IInv, Stage, Snapshot
  <1> QED
    BY <1>1, <1>2 DEF Exists

\* NewGeneration or CleanupInProgress is written, or was before; the reconciliation goes on.
LEMMA AnnounceIInv == ASSUME IInv, Announce PROVE IInv'
  <1>1. pc = "announce" /\ UNCHANGED <<lock, objects, applied, outside>>
    BY DEF Announce
  <1>2. CASE Fail
    BY <1>1, <1>2, FailIInv, Zenon
  <1>3. CASE /\ (Current /\ EditStatus(Status(FALSE))) \/ UNCHANGED <<core, snap>>
             /\ pc' = IF snap.deleting THEN "discover" ELSE "claim"
             /\ UNCHANGED <<cur, todo, seen>>
    <2>1. cur \in Cores /\ todo \subseteq Names /\ (~snap.deleting => snap.spec \in DOMAIN Desired)
      BY <1>1, Zenon DEF IInv, Stage
    <2>2. /\ Cluster' /\ snap' \in CoreRec /\ core'[cur] # None
          /\ Exists(cur)' => Older(snap', core'[cur])
          /\ snap'.spec = snap.spec /\ snap'.deleting = snap.deleting
      <3>1. CASE UNCHANGED <<core, snap>>
        BY <1>1, <1>3, <3>1, MoveKeeps, Zenon DEF Exists
      <3>2. CASE Current /\ EditStatus(Status(FALSE))
        <4>1. PICK c : c = Status(FALSE)
          OBVIOUS
        <4>2. snap \in CoreRec /\ Exists(cur) /\ Rewrites(cur, c)
          BY <1>1, <3>2, <4>1, StatusRewrite, Zenon
        <4>3. applied' \in [Cores -> SUBSET Names] /\ \A v \in Cores : applied[v] \subseteq applied'[v]
          BY <1>1 DEF IInv, Stored
        <4>4. core' = [core EXCEPT ![cur] = c] /\ snap' = [snap EXCEPT !.mr = c.mr]
          BY <3>2, <4>1 DEF EditStatus
        <4>5. Cluster' /\ core'[cur] = c /\ c \notin {None, Gone}
          BY <1>1, <2>1, <4>2, <4>3, <4>4, RewriteKeeps, Zenon
        <4>6. c \in CoreRec /\ c.gen = core[cur].gen /\ c.spec = core[cur].spec
          BY <4>2, Zenon DEF Rewrites
        <4>7. c.mr \in [Names -> Nat \cup {None}]
          BY <4>6, CoreFields, Zenon
        <4>8. /\ snap' \in CoreRec
              /\ snap'.gen = snap.gen /\ snap'.spec = snap.spec /\ snap'.deleting = snap.deleting
          BY <4>2, <4>4, <4>7 DEF CoreRec
        <4>9. Older(snap, core[cur])
          BY <1>1, <4>2, Zenon DEF IInv, Snapshot
        <4>10. Older(snap', core'[cur])
          BY <4>5, <4>6, <4>8, <4>9, Zenon DEF Older
        <4> QED
          BY <4>5, <4>8, <4>10, Zenon
      <3> QED
        BY <1>3, <3>1, <3>2, Zenon
    <2>3. Stage' /\ Looked'
      BY <1>3, <2>1, <2>2 DEF Stage, Looked, Claiming, Cleaning, Ending, Applying
    <2>4. Snapshot'
      BY <1>3, <2>2 DEF Snapshot, Planned, Ending, Applying
    <2>5. Holding' /\ Agent' /\ Progress'
      BY <1>3, <2>2 DEF Cluster, Holding, Agent, Progress, Cleaning, Applying
    <2> QED
      BY <2>2, <2>3, <2>4, <2>5, Zenon DEF IInv, Cluster
  <1> QED
    BY <1>1, <1>2, <1>3, Zenon DEF Announce

LEMMA ClaimIInv == ASSUME IInv, Claim PROVE IInv'
  <1>1. pc = "claim" /\ UNCHANGED <<lock, objects, applied, outside>>
    BY DEF Claim
  <1>2. CASE Fail
    BY <1>1, <1>2, FailIInv, Zenon
  <1>3. CASE /\ UNCHANGED <<core, cur, snap, todo, seen>>
             /\ pc' = "finalizer" \/ (pc' = "place" /\ lock = cur)
    <2>1. /\ Cluster' /\ cur' \in Cores /\ snap' \in CoreRec /\ core'[cur'] # None
          /\ Exists(cur)' => Older(snap', core'[cur'])
      BY <1>1, <1>3, MoveKeeps, Zenon DEF Exists
    <2>2. ~snap.deleting /\ snap.spec \in DOMAIN Desired /\ todo \subseteq Names
      BY <1>1 DEF IInv, Stage, Claiming
    <2>3. Stage' /\ Looked'
      BY <1>3, <2>1, <2>2, Zenon DEF Stage, Looked, Claiming, Cleaning, Ending, Applying
    <2>4. Snapshot' /\ Holding'
      BY <1>1, <1>3, <2>1 DEF Snapshot, Holding, Planned, Cleaning, Ending, Applying
    <2>5. Agent' /\ Progress'
      BY <1>3, <2>1, Zenon DEF Cluster, Agent, Progress, Applying
    <2> QED
      BY <2>1, <2>3, <2>4, <2>5, Zenon DEF IInv, Cluster
  <1> QED
    BY <1>1, <1>2, <1>3, Zenon DEF Claim

\* The finalizer is written first.
LEMMA PersistFinalizerIInv == ASSUME IInv, PersistFinalizer PROVE IInv'
  <1>1. pc = "finalizer" /\ UNCHANGED <<lock, objects, applied, outside>>
    BY DEF PersistFinalizer
  <1>2. CASE Fail
    BY <1>1, <1>2, FailIInv, Zenon
  <1>3. CASE /\ Current /\ pc' = "lock" /\ UNCHANGED <<cur, snap, todo, seen>>
             /\ core' = [core EXCEPT ![cur].fin = TRUE]
    <2>1. cur \in Cores /\ Exists(cur) /\ snap \in CoreRec /\ Older(snap, core[cur])
      BY <1>1, <1>3, Zenon DEF IInv, Stage, Snapshot, Current
    <2>2. PICK c \in CoreRec : c = core[cur]
      BY <2>1, ExistsIsRecord DEF IInv
    <2> DEFINE d == [c EXCEPT !.fin = TRUE]
    <2>3. /\ d \in CoreRec /\ d.gen = c.gen /\ d.spec = c.spec /\ d.fin
          /\ d.ready = c.ready /\ d.observed = c.observed /\ d.mr = c.mr
      BY Zenon DEF CoreRec
    <2>4. core' = [core EXCEPT ![cur] = d]
      BY <1>3, <2>2, Zenon
    <2> HIDE DEF d
    <2>5. Rewrites(cur, d)
      <3>1. c.observed <= c.gen /\ \A n \in Names : c.mr[n] \in {None} \cup 0..uids
        BY <2>1, <2>2, Zenon DEF IInv, Recorded
      <3>2. c.ready /\ c.observed = c.gen /\ c.spec \in DOMAIN Desired => Desired[c.spec] \subseteq applied'[cur]
        BY <1>1, <2>1, <2>2, Zenon DEF IInv, Progress, ReadyIsApplied
      <3> QED
        BY <2>2, <2>3, <3>1, <3>2, Zenon DEF Rewrites
    <2>6. applied' \in [Cores -> SUBSET Names] /\ \A v \in Cores : applied[v] \subseteq applied'[v]
      BY <1>1 DEF IInv, Stored
    <2>7. Cluster' /\ core'[cur] = d /\ d \notin {None, Gone}
      BY <1>1, <2>1, <2>4, <2>5, <2>6, RewriteKeeps, Zenon
    <2>8. ~snap.deleting /\ snap.spec \in DOMAIN Desired /\ todo \subseteq Names
      BY <1>1 DEF IInv, Stage, Claiming
    <2>9. Stage' /\ Looked'
      BY <1>3, <2>1, <2>8 DEF Stage, Looked, Claiming, Cleaning, Ending, Applying
    <2>10. Snapshot'
      BY <1>3, <2>1, <2>2, <2>3, <2>7, Marks, Zenon DEF Snapshot, Older, Planned, Ending, Applying
    <2>11. Holding'
      BY <1>3, <2>3, <2>7, Zenon DEF Holding, Cleaning, Applying, Exists
    <2>12. Agent' /\ Progress'
      BY <1>3, <2>7, Zenon DEF Cluster, Agent, Progress, Applying
    <2> QED
      BY <2>7, <2>9, <2>10, <2>11, <2>12, Zenon DEF IInv, Cluster
  <1> QED
    BY <1>1, <1>2, <1>3 DEF PersistFinalizer
\* The lock is taken when nobody has it, and so when there are no children.
LEMMA AcquireLockIInv == ASSUME IInv, AcquireLock PROVE IInv'
  <1>1. /\ pc = "lock" /\ lock = None /\ lock' = cur /\ pc' = "place"
        /\ UNCHANGED <<core, cur, snap, todo, seen, objects, applied, outside>>
    BY Zenon DEF AcquireLock
  <1>2. /\ cur \in Cores /\ snap \in CoreRec /\ todo \subseteq Names
        /\ ~snap.deleting /\ snap.spec \in DOMAIN Desired
    BY <1>1, Zenon DEF IInv, Stage, Claiming
  <1>3. Exists(cur) /\ core[cur].fin
    BY <1>1, Zenon DEF IInv, Holding
  <1>4. Stored' /\ Counted' /\ Recorded' /\ Cached' /\ Endpoints'
    BY <1>1, <1>2, Zenon DEF IInv, Stored, Counted, Distinct, Recorded, Cached, Endpoints, OverrideKept, Exists,
                      Owners, objects, outside
  <1>5. Locked'
    <2>1. LockNotStranded'
      BY <1>1, <1>3, Zenon DEF LockNotStranded, Exists
    <2>2. \A n \in Names : ~Made(n) /\ (res[n] # None => res[n].owner = None)
      BY <1>1, Zenon DEF IInv, Locked
    <2> QED
      BY <1>1, <2>1, <2>2, Zenon DEF Locked, Made, objects
  <1>6. Stage' /\ Looked'
    BY <1>1, <1>2, Zenon DEF Stage, Looked, Claiming, Cleaning, Ending, Applying
  <1>7. Snapshot'
    BY <1>1, Zenon DEF IInv, Snapshot, Exists, Planned, Ending, Applying
  <1>8. Holding'
    BY <1>1, Zenon DEF Holding, Cleaning, Applying
  <1>9. Agent' /\ Progress'
    BY <1>1, Zenon DEF IInv, Agent, OneNodeAgent, Progress, ReadyIsApplied, Exists, Applying, objects
  <1> QED
    BY <1>4, <1>5, <1>6, <1>7, <1>8, <1>9, Zenon DEF IInv

\* Whatever stands in the way of the placement stops the reconciliation.
LEMMA PlaceIInv == ASSUME IInv, Place PROVE IInv'
  <1>1. pc = "place" /\ UNCHANGED <<lock, objects, applied, outside>>
    BY DEF Place
  <1>2. CASE Fail
    BY <1>1, <1>2, FailIInv, Zenon
  <1>3. CASE pc' = "discover" /\ UNCHANGED <<core, cur, snap, todo, seen>>
    <2>1. /\ Cluster' /\ cur' \in Cores /\ snap' \in CoreRec /\ core'[cur'] # None
          /\ Exists(cur)' => Older(snap', core'[cur'])
      BY <1>1, <1>3, MoveKeeps, Zenon DEF Exists
    <2>2. ~snap.deleting /\ snap.spec \in DOMAIN Desired /\ todo \subseteq Names /\ lock = cur
      BY <1>1, Zenon DEF IInv, Stage, Holding, Claiming
    <2>3. Stage' /\ Looked'
      BY <1>3, <2>1, <2>2, Zenon DEF Stage, Looked, Claiming, Cleaning, Ending, Applying
    <2>4. Snapshot' /\ Holding'
      BY <1>1, <1>3, <2>1, <2>2, Zenon DEF Snapshot, Holding, Planned, Cleaning, Ending, Applying
    <2>5. Agent' /\ Progress'
      BY <1>3, <2>1, Zenon DEF Cluster, Agent, Progress, Applying
    <2> QED
      BY <2>1, <2>3, <2>4, <2>5, Zenon DEF IInv, Cluster
  <1> QED
    BY <1>1, <1>2, <1>3, Zenon DEF Place

----------------------------------------------------------------------------
(* Cleanup *)

\* discover adds to the inventory and removes nothing from it.
LEMMA DiscoverIInv == ASSUME IInv, Discover PROVE IInv'
  <1>1. pc = "discover" /\ UNCHANGED <<lock, objects, applied, outside>>
    BY DEF Discover
  <1>2. CASE Fail
    BY <1>1, <1>2, FailIInv, Zenon
  <1>3. CASE /\ Current /\ EditStatus([core[cur] EXCEPT !.mr = [n \in Names |-> Found(n)]])
             /\ pc' = "plan" /\ UNCHANGED <<cur, todo, seen>>
    <2>1. cur \in Cores /\ Exists(cur) /\ todo \subseteq Names
      BY <1>1, <1>3, Zenon DEF IInv, Stage, Current
    <2>2. core[cur] \in CoreRec
      BY <2>1, ExistsIsRecord DEF IInv
    <2>3. PICK f : f = [n \in Names |-> Found(n)]
      BY Zenon
    <2>4. \A n \in Names : core[cur].mr[n] \in {None} \cup 0..uids
      BY <2>1, Zenon DEF IInv, Recorded
    <2>5. \A n \in Names : res[n] # None => res[n].uid \in 1..uids
      BY Zenon DEF IInv, Counted
    <2>6. uids \in Nat /\ 1..uids \subseteq 0..uids /\ 0..uids \subseteq Nat
      BY DEF IInv, Counted
    <2>7. \A n \in Names : /\ f[n] = core[cur].mr[n] \/ f[n] \in 1..uids
                           /\ f[n] \in {None} \cup 0..uids
      BY <2>3, <2>4, <2>5, <2>6, Zenon DEF Found
    <2>8. \A n \in Names : core[cur].mr[n] # None => f[n] # None
      BY <2>6, <2>7, Marks, Zenon
    <2>9. f \in [Names -> Nat \cup {None}]
      BY <2>3, <2>6, <2>7, Zenon
    <2>10. applied' \in [Cores -> SUBSET Names] /\ \A v \in Cores : applied[v] \subseteq applied'[v]
      BY <1>1 DEF IInv, Stored
    <2>11. EditStatus([core[cur] EXCEPT !.mr = f])
      BY <1>3, <2>3, Zenon
    <2>12. /\ Cluster' /\ core'[cur].mr = f /\ core'[cur] \in CoreRec
           /\ snap' \in CoreRec /\ snap'.mr = f /\ Older(snap', core'[cur])
           /\ snap'.spec = snap.spec /\ snap'.deleting = snap.deleting
      BY <1>1, <2>1, <2>6, <2>7, <2>8, <2>9, <2>10, <2>11, EditStatusKeeps, Zenon
    <2>13. Stage' /\ Looked'
      BY <1>1, <1>3, <2>1, <2>12, Zenon DEF IInv, Stage, Looked, Claiming, Cleaning, Ending, Applying
    <2>14. Snapshot'
      BY <1>3, <2>12, Marks, Zenon DEF Snapshot
    <2>15. Holding'
      BY <1>1, <1>3, <2>12, Zenon DEF IInv, Holding, Cleaning, Applying
    <2>16. Agent'
      BY <1>3, <2>12, Zenon DEF Agent, Cluster, Applying
    <2>17. Progress'
      BY <1>3, <2>12, Zenon DEF Cluster, Progress, Applying
    <2> QED
      BY <2>12, <2>13, <2>14, <2>15, <2>16, <2>17, Zenon DEF IInv, Cluster
  <1> QED
    BY <1>1, <1>2, <1>3 DEF Discover
\* The inventory that Plan keeps has every child of the core.
LEMMA KeptInventory ==
    ASSUME IInv, pc = "plan", Exists(cur),
           NEW f, f = [n \in Names |-> IF n \in Listed THEN snap.mr[n] ELSE None]
    PROVE  /\ f \in [Names -> Nat \cup {None}]
           /\ \A n \in Names : f[n] \in {None} \cup 0..uids
           /\ \A n \in Names : res[n] # None /\ res[n].owner = cur => n \in Listed
           /\ \A n \in Names : res[n] # None /\ core[cur].mr[n] # None => n \in Listed /\ f[n] # None
  <1>1. cur \in Cores /\ snap \in CoreRec /\ snap.mr = core[cur].mr
    BY Zenon DEF IInv, Stage, Snapshot, Planned
  <1>2. snap.mr \in [Names -> Nat \cup {None}]
    BY <1>1, CoreFields, Zenon
  <1>3. \A n \in Names : snap.mr[n] \in {None} \cup 0..uids
    BY <1>1, Zenon DEF IInv, Recorded
  <1>4. \A n \in Names : res[n] # None /\ core[cur].mr[n] # None => n \in Listed
    BY <1>1, Zenon DEF Listed
  <1>5. \A n \in Names : res[n] # None /\ res[n].owner = cur => core[cur].mr[n] # None
    BY <1>1, Marks, OperatorAssumption, Zenon DEF IInv, Locked
  <1> QED
    BY <1>1, <1>2, <1>3, <1>4, <1>5, Zenon

\* A conflict: the inventory and the status are written.
LEMMA PlanConflictIInv ==
    ASSUME IInv, pc = "plan", Current, Stop, UNCHANGED <<lock, objects, applied, outside>>,
           core' = [core EXCEPT ![cur] = [Kept EXCEPT !.ready = FALSE, !.observed = snap.gen]]
    PROVE  IInv'
  <1>1. cur \in Cores /\ Exists(cur) /\ snap \in CoreRec /\ core[cur].gen = snap.gen
    BY DEF IInv, Stage, Current
  <1>2. PICK f : f = [n \in Names |-> IF n \in Listed THEN snap.mr[n] ELSE None]
    BY Zenon
  <1>3. /\ f \in [Names -> Nat \cup {None}]
        /\ \A n \in Names : f[n] \in {None} \cup 0..uids
        /\ \A n \in Names : res[n] # None /\ core[cur].mr[n] # None => f[n] # None
    BY <1>1, <1>2, KeptInventory
  <1>4. PICK c \in CoreRec : c = core[cur]
    BY <1>1, ExistsIsRecord DEF IInv
  <1>5. PICK g \in Nat : g = snap.gen
    BY <1>1, CoreFields
  <1> DEFINE d == [[c EXCEPT !.mr = f] EXCEPT !.ready = FALSE, !.observed = g]
  <1>6. /\ d \in CoreRec /\ d.gen = c.gen /\ d.spec = c.spec /\ d.fin = c.fin /\ d.mr = f
        /\ ~d.ready /\ d.observed = g
    <2>1. [c EXCEPT !.mr = f] \in CoreRec
      BY <1>3 DEF CoreRec
    <2> QED
      BY <1>3, <2>1, Zenon DEF CoreRec
  <1>7. core' = [core EXCEPT ![cur] = d]
    BY <1>2, <1>4, <1>5, Zenon DEF Kept
  <1> HIDE DEF d
  <1>8. Rewrites(cur, d)
    BY <1>1, <1>3, <1>4, <1>5, <1>6 DEF Rewrites
  <1>9. applied' \in [Cores -> SUBSET Names] /\ \A v \in Cores : applied[v] \subseteq applied'[v]
    BY DEF IInv, Stored
  <1>10. Cluster'
    BY <1>1, <1>7, <1>8, <1>9, RewriteKeeps, Zenon
  <1> QED
    BY <1>10, StopIInv, Zenon

\* Without a conflict, what is not wanted is deleted before anything is applied;
\* the lock is released only when the core has no child.
LEMMA PlanIInv == ASSUME IInv, Plan PROVE IInv'
  <1>1. pc = "plan" /\ UNCHANGED <<lock, objects, applied, outside>>
    BY DEF Plan
  <1>2. CASE Fail
    BY <1>1, <1>2, FailIInv
  <1>3. CASE /\ Current /\ Stop
             /\ core' = [core EXCEPT ![cur] = [Kept EXCEPT !.ready = FALSE, !.observed = snap.gen]]
    BY <1>1, <1>3, PlanConflictIInv, Zenon
  <1>4. CASE /\ Current /\ (\A n \in Listed : ~Problem(n)) /\ EditStatus(Kept) /\ cur' = cur
             /\ IF Obsolete # {}
                THEN pc' = "delete" /\ todo' = Obsolete /\ seen' = [n \in Obsolete |-> res[n]]
                ELSE /\ pc' = IF snap.deleting THEN "unlock" ELSE "apply"
                     /\ todo' = Wanted /\ UNCHANGED seen
    <2>1. cur \in Cores /\ Exists(cur)
      BY <1>1, <1>4, Zenon DEF IInv, Stage, Current
    <2>2. PICK f : f = [n \in Names |-> IF n \in Listed THEN snap.mr[n] ELSE None]
      BY Zenon
    <2>3. /\ f \in [Names -> Nat \cup {None}]
          /\ \A n \in Names : f[n] \in {None} \cup 0..uids
          /\ \A n \in Names : res[n] # None /\ res[n].owner = cur => n \in Listed
          /\ \A n \in Names : res[n] # None /\ core[cur].mr[n] # None => n \in Listed /\ f[n] # None
      BY <1>1, <2>1, <2>2, KeptInventory, Zenon
    <2>4. applied' \in [Cores -> SUBSET Names] /\ \A v \in Cores : applied[v] \subseteq applied'[v]
      BY <1>1, Zenon DEF IInv, Stored
    <2>5. EditStatus([core[cur] EXCEPT !.mr = f])
      BY <1>4, <2>2 DEF Kept
    <2>6. /\ Cluster' /\ core'[cur].mr = f /\ core'[cur] \in CoreRec
          /\ snap' \in CoreRec /\ snap'.mr = f /\ Older(snap', core'[cur])
          /\ snap'.spec = snap.spec /\ snap'.deleting = snap.deleting
      BY <1>1, <2>1, <2>3, <2>4, <2>5, EditStatusKeeps, Zenon
    <2>7. Obsolete \subseteq Listed /\ Listed \subseteq Names
      BY Zenon DEF Obsolete, Listed
    <2>8. \A n \in Listed : res[n] \in ObjectRec /\ res[n].owner = cur
      BY <1>4, Zenon DEF IInv, Counted, ObjectMap, Listed, Problem
    <2>9. ~snap.deleting => snap.spec \in DOMAIN Desired /\ lock = cur
      BY <1>1, Zenon DEF IInv, Stage, Holding, Cleaning
    <2>10. Snapshot' /\ pc' # "idle"
      BY <1>4, <2>6, Marks, Zenon DEF Snapshot
    <2>11. CASE Obsolete # {}
      <3>1. pc' = "delete" /\ todo' = Obsolete /\ seen' = [n \in Obsolete |-> res[n]]
        BY <1>4, <2>11, Zenon
      <3>2. Stage'
        BY <1>4, <2>1, <2>6, <2>7, <2>9, <3>1, Zenon DEF Stage, Claiming, Cleaning, Ending, Applying
      <3>3. Looked'
        BY <1>4, <2>7, <2>8, <3>1, Zenon DEF Looked
      <3>4. Holding'
        BY <1>1, <1>4, <2>6, <2>9, <3>1, Zenon DEF Holding, Cleaning, Applying
      <3>5. Agent' /\ Progress'
        BY <2>6, <3>1, Zenon DEF Cluster, Agent, Progress, Applying
      <3> QED
        BY <2>6, <2>10, <3>2, <3>3, <3>4, <3>5, Zenon DEF IInv, Cluster
    <2>12. CASE Obsolete = {} /\ snap.deleting
      <3>1. pc' = "unlock" /\ todo' = {}
        BY <1>4, <2>12, Zenon DEF Wanted
      <3>2. Listed = {}
        BY <2>12, Zenon DEF Obsolete, Wanted
      <3>3. Stage' /\ Looked'
        BY <1>4, <2>1, <2>6, <2>12, <3>1, Zenon DEF Stage, Looked, Claiming, Cleaning, Ending, Applying
      <3>4. Holding'
        <4>1. \A n \in Names : res[n] # None => res[n].owner # cur
          BY <2>3, <3>2, Zenon
        <4>2. lock = cur => \A n \in Names : ~Made(n)
          BY <2>3, <3>2, Zenon DEF IInv, Locked, Made
        <4> QED
          BY <1>1, <1>4, <3>1, <4>1, <4>2, Zenon DEF Holding, Cleaning, Applying, Made, objects
      <3>5. Agent' /\ Progress'
        BY <2>6, <3>1, Zenon DEF Cluster, Agent, Progress, Applying
      <3> QED
        BY <2>6, <2>10, <3>3, <3>4, <3>5, Zenon DEF IInv, Cluster
    <2>13. CASE Obsolete = {} /\ ~snap.deleting
      <3>1. pc' = "apply" /\ todo' = Desired[snap.spec]
        BY <1>4, <2>13 DEF Wanted
      <3>2. Listed \subseteq Desired[snap.spec]
        BY <2>13, Zenon DEF Obsolete, Wanted
      <3>3. Stage' /\ Looked'
        BY <1>4, <2>1, <2>6, <2>9, <2>13, <3>1, DesiredNames, Zenon DEF Stage, Looked, Claiming, Cleaning, Ending, Applying
      <3>4. Holding'
        BY <1>1, <1>4, <2>9, <2>13, <3>1, Zenon DEF Holding, Cleaning, Applying
      <3>5. \A n \in Names : Made(n) => n \in Desired[snap.spec]
        <4>1. \A n \in Names : Made(n) => res[n] # None /\ core[cur].mr[n] # None
          BY <2>9, <2>13 DEF IInv, Locked, Made
        <4> QED
          BY <2>3, <3>2, <4>1, Zenon
      <3>6. \A n \in Names : Made(n)' <=> Made(n)
        BY <1>1, Zenon DEF Made, objects
      <3>7. Agent' /\ Progress'
        BY <2>6, <3>1, <3>5, <3>6, Zenon DEF Cluster, Agent, Progress
      <3> QED
        BY <2>6, <2>10, <3>3, <3>4, <3>7, Zenon DEF IInv, Cluster
    <2> QED
      BY <2>11, <2>12, <2>13, Zenon
  <1> QED
    BY <1>1, <1>2, <1>3, <1>4, Zenon DEF Plan

LEMMA CheckDeleteIInv == ASSUME IInv, CheckDelete PROVE IInv'
  <1>1. pc = "delete" /\ UNCHANGED <<lock, objects, applied, outside>>
    BY DEF CheckDelete, Check
  <1>2. CASE Fail
    BY <1>1, <1>2, FailIInv, Zenon
  <1>3. CASE pc' = "remove" /\ UNCHANGED <<core, cur, snap, todo, seen>>
    <2>1. Cluster'
      BY <1>1, <1>3, ClusterKept, Zenon
    <2>2. Stage' /\ Looked'
      BY <1>1, <1>3, Zenon DEF IInv, Stage, Looked, Claiming, Cleaning, Ending, Applying
    <2>3. Snapshot' /\ Holding'
      BY <1>1, <1>3, Zenon DEF IInv, Snapshot, Holding, Exists, Planned, Cleaning, Applying
    <2>4. Agent' /\ Progress'
      BY <1>3, <2>1, Zenon DEF Cluster, Agent, Progress, Applying
    <2> QED
      BY <2>1, <2>2, <2>3, <2>4, Zenon DEF IInv, Cluster
  <1> QED
    BY <1>1, <1>2, <1>3, Zenon DEF CheckDelete, Check

\* An obsolete object is deleted as it was read, or not at all.
LEMMA DeleteIInv == ASSUME IInv, NEW n \in Names, Delete(n) PROVE IInv'
  <1>1. pc = "remove" /\ n \in todo /\ UNCHANGED <<lock, uids, made, custom, applied, outside>>
    BY DEF Delete
  <1>2. CASE Fail /\ UNCHANGED res
    BY <1>1, <1>2, FailIInv, Zenon DEF objects
  <1>3. CASE pc' = "delete" /\ todo' = todo \ {n} /\ UNCHANGED <<core, cur, snap, seen, res>>
    <2>1. Cluster'
      BY <1>1, <1>3, ClusterKept, Zenon DEF objects
    <2>2. Stage' /\ Looked'
      BY <1>1, <1>3, Zenon DEF IInv, Stage, Looked, Claiming, Cleaning, Ending, Applying
    <2>3. Snapshot' /\ Holding'
      BY <1>1, <1>3, Zenon DEF IInv, Snapshot, Holding, Exists, Planned, Cleaning, Applying
    <2>4. Agent' /\ Progress'
      BY <1>1, <1>3, <2>1, Zenon DEF Cluster, Agent, Progress, Applying
    <2> QED
      BY <2>1, <2>2, <2>3, <2>4, Zenon DEF IInv, Cluster
  <1>4. CASE /\ res[n] # None /\ res' = [res EXCEPT ![n].deleting = TRUE]
             /\ pc' = "delete" /\ todo' = todo \ {n} /\ UNCHANGED <<core, cur, snap, seen>>
    <2> DEFINE o == [res[n] EXCEPT !.deleting = TRUE]
    <2>1. res' = [res EXCEPT ![n] = o]
      BY <1>4
    <2>2. res[n] \in ObjectRec
      BY <1>4 DEF IInv, Counted, ObjectMap
    <2>3. /\ o \in ObjectRec /\ o.owner = res[n].owner /\ o.uid = res[n].uid
          /\ o.env = res[n].env /\ o.def = res[n].def
      BY <2>2, Zenon DEF ObjectRec
    <2> HIDE DEF o
    <2>4. /\ Shrinks /\ res'[n] = o /\ o.uid \in 1..uids /\ Distinct'
          /\ \A m \in Names : m # n => res'[m] = res[m]
      BY <1>4, <2>1, <2>3, ObjectEdited, Zenon
    <2>5. Counted'
      BY <1>1, <2>4, Zenon DEF IInv, Counted, Shrinks, outside
    <2>6. Endpoints'
      BY <1>1, <1>4, <2>3, <2>4 DEF IInv, Endpoints, OverrideKept
    <2>7. Locked' /\ OneNodeAgent'
      BY <1>1, <1>4, <2>4, ShrinkKeeps, Zenon
    <2>8. Stored' /\ Recorded' /\ Cached' /\ ReadyIsApplied'
      BY <1>1, <1>4, Zenon DEF IInv, Stored, Recorded, Cached, Progress, ReadyIsApplied, Exists, outside
    <2>9. Stage' /\ Looked'
      BY <1>1, <1>4, Zenon DEF IInv, Stage, Looked, Claiming, Cleaning, Ending, Applying
    <2>10. Snapshot'
      BY <1>1, <1>4, Zenon DEF IInv, Snapshot, Exists, Planned
    <2>11. Holding'
      BY <1>1, <1>4, Zenon DEF IInv, Holding, Cleaning, Applying
    <2>12. Agent' /\ Progress'
      BY <1>1, <1>4, <2>7, <2>8, Zenon DEF Agent, Progress, Applying
    <2> QED
      BY <2>5, <2>6, <2>7, <2>8, <2>9, <2>10, <2>11, <2>12, Zenon DEF IInv
  <1> QED
    BY <1>1, <1>2, <1>3, <1>4 DEF Delete

LEMMA DeletedIInv == ASSUME IInv, Deleted PROVE IInv'
  BY FailIInv, Zenon DEF Deleted

\* A core without children gives the lock back if it has it.
LEMMA ReleaseLockIInv == ASSUME IInv, ReleaseLock PROVE IInv'
  <1>1. pc = "unlock" /\ UNCHANGED <<objects, applied, outside>>
    BY Zenon DEF ReleaseLock
  <1>2. CASE Fail /\ UNCHANGED lock
    BY <1>1, <1>2, FailIInv, Zenon
  <1>3. CASE /\ lock' = (IF lock = cur THEN None ELSE lock) /\ pc' = "drop"
             /\ UNCHANGED <<core, cur, snap, todo, seen>>
    <2>1. cur \in Cores /\ cur # None /\ snap.deleting
      BY <1>1, Marks, OperatorAssumption, Zenon DEF IInv, Stage, Ending
    <2>2. Stored' /\ Counted' /\ Recorded' /\ Cached' /\ Endpoints'
      BY <1>1, <1>3, Zenon DEF IInv, Stored, Counted, Distinct, Recorded, Cached, Endpoints, OverrideKept, Exists,
                        Owners, objects, outside
    <2>3. /\ \A n \in Names : res[n] # None => res[n].owner # cur
          /\ lock = cur => \A n \in Names : ~Made(n)
      BY <1>1, Zenon DEF IInv, Holding
    <2>4. Locked'
      BY <1>1, <1>3, <2>3, Zenon DEF IInv, Locked, LockNotStranded, Exists, Made, objects
    <2>5. Stage' /\ Looked'
      BY <1>1, <1>3, <2>1, Zenon DEF IInv, Stage, Looked, Claiming, Cleaning, Ending, Applying
    <2>6. Snapshot'
      BY <1>1, <1>3, Zenon DEF IInv, Snapshot, Exists, Planned, Ending
    <2>7. Holding'
      BY <1>3, <2>1, Zenon DEF Holding, Cleaning, Applying
    <2>8. Agent' /\ Progress'
      BY <1>1, <1>3, Zenon DEF IInv, Agent, OneNodeAgent, Progress, ReadyIsApplied, Exists, Applying, objects
    <2> QED
      BY <2>2, <2>4, <2>5, <2>6, <2>7, <2>8 DEF IInv
  <1> QED
    BY <1>1, <1>2, <1>3, Zenon DEF ReleaseLock

\* The core goes when it does not hold the lock.
LEMMA DropFinalizerIInv == ASSUME IInv, DropFinalizer PROVE IInv'
  <1>1. /\ pc = "drop" /\ Stop /\ UNCHANGED <<lock, objects, applied, outside>>
        /\ core' = core \/ core' = [core EXCEPT ![cur] = Gone]
    BY Zenon DEF DropFinalizer
  <1>2. CASE core' = core
    BY <1>1, <1>2, ClusterKept, StopIInv, Zenon
  <1>3. CASE core' = [core EXCEPT ![cur] = Gone]
    <2>1. cur \in Cores /\ lock # cur
      BY <1>1, Zenon DEF IInv, Stage, Holding
    <2>2. /\ core' \in [Cores -> CoreRec \cup {None, Gone}] /\ core'[cur] = Gone
          /\ \A v \in Cores : v # cur => core'[v] = core[v]
      BY <1>3, <2>1, Zenon DEF IInv, Stored
    <2>3. \A v \in Cores : core'[v] \notin {None, Gone} => v # cur /\ Exists(v) /\ core'[v] = core[v]
      BY <2>2, Zenon DEF Exists
    <2>4. Stored' /\ Counted' /\ Endpoints' /\ OneNodeAgent'
      BY <1>1, <2>2, Zenon DEF IInv, Stored, Counted, Distinct, Endpoints, OverrideKept, Agent, OneNodeAgent,
                        objects, outside
    <2>5. Recorded' /\ ReadyIsApplied'
      BY <1>1, <2>3, Zenon DEF IInv, Recorded, Progress, ReadyIsApplied, Exists, objects
    <2>6. Cached'
      BY <1>1, <2>2, <2>3, Marks, Zenon DEF IInv, Cached, Exists, outside
    <2>7. Locked'
      <3>1. lock # None => lock \in Cores /\ core'[lock] = core[lock]
        BY <2>1, <2>2 DEF IInv, Stored, Owners
      <3> QED
        BY <1>1, <3>1, Zenon DEF IInv, Locked, LockNotStranded, Exists, Made, objects
    <2>8. Cluster'
      BY <2>4, <2>5, <2>6, <2>7, Zenon DEF Cluster
    <2> QED
      BY <1>1, <2>8, StopIInv, Zenon
  <1> QED
    BY <1>1, <1>2, <1>3, Zenon
----------------------------------------------------------------------------
(* Applying one object after another *)

\* What holds in every stage of the application.
LEMMA ApplyingFacts ==
    ASSUME IInv, pc \in Applying
    PROVE  /\ pc # "idle" /\ cur \in Cores /\ cur # None /\ snap \in CoreRec /\ todo \subseteq Names
           /\ ~snap.deleting /\ snap.spec \in DOMAIN Desired /\ todo \subseteq Desired[snap.spec]
           /\ lock = cur /\ Exists(cur) /\ core[cur] \in CoreRec
           /\ Older(snap, core[cur]) /\ snap.mr = core[cur].mr
           /\ core[cur].gen = snap.gen => Desired[snap.spec] \ todo \subseteq applied[cur]
           /\ \A n \in Agents \cap Names : Made(n) => n \in Desired[snap.spec]
  <1>1. /\ pc \notin {"idle", "refuse"} /\ cur \in Cores /\ snap \in CoreRec /\ todo \subseteq Names
        /\ ~snap.deleting /\ snap.spec \in DOMAIN Desired /\ todo \subseteq Desired[snap.spec]
    BY Zenon DEF IInv, Stage, Applying
  <1>2. lock = cur /\ cur # None
    BY <1>1, Marks, OperatorAssumption, Zenon DEF IInv, Holding
  <1>3. Exists(cur)
    BY <1>2, Zenon DEF IInv, Locked, LockNotStranded
  <1>4. core[cur] \in CoreRec
    BY <1>1, <1>3, ExistsIsRecord, Zenon DEF IInv
  <1>5. Older(snap, core[cur]) /\ snap.mr = core[cur].mr
    BY <1>1, <1>3, Zenon DEF IInv, Snapshot, Planned
  <1>6. /\ core[cur].gen = snap.gen => Desired[snap.spec] \ todo \subseteq applied[cur]
        /\ \A n \in Agents \cap Names : Made(n) => n \in Desired[snap.spec]
    BY Zenon DEF IInv, Progress, Agent
  <1> QED
    BY <1>1, <1>2, <1>3, <1>4, <1>5, <1>6, Zenon

\* A step to another stage of the application that reads only.
LEMMA ApplyMoves ==
    ASSUME IInv, pc \in Applying, pc' \in Applying \ {"report"},
           UNCHANGED <<core, lock, objects, applied, outside, cur, snap, todo>>, Looked',
           pc' \in {"check", "create"} => core[cur].mr[seen] # None /\ seen' = seen
    PROVE  IInv'
  <1>1. /\ cur \in Cores /\ snap \in CoreRec /\ todo \subseteq Names
        /\ ~snap.deleting /\ snap.spec \in DOMAIN Desired /\ todo \subseteq Desired[snap.spec]
        /\ lock = cur /\ Exists(cur) /\ Older(snap, core[cur]) /\ snap.mr = core[cur].mr
        /\ core[cur].gen = snap.gen => Desired[snap.spec] \ todo \subseteq applied[cur]
        /\ \A n \in Agents \cap Names : Made(n) => n \in Desired[snap.spec]
    BY ApplyingFacts
  <1>2. Cluster'
    BY ClusterKept, Zenon
  <1>3. Stage'
    BY <1>1 DEF Stage, Claiming, Cleaning, Ending, Applying
  <1>4. Snapshot'
    BY <1>1, Zenon DEF Snapshot, Exists
  <1>5. Holding'
    BY <1>1, Zenon DEF Holding, Cleaning, Applying
  <1>6. \A n \in Names : Made(n)' <=> Made(n)
    BY DEF Made, objects
  <1>7. Agent' /\ Progress'
    BY <1>1, <1>2, <1>6, Zenon DEF Cluster, Agent, Progress, Applying
  <1> QED
    BY <1>2, <1>3, <1>4, <1>5, <1>7, Zenon DEF IInv, Cluster

\* A step that writes inventory f and goes on.
LEMMA ApplyRecords ==
    ASSUME IInv, pc \in Applying, pc' \in Applying,
           NEW f \in [Names -> Nat \cup {None}], \A n \in Names : f[n] \in {None} \cup 0..uids,
           \A n \in Names : core[cur].mr[n] # None => f[n] # None,
           EditStatus([core[cur] EXCEPT !.mr = f]),
           UNCHANGED <<lock, objects, outside, cur>>, applied' \in [Cores -> SUBSET Names],
           \A v \in Cores : applied[v] \subseteq applied'[v],
           todo' \subseteq todo, pc' = "report" => todo' = {}, todo \ todo' \subseteq applied'[cur], Looked',
           pc' \in {"check", "create"} => f[seen'] # None
    PROVE  IInv'
  <1>1. /\ pc # "idle" /\ cur \in Cores /\ cur # None /\ snap \in CoreRec /\ todo \subseteq Names
        /\ ~snap.deleting /\ snap.spec \in DOMAIN Desired /\ todo \subseteq Desired[snap.spec]
        /\ lock = cur /\ Exists(cur)
        /\ core[cur].gen = snap.gen => Desired[snap.spec] \ todo \subseteq applied[cur]
        /\ \A n \in Agents \cap Names : Made(n) => n \in Desired[snap.spec]
    BY ApplyingFacts, Zenon
  <1>2. /\ Cluster' /\ core'[cur].mr = f /\ core'[cur].gen = core[cur].gen /\ core'[cur] \in CoreRec
        /\ snap' \in CoreRec /\ snap'.mr = f /\ Older(snap', core'[cur])
        /\ snap'.gen = snap.gen /\ snap'.spec = snap.spec /\ snap'.deleting = snap.deleting
    BY <1>1, EditStatusKeeps, Zenon
  <1>3. Stage'
    BY <1>1, <1>2, Zenon DEF Stage, Claiming, Cleaning, Ending, Applying
  <1>4. Snapshot'
    BY <1>2, Marks, Zenon DEF Snapshot
  <1>5. Holding'
    BY <1>1, <1>2, Zenon DEF Holding, Cleaning, Applying
  <1>6. \A n \in Names : Made(n)' <=> Made(n)
    BY Zenon DEF Made, objects
  <1>7. Agent'
    BY <1>1, <1>2, <1>6, Zenon DEF Cluster, Agent, Applying
  <1>8. Progress'
    <2>1. core[cur].gen = snap.gen => Desired[snap.spec] \ todo' \subseteq applied'[cur]
      BY <1>1
    <2> QED
      BY <1>2, <2>1, Zenon DEF Cluster, Progress
  <1> QED
    BY <1>2, <1>3, <1>4, <1>5, <1>7, <1>8, Zenon DEF IInv, Cluster

\* What remember writes.
LEMMA RememberedInventory ==
    ASSUME IInv, pc \in Applying, NEW n \in Names, NEW id \in 0..uids
    PROVE  \E f \in [Names -> Nat \cup {None}] :
              /\ Remembered(n, id) = [core[cur] EXCEPT !.mr = f] /\ f[n] # None
              /\ \A m \in Names : f[m] \in {None} \cup 0..uids
              /\ \A m \in Names : core[cur].mr[m] # None => f[m] # None
  <1>1. core[cur] \in CoreRec /\ Exists(cur) /\ cur \in Cores
    BY ApplyingFacts, Zenon
  <1>2. core[cur].mr \in [Names -> Nat \cup {None}]
    BY <1>1, CoreFields, Zenon
  <1>3. \A m \in Names : core[cur].mr[m] \in {None} \cup 0..uids
    BY <1>1, Zenon DEF IInv, Recorded
  <1>4. id \in Nat /\ id # None
    BY Marks DEF IInv, Counted
  <1> DEFINE f == [core[cur].mr EXCEPT ![n] = IF id # 0 \/ @ = None THEN id ELSE @]
  <1>5. Remembered(n, id) = [core[cur] EXCEPT !.mr = f]
    BY Zenon DEF Remembered
  <1>6. f \in [Names -> Nat \cup {None}]
    BY <1>2, <1>4, Zenon
  <1>7. f[n] # None /\ f[n] \in {None} \cup 0..uids /\ \A m \in Names : m # n => f[m] = core[cur].mr[m]
    BY <1>2, <1>3, <1>4, Zenon
  <1> HIDE DEF f
  <1> QED
    BY <1>3, <1>5, <1>6, <1>7, Zenon

\* The object enters the inventory before it is looked at.
LEMMA IntentIInv == ASSUME IInv, NEW n \in Names, Intent(n) PROVE IInv'
  <1>1. pc = "apply" /\ n \in todo /\ UNCHANGED <<lock, objects, applied, outside>>
    BY Zenon DEF Intent
  <1>2. pc \in Applying /\ pc # "idle"
    BY <1>1, Zenon DEF Applying
  <1>3. CASE Fail
    BY <1>1, <1>2, <1>3, FailIInv, Zenon
  <1>4. CASE EditStatus(Remembered(n, 0)) /\ pc' = "get" /\ seen' = n /\ UNCHANGED <<cur, todo>>
    <2>1. 0 \in 0..uids
      BY DEF IInv, Counted
    <2>2. PICK f \in [Names -> Nat \cup {None}] :
              /\ Remembered(n, 0) = [core[cur] EXCEPT !.mr = f] /\ f[n] # None
              /\ \A m \in Names : f[m] \in {None} \cup 0..uids
              /\ \A m \in Names : core[cur].mr[m] # None => f[m] # None
      BY <1>2, <2>1, RememberedInventory, Zenon
    <2>3. Looked' /\ pc' \in Applying
      BY <1>1, <1>4, Zenon DEF Looked, Applying
    <2>4. applied' \in [Cores -> SUBSET Names] /\ \A v \in Cores : applied[v] \subseteq applied'[v]
      BY <1>1 DEF IInv, Stored
    <2>5. EditStatus([core[cur] EXCEPT !.mr = f])
      BY <1>4, <2>2, Zenon
    <2>6. todo' \subseteq todo /\ todo \ todo' \subseteq applied'[cur]
      BY <1>4, Zenon
    <2>7. pc' # "report" /\ pc' \notin {"check", "create"}
      BY <1>4
    <2>8. UNCHANGED <<lock, objects, outside, cur>>
      BY <1>1, <1>4, Zenon
    <2> QED
      BY <1>2, <2>2, <2>3, <2>4, <2>5, <2>6, <2>7, <2>8, ApplyRecords, Zenon
  <1> QED
    BY <1>1, <1>3, <1>4, Zenon DEF Intent
\* What is there is read; it must be the core's own.
LEMMA GetIInv == ASSUME IInv, Get PROVE IInv'
  <1>1. pc = "get" /\ UNCHANGED <<lock, objects, applied, outside>>
    BY DEF Get
  <1>2. pc \in Applying /\ pc # "idle"
    BY <1>1, Zenon DEF Applying
  <1>3. seen \in todo /\ todo \subseteq Names
    BY <1>1, <1>2, ApplyingFacts, Zenon DEF IInv, Looked
  <1>4. CASE Fail
    BY <1>1, <1>2, <1>4, FailIInv, Zenon
  <1>5. CASE pc' = "intent" /\ UNCHANGED <<core, cur, snap, todo, seen>>
    <2>1. Looked' /\ pc' \in Applying \ {"report"} /\ pc' \notin {"check", "create"}
      BY <1>3, <1>5, Zenon DEF Looked, Applying
    <2> QED
      BY <1>1, <1>2, <1>5, <2>1, ApplyMoves, Zenon
  <1>6. CASE /\ res[seen] # None /\ ~Problem(seen) /\ pc' \in {"remember", "patch"}
             /\ seen' = [n |-> seen, o |-> res[seen]] /\ UNCHANGED <<core, cur, snap, todo>>
    <2>1. res[seen] \in ObjectRec /\ res[seen].uid \in 1..uids /\ res[seen].owner = cur
      BY <1>3, <1>6, Zenon DEF IInv, Counted, ObjectMap, Problem
    <2>2. /\ seen' \in [n : todo, o : ObjectRec] /\ seen'.o = res[seen]
      BY <1>3, <1>6, <2>1, Zenon
    <2>3. Looked' /\ pc' \in Applying \ {"report"} /\ pc' \notin {"check", "create"}
      BY <1>1, <1>6, <2>1, <2>2, Zenon DEF Looked, Applying, objects
    <2> QED
      BY <1>1, <1>2, <1>6, <2>3, ApplyMoves, Zenon
  <1> QED
    BY <1>1, <1>4, <1>5, <1>6, Zenon DEF Get

\* creationIntent: on record before it is created.
LEMMA CreationIntentIInv == ASSUME IInv, CreationIntent PROVE IInv'
  <1>1. pc = "intent" /\ UNCHANGED <<lock, objects, applied, outside>>
    BY DEF CreationIntent
  <1>2. pc \in Applying /\ pc # "idle"
    BY <1>1 DEF Applying
  <1>3. /\ seen \in todo /\ seen \in Names /\ cur \in Cores /\ Exists(cur) /\ core[cur] \in CoreRec
    BY <1>1, <1>2, ApplyingFacts, Zenon DEF IInv, Looked
  <1>4. CASE Fail
    BY <1>1, <1>2, <1>4, FailIInv, Zenon
  <1>5. CASE /\ EditStatus([core[cur] EXCEPT !.mr[seen] = 0])
             /\ pc' = "check" /\ UNCHANGED <<cur, todo, seen>>
    <2>1. PICK f : f = [core[cur].mr EXCEPT ![seen] = 0]
      BY Zenon
    <2>2. core[cur].mr \in [Names -> Nat \cup {None}]
      BY <1>3, CoreFields, Zenon
    <2>3. \A m \in Names : core[cur].mr[m] \in {None} \cup 0..uids
      BY <1>3, Zenon DEF IInv, Recorded
    <2>4. 0 \in 0..uids
      BY DEF IInv, Counted
    <2>5. f \in [Names -> Nat \cup {None}] /\ f[seen] = 0 /\ \A m \in Names : m # seen => f[m] = core[cur].mr[m]
      BY <1>3, <2>1, <2>2, Zenon
    <2>6. /\ \A m \in Names : f[m] \in {None} \cup 0..uids
          /\ \A m \in Names : core[cur].mr[m] # None => f[m] # None
          /\ f[seen'] # None
      BY <1>3, <1>5, <2>3, <2>4, <2>5, Marks, Zenon
    <2>7. Looked' /\ pc' \in Applying /\ pc' # "report"
      BY <1>3, <1>5, Zenon DEF Looked, Applying
    <2>8. applied' \in [Cores -> SUBSET Names] /\ \A v \in Cores : applied[v] \subseteq applied'[v]
      BY <1>1 DEF IInv, Stored
    <2>9. EditStatus([core[cur] EXCEPT !.mr = f])
      BY <1>5, <2>1
    <2>10. todo' \subseteq todo /\ todo \ todo' \subseteq applied'[cur]
      BY <1>5
    <2>11. UNCHANGED <<lock, objects, outside, cur>>
      BY <1>1, <1>5, Zenon
    <2> QED
      BY <1>2, <2>5, <2>6, <2>7, <2>8, <2>9, <2>10, <2>11, ApplyRecords, Zenon
  <1> QED
    BY <1>1, <1>4, <1>5, Zenon DEF CreationIntent

LEMMA CheckCreateIInv == ASSUME IInv, CheckCreate PROVE IInv'
  <1>1. pc = "check" /\ UNCHANGED <<lock, objects, applied, outside>>
    BY DEF CheckCreate, Check
  <1>2. pc \in Applying /\ pc # "idle"
    BY <1>1 DEF Applying
  <1>3. CASE Fail
    BY <1>1, <1>2, <1>3, FailIInv, Zenon
  <1>4. CASE pc' = "create" /\ UNCHANGED <<core, cur, snap, todo, seen>>
    <2>1. core[cur].mr[seen] # None
      BY <1>1, Zenon DEF IInv, Holding
    <2>2. Looked' /\ pc' \in Applying \ {"report"}
      BY <1>1, <1>4, Zenon DEF IInv, Looked, Applying
    <2> QED
      BY <1>1, <1>2, <1>4, <2>1, <2>2, ApplyMoves, Zenon
  <1> QED
    BY <1>1, <1>3, <1>4, Zenon DEF CheckCreate, Check

LEMMA CheckPatchIInv == ASSUME IInv, CheckPatch PROVE IInv'
  <1>1. pc = "patch" /\ UNCHANGED <<lock, objects, applied, outside>>
    BY DEF CheckPatch, Check
  <1>2. pc \in Applying /\ pc # "idle"
    BY <1>1 DEF Applying
  <1>3. CASE Fail
    BY <1>1, <1>2, <1>3, FailIInv, Zenon
  <1>4. CASE pc' = "write" /\ UNCHANGED <<core, cur, snap, todo, seen>>
    <2>1. Looked' /\ pc' \in Applying \ {"report"} /\ pc' \notin {"check", "create"}
      BY <1>1, <1>4, Zenon DEF IInv, Looked, Applying, objects
    <2> QED
      BY <1>1, <1>2, <1>4, <2>1, ApplyMoves, Zenon
  <1> QED
    BY <1>1, <1>3, <1>4, Zenon DEF CheckPatch, Check
\* The object that is created is tracked, and is the only node agent if it is one.
LEMMA CreateIInv == ASSUME IInv, Create PROVE IInv'
  <1>1. pc = "create" /\ UNCHANGED <<lock, applied, outside>>
    BY DEF Create
  <1>2. pc \in Applying /\ pc # "idle"
    BY <1>1 DEF Applying
  <1>3. CASE Fail /\ UNCHANGED objects
    BY <1>1, <1>2, <1>3, FailIInv, Zenon
  <1> DEFINE o == [uid |-> uids + 1, owner |-> cur, label |-> cur, deleting |-> FALSE,
                   spec |-> snap.spec, env |-> release, def |-> release]
  <1>4. CASE /\ res[seen] = None /\ res' = [res EXCEPT ![seen] = o] /\ uids' = uids + 1
             /\ made' = made \cup {uids + 1} /\ UNCHANGED custom
             /\ pc' = "remember" /\ seen' = [n |-> seen, o |-> o]
             /\ UNCHANGED <<core, cur, snap, todo>>
    <2>1. /\ cur \in Cores /\ cur # None /\ snap \in CoreRec /\ todo \subseteq Names
          /\ ~snap.deleting /\ snap.spec \in DOMAIN Desired /\ todo \subseteq Desired[snap.spec]
          /\ lock = cur /\ Exists(cur)
          /\ Older(snap, core[cur]) /\ snap.mr = core[cur].mr
          /\ core[cur].gen = snap.gen => Desired[snap.spec] \ todo \subseteq applied[cur]
          /\ \A n \in Agents \cap Names : Made(n) => n \in Desired[snap.spec]
      BY <1>2, ApplyingFacts, Zenon
    <2>2. seen \in todo /\ core[cur].mr[seen] # None
      BY <1>1, Zenon DEF IInv, Looked, Holding
    <2>3. /\ res \in ObjectMap /\ uids \in Nat /\ made \subseteq 1..uids /\ custom \subseteq 1..uids
          /\ release \in Defaults /\ \A n \in Names : res[n] # None => res[n].uid \in 1..uids
      BY DEF IInv, Counted
    <2>4. release \in Nat /\ release # 0 /\ snap.spec \in Specs
      BY <2>1, <2>3, CoreFields, OperatorAssumption, Zenon
    <2>5. /\ o \in ObjectRec /\ o.owner = cur /\ o.uid = uids + 1 /\ o.def = release
      <3>1. uids + 1 \in Nat /\ cur \in Owners
        BY <2>1, <2>3, NextUid, Zenon DEF Owners
      <3> QED
        BY <2>4, <3>1, Zenon DEF ObjectRec
    <2> HIDE DEF o
    <2>6. seen \in Names
      BY <2>1, <2>2, Zenon
    <2>7. /\ res' \in ObjectMap /\ res'[seen] = o
          /\ \A n \in Names : n # seen => res'[n] = res[n]
      BY <1>4, <2>3, <2>5, <2>6, Zenon DEF ObjectMap
    <2>8. /\ uids + 1 \notin 1..uids /\ 1..uids \subseteq 1..(uids + 1) /\ uids + 1 \in 1..(uids + 1)
          /\ 0..uids \subseteq 0..(uids + 1) /\ uids + 1 \in Nat
      BY <2>3, NextUid, Zenon
    <2>9. Stored' /\ Cached' /\ ReadyIsApplied'
      BY <1>1, <1>4, Zenon DEF IInv, Stored, Cached, Progress, ReadyIsApplied, Exists, outside
    <2>10. Counted'
      <3>1. Distinct'
        <4>1. Distinct /\ \A n \in Names : res[n] # None => res[n].uid # uids + 1
          BY <2>3, <2>8, Zenon DEF IInv, Counted
        <4> QED
          BY <2>5, <2>7, <4>1, Zenon DEF Distinct
      <3>2. \A n \in Names : res'[n] # None => res'[n].uid \in 1..(uids + 1)
        BY <2>3, <2>5, <2>7, <2>8, Zenon
      <3> QED
        <4>1. made' \subseteq 1..uids' /\ custom' \subseteq 1..uids'
          BY <1>4, <2>3, <2>8, Zenon
        <4> QED
          BY <1>1, <1>4, <2>3, <2>7, <2>8, <3>1, <3>2, <4>1, Zenon DEF Counted, outside
    <2>11. Recorded'
      BY <1>4, <2>8, Zenon DEF IInv, Recorded, Exists
    <2>12. \A n \in Names : n # seen => (Made(n)' <=> Made(n))
      <3>1. \A n \in Names : res[n] # None => res[n].uid # uids + 1
        BY <2>3, <2>8, Zenon
      <3> QED
        BY <1>4, <2>7, <3>1 DEF Made
    <2>13. Locked'
      <3>1. LockNotStranded'
        BY <1>1, <1>4, Zenon DEF IInv, Locked, LockNotStranded, Exists
      <3>2. \A n \in Names : res'[n] # None /\ res'[n].owner # None => res'[n].owner = lock /\ core[lock].mr[n] # None
        BY <2>1, <2>2, <2>5, <2>7, Zenon DEF IInv, Locked
      <3>3. \A n \in Names : Made(n)' => lock # None /\ core[lock].mr[n] # None
        BY <2>1, <2>2, <2>12, Zenon DEF IInv, Locked
      <3> QED
        BY <1>1, <1>4, <3>1, <3>2, <3>3, Zenon DEF Locked
    <2>14. Endpoints'
      <3>1. o.uid \notin custom /\ o.def # 0
        BY <2>3, <2>4, <2>5, <2>8, Zenon
      <3>2. OverrideKept'
        BY <1>4, <2>7, <3>1 DEF IInv, Endpoints, OverrideKept
      <3>3. \A n \in Names : res'[n] # None /\ res'[n].owner # None => res'[n].def # 0
        BY <2>7, <3>1, Zenon DEF IInv, Endpoints
      <3> QED
        BY <3>2, <3>3, Zenon DEF Endpoints
    <2>15. Stage'
      BY <1>4, <2>1, Zenon DEF Stage, Claiming, Cleaning, Ending, Applying
    <2>16. Looked'
      <3>1. seen' \in [n : todo, o : ObjectRec] /\ seen'.o = o
        BY <1>4, <2>2, <2>5, Zenon
      <3> QED
        BY <1>4, <2>5, <2>8, <3>1, Zenon DEF Looked
    <2>17. Snapshot' /\ Holding'
      BY <1>1, <1>4, <2>1, Zenon DEF Snapshot, Holding, Exists, Cleaning, Applying
    <2>18. \A n \in Agents \cap Names : Made(n)' => n \in Desired[snap.spec]
      BY <2>1, <2>2, <2>12, Zenon
    <2>19. \A m, n \in Agents \cap Names : Made(m)' /\ Made(n)' => m = n
      <3>1. ASSUME NEW m \in Agents \cap Names, NEW n \in Agents \cap Names, Made(m)', Made(n)' PROVE m = n
        <4>1. m \in Desired[snap.spec] /\ n \in Desired[snap.spec]
          BY <2>18, <3>1, Zenon
        <4> QED
          BY <2>1, <3>1, <4>1, OperatorAssumption, Zenon
      <3> QED
        BY <3>1, Zenon
    <2>20. Agent'
      BY <1>4, <2>18, <2>19, Zenon DEF Agent, OneNodeAgent, Made, Applying
    <2>21. Progress'
      BY <1>1, <1>4, <2>1, <2>9, Zenon DEF Progress
    <2> QED
      BY <2>9, <2>10, <2>11, <2>13, <2>14, <2>15, <2>16, <2>17, <2>20, <2>21, Zenon DEF IInv
  <1> QED
    BY <1>1, <1>3, <1>4, Zenon DEF Create

\* A patch keeps the identity of the object and the endpoint an administrator set.
LEMMA PatchIInv == ASSUME IInv, Patch PROVE IInv'
  <1>1. pc = "write" /\ UNCHANGED <<lock, uids, made, custom, applied, outside>>
    BY Zenon DEF Patch
  <1>2. pc \in Applying /\ pc # "idle"
    BY <1>1 DEF Applying
  <1>3. CASE Fail /\ UNCHANGED res
    BY <1>1, <1>2, <1>3, FailIInv, Zenon DEF objects
  <1>4. CASE /\ res[seen.n] = seen.o /\ res' = [res EXCEPT ![seen.n] = Target(seen.o)]
             /\ pc' = "remember" /\ UNCHANGED <<core, cur, snap, todo, seen>>
    <2>1. /\ cur \in Cores /\ cur # None /\ snap \in CoreRec /\ todo \subseteq Names
          /\ ~snap.deleting /\ snap.spec \in DOMAIN Desired /\ todo \subseteq Desired[snap.spec]
          /\ lock = cur /\ Exists(cur)
          /\ Older(snap, core[cur]) /\ snap.mr = core[cur].mr
          /\ core[cur].gen = snap.gen => Desired[snap.spec] \ todo \subseteq applied[cur]
          /\ \A n \in Agents \cap Names : Made(n) => n \in Desired[snap.spec]
      BY <1>2, ApplyingFacts, Zenon
    <2>2. /\ seen \in [n : todo, o : ObjectRec] /\ seen.o.owner = cur
      BY <1>1, Zenon DEF IInv, Looked
    <2>3. PICK n \in Names : n = seen.n
      BY <2>1, <2>2, Zenon
    <2>4. PICK o \in ObjectRec : o = seen.o
      BY <2>2, Zenon
    <2>5. res[n] = o /\ res[n] # None /\ o.owner = cur
      BY <1>4, <2>2, <2>3, <2>4, Marks, Zenon
    <2>6. release \in Defaults /\ release \in Nat /\ release # 0 /\ snap.spec \in Specs
      BY <2>1, CoreFields, OperatorAssumption, Zenon DEF IInv, Counted
    <2>7. PICK e \in Nat : e = Env(o)
      BY <2>6, ObjectFields, Zenon DEF Env
    <2>8. PICK s \in Specs : s = snap.spec
      BY <2>6, Zenon
    <2>9. PICK r \in Nat : r = release
      BY <2>6
    <2> DEFINE p == [o EXCEPT !.spec = s, !.env = e, !.def = r]
    <2>10. p \in ObjectRec /\ p.uid = o.uid /\ p.owner = o.owner /\ p.env = e /\ p.def = r
      BY Zenon DEF ObjectRec
    <2>11. res' = [res EXCEPT ![n] = p]
      BY <1>4, <2>3, <2>4, <2>7, <2>8, <2>9, Zenon DEF Target
    <2> HIDE DEF p
    <2>12. /\ Shrinks /\ res'[n] = p /\ p.uid \in 1..uids /\ Distinct'
           /\ \A m \in Names : m # n => res'[m] = res[m]
      BY <2>5, <2>10, <2>11, ObjectEdited, Zenon
    <2>13. Counted'
      BY <1>1, <2>12, Zenon DEF IInv, Counted, Shrinks, outside
    <2>14. Endpoints'
      <3>1. o.def # 0 /\ (o.uid \in custom => o.env = 0)
        BY <2>1, <2>5, Zenon DEF IInv, Endpoints, OverrideKept
      <3>2. o.uid \in custom => e = 0
        BY <2>7, <3>1, Zenon DEF Env
      <3> QED
        BY <1>1, <2>6, <2>9, <2>10, <2>12, <3>2, Zenon DEF IInv, Endpoints, OverrideKept
    <2>15. Locked' /\ OneNodeAgent' /\ \A m \in Names : Made(m)' => Made(m)
      BY <1>1, <1>4, <2>12, ShrinkKeeps, Zenon
    <2>16. Stored' /\ Recorded' /\ Cached' /\ ReadyIsApplied'
      BY <1>1, <1>4, Zenon DEF IInv, Stored, Recorded, Cached, Progress, ReadyIsApplied, Exists, outside
    <2>17. Stage'
      BY <1>4, <2>1, Zenon DEF Stage, Claiming, Cleaning, Ending, Applying
    <2>18. Looked'
      BY <1>1, <1>4, Zenon DEF IInv, Looked
    <2>19. Snapshot' /\ Holding'
      BY <1>1, <1>4, <2>1, Zenon DEF Snapshot, Holding, Exists, Cleaning, Applying
    <2>20. Agent' /\ Progress'
      BY <1>1, <1>4, <2>1, <2>15, <2>16, Zenon DEF Agent, Progress
    <2> QED
      BY <2>13, <2>14, <2>15, <2>16, <2>17, <2>18, <2>19, <2>20, Zenon DEF IInv
  <1> QED
    BY <1>1, <1>3, <1>4, Zenon DEF Patch
\* The applied object is remembered with its UID.
LEMMA RememberIInv == ASSUME IInv, Remember PROVE IInv'
  <1>1. pc = "remember" /\ UNCHANGED <<lock, objects, outside>>
    BY Zenon DEF Remember
  <1>2. pc \in Applying /\ pc # "idle"
    BY <1>1, Zenon DEF Applying
  <1>3. CASE Fail /\ UNCHANGED applied
    BY <1>1, <1>2, <1>3, FailIInv, Zenon
  <1>4. CASE /\ EditStatus(Remembered(seen.n, seen.o.uid))
             /\ applied' = [applied EXCEPT ![cur] = @ \cup {seen.n}]
             /\ todo' = todo \ {seen.n} /\ seen' = None /\ UNCHANGED cur
             /\ pc' = IF todo' = {} THEN "report" ELSE "apply"
    <2>1. cur \in Cores /\ todo \subseteq Names
      BY <1>2, ApplyingFacts, Zenon
    <2>2. seen \in [n : todo, o : ObjectRec] /\ seen.o.uid \in 1..uids
      BY <1>1, Zenon DEF IInv, Looked
    <2>3. PICK n \in Names : n = seen.n
      BY <2>1, <2>2, Zenon
    <2>4. PICK id \in 0..uids : id = seen.o.uid
      BY <2>2 DEF IInv, Counted
    <2>5. PICK f \in [Names -> Nat \cup {None}] :
              /\ Remembered(n, id) = [core[cur] EXCEPT !.mr = f] /\ f[n] # None
              /\ \A m \in Names : f[m] \in {None} \cup 0..uids
              /\ \A m \in Names : core[cur].mr[m] # None => f[m] # None
      BY <1>2, RememberedInventory, Zenon
    <2>6. Looked' /\ pc' \in Applying /\ pc' \notin {"check", "create"} /\ (pc' = "report" => todo' = {})
      BY <1>4, Zenon DEF Looked, Applying
    <2>7. /\ applied' \in [Cores -> SUBSET Names] /\ n \in applied'[cur]
          /\ \A v \in Cores : applied[v] \subseteq applied'[v]
      BY <1>4, <2>1, <2>3, Zenon DEF IInv, Stored
    <2>8. EditStatus([core[cur] EXCEPT !.mr = f])
      BY <1>4, <2>3, <2>4, <2>5, Zenon
    <2>9. todo' \subseteq todo /\ todo \ todo' \subseteq applied'[cur]
      BY <1>4, <2>3, <2>7, Zenon
    <2>10. UNCHANGED <<lock, objects, outside, cur>>
      BY <1>1, <1>4, Zenon
    <2> QED
      BY <1>2, <2>5, <2>6, <2>7, <2>8, <2>9, <2>10, ApplyRecords, Zenon
  <1> QED
    BY <1>1, <1>3, <1>4, Zenon DEF Remember

\* Ready is written for the generation whose objects were all applied.
LEMMA ReportIInv == ASSUME IInv, Report PROVE IInv'
  <1>1. pc = "report" /\ UNCHANGED <<lock, objects, applied, outside>>
    BY Zenon DEF Report
  <1>2. pc \in Applying /\ pc # "idle"
    BY <1>1, Zenon DEF Applying
  <1>3. CASE Fail
    BY <1>1, <1>2, <1>3, FailIInv, Zenon
  <1>4. CASE Current /\ core' = [core EXCEPT ![cur] = Status(TRUE)] /\ Stop
    <2>1. /\ cur \in Cores /\ cur # None /\ snap \in CoreRec /\ Exists(cur) /\ core[cur] \in CoreRec
          /\ Older(snap, core[cur])
          /\ core[cur].gen = snap.gen => Desired[snap.spec] \ todo \subseteq applied[cur]
      BY <1>2, ApplyingFacts, Zenon
    <2>2. todo = {} /\ core[cur].gen = snap.gen
      BY <1>1, <1>4, Zenon DEF IInv, Stage, Current
    <2>3. core[cur].spec = snap.spec /\ Desired[snap.spec] \subseteq applied'[cur]
      BY <1>1, <2>1, <2>2, Zenon DEF Older
    <2>4. PICK g \in Nat : g = snap.gen
      BY <2>1, CoreFields, Zenon
    <2>5. PICK c \in CoreRec : c = core[cur]
      BY <2>1
    <2> DEFINE d == [c EXCEPT !.ready = TRUE, !.observed = g]
    <2>6. core' = [core EXCEPT ![cur] = d]
      BY <1>4, <2>4, <2>5, Zenon DEF Status
    <2>7. /\ d \in CoreRec /\ d.gen = c.gen /\ d.spec = c.spec /\ d.fin = c.fin /\ d.mr = c.mr
          /\ d.observed = g
      BY Zenon DEF CoreRec
    <2> HIDE DEF d
    <2>8. c.gen = g /\ g <= g
      <3>1. g <= g
        OBVIOUS
      <3> QED
        BY <2>2, <2>4, <2>5, <3>1, Zenon
    <2>9. \A n \in Names : c.mr[n] \in {None} \cup 0..uids
      BY <2>1, <2>5, Zenon DEF IInv, Recorded
    <2>10. Rewrites(cur, d)
      BY <2>3, <2>5, <2>7, <2>8, <2>9, Zenon DEF Rewrites
    <2>11. applied' \in [Cores -> SUBSET Names] /\ \A v \in Cores : applied[v] \subseteq applied'[v]
      BY <1>1 DEF IInv, Stored
    <2>12. Cluster'
      BY <1>1, <2>1, <2>6, <2>10, <2>11, RewriteKeeps, Zenon
    <2> QED
      BY <1>4, <2>12, StopIInv, Zenon
  <1> QED
    BY <1>1, <1>3, <1>4, Zenon DEF Report

----------------------------------------------------------------------------
(* Every step *)

LEMMA WorkIInv == ASSUME IInv, Work PROVE IInv'
  BY AnnounceIInv, RefuseIInv, ClaimIInv, PersistFinalizerIInv, AcquireLockIInv, PlaceIInv, DiscoverIInv, PlanIInv,
     CheckDeleteIInv, DeleteIInv, IntentIInv, DeletedIInv, ReleaseLockIInv, DropFinalizerIInv, GetIInv, CreationIntentIInv,
     CheckCreateIInv, CheckPatchIInv, CreateIInv, PatchIInv, RememberIInv, ReportIInv DEF Work

LEMMA StutterIInv == ASSUME IInv, UNCHANGED vars PROVE IInv'
  <1>1. /\ UNCHANGED <<core, lock, objects, applied, outside>> /\ UNCHANGED <<pc, cur, snap, todo, seen>>
    BY DEF vars, worker, history, objects, outside
  <1>2. Cluster'
    BY <1>1, ClusterKept, Zenon
  <1>3. Stage' /\ Looked'
    BY <1>1, Zenon DEF IInv, Stage, Looked, objects
  <1>4. Snapshot' /\ Holding'
    BY <1>1, Zenon DEF IInv, Snapshot, Holding, Exists, Made, objects
  <1>5. Agent' /\ Progress'
    BY <1>1, <1>2, Zenon DEF IInv, Cluster, Agent, Made, Progress, objects
  <1> QED
    BY <1>2, <1>3, <1>4, <1>5, Zenon DEF IInv, Cluster

LEMMA NextIInv == IInv /\ [Next]_vars => IInv'
  <1> SUFFICES ASSUME IInv, [Next]_vars PROVE IInv'
    OBVIOUS
  <1>1. CASE UNCHANGED vars
    BY <1>1, StutterIInv, Zenon
  <1>2. ASSUME NEW u \in Cores, NEW s \in Specs, CreateCore(u, s) \/ \E on \in BOOLEAN : EditCore(u, s, on)
        PROVE  IInv'
    BY <1>2, CreateCoreIInv, EditCoreIInv, Zenon
  <1>3. ASSUME NEW u \in Cores, DeleteCore(u) \/ Sync(u) \/ Reconcile(u) PROVE IInv'
    BY <1>3, DeleteCoreIInv, SyncIInv, ReconcileIInv, Zenon
  <1>4. ASSUME NEW n \in Names, Strip(n) \/ Replace(n) \/ Drift(n) \/ Override(n) \/ Collect(n)
        PROVE  IInv'
    BY <1>4, StripIInv, ReplaceIInv, DriftIInv, OverrideIInv, CollectIInv, Zenon
  <1>5. CASE Upgrade \/ Work \/ Interrupt
    BY <1>5, UpgradeIInv, WorkIInv, InterruptIInv, Zenon
  <1> QED
    BY <1>1, <1>2, <1>3, <1>4, <1>5, Zenon DEF Next

\* The inductive invariant holds in every reachable state of the operator and the cluster.
THEOREM IInvHolds == Spec => []IInv
  BY InitIInv, NextIInv, PTL DEF Spec

----------------------------------------------------------------------------
(* What follows *)

\* One installation at a time: children of two EvpnCores never exist side by side,
\* and the holder of the Lease exists with its finalizer, however the claims,
\* deletions, stale cache reads and crashes of claimLock and releaseLock interleave.
THEOREM OneInstallation == Spec => []InstallationLock
  <1>1. IInv => InstallationLock
    <2> SUFFICES ASSUME IInv PROVE InstallationLock
      BY Zenon
    <2>1. TypeOK
      <3>1. lock \in Owners /\ uids \in Nat /\ made \subseteq 1..uids
        BY Zenon DEF IInv, Stored, Counted
      <3>2. \A n \in Names : res[n] # None => res[n].uid \in 1..uids /\ res[n].owner \in Owners
        BY ObjectFields, Zenon DEF IInv, Counted, ObjectMap
      <3>3. ASSUME NEW u \in Cores, Exists(u)
            PROVE  /\ core[u].mr \in [Names -> {None} \cup 0..uids]
                   /\ core[u].observed \in 0..core[u].gen
        <4>1. /\ core[u].mr \in [Names -> Nat \cup {None}]
              /\ core[u].observed \in Nat /\ core[u].gen \in Nat
          BY <3>3, ExistsIsRecord, CoreFields, Zenon DEF IInv
        <4>2. /\ \A n \in Names : core[u].mr[n] \in {None} \cup 0..uids
              /\ core[u].observed <= core[u].gen
          BY <3>3, Zenon DEF IInv, Recorded
        <4>3. core[u].mr \in [Names -> {None} \cup 0..uids]
          BY <4>1, <4>2, Zenon
        <4>4. core[u].observed \in 0..core[u].gen
          BY <4>1, <4>2
        <4> QED
          BY <4>3, <4>4, Zenon
      <3> QED
        BY <3>1, <3>2, <3>3, Zenon DEF TypeOK
    <2>2. Singleton /\ LockNotStranded
      BY Zenon DEF IInv, Locked, Singleton
    <2> QED
      BY <2>1, <2>2 DEF InstallationLock
  <1> QED
    BY <1>1, IInvHolds, PTL

\* Every child that carries an EvpnCore's annotations is in the inventory of that
\* EvpnCore, one node agent the operator created runs at a time, an administrator's
\* endpoint is kept, and Ready means applied, whatever crashes between the
\* creation intent, the creation, the patch and the status update.
THEOREM ChildrenKept == Spec => []Children
  <1>1. IInv => Children
    BY Zenon DEF IInv, Children, Locked, LockNotStranded, ChildrenTracked, Agent, Endpoints, Progress
  <1> QED
    BY <1>1, IInvHolds, PTL

\* The steps of the reconciliation that write no object.
LEMMA WorkLeavesObjects ==
    ASSUME pc \in {"remove", "write"}, Work, ~Patch, \A n \in Names : ~Delete(n)
    PROVE  res' = res
  <1>1. ASSUME Announce \/ Refuse \/ Claim \/ PersistFinalizer \/ AcquireLock \/ Place \/ Discover \/ Plan
        PROVE  res' = res
    BY <1>1, Zenon DEF Announce, Refuse, Claim, PersistFinalizer, AcquireLock, Place, Discover, Plan, objects
  <1>2. ASSUME CheckDelete \/ Deleted \/ ReleaseLock \/ DropFinalizer \/ \E n \in Names : Intent(n) PROVE res' = res
    BY <1>2 DEF CheckDelete, Check, Deleted, ReleaseLock, DropFinalizer, Intent, objects
  <1>3. ASSUME Get \/ CreationIntent \/ CheckCreate \/ CheckPatch \/ Remember \/ Report PROVE res' = res
    BY <1>3, Zenon DEF Get, CreationIntent, CheckCreate, CheckPatch, Check, Remember, Report, objects
  <1>4. ~Create
    BY DEF Create
  <1> QED
    BY <1>1, <1>2, <1>3, <1>4, Zenon DEF Work

\* What a step changes in an object.
LEMMA TouchesOwn ==
    ASSUME IInv, edits \in Nat, Next, NEW n \in Names, pc \in {"remove", "write"},
           res[n] # None, res'[n] # res[n], edits' = edits, res'[n] # None
    PROVE  res[n].owner = cur
  <1>1. res \in ObjectMap /\ edits + 1 # edits
    BY NextUid, Zenon DEF IInv, Counted
  <1>2. CASE \E m \in Names : Delete(m)
    <2>1. PICK m \in Names : Delete(m)
      BY <1>2, Zenon
    <2>2. m \in todo /\ pc = "remove" /\ (res' = res \/ (res[m] = seen[m] /\ res' = [res EXCEPT ![m].deleting = TRUE]))
      BY <2>1 DEF Delete
    <2>3. m = n /\ res[m] = seen[m]
      BY <1>1, <2>2, Zenon DEF ObjectMap
    <2> QED
      BY <2>2, <2>3, Zenon DEF IInv, Looked
  <1>3. CASE Patch
    <2>1. pc = "write" /\ (res' = res \/ (res[seen.n] = seen.o /\ res' = [res EXCEPT ![seen.n] = Target(seen.o)]))
      BY <1>3, Zenon DEF Patch
    <2>2. seen.n = n /\ res[n] = seen.o
      BY <1>1, <2>1, Zenon DEF ObjectMap
    <2> QED
      BY <2>1, <2>2, Zenon DEF IInv, Looked
  <1>4. ASSUME NEW m \in Names, Collect(m) PROVE FALSE
    BY <1>1, <1>4, Zenon DEF Collect, ObjectMap
  <1>5. ASSUME NEW m \in Names, Strip(m) \/ Replace(m) \/ Drift(m) \/ Override(m) PROVE FALSE
    BY <1>1, <1>5, Zenon DEF Strip, Replace, Drift, Override, Foreign
  <1>6. ASSUME NEW u \in Cores, DeleteCore(u) \/ Sync(u) \/ Reconcile(u)
        PROVE  FALSE
    BY <1>6 DEF DeleteCore, Sync, Reconcile, objects
  <1>7. ASSUME NEW u \in Cores, NEW s \in Specs, CreateCore(u, s) \/ \E on \in BOOLEAN : EditCore(u, s, on)
        PROVE  FALSE
    BY <1>7, Zenon DEF CreateCore, EditCore
  <1>8. ~Upgrade /\ ~Interrupt
    BY Zenon DEF Upgrade, Interrupt, objects
  <1>9. CASE Work
    BY <1>2, <1>3, <1>9, WorkLeavesObjects, Zenon
  <1> QED
    BY <1>4, <1>5, <1>6, <1>7, <1>8, <1>9, Zenon DEF Next

\* The count of edits.
LEMMA EditsCounted == Spec => [](edits \in Nat)
  <1>1. Init => edits \in Nat
    <2>1. \A s \in Scenarios : s.edits \in 0..MaxEdits
      BY OperatorAssumption, Zenon
    <2>2. 0..MaxEdits \subseteq Nat
      BY OperatorAssumption
    <2> QED
      BY <2>1, <2>2, Zenon DEF Init
  <1>2. edits \in Nat /\ [Next]_vars => (edits \in Nat)'
    <2> SUFFICES ASSUME edits \in Nat, [Next]_vars, edits' # edits, edits' # edits + 1 PROVE FALSE
      OBVIOUS
    <2>1. ASSUME NEW n \in Names, Strip(n) \/ Replace(n) \/ Drift(n) \/ Override(n) \/ Collect(n) PROVE FALSE
      BY <2>1, Zenon DEF Strip, Replace, Drift, Override, Foreign, Collect
    <2>2. ASSUME NEW u \in Cores, DeleteCore(u) \/ Sync(u) \/ Reconcile(u) PROVE FALSE
      BY <2>2 DEF DeleteCore, Sync, Reconcile, outside
    <2>3. ASSUME NEW u \in Cores, NEW s \in Specs, CreateCore(u, s) \/ \E on \in BOOLEAN : EditCore(u, s, on)
          PROVE  FALSE
      BY <2>3, Zenon DEF CreateCore, EditCore
    <2>4. ~Upgrade /\ ~Interrupt /\ ~UNCHANGED vars
      BY DEF Upgrade, Interrupt, vars
    <2>5. ASSUME NEW n \in Names, Delete(n) \/ Intent(n) PROVE FALSE
      BY <2>5, Zenon DEF Delete, Intent, outside
    <2>6. ~Announce /\ ~Refuse /\ ~Claim /\ ~PersistFinalizer /\ ~AcquireLock /\ ~Place /\ ~Discover /\ ~Plan
      BY Zenon DEF Announce, Refuse, Claim, PersistFinalizer, AcquireLock, Place, Discover, Plan, outside
    <2>7. ~CheckDelete /\ ~Deleted /\ ~ReleaseLock /\ ~DropFinalizer /\ ~Get /\ ~CreationIntent /\ ~CheckCreate /\ ~CheckPatch
      BY DEF CheckDelete, Deleted, ReleaseLock, DropFinalizer, Get, CreationIntent, CheckCreate, CheckPatch, Check, outside
    <2>8. ~Create /\ ~Patch /\ ~Remember /\ ~Report
      BY Zenon DEF Create, Patch, Remember, Report, outside
    <2> QED
      BY <2>1, <2>2, <2>3, <2>4, <2>5, <2>6, <2>7, <2>8, Zenon DEF Next, Work
  <1> QED
    BY <1>1, <1>2, PTL DEF Spec

\* Delete and Patch of the operator reach only objects whose annotations name the
\* EvpnCore that is reconciled, although both act on what was read some steps before.
THEOREM OwnOnly == Spec => OnlyOwnTouched
  <1>1. IInv /\ edits \in Nat /\ [Next]_vars =>
             [\A n \in Names :
                pc \in {"remove", "write"} /\ res[n] # None /\ res'[n] # res[n] /\ edits' = edits
                    /\ res'[n] # None => res[n].owner = cur]_vars
    BY TouchesOwn
  <1> QED
    BY <1>1, IInvHolds, EditsCounted, PTL DEF Spec, OnlyOwnTouched
====
