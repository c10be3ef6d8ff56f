--------------------------- MODULE Type2Importer ---------------------------
(***************************************************************************)
(* The read-only importer of remote EVPN Type-2 routes                     *)
(* (pkg/evpn/remote_type2.go): one poll reads the speaker's table through  *)
(* a stream, folds the paths into endpoints and publishes the result when  *)
(* two consecutive polls agree.                                            *)
(*                                                                         *)
(* A path is a record of what the code tells apart.  Its fields of the     *)
(* NLRI and of the attributes that must only be well-formed or supported   *)
(* are the Booleans routeOK, attrsOK and supported; id is the identity of  *)
(* the path (NLRI and source), dest its destination in the table.          *)
(***************************************************************************)
EXTENDS Naturals, FiniteSets, FiniteSetsExt, Sequences, SequencesExt

CONSTANTS
    Paths,        \* the paths the speaker may ever hold
    LocalVTEP,
    Networks,     \* VNI -> [rts, vteps], the import policy
    NoIP,         \* the address of a route without an IP
    Changing,     \* the ones that come and go
    MaxPaths,     \* bound: paths in the table when the importer starts
    MaxVolatile,  \* bound: size of an initial table that changes or fails later
    MaxChanges,   \* bound: changes of the table
    MaxRestarts,  \* bound: speaker restarts
    MaxErrors     \* bound: failed reads and dials

\* RemoteImportConfig.Validate; VNIs are unique by being the domain.
Validate ==
    /\ DOMAIN Networks # {}
    /\ \A n \in DOMAIN Networks :
        /\ Networks[n].rts # {} /\ Networks[n].vteps # {}
        /\ LocalVTEP \notin Networks[n].vteps

ASSUME ImportAssumption ==
    /\ Validate
    /\ \A p \in Paths : {p.withdrawn, p.external, p.routeOK, p.attrsOK, p.stale, p.supported} \subseteq BOOLEAN
    /\ Changing \subseteq Paths
    /\ {MaxPaths, MaxVolatile, MaxChanges, MaxRestarts, MaxErrors} \subseteq Nat

VARIABLES
    rib, inc,                    \* the speaker: its paths and its process
    changes, restarts, errors,   \* budgets used
    pc,                          \* "idle", "read" (the stream is open)
    conn,                        \* the speaker process the source is attested to, 0 if none
    due, listed,                 \* destinations the stream has to deliver, has delivered
    got,                         \* sequence of paths received in this stream
    pending,                     \* result of the previous poll, or "none"
    confirmed,                   \* the published snapshot
    \* history: paths in the table at some, at every moment of this and of the
    \* previous poll
    some, every, prevSome, prevEvery

speakerVars == <<rib, inc, changes, restarts>>
pollVars == <<due, listed, got>>
ghostVars == <<some, every, prevSome, prevEvery>>
vars == <<speakerVars, errors, pc, conn, pollVars, pending, confirmed, ghostVars>>

NoResult == [endpoints |-> {}, issues |-> {}]
NonePending == [none |-> TRUE]

Init ==
    /\ rib \in UNION { kSubset(n, Paths) : n \in 0..MaxPaths }
    /\ \A p, q \in rib : p.id = q.id => p = q
    /\ inc = 1
    /\ IF Cardinality(rib) <= MaxVolatile
       THEN changes = 0 /\ restarts = 0 /\ errors = 0
       ELSE changes = MaxChanges /\ restarts = MaxRestarts /\ errors = MaxErrors
    /\ pc = "idle" /\ conn = 0
    /\ due = {} /\ listed = {} /\ got = <<>>
    /\ pending = NonePending
    /\ confirmed = [auth |-> FALSE, gen |-> 0, result |-> NoResult]
    /\ some = {} /\ every = {} /\ prevSome = {} /\ prevEvery = {}

----------------------------------------------------------------------------
(* One path *)

\* The source of a path; "invalid" is an ambiguous one.
Classification(p) ==
    CASE p.withdrawn -> "withdrawn"
      [] ~p.withdrawn /\ p.neighbor = "none" /\ ~p.external -> "local"
      [] ~p.withdrawn /\ p.neighbor = "peer" -> "remote"
      [] OTHER -> "invalid"

\* DecodeRemoteType2 without an error: the route of every path is decoded, the
\* attributes of a remote one.
Decodes(p) ==
    /\ Classification(p) # "invalid" /\ p.routeOK
    /\ Classification(p) = "remote" => p.attrsOK

ValidateRoute(p) ==
    /\ p.supported
    /\ p.vtep # LocalVTEP
    /\ p.vni \in DOMAIN Networks
    /\ p.vtep \in Networks[p.vni].vteps
    /\ p.rts \cap Networks[p.vni].rts # {}

----------------------------------------------------------------------------
(* The fold over the received paths *)

Start == [ok |-> TRUE, seen |-> {}, endpoints |-> {}, quarantined |-> {}]
Failed == [Start EXCEPT !.ok = FALSE]

\* Variant: an endpoint keeps the address it was first seen with.
MergeKeepingIP(acc, p) ==
    LET sameMac == { e \in acc.endpoints : e.vni = p.vni /\ e.mac = p.mac }
    IN  IF sameMac = {}
        THEN [acc EXCEPT !.endpoints = @ \cup
                {[vni |-> p.vni, mac |-> p.mac, ip |-> p.ip, vtep |-> p.vtep, routes |-> {p}]}]
        ELSE LET e == CHOOSE e \in sameMac : TRUE
             IN  [acc EXCEPT !.endpoints = (@ \ {e}) \cup {[e EXCEPT !.routes = @ \cup {p}]}]

\* A valid path joins the endpoint of its MAC, whose address it may add.
Merge(acc, p) ==
    LET sameMac == { e \in acc.endpoints : e.vni = p.vni /\ e.mac = p.mac }
        sameIP  == { e \in acc.endpoints : e.vni = p.vni /\ e.ip = p.ip /\ p.ip # NoIP }
        with(e) == [e EXCEPT !.ip = IF p.ip = NoIP THEN @ ELSE p.ip, !.routes = @ \cup {p}]
        new     == [vni |-> p.vni, mac |-> p.mac, ip |-> p.ip, vtep |-> p.vtep, routes |-> {p}]
    IN  IF sameMac = {}
        THEN IF sameIP # {} THEN Failed ELSE [acc EXCEPT !.endpoints = @ \cup {new}]
        ELSE LET e == CHOOSE e \in sameMac : TRUE
             IN  IF \/ e.vtep # p.vtep
                    \/ NoIP \notin {e.ip, p.ip} /\ e.ip # p.ip
                    \/ sameIP \ {e} # {}
                 THEN Failed
                 ELSE [acc EXCEPT !.endpoints = (@ \ {e}) \cup {with(e)}]

Step(acc, p) ==
    CASE ~acc.ok \/ ~Decodes(p) -> Failed
      [] acc.ok /\ Classification(p) \in {"local", "withdrawn"} -> acc
      [] acc.ok /\ Classification(p) = "remote" /\ Decodes(p) ->
           LET twins == { q \in acc.seen : q.id = p.id }
               next  == [acc EXCEPT !.seen = @ \cup {p}]
           IN  IF p.stale THEN Failed
               ELSE IF twins # {}
               THEN IF \E q \in twins : q.attr # p.attr THEN Failed ELSE acc
               ELSE IF ValidateRoute(p) THEN Merge(next, p)
               ELSE [next EXCEPT !.quarantined = @ \cup {p}]

Overlap(q, e) == e.vni = q.vni /\ (e.mac = q.mac \/ (q.ip # NoIP /\ e.ip = q.ip))

\* A quarantined path of a configured network touches one of the endpoints.
QuarantineConflict(acc, endpoints) ==
    \E q \in acc.quarantined : q.vni \in DOMAIN Networks /\ \E e \in endpoints : Overlap(q, e)

ResultOf(acc) == [endpoints |-> acc.endpoints, issues |-> { q.id : q \in acc.quarantined }]

----------------------------------------------------------------------------
(* What the fold is meant to compute, from the set of paths alone *)

Remote(S) == { p \in S : Classification(p) = "remote" }
Valid(S) == { p \in Remote(S) : ValidateRoute(p) }
Contradict(p, q) ==
    /\ p.vni = q.vni
    /\ \/ p.mac = q.mac /\ p.vtep # q.vtep
       \/ p.mac = q.mac /\ NoIP \notin {p.ip, q.ip} /\ p.ip # q.ip
       \/ p.mac # q.mac /\ p.ip = q.ip /\ p.ip # NoIP
Sound(S) ==
    /\ \A p \in S : Decodes(p)
    /\ \A p \in Remote(S) : ~p.stale
    /\ \A p, q \in Remote(S) : p.id = q.id => p.attr = q.attr
    /\ \A p, q \in Valid(S) : ~Contradict(p, q)
EndpointFor(S, p) ==
    LET routes == { q \in Valid(S) : q.vni = p.vni /\ q.mac = p.mac }
        ips == { q.ip : q \in routes } \ {NoIP}
    IN  [vni |-> p.vni, mac |-> p.mac, vtep |-> p.vtep, routes |-> routes,
         ip |-> IF ips = {} THEN NoIP ELSE CHOOSE i \in ips : TRUE]
EndpointsOf(S) == { EndpointFor(S, p) : p \in Valid(S) }
IssuesOf(S) == { p.id : p \in Remote(S) \ Valid(S) }

----------------------------------------------------------------------------
(* The poll *)

\* A poll starts: the history of the last one becomes the previous one's.
BeginHistory ==
    /\ prevSome' = some /\ prevEvery' = every
    /\ some' = rib /\ every' = rib
EndPoll == pc' = "idle" /\ due' = {} /\ listed' = {} /\ got' = <<>>
NoPoll == UNCHANGED <<pc, pollVars, pending, confirmed>>

\* Gate.Check passes: the attested speaker process still runs.
Ready == conn = inc

\* tick drops the transport of a dead speaker and dials a new one; the importer
\* needs two fresh observations from it.
RebindSource ==
    /\ pc = "idle" /\ ~Ready
    /\ conn' = inc
    /\ pending' = NonePending
    /\ confirmed' = [confirmed EXCEPT !.auth = FALSE]
    /\ UNCHANGED <<speakerVars, errors, pc, pollVars, ghostVars>>

DialFails ==
    /\ pc = "idle" /\ ~Ready /\ errors < MaxErrors
    /\ errors' = errors + 1
    /\ conn' = 0
    /\ NoPoll
    /\ UNCHANGED <<speakerVars, ghostVars>>

\* ReadRemoteRIB up to the open stream.
ListPath ==
    /\ pc = "idle" /\ Ready
    /\ pc' = "read" /\ due' = { p.dest : p \in rib } /\ UNCHANGED <<listed, got>>
    /\ BeginHistory
    /\ UNCHANGED <<speakerVars, errors, conn, pending, confirmed>>

\* One destination of the table with its paths in any order.  Destinations that
\* appear while the stream is open may be delivered too.
Recv ==
    /\ pc = "read" /\ Ready
    /\ \E d \in { p.dest : p \in rib } \ listed :
        /\ listed' = listed \cup {d}
        /\ \E s \in SetToSeqs({ p \in rib : p.dest = d }) : got' = got \o s
    /\ UNCHANGED <<due, speakerVars, errors, pc, conn, pending, confirmed, ghostVars>>

\* Variant: a failed poll keeps what the poll before it saw.
UncertainKeepingPending ==
    /\ EndPoll
    /\ UNCHANGED <<pending, confirmed>>

\* uncertain: the observation before a failed poll counts no more.
Uncertain ==
    /\ EndPoll
    /\ pending' = NonePending
    /\ UNCHANGED confirmed

\* The stream breaks, the deadline passes, or the speaker is gone.
PollFails ==
    /\ pc = "read"
    /\ IF Ready THEN errors < MaxErrors /\ errors' = errors + 1 ELSE UNCHANGED errors
    /\ Uncertain
    /\ UNCHANGED <<speakerVars, conn, ghostVars>>

\* Variant: a new result is published under the old generation.
PublishSameGeneration(r) ==
    /\ pending' = r
    /\ confirmed' = IF pending = r THEN [auth |-> TRUE, gen |-> confirmed.gen, result |-> r]
                    ELSE confirmed

\* Variant: the first of two equal results is not remembered.
PublishForgetting(r) ==
    /\ pending' = pending
    /\ confirmed' = IF pending # r THEN confirmed ELSE [confirmed EXCEPT !.auth = TRUE, !.result = r]

\* The first of two equal results is remembered, the second confirmed; a result
\* that differs from the confirmed one gets a new generation.
Publish(r) ==
    /\ pending' = r
    /\ confirmed' =
        IF pending # r THEN confirmed
        ELSE [auth |-> TRUE, result |-> r,
              gen |-> confirmed.gen + (IF confirmed.result = r THEN 0 ELSE 1)]

\* The stream ends, the gate passes once more, and the paths are folded.
PollEnds ==
    /\ pc = "read" /\ Ready
    /\ due \cap { p.dest : p \in rib } \subseteq listed
    /\ LET acc == FoldLeft(Step, Start, got)
       IN  IF ~acc.ok \/ QuarantineConflict(acc, acc.endpoints \cup confirmed.result.endpoints)
           THEN Uncertain
           ELSE EndPoll /\ Publish(ResultOf(acc))
    /\ UNCHANGED <<speakerVars, errors, conn, ghostVars>>

----------------------------------------------------------------------------
(* The speaker *)

\* A path appears, goes, or replaces the one with its identity.
RibChanges ==
    /\ changes < MaxChanges
    /\ changes' = changes + 1
    /\ \E p \in Changing :
        rib' = IF p \in rib THEN rib \ {p} ELSE { q \in rib : q.id # p.id } \cup {p}
    /\ some' = some \cup rib' /\ every' = every \cap rib'
    /\ UNCHANGED <<inc, restarts, errors, pc, conn, pollVars, pending, confirmed,
                   prevSome, prevEvery>>

SpeakerRestarts ==
    /\ restarts < MaxRestarts
    /\ restarts' = restarts + 1
    /\ inc' = inc + 1 /\ rib' = {}
    /\ every' = {}
    /\ UNCHANGED <<changes, errors, pc, conn, pollVars, pending, confirmed,
                   some, prevSome, prevEvery>>

Importer == RebindSource \/ DialFails \/ ListPath \/ Recv \/ PollFails \/ PollEnds
Next == Importer \/ RibChanges \/ SpeakerRestarts

Spec == Init /\ [][Next]_vars
\* The ticker fires again after every poll, and every poll has a deadline.
FairSpec == Spec /\ WF_vars(Importer)

----------------------------------------------------------------------------
(* Properties *)

TypeOK ==
    /\ rib \subseteq Paths /\ pc \in {"idle", "read"}
    /\ conn \in 0..inc
    /\ \A k \in DOMAIN got : got[k] \in Paths
    /\ confirmed.gen \in Nat /\ confirmed.auth \in BOOLEAN
    /\ \A e \in confirmed.result.endpoints : e.vni \in DOMAIN Networks /\ e.routes \subseteq Paths

\* Whatever the order in which the stream delivers the paths, Poll's loop over
\* them accepts the same sets and yields the same endpoints and issues: the ones
\* read off the set of paths without any order.  The type invariant is a conjunct.
FoldIsOrderFree ==
    TypeOK /\
    LET acc == FoldLeft(Step, Start, got)
        S == { got[k] : k \in DOMAIN got }
    IN  /\ acc.ok <=> Sound(S)
        /\ acc.ok => ResultOf(acc) = [endpoints |-> EndpointsOf(S), issues |-> IssuesOf(S)]

Routes(result) == UNION { e.routes : e \in result.endpoints }

\* What Poll confirms was really there twice: every route of a published endpoint
\* was in the table during this poll and during the one before it, and a valid
\* route that stayed in the table throughout both is published.  A failed poll, a
\* new transport or a change in between starts the count again.
PublishedWasStable ==
    [][ confirmed' # confirmed /\ confirmed'.auth =>
          /\ Routes(confirmed'.result) \subseteq some \cap prevSome
          /\ Valid(every \cap prevEvery) \subseteq Routes(confirmed'.result) ]_vars

\* A generation names one snapshot: Poll never publishes different endpoints or
\* issues under a generation it has used, which the netlink importer relies on.
GenerationNamesResult ==
    [][ /\ confirmed'.gen >= confirmed.gen
        /\ confirmed'.gen = confirmed.gen => confirmed'.result = confirmed.result ]_vars

\* The tables Poll refuses: unsound ones, and those in which a rejected path of a
\* configured network claims the MAC or IP of an endpoint, found now or published.
Frozen ==
    \/ ~Sound(rib)
    \/ \E q \in Remote(rib) \ Valid(rib), e \in EndpointsOf(rib) \cup confirmed.result.endpoints :
          q.vni \in DOMAIN Networks /\ Overlap(q, e)

\* Once the table stays as it is, the importer publishes exactly its endpoints,
\* or the table is one that Poll refuses.
ConfirmsOrFreezes ==
    <>[](Frozen \/ (confirmed.auth /\ conn = inc
                    /\ confirmed.result = [endpoints |-> EndpointsOf(rib), issues |-> IssuesOf(rib)]))
====
