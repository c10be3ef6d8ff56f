---------------------------- MODULE RouteStream ----------------------------
(***************************************************************************)
(* services/bgp_ad_handler: where the route handler takes its paths from.  *)
(* At start it lists every path of the speaker's table once and handles    *)
(* each; then it watches best-path events, and after a broken stream it    *)
(* subscribes again without listing again.  What changes while it is not   *)
(* subscribed is never told to it.  Nor is the end of a path that another  *)
(* path of its NLRI takes the place of: only the new one is announced.     *)
(***************************************************************************)
EXTENDS Integers, Sequences

CONSTANTS Routes,       \* the paths a table may have
          Nlri          \* the NLRI (RD, MAC, IP) of a path

VARIABLES table,    \* the paths in the speaker's table
          rib,      \* the best ones, one for every NLRI that has a path
          phase,    \* "boot", "list", "gap" (not subscribed), "watch"
          todo,     \* listed paths not handled yet
          queue,    \* events of the watch stream: [r, wd]
          missed,   \* history: paths that changed while nobody told the handler
          shadowed, \* history: paths that lost to another of their NLRI, or were listed without
                    \* being the best: nobody tells the handler to undo them
          dropped,  \* history: paths whose handling gave up half way
          changes, breaks,
          world     \* fixed: the paths there are, and the bounds on changes of the table
                    \* and on broken streams, failed listings and restarts

stream == <<world, table, rib, phase, todo, queue, missed, shadowed, dropped, changes, breaks>>

World == [routes : SUBSET Routes, changes : Nat, breaks : Nat]
Same(r) == {q \in Routes : Nlri[q] = Nlri[r]}

StreamInit(worlds) ==
  /\ world \in worlds
  /\ table \in SUBSET world.routes
  /\ rib \in {best \in SUBSET table : \A r \in table : \E b \in best : best \cap Same(r) = {b}}
  /\ phase = "boot"
  /\ todo = {}
  /\ queue = <<>>
  /\ missed = {} /\ shadowed = {} /\ dropped = {}
  /\ changes = 0
  /\ breaks = 0

\* The best path of an NLRI changes from old to best, sets of at most one path.  A subscriber is told
\* of the new best path, and of the old one only if there is no other.
Select(old, best) ==
  /\ rib' = (rib \ old) \cup best
  /\ shadowed' = (IF best = {} THEN shadowed ELSE shadowed \cup old) \ best
  /\ IF phase # "watch" \/ best = old
       THEN UNCHANGED queue /\ missed' = IF best = old THEN missed ELSE missed \cup old \cup best
       ELSE /\ \E r \in IF best = {} THEN old ELSE best : queue' = Append(queue, [r |-> r, wd |-> best = {}])
            /\ UNCHANGED missed

\* The speaker learns a path, which may take the place of one its neighbour sent before, or loses one.
\* A best path that stays gives way to a new one only.
RibChange(r) ==
  /\ r \in world.routes /\ changes < world.changes
  /\ changes' = changes + 1
  /\ IF r \in table THEN table' = table \ {r}
       ELSE \E gone \in {{}} \cup {{q} : q \in table \cap Same(r)} : table' = (table \ gone) \cup {r}
  /\ LET old == rib \cap Same(r)
         next == table' \cap Same(r)
         able == IF old \cap next = {} THEN next ELSE (old \cup {r}) \cap next
     IN  IF next = {} THEN Select(old, {}) ELSE \E b \in able : Select(old, {b})
  /\ UNCHANGED <<world, phase, todo, dropped, breaks>>

\* ListPath: every path of every destination.  What is listed is handled from here on; an error
\* leaves the rest of the list out.
List ==
  /\ phase' = "list"
  /\ \/ todo' = table /\ UNCHANGED breaks
     \/ breaks < world.breaks /\ breaks' = breaks + 1 /\ todo' \in SUBSET table
  /\ missed' = (missed \cup table) \ todo'
  /\ dropped' = dropped \ todo'
  /\ shadowed' = shadowed \cup (todo' \ rib)
  /\ UNCHANGED <<world, table, rib, queue, changes>>

ListEnd ==
  /\ phase = "list" /\ todo = {}
  /\ phase' = "gap"
  /\ UNCHANGED <<world, table, rib, todo, queue, missed, shadowed, dropped, changes, breaks>>

Subscribe ==
  /\ phase = "gap"
  /\ phase' = "watch"
  /\ UNCHANGED <<world, table, rib, todo, queue, missed, shadowed, dropped, changes, breaks>>

Waiting == {queue[i].r : i \in DOMAIN queue} \cup todo

\* The stream breaks: events not received are gone.
Break ==
  /\ phase = "watch" /\ breaks < world.breaks
  /\ breaks' = breaks + 1
  /\ phase' = "gap"
  /\ missed' = missed \cup Waiting
  /\ queue' = <<>>
  /\ UNCHANGED <<world, table, rib, todo, shadowed, dropped, changes>>

\* The process restarts while handling what is in busy.
StreamRestart(busy) ==
  /\ breaks < world.breaks
  /\ breaks' = breaks + 1
  /\ phase' = "boot"
  /\ todo' = {}
  /\ queue' = <<>>
  /\ missed' = missed \cup Waiting \cup busy
  /\ UNCHANGED <<world, table, rib, shadowed, dropped, changes>>

\* The next path: any of the list, or the first event of the stream.
Take(r, wd, told) ==
  \/ /\ phase = "list" /\ r \in todo /\ ~wd /\ ~told
     /\ todo' = todo \ {r}
     /\ UNCHANGED queue
  \/ /\ phase = "watch" /\ queue # <<>> /\ told
     /\ Head(queue) = [r |-> r, wd |-> wd]
     /\ queue' = Tail(queue)
     /\ UNCHANGED todo

\* The path is handled, or given up.  An event brings the handler up to date with its path.
Handled(r, told) ==
  /\ missed' = IF told THEN missed \ {r} ELSE missed
  /\ dropped' = IF told THEN dropped \ {r} ELSE dropped
Dropped(r) == dropped' = dropped \cup {r} /\ UNCHANGED missed

StreamType ==
  /\ table \subseteq Routes /\ todo \subseteq Routes
  /\ missed \subseteq Routes /\ shadowed \subseteq Routes \ rib /\ dropped \subseteq Routes
  /\ rib \subseteq table /\ \A r \in table : \E b \in rib : rib \cap Same(r) = {b}
  /\ phase \in {"boot", "list", "gap", "watch"}
  /\ queue \in Seq([r : Routes, wd : BOOLEAN])
  /\ changes \in 0..world.changes /\ breaks \in 0..world.breaks
=============================================================================
