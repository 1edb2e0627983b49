----------------------------- MODULE SplitTunnel -----------------------------
(***************************************************************************)
(* Per-program split tunnelling on Linux (crates/platform-linux/src/       *)
(* split.rs), on top of whatever tunnel put its catch-all routes into the  *)
(* main table.  The root helper runs each request in a thread of its own;  *)
(* a monitor thread places programs that start later.                      *)
(*                                                                         *)
(* Every external command, and every reading of the state the others       *)
(* write, is a step.  Routes of the local network, the resolver and the    *)
(* reply texts are left out.                                               *)
(***************************************************************************)
EXTENDS Integers, FiniteSets

CONSTANTS Apps,        \* executable names, each with at most one process
          Routes,      \* the tunnel's catch-all routes
          Selections,  \* the lists of programs the interface may send
          Requests,    \* [thread -> what it may be asked for]
          MayFail      \* which of the commands "cgroup", "mark" can fail

ASSUME SplitAssumption ==
    /\ Routes # {}
    /\ Selections \subseteq SUBSET Apps
    /\ MayFail \subseteq {"cgroup", "mark"}

VARIABLES
    tunnel,     \* the tunnel's device: "off", "up", or "dropped" on its own
    main,       \* its catch-all routes in the main table
    vpnTable,   \* those in table 77
    mirror,     \* table 78 holds the physical default
    running,    \* the programs that run
    group,      \* the control group of each: a mode, or "none"
    dirs,       \* the control groups that exist
    rules,      \* the modes whose mark and lookup rules are installed
    applied,    \* SPLIT_STATE: {} or {[mode, apps, moved]}
    monitors,   \* monitor threads; the one not stopped is in SPLIT_MON_STOP
    pc, job     \* of each helper thread

net   == <<main, vpnTable, mirror>>
procs == <<running, group>>
marks == <<dirs, rules>>
vars == <<tunnel, net, procs, marks, applied, monitors, pc, job>>

Threads == DOMAIN Requests

SplitMode == {"only", "except"}

AppliedSplit == [mode : SplitMode, apps : (SUBSET Apps) \ {{}}, moved : SUBSET Routes]

Monitor == [apps : SUBSET Apps, mode : SplitMode, stop : BOOLEAN, at : {"sleep", "sync"}]

\* What a thread holds on its stack: the request, the routes it still has to
\* go through, those it moved, and what follows the clearing.
NoJob == [mode |-> "only", apps |-> {}, left |-> {}, moved |-> {}, then |-> "idle"]

Init ==
    /\ tunnel = "off"
    /\ main = {} /\ vpnTable = {} /\ mirror = FALSE
    /\ running = {} /\ group = [a \in Apps |-> "none"]
    /\ dirs = {} /\ rules = {}
    /\ applied = {} /\ monitors = {}
    /\ pc = [t \in Threads |-> "idle"]
    /\ job = [t \in Threads |-> NoJob]

At(t, label) == pc[t] = label

Goto(t, label) == pc' = [pc EXCEPT ![t] = label]

\* The request ends; its stack is gone.
Return(t) == Goto(t, "idle") /\ job' = [job EXCEPT ![t] = NoJob]

-----------------------------------------------------------------------------
(***************************************************************************)
(* Requests.                                                               *)
(***************************************************************************)

\* `sync_membership`: the write fails where the group does not exist.
Placed(S, mode) ==
    [a \in Apps |-> IF mode \in dirs /\ a \in S \cap running THEN mode ELSE group[a]]

ClearFirst(t, j) == Goto(t, "stopMonitor") /\ job' = [job EXCEPT ![t] = j]

\* The mode is already on: only the programs are placed.  Else everything is
\* built from nothing.
AskApply(t, mode, S) ==
    /\ At(t, "idle") /\ "apply" \in Requests[t]
    /\ S # {}
    /\ IF \E s \in applied : s.mode = mode
       THEN /\ group' = Placed(S, mode)
            /\ Goto(t, "noteApps")
            /\ job' = [job EXCEPT ![t] = [NoJob EXCEPT !.apps = S]]
       ELSE /\ ClearFirst(t, [NoJob EXCEPT !.mode = mode, !.apps = S, !.then = "readRoutes"])
            /\ UNCHANGED group
    /\ UNCHANGED <<tunnel, net, running, marks, applied, monitors>>

NoteApps(t) ==
    /\ At(t, "noteApps")
    /\ applied' = {[s EXCEPT !.apps = job[t].apps] : s \in applied}
    /\ Return(t)
    /\ UNCHANGED <<tunnel, net, procs, marks, monitors>>

\* Clear; or stop the tunnel, or start one: both of these clear first.
Ask(t, what, then) ==
    /\ At(t, "idle") /\ what \in Requests[t]
    /\ ClearFirst(t, [NoJob EXCEPT !.then = then])
    /\ UNCHANGED <<tunnel, net, procs, marks, applied, monitors>>

AskClear(t) == Ask(t, "clear", "idle")
AskDisconnect(t) == Ask(t, "disconnect", "tearDown")
AskConnect(t) == Ask(t, "connect", "bringUp")

TearDown(t) ==
    /\ At(t, "tearDown")
    /\ tunnel' = "off"
    /\ main' = {} /\ vpnTable' = {}
    /\ Return(t)
    /\ UNCHANGED <<mirror, procs, marks, applied, monitors>>

\* The old device goes; the new one comes up with all its routes or not at
\* all (what a start that fails between the two leaves is not modelled here).
BringUp(t) ==
    /\ At(t, "bringUp")
    /\ vpnTable' = {}
    /\ \/ tunnel' = "up" /\ main' = Routes
       \/ tunnel' = "off" /\ main' = {}
    /\ Return(t)
    /\ UNCHANGED <<mirror, procs, marks, applied, monitors>>

-----------------------------------------------------------------------------
(***************************************************************************)
(* clear_split_tunnel.                                                     *)
(***************************************************************************)

AllStopped == {[m EXCEPT !.stop = TRUE] : m \in monitors}

StopMonitor(t) ==
    /\ At(t, "stopMonitor")
    /\ monitors' = AllStopped
    /\ Goto(t, "removeRules")
    /\ UNCHANGED <<tunnel, net, procs, marks, applied, job>>

\* The rules of both modes go and the groups are emptied.
RemoveRules(t) ==
    /\ At(t, "removeRules")
    /\ rules' = {}
    /\ group' = [a \in Apps |-> "none"]
    /\ Goto(t, "removeGroups")
    /\ UNCHANGED <<tunnel, net, running, dirs, applied, monitors, job>>

\* A group that a monitor filled meanwhile cannot be removed.
RemoveGroups(t) ==
    /\ At(t, "removeGroups")
    /\ dirs' = {d \in dirs : \E a \in Apps : group[a] = d}
    /\ Goto(t, "flush")
    /\ UNCHANGED <<tunnel, net, procs, rules, applied, monitors, job>>

Flush(t) ==
    /\ At(t, "flush")
    /\ vpnTable' = {} /\ mirror' = FALSE
    /\ Goto(t, "takeState")
    /\ UNCHANGED <<tunnel, main, procs, marks, applied, monitors, job>>

TakeState(t) ==
    /\ At(t, "takeState")
    /\ applied' = {}
    /\ job' = [job EXCEPT ![t].left = UNION {s.moved : s \in applied}]
    /\ Goto(t, "restore")
    /\ UNCHANGED <<tunnel, net, procs, marks, monitors>>

\* Variant for the model checker: any route of the device counts as `already`.
RestoreRouteOnce(t) ==
    /\ At(t, "restore")
    /\ \E r \in job[t].left :
          /\ main' = IF tunnel = "up" /\ main = {} THEN main \cup {r} ELSE main
          /\ job' = [job EXCEPT ![t].left = @ \ {r}]
    /\ UNCHANGED <<tunnel, vpnTable, mirror, procs, marks, applied, monitors, pc>>

\* A route returns while its device is up, unless it is back already.
RestoreRoute(t) ==
    /\ At(t, "restore")
    /\ \E r \in job[t].left :
          /\ main' = IF tunnel = "up" THEN main \cup {r} ELSE main
          /\ job' = [job EXCEPT ![t].left = @ \ {r}]
    /\ UNCHANGED <<tunnel, vpnTable, mirror, procs, marks, applied, monitors, pc>>

Cleared(t) ==
    /\ At(t, "restore") /\ job[t].left = {}
    /\ IF job[t].then = "idle" THEN Return(t) ELSE Goto(t, job[t].then) /\ UNCHANGED job
    /\ UNCHANGED <<tunnel, net, procs, marks, applied, monitors>>

Clear(t) ==
    \/ StopMonitor(t) \/ RemoveRules(t) \/ RemoveGroups(t) \/ Flush(t)
    \/ TakeState(t) \/ RestoreRoute(t) \/ Cleared(t)

-----------------------------------------------------------------------------
(***************************************************************************)
(* The rest of apply_split_tunnel.                                         *)
(***************************************************************************)

\* No tunnel, or no physical default that can be made out, is an error.
ReadRoutes(t) ==
    /\ At(t, "readRoutes")
    /\ \/ Return(t)
       \/ /\ main # {}
          /\ job' = [job EXCEPT ![t].left = main]
          /\ Goto(t, IF job[t].mode = "only" THEN "move" ELSE "mirror")
    /\ UNCHANGED <<tunnel, net, procs, marks, applied, monitors>>

\* Variant for the model checker: a route is deleted and not added again.
MoveRouteOut(t) ==
    /\ At(t, "move")
    /\ \E r \in job[t].left :
          /\ main' = main \ {r}
          /\ job' = [job EXCEPT ![t].left = @ \ {r}, ![t].moved = @ \cup (main \cap {r})]
    /\ UNCHANGED <<tunnel, vpnTable, mirror, procs, marks, applied, monitors, pc>>

\* A route that is gone meanwhile is not deleted and not moved.
MoveRoute(t) ==
    /\ At(t, "move")
    /\ \E r \in job[t].left :
          /\ main' = main \ {r}
          /\ vpnTable' = vpnTable \cup (main \cap {r})
          /\ job' = [job EXCEPT ![t].left = @ \ {r}, ![t].moved = @ \cup (main \cap {r})]
    /\ UNCHANGED <<tunnel, mirror, procs, marks, applied, monitors, pc>>

Moved(t) ==
    /\ At(t, "move") /\ job[t].left = {}
    /\ IF job[t].moved = {} THEN Return(t) ELSE Goto(t, "mirror") /\ UNCHANGED job
    /\ UNCHANGED <<tunnel, net, procs, marks, applied, monitors>>

Mirror(t) ==
    /\ At(t, "mirror")
    /\ mirror' = TRUE
    /\ Goto(t, "ensureGroup")
    /\ UNCHANGED <<tunnel, main, vpnTable, procs, marks, applied, monitors, job>>

EnsureGroup(t) ==
    /\ At(t, "ensureGroup")
    /\ \/ /\ dirs' = dirs \cup {job[t].mode}
          /\ Goto(t, "sync") /\ UNCHANGED job
       \/ /\ "cgroup" \in MayFail
          /\ Return(t) /\ UNCHANGED dirs
    /\ UNCHANGED <<tunnel, net, procs, rules, applied, monitors>>

SyncMembership(t) ==
    /\ At(t, "sync")
    /\ group' = Placed(job[t].apps, job[t].mode)
    /\ Goto(t, "addRules")
    /\ UNCHANGED <<tunnel, net, running, marks, applied, monitors, job>>

\* Nobody looks at the result.
AddRules(t) ==
    /\ At(t, "addRules")
    /\ \/ rules' = rules \cup {job[t].mode}
       \/ "mark" \in MayFail /\ UNCHANGED rules
    /\ Goto(t, "store")
    /\ UNCHANGED <<tunnel, net, procs, dirs, applied, monitors, job>>

\* Variant for the model checker: the routes are not remembered.
StoreNoRoutes(t) ==
    /\ At(t, "store")
    /\ applied' = {[mode |-> job[t].mode, apps |-> job[t].apps, moved |-> {}]}
    /\ Goto(t, "startMonitor")
    /\ UNCHANGED <<tunnel, net, procs, marks, monitors, job>>

Store(t) ==
    /\ At(t, "store")
    /\ applied' = {[mode |-> job[t].mode, apps |-> job[t].apps, moved |-> job[t].moved]}
    /\ Goto(t, "startMonitor")
    /\ UNCHANGED <<tunnel, net, procs, marks, monitors, job>>

StartMonitor(t) ==
    /\ At(t, "startMonitor")
    /\ monitors' = AllStopped \cup
          {[apps |-> job[t].apps, mode |-> job[t].mode, stop |-> FALSE, at |-> "sleep"]}
    /\ Return(t)
    /\ UNCHANGED <<tunnel, net, procs, marks, applied>>

Apply(t) ==
    \/ ReadRoutes(t) \/ MoveRoute(t) \/ Moved(t) \/ Mirror(t) \/ EnsureGroup(t)
    \/ SyncMembership(t) \/ AddRules(t) \/ Store(t) \/ StartMonitor(t)

-----------------------------------------------------------------------------
(***************************************************************************)
(* The monitors, the programs and the tunnel.                              *)
(***************************************************************************)

Become(m, S) == monitors' = (monitors \ {m}) \cup S

MonitorWakes(m) ==
    /\ m.at = "sleep"
    /\ Become(m, IF m.stop \/ applied = {} THEN {} ELSE {[m EXCEPT !.at = "sync"]})
    /\ UNCHANGED <<tunnel, net, procs, marks, applied, pc, job>>

\* Variant for the model checker: one more scan and no others.
MonitorSyncsOnce(m) ==
    /\ m.at = "sync"
    /\ group' = Placed(m.apps, m.mode)
    /\ Become(m, {})
    /\ UNCHANGED <<tunnel, net, running, marks, applied, pc, job>>

MonitorSyncs(m) ==
    /\ m.at = "sync"
    /\ group' = Placed(m.apps, m.mode)
    /\ Become(m, {[m EXCEPT !.at = "sleep"]})
    /\ UNCHANGED <<tunnel, net, running, marks, applied, pc, job>>

MonitorStep(m) == MonitorWakes(m) \/ MonitorSyncs(m)

Launch(a) ==
    /\ a \notin running
    /\ running' = running \cup {a}
    /\ UNCHANGED <<tunnel, net, group, marks, applied, monitors, pc, job>>

Quit(a) ==
    /\ a \in running
    /\ running' = running \ {a}
    /\ group' = [group EXCEPT ![a] = "none"]
    /\ UNCHANGED <<tunnel, net, marks, applied, monitors, pc, job>>

\* The device disappears and takes its routes along, from every table.
Drop ==
    /\ tunnel = "up"
    /\ tunnel' = "dropped"
    /\ main' = {} /\ vpnTable' = {}
    /\ UNCHANGED <<mirror, procs, marks, applied, monitors, pc, job>>

\* The tunnel's own process opens it again.
Reopen ==
    /\ tunnel = "dropped"
    /\ tunnel' = "up"
    /\ main' = Routes
    /\ UNCHANGED <<vpnTable, mirror, procs, marks, applied, monitors, pc, job>>

ThreadStep(t) == Clear(t) \/ Apply(t) \/ NoteApps(t) \/ TearDown(t) \/ BringUp(t)

Next ==
    \/ \E t \in Threads :
          \/ ThreadStep(t)
          \/ AskClear(t) \/ AskDisconnect(t) \/ AskConnect(t)
          \/ \E mode \in SplitMode, S \in Selections : AskApply(t, mode, S)
    \/ \E m \in monitors : MonitorStep(m)
    \/ \E a \in Apps : Launch(a) \/ Quit(a)
    \/ Drop \/ Reopen

Spec == Init /\ [][Next]_vars

\* A request that is taken up goes on, and each monitor wakes again.
Fairness ==
    /\ \A t \in Threads : WF_vars(ThreadStep(t))
    /\ WF_vars(\E m \in monitors : ~ m.stop /\ MonitorStep(m))
    /\ WF_vars(\E m \in monitors : m.stop /\ MonitorStep(m))

FairSpec == Spec /\ Fairness

-----------------------------------------------------------------------------

(***************************************************************************)
(* Type invariant.                                                         *)
(***************************************************************************)
TypeOK ==
    /\ tunnel \in {"off", "up", "dropped"}
    /\ main \subseteq Routes /\ vpnTable \subseteq Routes /\ mirror \in BOOLEAN
    /\ running \subseteq Apps /\ group \in [Apps -> SplitMode \cup {"none"}]
    /\ dirs \subseteq SplitMode /\ rules \subseteq SplitMode
    /\ applied \subseteq AppliedSplit /\ Cardinality(applied) <= 1
    /\ monitors \subseteq Monitor
    /\ Cardinality({m \in monitors : ~ m.stop}) <= 1

(***************************************************************************)
(* While a tunnel is up, none of its catch-all routes is forgotten: it is  *)
(* in the main table, or somebody remembers to put it back, on the stack   *)
(* of a request or in the applied state.                                   *)
(***************************************************************************)
RoutesKept ==
    tunnel = "up" =>
        \A r \in Routes :
            \/ r \in main
            \/ \E s \in applied : r \in s.moved
            \/ \E t \in Threads :
                  r \in job[t].moved \/ (At(t, "restore") /\ r \in job[t].left)

Quiet == \A t \in Threads : At(t, "idle")

(***************************************************************************)
(* Turning it off is lossless: with no request under way and nothing       *)
(* applied, a tunnel that is up has all its routes, after any sequence of  *)
(* applications, failures, reconnections and clearings.                    *)
(***************************************************************************)
OffLossless == Quiet /\ applied = {} /\ tunnel = "up" => main = Routes

\* The packets of a program go into the tunnel, wherever they go.  A table
\* that has no route for them leaves them to the main table.
Tunnelled(a) ==
    LET marked == group[a] \in rules
    IN  IF marked /\ group[a] = "except" /\ mirror THEN FALSE
        ELSE (IF marked /\ group[a] = "only" THEN main \cup vpnTable ELSE main) = Routes

(***************************************************************************)
(* "Only these": a selected program that has been placed uses the tunnel   *)
(* as long as it is up, also after it dropped and came back.               *)
(***************************************************************************)
OnlyProtects ==
    Quiet /\ tunnel = "up" =>
        \A s \in applied, a \in running :
            s.mode = "only" /\ a \in s.apps /\ group[a] = "only" => Tunnelled(a)

(***************************************************************************)
(* "All except these": every program that is not selected uses the tunnel, *)
(* whatever was selected before.                                           *)
(***************************************************************************)
ExceptProtects ==
    Quiet /\ tunnel = "up" =>
        \A s \in applied, a \in running :
            s.mode = "except" /\ a \notin s.apps => Tunnelled(a)

Wanted(a) == tunnel = "up" /\ a \in running /\ \E s \in applied : a \in s.apps

InPlace(a) == \E s \in applied : group[a] = s.mode

(***************************************************************************)
(* A selected program that is started later is picked up by the monitor.   *)
(***************************************************************************)
PickedUp == \A a \in UNION Selections : Wanted(a) ~> (InPlace(a) \/ ~ Wanted(a))

=============================================================================
