-------------------------- MODULE SplitTunnelProofs --------------------------
(***************************************************************************)
(* Proofs about SplitTunnel, for every number of programs, routes and      *)
(* helper threads.                                                         *)
(***************************************************************************)
EXTENDS SplitTunnel, FiniteSetTheorems, TLAPS

Clearing == {"stopMonitor", "removeRules", "removeGroups", "flush", "takeState", "restore"}

\* Where a request may hold routes that it has moved and not yet stored.
Moving == {"move", "mirror", "ensureGroup", "sync", "addRules", "store"}

Building == {"readRoutes", "startMonitor"} \cup Moving

Labels == {"idle", "noteApps", "tearDown", "bringUp"} \cup Clearing \cup Building

Job == [mode : SplitMode, apps : SUBSET Apps, left : SUBSET Routes,
        moved : SUBSET Routes, then : {"idle", "tearDown", "bringUp", "readRoutes"}]

\* A request that builds, or will when it has cleared, was asked to apply a
\* list of programs that is not empty; only one that moves has moved routes.
StackOK(t, at, j) ==
    /\ at \in Labels /\ j \in Job
    /\ at \in Building \cup {"noteApps"} \/ j.then = "readRoutes"
          => j.apps # {} /\ "apply" \in Requests[t]
    /\ j.moved # {} => at \in Moving \cup {"startMonitor"}

Stacks ==
    /\ pc \in [Threads -> Labels] /\ job \in [Threads -> Job]
    /\ \A t \in Threads : StackOK(t, pc[t], job[t])

OneApplied == \A s, u \in applied : s = u

OneMonitor == \A m, n \in monitors : ~ m.stop /\ ~ n.stop => m = n

(***************************************************************************)
(* The type invariant is inductive with what the stacks hold, and with     *)
(* "at most one" said without cardinalities.                               *)
(***************************************************************************)
SplitTypes ==
    /\ tunnel \in {"off", "up", "dropped"}
    /\ main \subseteq Routes /\ vpnTable \subseteq Routes /\ mirror \in BOOLEAN
    /\ running \subseteq Apps /\ group \in [Apps -> SplitMode \cup {"none"}]
    /\ dirs \subseteq SplitMode /\ rules \subseteq SplitMode
    /\ applied \subseteq AppliedSplit /\ OneApplied
    /\ monitors \subseteq Monitor /\ OneMonitor
    /\ Stacks

\* A set all of whose members are one has at most one.
LEMMA AtMostOne ==
    ASSUME NEW S, \A x, y \in S : x = y
    PROVE  Cardinality(S) <= 1
<1>1. CASE S = {} BY <1>1, FS_EmptySet
<1>2. CASE S # {}
  <2>1. PICK x \in S : TRUE BY <1>2
  <2>2. S = {x} BY <2>1
  <2>. QED BY <2>2, FS_Singleton
<1>. QED BY <1>1, <1>2

\* A thread that moves keeps every stack in order when its own is.
LEMMA StacksStay ==
    ASSUME Stacks, NEW t \in Threads, NEW at, NEW j, StackOK(t, at, j),
           pc' = [pc EXCEPT ![t] = at], job' = [job EXCEPT ![t] = j]
    PROVE  Stacks'
<1>1. at \in Labels /\ j \in Job BY DEF StackOK
<1>2. pc' \in [Threads -> Labels] /\ job' \in [Threads -> Job] BY <1>1 DEF Stacks
<1>3. ASSUME NEW u \in Threads PROVE StackOK(u, pc'[u], job'[u])
  <2>1. CASE u = t BY <2>1 DEF Stacks
  <2>2. CASE u # t BY <2>2 DEF Stacks
  <2>. QED BY <2>1, <2>2
<1>4. \A u \in Threads : StackOK(u, pc[u], job[u])' BY <1>3 DEF StackOK
<1>. QED BY <1>2, <1>4 DEF Stacks

\* A request that returns leaves an empty stack.
LEMMA EmptyStack == \A t \in Threads : StackOK(t, "idle", NoJob)
BY DEF StackOK, NoJob, Job, SplitMode, Labels, Building, Moving

\* The stack of a thread at a label is of that label's kind.
LEMMA StackAt ==
    ASSUME Stacks, NEW t \in Threads
    PROVE  /\ job[t] \in Job /\ StackOK(t, pc[t], job[t])
           /\ job[t].mode \in SplitMode /\ job[t].apps \subseteq Apps
           /\ job[t].left \subseteq Routes /\ job[t].moved \subseteq Routes
           /\ job[t].then \in {"idle", "tearDown", "bringUp", "readRoutes"}
<1>1. job[t] \in Job /\ StackOK(t, pc[t], job[t]) BY DEF Stacks
<1>. QED BY <1>1 DEF Job

\* A step to another label of the same phase keeps the stack in order.
LEMMA StackGoes ==
    ASSUME Stacks, NEW t \in Threads, NEW at \in Labels, pc[t] \in Labels,
           at \in Building \cup {"noteApps"} =>
               pc[t] \in Building \cup {"noteApps"} \/ job[t].then = "readRoutes",
           pc[t] \in Moving \cup {"startMonitor"} =>
               at \in Moving \cup {"startMonitor"} \/ job[t].moved = {},
           Goto(t, at), UNCHANGED job
    PROVE  Stacks'
<1>1. StackOK(t, pc[t], job[t]) BY StackAt
<1>2. StackOK(t, at, job[t]) BY <1>1 DEF StackOK
<1>3. job' = [job EXCEPT ![t] = job[t]] BY DEF Stacks
<1>. QED BY <1>2, <1>3, StacksStay DEF Goto

\* Every step of a request keeps the stacks in order.
LEMMA StacksStep ==
    ASSUME SplitTypes, NEW t \in Threads, ThreadStep(t)
    PROVE  Stacks'
<1>1. Stacks BY DEF SplitTypes
<1>2. /\ job[t] \in Job /\ StackOK(t, pc[t], job[t])
      /\ job[t].left \subseteq Routes /\ job[t].moved \subseteq Routes
      /\ job[t].then \in {"idle", "tearDown", "bringUp", "readRoutes"}
      /\ main \subseteq Routes /\ applied \subseteq AppliedSplit
      /\ job \in [Threads -> Job]
  BY <1>1, StackAt DEF SplitTypes, Stacks
<1>3. ASSUME Return(t) PROVE Stacks'
  BY <1>1, <1>3, EmptyStack, StacksStay DEF Return, Goto
<1>4. ASSUME NEW l \in SUBSET Routes, job' = [job EXCEPT ![t].left = l],
             UNCHANGED pc
      PROVE  Stacks'
  <2>1. [job[t] EXCEPT !.left = l] \in Job BY <1>2 DEF Job
  <2>2. StackOK(t, pc[t], [job[t] EXCEPT !.left = l])
    BY <1>2, <2>1 DEF StackOK, Job
  <2>3. job' = [job EXCEPT ![t] = [job[t] EXCEPT !.left = l]] BY <1>4
  <2>4. pc' = [pc EXCEPT ![t] = pc[t]] BY <1>1, <1>4 DEF Stacks
  <2>. QED BY <1>1, <2>2, <2>3, <2>4, StacksStay
<1>5. CASE StopMonitor(t) \/ RemoveRules(t) \/ RemoveGroups(t) \/ Flush(t)
  <2>1. \E at \in Clearing : Goto(t, at) /\ UNCHANGED job /\ pc[t] \in Clearing
    BY <1>5 DEF StopMonitor, RemoveRules, RemoveGroups, Flush, At, Clearing
  <2>. QED BY <1>1, <2>1, StackGoes DEF Clearing, Labels, Building, Moving
<1>6. CASE TakeState(t)
  <2> DEFINE l == UNION {s.moved : s \in applied}
             j == [job[t] EXCEPT !.left = l]
  <2>1. l \subseteq Routes BY <1>2 DEF AppliedSplit
  <2>2. j \in Job BY <1>2, <2>1 DEF Job
  <2>3. j.apps = job[t].apps /\ j.moved = job[t].moved /\ j.then = job[t].then
    BY <1>2 DEF Job
  <2>4. job' = [job EXCEPT ![t] = j] /\ pc' = [pc EXCEPT ![t] = "restore"]
        /\ pc[t] = "takeState"
    BY <1>6 DEF TakeState, Goto, At
  <2> HIDE DEF j
  <2>5. StackOK(t, "restore", j)
    BY <1>2, <2>2, <2>3, <2>4 DEF StackOK, Labels, Clearing, Building, Moving
  <2>. QED BY <1>1, <2>4, <2>5, StacksStay
<1>7. CASE RestoreRoute(t)
  <2>1. PICK r \in job[t].left : job' = [job EXCEPT ![t].left = job[t].left \ {r}]
    BY <1>1, <1>7 DEF RestoreRoute, Stacks
  <2>2. job[t].left \ {r} \in SUBSET Routes /\ UNCHANGED pc
    BY <1>2, <1>7 DEF RestoreRoute
  <2>. QED BY <1>4, <2>1, <2>2
<1>8. CASE Cleared(t)
  <2>1. CASE job[t].then = "idle" BY <1>3, <1>8, <2>1 DEF Cleared
  <2>2. CASE job[t].then # "idle"
    <3>1. Goto(t, job[t].then) /\ UNCHANGED job /\ pc[t] = "restore"
      BY <1>8, <2>2 DEF Cleared, At
    <3>2. job[t].then \in {"tearDown", "bringUp", "readRoutes"} BY <1>2, <2>2
    <3>. QED BY <1>1, <3>1, <3>2, StackGoes DEF Labels, Clearing, Building, Moving
  <2>. QED BY <2>1, <2>2
<1>9. CASE ReadRoutes(t)
  <2>1. CASE Return(t) BY <1>3, <2>1
  <2>2. CASE ~ Return(t)
    <3> DEFINE at == IF job[t].mode = "only" THEN "move" ELSE "mirror"
               j == [job[t] EXCEPT !.left = main]
    <3>1. pc[t] = "readRoutes" /\ job' = [job EXCEPT ![t] = j] /\ Goto(t, at)
      BY <1>9, <2>2 DEF ReadRoutes, At
    <3>2. j \in Job /\ j.apps = job[t].apps /\ j.moved = job[t].moved
      BY <1>2 DEF Job
    <3>3. at \in Moving BY DEF Moving
    <3> HIDE DEF j, at
    <3>4. StackOK(t, at, j)
      BY <1>2, <3>1, <3>2, <3>3 DEF StackOK, Labels, Building, Moving
    <3>. QED BY <1>1, <3>1, <3>4, StacksStay DEF Goto
  <2>. QED BY <2>1, <2>2
<1>10. CASE MoveRoute(t)
  <2>1. PICK r \in job[t].left :
            job' = [job EXCEPT ![t].left = @ \ {r}, ![t].moved = @ \cup (main \cap {r})]
    BY <1>10 DEF MoveRoute
  <2> DEFINE j == [job[t] EXCEPT !.left = @ \ {r}, !.moved = @ \cup (main \cap {r})]
  <2>2. job' = [job EXCEPT ![t] = j] BY <1>2, <2>1
  <2>3. j \in Job /\ j.apps = job[t].apps BY <1>2 DEF Job
  <2>4. pc[t] = "move" /\ pc' = [pc EXCEPT ![t] = "move"]
    BY <1>1, <1>10 DEF MoveRoute, At, Stacks
  <2> HIDE DEF j
  <2>5. StackOK(t, "move", j)
    BY <1>2, <2>3, <2>4 DEF StackOK, Labels, Building, Moving
  <2>. QED BY <1>1, <2>2, <2>4, <2>5, StacksStay
<1>11. CASE Moved(t)
  <2>1. CASE job[t].moved = {} BY <1>3, <1>11, <2>1 DEF Moved
  <2>2. CASE job[t].moved # {}
    <3>1. Goto(t, "mirror") /\ UNCHANGED job /\ pc[t] = "move"
      BY <1>11, <2>2 DEF Moved, At
    <3>. QED BY <1>1, <3>1, StackGoes DEF Labels, Building, Moving
  <2>. QED BY <2>1, <2>2
<1>12. CASE Mirror(t) \/ SyncMembership(t) \/ AddRules(t) \/ Store(t)
  <2>1. \E at \in {"ensureGroup", "addRules", "store", "startMonitor"} :
            Goto(t, at) /\ UNCHANGED job /\ pc[t] \in Moving
    BY <1>12 DEF Mirror, SyncMembership, AddRules, Store, At, Moving
  <2>. QED BY <1>1, <2>1, StackGoes DEF Labels, Building, Moving
<1>13. CASE EnsureGroup(t)
  <2>1. CASE Return(t) BY <1>3, <2>1
  <2>2. CASE ~ Return(t)
    <3>1. Goto(t, "sync") /\ UNCHANGED job /\ pc[t] = "ensureGroup"
      BY <1>13, <2>2 DEF EnsureGroup, At
    <3>. QED BY <1>1, <3>1, StackGoes DEF Labels, Building, Moving
  <2>. QED BY <2>1, <2>2
<1>14. CASE StartMonitor(t) \/ NoteApps(t) \/ TearDown(t) \/ BringUp(t)
  BY <1>3, <1>14 DEF StartMonitor, NoteApps, TearDown, BringUp
<1>. QED BY <1>5, <1>6, <1>7, <1>8, <1>9, <1>10, <1>11, <1>12, <1>13, <1>14
         DEF ThreadStep, Clear, Apply

\* So does every request that is taken up.
LEMMA StacksAsk ==
    ASSUME SplitTypes, NEW t \in Threads,
           \/ AskClear(t) \/ AskDisconnect(t) \/ AskConnect(t)
           \/ \E mode \in SplitMode, S \in Selections : AskApply(t, mode, S)
    PROVE  Stacks'
<1>1. Stacks BY DEF SplitTypes
<1>2. ASSUME NEW what, NEW then \in {"idle", "tearDown", "bringUp"}, Ask(t, what, then)
      PROVE  Stacks'
  <2> DEFINE j == [NoJob EXCEPT !.then = then]
  <2>1. pc' = [pc EXCEPT ![t] = "stopMonitor"] /\ job' = [job EXCEPT ![t] = j]
    BY <1>2 DEF Ask, ClearFirst, Goto
  <2>2. j \in Job /\ j.then # "readRoutes" /\ j.moved = {}
    BY DEF NoJob, Job, SplitMode
  <2> HIDE DEF j
  <2>3. StackOK(t, "stopMonitor", j)
    BY <2>2 DEF StackOK, Labels, Clearing, Building, Moving
  <2>. QED BY <1>1, <2>1, <2>3, StacksStay
<1>3. ASSUME NEW mode \in SplitMode, NEW S \in Selections, AskApply(t, mode, S)
      PROVE  Stacks'
  <2>1. S \in SUBSET Apps /\ S # {} /\ "apply" \in Requests[t]
    BY <1>3, SplitAssumption DEF AskApply
  <2>2. CASE \E s \in applied : s.mode = mode
    <3> DEFINE j == [NoJob EXCEPT !.apps = S]
    <3>1. pc' = [pc EXCEPT ![t] = "noteApps"] /\ job' = [job EXCEPT ![t] = j]
      BY <1>3, <2>2 DEF AskApply, Goto
    <3>2. j \in Job /\ j.apps = S /\ j.moved = {}
      BY <2>1 DEF NoJob, Job, SplitMode
    <3> HIDE DEF j
    <3>3. StackOK(t, "noteApps", j)
      BY <2>1, <3>2 DEF StackOK, Labels, Clearing, Building, Moving
    <3>. QED BY <1>1, <3>1, <3>3, StacksStay
  <2>3. CASE ~ \E s \in applied : s.mode = mode
    <3> DEFINE j == [NoJob EXCEPT !.mode = mode, !.apps = S, !.then = "readRoutes"]
    <3>1. pc' = [pc EXCEPT ![t] = "stopMonitor"] /\ job' = [job EXCEPT ![t] = j]
      BY <1>3, <2>3 DEF AskApply, ClearFirst, Goto
    <3>2. j \in Job /\ j.apps = S /\ j.moved = {}
      BY <2>1 DEF NoJob, Job
    <3> HIDE DEF j
    <3>3. StackOK(t, "stopMonitor", j)
      BY <2>1, <3>2 DEF StackOK, Labels, Clearing, Building, Moving
    <3>. QED BY <1>1, <3>1, <3>3, StacksStay
  <2>. QED BY <2>2, <2>3
<1>. QED BY <1>2, <1>3 DEF AskClear, AskDisconnect, AskConnect

-----------------------------------------------------------------------------
(***************************************************************************)
(* Type correctness.                                                       *)
(***************************************************************************)

\* Wherever the programs are placed, it is in a group of one of the modes.
LEMMA PlacedType ==
    ASSUME group \in [Apps -> SplitMode \cup {"none"}], NEW S, NEW mode \in SplitMode
    PROVE  Placed(S, mode) \in [Apps -> SplitMode \cup {"none"}]
BY DEF Placed

\* Stopping every monitor leaves monitors that are stopped.
LEMMA AllStoppedType ==
    ASSUME monitors \subseteq Monitor
    PROVE  AllStopped \subseteq Monitor /\ \A m \in AllStopped : m.stop
BY DEF AllStopped, Monitor

\* What a request does to anything but the stacks.
LEMMA ThreadTypes ==
    ASSUME SplitTypes, NEW t \in Threads, ThreadStep(t)
    PROVE  SplitTypes'
<1> USE DEF SplitTypes
<1>1. /\ Stacks' /\ Stacks /\ job[t] \in Job /\ job[t].mode \in SplitMode
      /\ job[t].apps \subseteq Apps /\ job[t].moved \subseteq Routes
      /\ StackOK(t, pc[t], job[t])
  BY StacksStep, StackAt
<1>2. monitors \subseteq Monitor /\ OneMonitor /\ OneApplied /\ applied \subseteq AppliedSplit
  OBVIOUS
<1>3. ASSUME UNCHANGED <<applied, monitors>> PROVE OneApplied' /\ OneMonitor'
  BY <1>2, <1>3 DEF OneApplied, OneMonitor
<1>4. CASE RemoveRules(t) \/ RemoveGroups(t) \/ Flush(t) \/ RestoreRoute(t) \/ Cleared(t)
  <2>1. /\ UNCHANGED <<tunnel, running, applied, monitors>>
        /\ vpnTable' \subseteq Routes /\ mirror' \in BOOLEAN
    BY <1>4 DEF RemoveRules, RemoveGroups, Flush, RestoreRoute, Cleared, net, procs, marks
  <2>2. /\ group' \in [Apps -> SplitMode \cup {"none"}]
        /\ dirs' \subseteq SplitMode /\ rules' \subseteq SplitMode
    BY <1>4 DEF RemoveRules, RemoveGroups, Flush, RestoreRoute, Cleared, procs, marks
  <2>3. main' \subseteq Routes
    <3>1. CASE RestoreRoute(t)
      <4>1. job[t].left \subseteq Routes BY <1>1 DEF Job
      <4>. QED BY <3>1, <4>1 DEF RestoreRoute
    <3>. QED BY <1>4, <3>1 DEF RemoveRules, RemoveGroups, Flush, Cleared, net
  <2>. QED BY <1>1, <1>3, <2>1, <2>2, <2>3
<1>5. CASE StopMonitor(t) \/ StartMonitor(t)
  <2>1. UNCHANGED <<tunnel, main, vpnTable, mirror, running, group, dirs, rules, applied>>
    BY <1>5 DEF StopMonitor, StartMonitor, net, procs, marks
  <2>2. monitors' \subseteq Monitor /\ OneMonitor'
    <3> DEFINE m == [apps |-> job[t].apps, mode |-> job[t].mode, stop |-> FALSE,
                     at |-> "sleep"]
    <3>1. m \in Monitor BY <1>1 DEF Monitor
    <3> HIDE DEF m
    <3>2. monitors' = AllStopped \/ monitors' = AllStopped \cup {m}
      BY <1>5 DEF StopMonitor, StartMonitor, m
    <3>. QED BY <1>2, <3>1, <3>2, AllStoppedType DEF OneMonitor
  <2>3. OneApplied' BY <1>2, <2>1 DEF OneApplied
  <2>. QED BY <1>1, <2>1, <2>2, <2>3
<1>6. CASE TakeState(t) \/ NoteApps(t) \/ Store(t)
  <2>1. UNCHANGED <<tunnel, main, vpnTable, mirror, running, group, dirs, rules, monitors>>
    BY <1>6 DEF TakeState, NoteApps, Store, net, procs, marks
  <2>2. applied' \subseteq AppliedSplit /\ OneApplied'
    <3>1. CASE TakeState(t) BY <3>1 DEF TakeState, OneApplied
    <3>2. CASE NoteApps(t)
      <4>1. job[t].apps \in (SUBSET Apps) \ {{}}
        BY <1>1, <3>2 DEF NoteApps, At, StackOK
      <4>2. \A s \in applied : [s EXCEPT !.apps = job[t].apps] \in AppliedSplit
        BY <1>2, <4>1 DEF AppliedSplit
      <4>3. applied' = {[s EXCEPT !.apps = job[t].apps] : s \in applied}
        BY <3>2 DEF NoteApps
      <4>. QED BY <1>2, <4>2, <4>3 DEF OneApplied
    <3>3. CASE Store(t)
      <4>1. job[t].apps \in (SUBSET Apps) \ {{}}
        BY <1>1, <3>3 DEF Store, At, StackOK, Building, Moving
      <4>2. [mode |-> job[t].mode, apps |-> job[t].apps, moved |-> job[t].moved]
                \in AppliedSplit
        BY <1>1, <4>1 DEF AppliedSplit
      <4>. QED BY <3>3, <4>2 DEF Store, OneApplied
    <3>. QED BY <1>6, <3>1, <3>2, <3>3
  <2>3. OneMonitor' BY <1>2, <2>1 DEF OneMonitor
  <2>. QED BY <1>1, <2>1, <2>2, <2>3
<1>7. CASE ReadRoutes(t) \/ MoveRoute(t) \/ Moved(t) \/ Mirror(t) \/ TearDown(t) \/ BringUp(t)
  <2>1. /\ UNCHANGED <<running, group, dirs, rules, applied, monitors>>
        /\ main' \subseteq Routes /\ vpnTable' \subseteq Routes /\ mirror' \in BOOLEAN
        /\ tunnel' \in {"off", "up", "dropped"}
    BY <1>7 DEF ReadRoutes, MoveRoute, Moved, Mirror, TearDown, BringUp, net, procs, marks
  <2>. QED BY <1>1, <1>3, <2>1
<1>8. CASE EnsureGroup(t) \/ AddRules(t)
  <2>1. /\ UNCHANGED <<tunnel, main, vpnTable, mirror, running, group, applied, monitors>>
        /\ dirs' \subseteq SplitMode /\ rules' \subseteq SplitMode
    BY <1>1, <1>8 DEF EnsureGroup, AddRules, net, procs
  <2>. QED BY <1>1, <1>3, <2>1
<1>9. CASE SyncMembership(t)
  <2>1. /\ UNCHANGED <<tunnel, main, vpnTable, mirror, running, dirs, rules, applied, monitors>>
        /\ group' \in [Apps -> SplitMode \cup {"none"}]
    BY <1>1, <1>9, PlacedType DEF SyncMembership, net, marks
  <2>. QED BY <1>1, <1>3, <2>1
<1>. QED BY <1>4, <1>5, <1>6, <1>7, <1>8, <1>9 DEF ThreadStep, Clear, Apply

\* Only the placing of a selection does more than begin a request.
LEMMA AskTypes ==
    ASSUME SplitTypes, NEW t \in Threads,
           \/ AskClear(t) \/ AskDisconnect(t) \/ AskConnect(t)
           \/ \E mode \in SplitMode, S \in Selections : AskApply(t, mode, S)
    PROVE  SplitTypes'
<1> USE DEF SplitTypes
<1>1. Stacks' BY StacksAsk
<1>2. UNCHANGED <<tunnel, main, vpnTable, mirror, running, dirs, rules, applied, monitors>>
  BY DEF AskClear, AskDisconnect, AskConnect, Ask, AskApply, net, procs, marks
<1>3. group' \in [Apps -> SplitMode \cup {"none"}]
  <2>1. group' = group \/ \E mode \in SplitMode, S \in Selections : group' = Placed(S, mode)
    BY DEF AskClear, AskDisconnect, AskConnect, Ask, AskApply, procs
  <2>. QED BY <2>1, PlacedType
<1>. QED BY <1>1, <1>2, <1>3 DEF OneApplied, OneMonitor

\* The monitors, the programs and the device.
LEMMA OthersTypes ==
    ASSUME SplitTypes,
           \/ \E m \in monitors : MonitorStep(m)
           \/ \E a \in Apps : Launch(a) \/ Quit(a)
           \/ Drop \/ Reopen \/ UNCHANGED vars
    PROVE  SplitTypes'
<1> USE DEF SplitTypes
<1>1. Stacks'
  <2>1. UNCHANGED <<pc, job>>
    BY DEF MonitorStep, MonitorWakes, MonitorSyncs, Launch, Quit, Drop, Reopen, vars
  <2>. QED BY <2>1 DEF Stacks, StackOK
<1>2. ASSUME NEW m \in monitors, MonitorStep(m) PROVE SplitTypes'
  <2>1. m \in Monitor /\ m.mode \in SplitMode BY DEF Monitor
  <2>2. /\ UNCHANGED <<tunnel, main, vpnTable, mirror, running, dirs, rules, applied>>
        /\ group' \in [Apps -> SplitMode \cup {"none"}]
    BY <1>2, <2>1, PlacedType DEF MonitorStep, MonitorWakes, MonitorSyncs, net, procs, marks
  <2>3. monitors' \subseteq Monitor /\ OneMonitor'
    <3>1. \A at \in {"sleep", "sync"} :
             [m EXCEPT !.at = at] \in Monitor /\ ([m EXCEPT !.at = at].stop = m.stop)
      BY <2>1 DEF Monitor
    <3>2. \/ monitors' = monitors \ {m}
          \/ \E at \in {"sleep", "sync"} :
                monitors' = (monitors \ {m}) \cup {[m EXCEPT !.at = at]}
      BY <1>2 DEF MonitorStep, MonitorWakes, MonitorSyncs, Become
    <3>. QED BY <3>1, <3>2 DEF OneMonitor
  <2>4. OneApplied' BY <2>2 DEF OneApplied
  <2>. QED BY <1>1, <2>2, <2>3, <2>4
<1>3. CASE \/ \E a \in Apps : Launch(a) \/ Quit(a)
           \/ Drop \/ Reopen \/ UNCHANGED vars
  <2>1. /\ UNCHANGED <<mirror, dirs, rules, applied, monitors>>
        /\ main' \subseteq Routes /\ vpnTable' \subseteq Routes
        /\ running' \subseteq Apps /\ tunnel' \in {"off", "up", "dropped"}
    BY <1>3 DEF Launch, Quit, Drop, Reopen, vars, net, procs, marks
  <2>2. group' \in [Apps -> SplitMode \cup {"none"}]
    BY <1>3 DEF Launch, Quit, Drop, Reopen, vars, procs
  <2>. QED BY <1>1, <2>1, <2>2 DEF OneApplied, OneMonitor
<1>. QED BY <1>2, <1>3

\* Nothing runs yet, nothing is applied.
LEMMA InitTypes == Init => SplitTypes
<1> SUFFICES ASSUME Init PROVE SplitTypes
  OBVIOUS
<1>1. NoJob \in Job BY DEF NoJob, Job, SplitMode
<1>2. pc = [t \in Threads |-> "idle"] /\ job = [t \in Threads |-> NoJob] BY DEF Init
<1>3. Stacks BY <1>1, <1>2, EmptyStack DEF Stacks, Labels
<1>. QED BY <1>3 DEF Init, SplitTypes, OneApplied, OneMonitor

\* No step, and no pause, breaks the types.
LEMMA StepTypes == SplitTypes /\ [Next]_vars => SplitTypes'
BY ThreadTypes, AskTypes, OthersTypes DEF Next

(***************************************************************************)
(* The stacks of the helper's threads and all that they share keep their   *)
(* types.                                                                  *)
(***************************************************************************)
THEOREM SplitTypesHold == Spec => []SplitTypes
BY InitTypes, StepTypes, PTL DEF Spec

(***************************************************************************)
(* The split tunnel keeps its types; there is one applied state and one    *)
(* monitor that has not been told to stop, at most.                        *)
(***************************************************************************)
THEOREM SplitTypeCorrect == Spec => []TypeOK
<1>1. SplitTypes => TypeOK
  <2> SUFFICES ASSUME SplitTypes PROVE TypeOK
    OBVIOUS
  <2>1. Cardinality(applied) <= 1 BY AtMostOne DEF SplitTypes, OneApplied
  <2>2. Cardinality({m \in monitors : ~ m.stop}) <= 1
    BY AtMostOne DEF SplitTypes, OneMonitor
  <2>. QED BY <2>1, <2>2 DEF SplitTypes, TypeOK
<1>. QED BY <1>1, SplitTypesHold, PTL

-----------------------------------------------------------------------------
(***************************************************************************)
(* No catch-all route of a tunnel that is up is forgotten.                 *)
(***************************************************************************)

\* The control groups can be made: the error in between loses the routes.
GroupsAreMade == "cgroup" \notin MayFail

\* One thread at a time is asked to apply: the one of the interface.
OneApplies ==
    \A t, u \in Threads : "apply" \in Requests[t] /\ "apply" \in Requests[u] => t = u

\* A thread at this label, with this stack, puts route r back or stores it.
Holds(at, j, r) ==
    \/ at \in Moving /\ r \in j.moved
    \/ at = "restore" /\ r \in j.left

Remembered(r) ==
    \/ r \in main
    \/ \E s \in applied : r \in s.moved
    \/ \E t \in Threads : Holds(pc[t], job[t], r)

\* From the step that takes the state to the one that stores the next.
Replacing(at, j) ==
    \/ at \in Moving \cup {"readRoutes"}
    \/ at = "restore" /\ j.then = "readRoutes"

(***************************************************************************)
(* What RoutesKept needs to be inductive: nothing is applied while a       *)
(* request builds, so that what it stores at its end replaces nothing.     *)
(***************************************************************************)
KeptInv ==
    /\ tunnel = "up" => \A r \in Routes : Remembered(r)
    /\ \A t \in Threads : Replacing(pc[t], job[t]) => applied = {}

\* The stacks of the other threads are not touched by a step of one.
LEMMA OthersStay ==
    ASSUME SplitTypes, NEW t \in Threads,
           \/ ThreadStep(t) \/ AskClear(t) \/ AskDisconnect(t) \/ AskConnect(t)
           \/ \E mode \in SplitMode, S \in Selections : AskApply(t, mode, S)
    PROVE  \A u \in Threads \ {t} : pc'[u] = pc[u] /\ job'[u] = job[u]
<1>1. pc \in [Threads -> Labels] /\ job \in [Threads -> Job] BY DEF SplitTypes, Stacks
<1>2. ASSUME NEW u \in Threads \ {t} PROVE pc'[u] = pc[u]
  <2>1. (\E at : pc' = [pc EXCEPT ![t] = at]) \/ pc' = pc
    BY DEF ThreadStep, Clear, Apply, StopMonitor, RemoveRules, RemoveGroups, Flush,
           TakeState, RestoreRoute, Cleared, ReadRoutes, MoveRoute, Moved, Mirror,
           EnsureGroup, SyncMembership, AddRules, Store, StartMonitor, NoteApps,
           TearDown, BringUp, AskClear, AskDisconnect, AskConnect, Ask, AskApply,
           ClearFirst, Goto, Return
  <2>. QED BY <1>1, <2>1
<1>3. ASSUME NEW u \in Threads \ {t} PROVE job'[u] = job[u]
  <2>1. (\E j : job' = [job EXCEPT ![t] = j]) \/ job' = job
    BY DEF ThreadStep, Clear, Apply, StopMonitor, RemoveRules, RemoveGroups, Flush,
           TakeState, RestoreRoute, Cleared, ReadRoutes, MoveRoute, Moved, Mirror,
           EnsureGroup, SyncMembership, AddRules, Store, StartMonitor, NoteApps,
           TearDown, BringUp, AskClear, AskDisconnect, AskConnect, Ask, AskApply,
           ClearFirst, Return
  <2>. QED BY <1>1, <2>1
<1>. QED BY <1>2, <1>3

\* A step of one thread forgets nothing that it does not take over itself, and
\* stores nothing behind another's back.
LEMMA KeptByStep ==
    ASSUME KeptInv, NEW t \in Threads,
           \A u \in Threads \ {t} : pc'[u] = pc[u] /\ job'[u] = job[u],
           tunnel' = "up" => tunnel = "up",
           \A r \in main : r \in main' \/ Holds(pc'[t], job'[t], r),
           \A s \in applied : \A r \in s.moved :
               \/ \E x \in applied' : r \in x.moved
               \/ Holds(pc'[t], job'[t], r),
           \A r \in Routes : tunnel = "up" /\ Holds(pc[t], job[t], r) =>
               \/ r \in main' \/ Holds(pc'[t], job'[t], r)
               \/ \E x \in applied' : r \in x.moved,
           applied = {} => applied' = {},
           Replacing(pc'[t], job'[t]) => Replacing(pc[t], job[t]) \/ applied' = {}
    PROVE  KeptInv'
<1>1. ASSUME NEW r \in Routes, tunnel = "up" PROVE Remembered(r)'
  <2>1. Remembered(r) BY <1>1 DEF KeptInv
  <2>2. CASE r \in main
    BY <2>2 DEF Remembered, Holds
  <2>3. CASE \E s \in applied : r \in s.moved
    BY <2>3 DEF Remembered, Holds
  <2>4. CASE \E u \in Threads : Holds(pc[u], job[u], r)
    <3>1. PICK u \in Threads : Holds(pc[u], job[u], r) BY <2>4
    <3>2. CASE u = t
      BY <1>1, <3>1, <3>2 DEF Remembered, Holds
    <3>3. CASE u # t
      <4>1. pc'[u] = pc[u] /\ job'[u] = job[u] BY <3>3
      <4>. QED BY <3>1, <4>1 DEF Remembered, Holds
    <3>. QED BY <3>2, <3>3
  <2>. QED BY <2>1, <2>2, <2>3, <2>4 DEF Remembered
<1>2. ASSUME NEW u \in Threads, Replacing(pc'[u], job'[u]) PROVE applied' = {}
  <2>1. CASE u = t BY <1>2, <2>1 DEF KeptInv
  <2>2. CASE u # t
    <3>1. pc'[u] = pc[u] /\ job'[u] = job[u] BY <2>2
    <3>2. Replacing(pc[u], job[u]) BY <1>2, <3>1
    <3>. QED BY <3>2 DEF KeptInv
  <2>. QED BY <2>1, <2>2
<1>. QED BY <1>1, <1>2 DEF KeptInv, Replacing

\* A step that leaves the main table and the applied state alone, from where
\* the thread holds nothing.
LEMMA KeptByIdleStep ==
    ASSUME KeptInv, NEW t \in Threads,
           \A u \in Threads \ {t} : pc'[u] = pc[u] /\ job'[u] = job[u],
           UNCHANGED <<tunnel, main, applied>>,
           pc[t] \notin Moving, pc[t] = "restore" => job[t].left = {},
           ~ Replacing(pc'[t], job'[t]) \/ Replacing(pc[t], job[t])
    PROVE  KeptInv'
<1>1. \A r : ~ Holds(pc[t], job[t], r) BY DEF Holds
<1>. QED BY <1>1, KeptByStep

\* A label and a stack that a thread goes to are the ones it is at next.
LEMMA GoneTo ==
    ASSUME SplitTypes, NEW t \in Threads
    PROVE  /\ \A at : Goto(t, at) => pc'[t] = at
           /\ \A j : job' = [job EXCEPT ![t] = j] => job'[t] = j
           /\ Return(t) => pc'[t] = "idle" /\ job'[t] = NoJob
           /\ UNCHANGED pc => pc'[t] = pc[t]
           /\ UNCHANGED job => job'[t] = job[t]
<1>1. pc \in [Threads -> Labels] /\ job \in [Threads -> Job] BY DEF SplitTypes, Stacks
<1>. QED BY <1>1 DEF Goto, Return

\* A clearing forgets no route: it takes them out of the state onto its stack
\* and from there puts them back.
LEMMA KeptByClear ==
    ASSUME SplitTypes, KeptInv, NEW t \in Threads, Clear(t)
    PROVE  KeptInv'
<1>1. \A u \in Threads \ {t} : pc'[u] = pc[u] /\ job'[u] = job[u]
  BY OthersStay DEF ThreadStep
<1>2. /\ main \subseteq Routes /\ job[t] \in Job
      /\ job \in [Threads -> Job] /\ pc \in [Threads -> Labels]
  BY StackAt DEF SplitTypes, Stacks
<1>3. CASE StopMonitor(t) \/ RemoveRules(t) \/ RemoveGroups(t) \/ Flush(t)
  <2>1. /\ pc[t] \in {"stopMonitor", "removeRules", "removeGroups", "flush"}
        /\ pc'[t] \in {"removeRules", "removeGroups", "flush", "takeState"}
        /\ UNCHANGED <<tunnel, main, applied>>
    BY <1>3, GoneTo DEF StopMonitor, RemoveRules, RemoveGroups, Flush, At, net
  <2>. QED BY <1>1, <2>1, KeptByIdleStep DEF Moving, Replacing
<1>4. CASE TakeState(t)
  <2> DEFINE l == UNION {s.moved : s \in applied}
  <2>1. /\ pc[t] = "takeState" /\ pc'[t] = "restore" /\ applied' = {}
        /\ UNCHANGED <<tunnel, main>>
    BY <1>4, GoneTo DEF TakeState, At, net
  <2>2. job'[t] = [job[t] EXCEPT !.left = l] BY <1>2, <1>4 DEF TakeState
  <2>3. job'[t].left = l BY <1>2, <2>2 DEF Job
  <2>4. \A s \in applied : \A r \in s.moved : Holds(pc'[t], job'[t], r)
    BY <2>1, <2>3 DEF Holds
  <2>5. \A r : ~ Holds(pc[t], job[t], r) BY <2>1 DEF Holds, Moving
  <2>. QED BY <1>1, <2>1, <2>4, <2>5, KeptByStep
<1>5. CASE RestoreRoute(t)
  <2>1. PICK x \in job[t].left :
            /\ main' = IF tunnel = "up" THEN main \cup {x} ELSE main
            /\ job' = [job EXCEPT ![t].left = @ \ {x}]
    BY <1>5 DEF RestoreRoute
  <2>2. /\ pc[t] = "restore" /\ pc'[t] = "restore"
        /\ UNCHANGED <<tunnel, applied>>
    BY <1>5, GoneTo DEF RestoreRoute, At
  <2>3. job'[t].left = job[t].left \ {x} /\ job'[t].then = job[t].then
    BY <1>2, <2>1 DEF Job
  <2>4. \A r \in Routes : tunnel = "up" /\ Holds(pc[t], job[t], r) =>
            r \in main' \/ Holds(pc'[t], job'[t], r)
    BY <2>1, <2>2, <2>3 DEF Holds, Moving
  <2>5. main \subseteq main' BY <2>1
  <2>6. Replacing(pc'[t], job'[t]) => Replacing(pc[t], job[t])
    BY <2>2, <2>3 DEF Replacing
  <2>. QED BY <1>1, <2>2, <2>4, <2>5, <2>6, KeptByStep
<1>6. CASE Cleared(t)
  <2>1. /\ pc[t] = "restore" /\ job[t].left = {}
        /\ UNCHANGED <<tunnel, main, applied>>
    BY <1>6 DEF Cleared, At, net
  <2>2. CASE job[t].then = "idle"
    <3>1. pc'[t] = "idle" BY <1>6, <2>2, GoneTo DEF Cleared
    <3>. QED BY <1>1, <2>1, <3>1, KeptByIdleStep DEF Moving, Replacing
  <2>3. CASE job[t].then # "idle"
    <3>1. pc'[t] = job[t].then /\ job'[t] = job[t] BY <1>6, <2>3, GoneTo DEF Cleared
    <3>2. job[t].then \in {"tearDown", "bringUp", "readRoutes"}
      BY <1>2, <2>3 DEF Job
    <3>. QED BY <1>1, <2>1, <3>1, <3>2, KeptByIdleStep DEF Moving, Replacing
  <2>. QED BY <2>2, <2>3
<1>. QED BY <1>3, <1>4, <1>5, <1>6 DEF Clear

\* An application takes routes from the main table onto its stack, and from
\* there stores them where nothing is stored.
LEMMA KeptByApply ==
    ASSUME SplitTypes, KeptInv, NEW t \in Threads, Apply(t), GroupsAreMade, OneApplies
    PROVE  KeptInv'
<1>1. \A u \in Threads \ {t} : pc'[u] = pc[u] /\ job'[u] = job[u]
  BY OthersStay DEF ThreadStep
<1>2. /\ main \subseteq Routes /\ job[t] \in Job /\ StackOK(t, pc[t], job[t])
      /\ job \in [Threads -> Job] /\ pc \in [Threads -> Labels]
  BY StackAt DEF SplitTypes, Stacks
<1>3. CASE ReadRoutes(t)
  <2>1. pc[t] = "readRoutes" /\ UNCHANGED <<tunnel, main, applied>>
    BY <1>3 DEF ReadRoutes, At, net
  <2>. QED BY <1>1, <2>1, KeptByIdleStep DEF Moving, Replacing
<1>4. CASE MoveRoute(t)
  <2>1. PICK x \in job[t].left :
            /\ main' = main \ {x}
            /\ job' = [job EXCEPT ![t].left = @ \ {x}, ![t].moved = @ \cup (main \cap {x})]
    BY <1>4 DEF MoveRoute
  <2>2. pc[t] = "move" /\ pc'[t] = "move" /\ UNCHANGED <<tunnel, applied>>
    BY <1>4, GoneTo DEF MoveRoute, At
  <2>3. job'[t].moved = job[t].moved \cup (main \cap {x})
    BY <1>2, <2>1 DEF Job
  <2>4. \A r \in main : r \in main' \/ Holds(pc'[t], job'[t], r)
    BY <2>1, <2>2, <2>3 DEF Holds, Moving
  <2>5. \A r : Holds(pc[t], job[t], r) => Holds(pc'[t], job'[t], r)
    BY <2>2, <2>3 DEF Holds, Moving
  <2>6. Replacing(pc[t], job[t]) BY <2>2 DEF Replacing, Moving
  <2>. QED BY <1>1, <2>2, <2>4, <2>5, <2>6, KeptByStep
<1>5. CASE Moved(t) \/ Mirror(t) \/ EnsureGroup(t) \/ SyncMembership(t) \/ AddRules(t)
  <2>1. UNCHANGED <<tunnel, main, applied>> /\ pc[t] \in Moving
    BY <1>5 DEF Moved, Mirror, EnsureGroup, SyncMembership, AddRules, At, net, Moving
  <2>2. \/ pc'[t] \in Moving /\ job'[t] = job[t]
        \/ job[t].moved = {}
    BY <1>5, GoneTo
       DEF Moved, Mirror, EnsureGroup, SyncMembership, AddRules, At, Moving, GroupsAreMade
  <2>3. \A r : Holds(pc[t], job[t], r) => Holds(pc'[t], job'[t], r)
    BY <2>1, <2>2 DEF Holds, Moving
  <2>4. Replacing(pc[t], job[t]) BY <2>1 DEF Replacing
  <2>. QED BY <1>1, <2>1, <2>3, <2>4, KeptByStep
<1>6. CASE Store(t)
  <2>1. /\ pc[t] = "store" /\ pc'[t] = "startMonitor" /\ UNCHANGED <<tunnel, main>>
        /\ applied' = {[mode |-> job[t].mode, apps |-> job[t].apps, moved |-> job[t].moved]}
    BY <1>6, GoneTo DEF Store, At, net
  <2>2. applied = {} BY <2>1 DEF KeptInv, Replacing, Moving
  <2>3. \A r : Holds(pc[t], job[t], r) => \E x \in applied' : r \in x.moved
    BY <2>1 DEF Holds
  <2>4. ASSUME NEW r \in Routes, tunnel = "up" PROVE Remembered(r)'
    <3>1. Remembered(r) BY <2>4 DEF KeptInv
    <3>2. CASE \E u \in Threads \ {t} : Holds(pc[u], job[u], r)
      <4>1. PICK u \in Threads \ {t} : Holds(pc[u], job[u], r) BY <3>2
      <4>2. pc'[u] = pc[u] /\ job'[u] = job[u] BY <1>1
      <4>. QED BY <4>1, <4>2 DEF Remembered, Holds
    <3>. QED BY <2>1, <2>2, <2>3, <3>1, <3>2 DEF Remembered
  <2>5. ASSUME NEW u \in Threads, Replacing(pc'[u], job'[u]) PROVE FALSE
    <3>1. "apply" \in Requests[t] BY <1>2, <2>1 DEF StackOK, Building, Moving
    <3>2. u # t BY <2>1, <2>5 DEF Replacing, Moving
    <3>3. Replacing(pc[u], job[u]) BY <1>1, <2>5, <3>2
    <3>4. StackOK(u, pc[u], job[u]) BY DEF SplitTypes, Stacks
    <3>5. "apply" \in Requests[u] BY <3>3, <3>4 DEF StackOK, Replacing, Building
    <3>. QED BY <3>1, <3>2, <3>5 DEF OneApplies
  <2>. QED BY <2>1, <2>4, <2>5 DEF KeptInv, Replacing
<1>7. CASE StartMonitor(t)
  <2>1. /\ pc[t] = "startMonitor" /\ pc'[t] = "idle"
        /\ UNCHANGED <<tunnel, main, applied>>
    BY <1>7, GoneTo DEF StartMonitor, At, net
  <2>. QED BY <1>1, <2>1, KeptByIdleStep DEF Moving, Replacing
<1>. QED BY <1>3, <1>4, <1>5, <1>6, <1>7 DEF Apply


\* The other steps of a request: a list is noted, the tunnel goes or comes.
LEMMA KeptByThread ==
    ASSUME SplitTypes, KeptInv, NEW t \in Threads, ThreadStep(t), GroupsAreMade, OneApplies
    PROVE  KeptInv'
<1>1. \A u \in Threads \ {t} : pc'[u] = pc[u] /\ job'[u] = job[u]
  BY OthersStay
<1>2. CASE NoteApps(t)
  <2>1. /\ pc[t] = "noteApps" /\ pc'[t] = "idle"
        /\ UNCHANGED <<tunnel, main>>
        /\ applied' = {[s EXCEPT !.apps = job[t].apps] : s \in applied}
    BY <1>2, GoneTo DEF NoteApps, At, net
  <2>2. \A s \in applied : [s EXCEPT !.apps = job[t].apps].moved = s.moved
    BY DEF SplitTypes, AppliedSplit
  <2>3. \A s \in applied : \A r \in s.moved : \E x \in applied' : r \in x.moved
    BY <2>1, <2>2
  <2>4. \A r : ~ Holds(pc[t], job[t], r) BY <2>1 DEF Holds, Moving
  <2>5. ~ Replacing(pc'[t], job'[t]) BY <2>1 DEF Replacing, Moving
  <2>. QED BY <1>1, <2>1, <2>3, <2>4, <2>5, KeptByStep
<1>3. CASE TearDown(t) \/ BringUp(t)
  <2>1. /\ tunnel' = "off" \/ main' = Routes
        /\ applied' = applied /\ pc'[t] = "idle"
    BY <1>3, GoneTo DEF TearDown, BringUp
  <2>2. tunnel' = "up" => \A r \in Routes : Remembered(r)' BY <2>1 DEF Remembered
  <2>3. ASSUME NEW u \in Threads, Replacing(pc'[u], job'[u]) PROVE applied' = {}
    <3>1. u # t BY <2>1, <2>3 DEF Replacing, Moving
    <3>2. Replacing(pc[u], job[u]) BY <1>1, <2>3, <3>1
    <3>. QED BY <2>1, <3>2 DEF KeptInv
  <2>. QED BY <2>2, <2>3 DEF KeptInv, Replacing
<1>. QED BY <1>2, <1>3, KeptByClear, KeptByApply DEF ThreadStep

\* A request that is taken up has nothing on its stack yet.
LEMMA KeptByAsk ==
    ASSUME SplitTypes, KeptInv, NEW t \in Threads,
           \/ AskClear(t) \/ AskDisconnect(t) \/ AskConnect(t)
           \/ \E mode \in SplitMode, S \in Selections : AskApply(t, mode, S)
    PROVE  KeptInv'
<1>1. \A u \in Threads \ {t} : pc'[u] = pc[u] /\ job'[u] = job[u]
  BY OthersStay
<1>2. /\ pc[t] = "idle" /\ pc'[t] \in {"stopMonitor", "noteApps"}
      /\ UNCHANGED <<tunnel, main, applied>>
  BY GoneTo DEF AskClear, AskDisconnect, AskConnect, Ask, AskApply, ClearFirst, At, net
<1>. QED BY <1>1, <1>2, KeptByIdleStep DEF Moving, Replacing

\* The device, the programs and the monitors: a device that comes back brings
\* its routes along.
LEMMA KeptByOthers ==
    ASSUME KeptInv,
           \/ \E m \in monitors : MonitorStep(m)
           \/ \E a \in Apps : Launch(a) \/ Quit(a)
           \/ Drop \/ Reopen \/ UNCHANGED vars
    PROVE  KeptInv'
<1>1. UNCHANGED <<applied, pc, job>>
  BY DEF MonitorStep, MonitorWakes, MonitorSyncs, Launch, Quit, Drop, Reopen, vars
<1>2. \/ UNCHANGED <<tunnel, main>>
      \/ tunnel' = "dropped"
      \/ main' = Routes
  BY DEF MonitorStep, MonitorWakes, MonitorSyncs, Launch, Quit, Drop, Reopen, vars, net
<1>. QED BY <1>1, <1>2 DEF KeptInv, Remembered, Holds, Replacing

\* Nothing is up yet.
LEMMA KeptInit == Init => KeptInv
<1> SUFFICES ASSUME Init PROVE KeptInv
  OBVIOUS
<1>1. tunnel = "off" /\ applied = {} BY DEF Init
<1>. QED BY <1>1 DEF KeptInv

\* The invariant is what RoutesKept says, of fewer places.
LEMMA KeptIsRoutesKept == KeptInv => RoutesKept
BY DEF KeptInv, Remembered, Holds, RoutesKept, At

(***************************************************************************)
(* Where the control groups can be made and the interface's thread alone   *)
(* applies, whatever the other threads clear, stop or start at the same    *)
(* time: none of the catch-all routes of a tunnel that is up is forgotten, *)
(* for any routes, lists of programs and threads.                          *)
(***************************************************************************)
THEOREM RoutesAreKept ==
    ASSUME GroupsAreMade, OneApplies
    PROVE  Spec => []RoutesKept
<1>1. SplitTypes /\ KeptInv /\ [Next]_vars => KeptInv'
  BY KeptByThread, KeptByAsk, KeptByOthers DEF Next
<1>. QED BY <1>1, KeptInit, KeptIsRoutesKept, SplitTypesHold, PTL DEF Spec

(***************************************************************************)
(* So turning it off loses nothing: when no request is under way and       *)
(* nothing is applied, a tunnel that is up has all its routes.             *)
(***************************************************************************)
THEOREM TurningOffIsLossless ==
    ASSUME GroupsAreMade, OneApplies
    PROVE  Spec => []OffLossless
<1>1. SplitTypes /\ KeptInv /\ [Next]_vars => KeptInv'
  BY KeptByThread, KeptByAsk, KeptByOthers DEF Next
<1>2. SplitTypes /\ KeptInv => OffLossless
  BY DEF SplitTypes, KeptInv, Remembered, Holds, Moving, OffLossless, Quiet, At
<1>. QED BY <1>1, <1>2, KeptInit, SplitTypesHold, PTL DEF Spec

-----------------------------------------------------------------------------
(***************************************************************************)
(* Who is in a control group, and what an applied state remembers.         *)
(***************************************************************************)

\* The interface always sends the same list of programs, or an empty one.
OneList == \A A, B \in Selections : A # {} /\ B # {} => A = B

\* A stack holds no list that was not sent, and routes in one mode only.
StackSent(at, j) ==
    /\ j.apps \in Selections \cup {{}}
    /\ at = "move" \/ j.moved # {} => j.mode = "only"

(***************************************************************************)
(* What ExceptProtects needs besides: the lists on the stacks, in the      *)
(* applied state and in the monitors were sent, "all except" moves no      *)
(* routes, and a program in a group was on a list.                         *)
(***************************************************************************)
SentInv ==
    /\ \A t \in Threads : StackSent(pc[t], job[t])
    /\ \A s \in applied :
          s.apps \in Selections \cup {{}} /\ (s.mode = "except" => s.moved = {})
    /\ \A m \in monitors : m.apps \in Selections \cup {{}}
    /\ \A a \in Apps : group[a] # "none" => a \in UNION Selections

\* Programs that are placed were on the list.
LEMMA PlacedSent ==
    ASSUME NEW S \in Selections \cup {{}}, NEW mode,
           \A a \in Apps : group[a] # "none" => a \in UNION Selections
    PROVE  \A a \in Apps : Placed(S, mode)[a] # "none" => a \in UNION Selections
BY DEF Placed

\* One thread's step, for the threads.
LEMMA StacksSent ==
    ASSUME SplitTypes, SentInv, NEW t \in Threads,
           \/ ThreadStep(t) \/ AskClear(t) \/ AskDisconnect(t) \/ AskConnect(t)
           \/ \E mode \in SplitMode, S \in Selections : AskApply(t, mode, S)
    PROVE  \A u \in Threads : StackSent(pc'[u], job'[u])
<1>1. \A u \in Threads \ {t} : pc'[u] = pc[u] /\ job'[u] = job[u]
  BY OthersStay
<1>2. /\ StackSent(pc[t], job[t]) /\ job[t] \in Job /\ pc \in [Threads -> Labels]
      /\ job \in [Threads -> Job] /\ StackOK(t, pc[t], job[t])
  BY StackAt DEF SentInv, SplitTypes, Stacks
<1> SUFFICES StackSent(pc'[t], job'[t])
  BY <1>1 DEF SentInv
<1>3. ASSUME Return(t) PROVE StackSent(pc'[t], job'[t])
  BY <1>3, GoneTo DEF StackSent, NoJob
<1>4. ASSUME UNCHANGED job, pc'[t] # "move" PROVE StackSent(pc'[t], job'[t])
  BY <1>2, <1>4, GoneTo DEF StackSent
<1>5. CASE StopMonitor(t) \/ RemoveRules(t) \/ RemoveGroups(t) \/ Flush(t) \/ Mirror(t)
           \/ SyncMembership(t) \/ AddRules(t) \/ Store(t)
  <2>1. UNCHANGED job /\ pc'[t] # "move"
    BY <1>5, GoneTo DEF StopMonitor, RemoveRules, RemoveGroups, Flush, Mirror,
                        SyncMembership, AddRules, Store
  <2>. QED BY <1>4, <2>1
<1>6. CASE TakeState(t) \/ RestoreRoute(t)
  <2>1. (\E l : job' = [job EXCEPT ![t].left = l]) /\ pc'[t] # "move"
    BY <1>6, GoneTo DEF TakeState, RestoreRoute, At
  <2>2. job'[t].apps = job[t].apps /\ job'[t].moved = job[t].moved
        /\ job'[t].mode = job[t].mode
    BY <1>2, <2>1 DEF Job
  <2>. QED BY <1>2, <2>1, <2>2 DEF StackSent
<1>7. CASE Cleared(t)
  <2>1. Return(t) \/ (UNCHANGED job /\ Goto(t, job[t].then)) BY <1>7 DEF Cleared
  <2>2. job[t].then # "move" BY <1>2 DEF Job
  <2>. QED BY <1>3, <1>4, <2>1, <2>2, GoneTo
<1>8. CASE ReadRoutes(t)
  <2>1. CASE Return(t) BY <1>3, <2>1
  <2>2. CASE ~ Return(t)
    <3>1. /\ pc[t] = "readRoutes" /\ job' = [job EXCEPT ![t].left = main]
          /\ Goto(t, IF job[t].mode = "only" THEN "move" ELSE "mirror")
      BY <1>8, <2>2 DEF ReadRoutes, At
    <3>2. job'[t].apps = job[t].apps /\ job'[t].moved = job[t].moved
          /\ job'[t].mode = job[t].mode
      BY <1>2, <3>1 DEF Job
    <3>3. pc'[t] = "move" => job[t].mode = "only" BY <3>1, GoneTo
    <3>. QED BY <1>2, <3>2, <3>3 DEF StackSent
  <2>. QED BY <2>1, <2>2
<1>9. CASE MoveRoute(t)
  <2>1. PICK r \in job[t].left :
            job' = [job EXCEPT ![t].left = @ \ {r}, ![t].moved = @ \cup (main \cap {r})]
    BY <1>9 DEF MoveRoute
  <2>2. job'[t].apps = job[t].apps /\ job'[t].mode = job[t].mode
    BY <1>2, <2>1 DEF Job
  <2>3. pc[t] = "move" BY <1>9 DEF MoveRoute, At
  <2>. QED BY <1>2, <2>2, <2>3 DEF StackSent
<1>10. CASE Moved(t) \/ EnsureGroup(t)
  <2>1. Return(t) \/ (UNCHANGED job /\ pc'[t] # "move")
    BY <1>10, GoneTo DEF Moved, EnsureGroup
  <2>. QED BY <1>3, <1>4, <2>1
<1>11. CASE StartMonitor(t) \/ NoteApps(t) \/ TearDown(t) \/ BringUp(t)
  BY <1>3, <1>11 DEF StartMonitor, NoteApps, TearDown, BringUp
<1>12. ASSUME NEW what, NEW then, Ask(t, what, then) PROVE StackSent(pc'[t], job'[t])
  <2>1. pc'[t] = "stopMonitor" /\ job'[t] = [NoJob EXCEPT !.then = then]
    BY <1>12, GoneTo DEF Ask, ClearFirst
  <2>2. job'[t].apps = {} /\ job'[t].moved = {} BY <2>1 DEF NoJob
  <2>. QED BY <2>1, <2>2 DEF StackSent
<1>13. ASSUME NEW mode \in SplitMode, NEW S \in Selections, AskApply(t, mode, S)
       PROVE  StackSent(pc'[t], job'[t])
  <2>1. /\ pc'[t] \in {"noteApps", "stopMonitor"}
        /\ \/ job'[t] = [NoJob EXCEPT !.apps = S]
           \/ job'[t] = [NoJob EXCEPT !.mode = mode, !.apps = S, !.then = "readRoutes"]
    BY <1>13, GoneTo DEF AskApply, ClearFirst
  <2>2. job'[t].apps = S /\ job'[t].moved = {} BY <2>1 DEF NoJob
  <2>. QED BY <2>1, <2>2 DEF StackSent
<1>. QED BY <1>5, <1>6, <1>7, <1>8, <1>9, <1>10, <1>11, <1>12, <1>13
         DEF ThreadStep, Clear, Apply, AskClear, AskDisconnect, AskConnect

\* The programs in the groups, the applied state and the monitors.
LEMMA SharedSent ==
    ASSUME SplitTypes, SentInv, Next
    PROVE  /\ \A a \in Apps : group'[a] # "none" => a \in UNION Selections
           /\ \A s \in applied' :
                 s.apps \in Selections \cup {{}} /\ (s.mode = "except" => s.moved = {})
           /\ \A m \in monitors' : m.apps \in Selections \cup {{}}
<1>1. /\ \A t \in Threads : StackSent(pc[t], job[t])
      /\ \A s \in applied :
            s.apps \in Selections \cup {{}} /\ (s.mode = "except" => s.moved = {})
      /\ \A m \in monitors : m.apps \in Selections \cup {{}}
      /\ \A a \in Apps : group[a] # "none" => a \in UNION Selections
      /\ group \in [Apps -> SplitMode \cup {"none"}]
      /\ applied \subseteq AppliedSplit /\ monitors \subseteq Monitor
  BY DEF SentInv, SplitTypes
<1>2. \A t \in Threads : job[t].apps \in Selections \cup {{}} BY <1>1 DEF StackSent
<1>3. \A a \in Apps : group'[a] # "none" => a \in UNION Selections
  <2>1. \/ group' = group
        \/ group' = [a \in Apps |-> "none"]
        \/ \E a \in Apps : group' = [group EXCEPT ![a] = "none"]
        \/ \E t \in Threads : group' = Placed(job[t].apps, job[t].mode)
        \/ \E mode \in SplitMode, S \in Selections : group' = Placed(S, mode)
        \/ \E m \in monitors : group' = Placed(m.apps, m.mode)
    BY DEF Next, ThreadStep, Clear, Apply, StopMonitor, RemoveRules, RemoveGroups, Flush,
           TakeState, RestoreRoute, Cleared, ReadRoutes, MoveRoute, Moved, Mirror,
           EnsureGroup, SyncMembership, AddRules, Store, StartMonitor, NoteApps,
           TearDown, BringUp, AskClear, AskDisconnect, AskConnect, Ask, AskApply,
           MonitorStep, MonitorWakes, MonitorSyncs, Launch, Quit, Drop, Reopen, procs
  <2>2. CASE \E a \in Apps : group' = [group EXCEPT ![a] = "none"] BY <1>1, <2>2
  <2>3. CASE \E t \in Threads : group' = Placed(job[t].apps, job[t].mode)
    BY <1>1, <1>2, <2>3, PlacedSent
  <2>4. CASE \E mode \in SplitMode, S \in Selections : group' = Placed(S, mode)
    BY <1>1, <2>4, PlacedSent
  <2>5. CASE \E m \in monitors : group' = Placed(m.apps, m.mode)
    <3>1. PICK m \in monitors : group' = Placed(m.apps, m.mode) BY <2>5
    <3>2. m.apps \in Selections \cup {{}} BY <1>1
    <3>. QED BY <1>1, <3>1, <3>2, PlacedSent
  <2>. QED BY <1>1, <2>1, <2>2, <2>3, <2>4, <2>5
<1>4. \A s \in applied' :
          s.apps \in Selections \cup {{}} /\ (s.mode = "except" => s.moved = {})
  <2>1. \/ applied' \subseteq applied
        \/ \E t \in Threads :
              applied' = {[s EXCEPT !.apps = job[t].apps] : s \in applied}
        \/ \E t \in Threads :
              applied' = {[mode |-> job[t].mode, apps |-> job[t].apps,
                           moved |-> job[t].moved]}
    BY DEF Next, ThreadStep, Clear, Apply, StopMonitor, RemoveRules, RemoveGroups, Flush,
           TakeState, RestoreRoute, Cleared, ReadRoutes, MoveRoute, Moved, Mirror,
           EnsureGroup, SyncMembership, AddRules, Store, StartMonitor, NoteApps,
           TearDown, BringUp, AskClear, AskDisconnect, AskConnect, Ask, AskApply,
           MonitorStep, MonitorWakes, MonitorSyncs, Launch, Quit, Drop, Reopen
  <2>2. ASSUME NEW t \in Threads,
               applied' = {[s EXCEPT !.apps = job[t].apps] : s \in applied}
        PROVE  \A x \in applied' :
                   x.apps \in Selections \cup {{}} /\ (x.mode = "except" => x.moved = {})
    <3>1. \A s \in applied : /\ [s EXCEPT !.apps = job[t].apps].apps = job[t].apps
                             /\ [s EXCEPT !.apps = job[t].apps].mode = s.mode
                             /\ [s EXCEPT !.apps = job[t].apps].moved = s.moved
      BY <1>1 DEF AppliedSplit
    <3>2. job[t].apps \in Selections \cup {{}} BY <1>2
    <3>3. ASSUME NEW x \in applied'
          PROVE  x.apps \in Selections \cup {{}} /\ (x.mode = "except" => x.moved = {})
      <4>1. PICK s \in applied : x = [s EXCEPT !.apps = job[t].apps] BY <2>2
      <4>2. s.mode = "except" => s.moved = {} BY <1>1
      <4>. QED BY <3>1, <3>2, <4>1, <4>2
    <3>. QED BY <3>3
  <2>3. ASSUME NEW t \in Threads,
               applied' = {[mode |-> job[t].mode, apps |-> job[t].apps,
                            moved |-> job[t].moved]}
        PROVE  \A x \in applied' :
                   x.apps \in Selections \cup {{}} /\ (x.mode = "except" => x.moved = {})
    <3>1. job[t].moved # {} => job[t].mode = "only" BY <1>1 DEF StackSent
    <3>. QED BY <1>2, <2>3, <3>1
  <2>. QED BY <1>1, <2>1, <2>2, <2>3
<1>5. \A m \in monitors' : m.apps \in Selections \cup {{}}
  <2>1. \A m \in AllStopped : m.apps \in Selections \cup {{}}
    BY <1>1 DEF AllStopped, Monitor
  <2>2. \/ monitors' = monitors
        \/ monitors' = AllStopped
        \/ \E t \in Threads :
              monitors' = AllStopped \cup
                  {[apps |-> job[t].apps, mode |-> job[t].mode, stop |-> FALSE,
                    at |-> "sleep"]}
        \/ \E m \in monitors : MonitorStep(m)
    BY DEF Next, ThreadStep, Clear, Apply, StopMonitor, RemoveRules, RemoveGroups, Flush,
           TakeState, RestoreRoute, Cleared, ReadRoutes, MoveRoute, Moved, Mirror,
           EnsureGroup, SyncMembership, AddRules, Store, StartMonitor, NoteApps,
           TearDown, BringUp, AskClear, AskDisconnect, AskConnect, Ask, AskApply,
           Launch, Quit, Drop, Reopen
  <2>3. ASSUME NEW m \in monitors, MonitorStep(m)
        PROVE  \A n \in monitors' : n.apps \in Selections \cup {{}}
    <3>1. \A at : [m EXCEPT !.at = at].apps = m.apps BY <1>1 DEF Monitor
    <3>2. \/ monitors' = monitors \ {m}
          \/ \E at \in {"sleep", "sync"} :
                monitors' = (monitors \ {m}) \cup {[m EXCEPT !.at = at]}
      BY <2>3 DEF MonitorStep, MonitorWakes, MonitorSyncs, Become
    <3>3. m.apps \in Selections \cup {{}} BY <1>1
    <3>4. ASSUME NEW n \in monitors' PROVE n.apps \in Selections \cup {{}}
      <4>1. CASE n \in monitors BY <1>1, <4>1
      <4>2. CASE n \notin monitors
        <5>1. PICK at \in {"sleep", "sync"} : n = [m EXCEPT !.at = at] BY <3>2, <4>2
        <5>2. n.apps = m.apps BY <3>1, <5>1
        <5>. QED BY <3>3, <5>2
      <4>. QED BY <4>1, <4>2
    <3>. QED BY <3>4
  <2>. QED BY <1>1, <1>2, <2>1, <2>2, <2>3
<1>. QED BY <1>3, <1>4, <1>5

\* Nobody is in a group yet, and no step breaks the invariant.
LEMMA SentInductive ==
    /\ Init => SentInv
    /\ SplitTypes /\ SentInv /\ [Next]_vars => SentInv'
<1>1. ASSUME Init PROVE SentInv
  <2>1. /\ job = [t \in Threads |-> NoJob] /\ pc = [t \in Threads |-> "idle"]
        /\ applied = {} /\ monitors = {} /\ group = [a \in Apps |-> "none"]
    BY <1>1 DEF Init
  <2>. QED BY <2>1 DEF SentInv, StackSent, NoJob
<1>2. ASSUME SplitTypes, SentInv, Next PROVE SentInv'
  <2>1. \A u \in Threads : StackSent(pc'[u], job'[u])
    <3>1. CASE \E t \in Threads :
                  \/ ThreadStep(t) \/ AskClear(t) \/ AskDisconnect(t) \/ AskConnect(t)
                  \/ \E mode \in SplitMode, S \in Selections : AskApply(t, mode, S)
      BY <1>2, <3>1, StacksSent
    <3>2. CASE \/ \E m \in monitors : MonitorStep(m)
               \/ \E a \in Apps : Launch(a) \/ Quit(a)
               \/ Drop \/ Reopen
      <4>1. UNCHANGED <<pc, job>>
        BY <3>2 DEF MonitorStep, MonitorWakes, MonitorSyncs, Launch, Quit, Drop, Reopen
      <4>. QED BY <1>2, <4>1 DEF SentInv
    <3>. QED BY <1>2, <3>1, <3>2 DEF Next
  <2>. QED BY <1>2, <2>1, SharedSent DEF SentInv, StackSent
<1>3. SentInv /\ UNCHANGED vars => SentInv'
  BY DEF SentInv, StackSent, vars, procs
<1>. QED BY <1>1, <1>2, <1>3

(***************************************************************************)
(* "All except these": with one list of programs, every other program uses *)
(* the tunnel, whatever was applied before, whoever cleared, stopped or    *)
(* started at the same time, and whether the rules could be installed or   *)
(* not.                                                                    *)
(***************************************************************************)
THEOREM ExceptIsProtected ==
    ASSUME GroupsAreMade, OneApplies, OneList
    PROVE  Spec => []ExceptProtects
<1>1. SplitTypes /\ KeptInv /\ [Next]_vars => KeptInv'
  BY KeptByThread, KeptByAsk, KeptByOthers DEF Next
<1>2. SplitTypes /\ KeptInv /\ SentInv => ExceptProtects
  <2> SUFFICES ASSUME SplitTypes, KeptInv, SentInv, Quiet, tunnel = "up",
                      NEW s \in applied, NEW a \in running,
                      s.mode = "except", a \notin s.apps
               PROVE  Tunnelled(a)
    BY DEF ExceptProtects
  <2>1. s \in AppliedSplit /\ a \in Apps /\ main \subseteq Routes /\ vpnTable \subseteq Routes
    BY DEF SplitTypes
  <2>2. s.moved = {} /\ s.apps \in Selections /\ s.apps # {}
    BY <2>1 DEF SentInv, AppliedSplit
  <2>3. \A x \in applied : x = s BY DEF SplitTypes, OneApplied
  <2>4. \A t \in Threads : \A r : ~ Holds(pc[t], job[t], r)
    BY DEF Quiet, At, Holds, Moving
  <2>5. main = Routes BY <2>1, <2>2, <2>3, <2>4 DEF KeptInv, Remembered
  <2>6. group[a] # "except"
    <3>1. group[a] # "none" => a \in s.apps BY <2>1, <2>2 DEF SentInv, OneList
    <3>. QED BY <3>1
  <2>. QED BY <2>1, <2>5, <2>6 DEF Tunnelled
<1>. QED BY <1>1, <1>2, KeptInit, SentInductive, SplitTypesHold, PTL DEF Spec

-----------------------------------------------------------------------------
(***************************************************************************)
(* A program that only the tunnel serves.                                  *)
(***************************************************************************)

\* The interface's requests run alone, as they do while its process lives.
OneThread == \E t : Threads = {t}

\* The rules can be installed: the code does not look whether they were.
RulesAreMade == "mark" \notin MayFail

(***************************************************************************)
(* What OnlyProtects needs besides: but for the stretch in which a         *)
(* clearing empties table 77, the routes are in one of the two tables; but *)
(* for the one in which it removes the rules, those of the applied mode    *)
(* are there.                                                              *)
(***************************************************************************)
PrivateInv ==
    \A t \in Threads :
        /\ pc[t] \notin {"takeState", "restore"} /\ tunnel = "up"
              => Routes \subseteq main \cup vpnTable
        /\ pc[t] \notin {"removeGroups", "flush", "takeState"}
              => \A s \in applied : s.mode \in rules
        /\ pc[t] = "store" => job[t].mode \in rules
        /\ pc[t] = "restore" => applied = {}

\* The clearing of the only thread.
LEMMA PrivateByClear ==
    ASSUME SplitTypes, KeptInv, PrivateInv, NEW t, Threads = {t}, Clear(t)
    PROVE  PrivateInv'
<1>1. /\ pc[t] \notin {"takeState", "restore"} /\ tunnel = "up"
            => Routes \subseteq main \cup vpnTable
      /\ pc[t] \notin {"removeGroups", "flush", "takeState"}
            => \A s \in applied : s.mode \in rules
      /\ pc[t] = "restore" => applied = {}
      /\ job[t].then \in {"idle", "tearDown", "bringUp", "readRoutes"}
  BY StackAt DEF PrivateInv, SplitTypes
<1>2. CASE StopMonitor(t)
  <2>1. /\ pc[t] = "stopMonitor" /\ pc'[t] = "removeRules"
        /\ UNCHANGED <<tunnel, main, vpnTable, rules, applied>>
    BY <1>2, GoneTo DEF StopMonitor, At, net, marks
  <2>. QED BY <1>1, <2>1 DEF PrivateInv
<1>3. CASE RemoveRules(t) \/ RemoveGroups(t)
  <2>1. /\ pc[t] \in {"removeRules", "removeGroups"} /\ pc'[t] \in {"removeGroups", "flush"}
        /\ UNCHANGED <<tunnel, main, vpnTable>>
    BY <1>3, GoneTo DEF RemoveRules, RemoveGroups, At, net
  <2>. QED BY <1>1, <2>1 DEF PrivateInv
<1>4. CASE Flush(t)
  <2>1. pc'[t] = "takeState" BY <1>4, GoneTo DEF Flush
  <2>. QED BY <2>1 DEF PrivateInv
<1>5. CASE TakeState(t) \/ RestoreRoute(t)
  <2>1. pc'[t] = "restore" /\ applied' = {}
    BY <1>1, <1>5, GoneTo DEF TakeState, RestoreRoute, At
  <2>. QED BY <2>1 DEF PrivateInv
<1>6. CASE Cleared(t)
  <2>1. /\ pc[t] = "restore" /\ job[t].left = {}
        /\ UNCHANGED <<tunnel, main, vpnTable, rules, applied>>
    BY <1>6 DEF Cleared, At, net, marks
  <2>2. pc'[t] \in {"idle", "tearDown", "bringUp", "readRoutes"}
    BY <1>1, <1>6, GoneTo DEF Cleared
  <2>3. applied = {} /\ \A r : ~ Holds(pc[t], job[t], r)
    BY <1>1, <2>1 DEF Holds, Moving
  <2>4. tunnel = "up" => Routes \subseteq main BY <2>3 DEF KeptInv, Remembered
  <2>. QED BY <2>1, <2>2, <2>3, <2>4 DEF PrivateInv
<1>. QED BY <1>2, <1>3, <1>4, <1>5, <1>6 DEF Clear

\* Its applications, and what else it is asked for.
LEMMA PrivateByRequest ==
    ASSUME SplitTypes, PrivateInv, RulesAreMade, NEW t, Threads = {t},
           \/ Apply(t) \/ NoteApps(t) \/ TearDown(t) \/ BringUp(t)
           \/ AskClear(t) \/ AskDisconnect(t) \/ AskConnect(t)
           \/ \E mode \in SplitMode, S \in Selections : AskApply(t, mode, S)
    PROVE  PrivateInv'
<1>1. /\ pc[t] \notin {"takeState", "restore"} /\ tunnel = "up"
            => Routes \subseteq main \cup vpnTable
      /\ pc[t] \notin {"removeGroups", "flush", "takeState"}
            => \A s \in applied : s.mode \in rules
      /\ pc[t] = "store" => job[t].mode \in rules
      /\ main \subseteq Routes
  BY DEF PrivateInv, SplitTypes
<1>2. ASSUME pc[t] \notin {"takeState", "restore", "removeGroups", "flush"},
             pc'[t] \notin {"store", "restore"},
             UNCHANGED <<tunnel, main, vpnTable, rules, applied>>
      PROVE  PrivateInv'
  BY <1>1, <1>2 DEF PrivateInv
<1>3. CASE ReadRoutes(t) \/ Moved(t) \/ Mirror(t) \/ EnsureGroup(t) \/ SyncMembership(t)
           \/ StartMonitor(t)
  <2>1. /\ pc[t] \in {"readRoutes", "move", "mirror", "ensureGroup", "sync", "startMonitor"}
        /\ UNCHANGED <<tunnel, main, vpnTable, rules, applied>>
    BY <1>3 DEF ReadRoutes, Moved, Mirror, EnsureGroup, SyncMembership, StartMonitor,
                At, net, marks
  <2>2. pc'[t] \in {"idle", "move", "mirror", "ensureGroup", "sync", "addRules"}
    BY <1>3, GoneTo
       DEF ReadRoutes, Moved, Mirror, EnsureGroup, SyncMembership, StartMonitor
  <2>. QED BY <1>2, <2>1, <2>2
<1>4. CASE MoveRoute(t)
  <2>1. PICK r \in job[t].left :
            main' = main \ {r} /\ vpnTable' = vpnTable \cup (main \cap {r})
    BY <1>4 DEF MoveRoute
  <2>2. /\ pc[t] = "move" /\ pc'[t] = "move"
        /\ UNCHANGED <<tunnel, rules, applied>>
    BY <1>4, GoneTo DEF MoveRoute, At, marks
  <2>3. main' \cup vpnTable' = main \cup vpnTable BY <2>1
  <2>. QED BY <1>1, <2>2, <2>3 DEF PrivateInv
<1>5. CASE AddRules(t)
  <2>1. /\ pc[t] = "addRules" /\ rules' = rules \cup {job[t].mode}
        /\ pc'[t] = "store" /\ job'[t] = job[t]
        /\ UNCHANGED <<tunnel, main, vpnTable, applied>>
    BY <1>5, GoneTo DEF AddRules, At, net, RulesAreMade
  <2>. QED BY <1>1, <2>1 DEF PrivateInv
<1>6. CASE Store(t)
  <2>1. /\ pc[t] = "store" /\ pc'[t] = "startMonitor"
        /\ applied' = {[mode |-> job[t].mode, apps |-> job[t].apps, moved |-> job[t].moved]}
        /\ UNCHANGED <<tunnel, main, vpnTable, rules>>
    BY <1>6, GoneTo DEF Store, At, net, marks
  <2>2. \A s \in applied' : s.mode \in rules BY <1>1, <2>1
  <2>. QED BY <1>1, <2>1, <2>2 DEF PrivateInv
<1>7. CASE NoteApps(t)
  <2>1. /\ pc[t] = "noteApps" /\ pc'[t] = "idle"
        /\ applied' = {[s EXCEPT !.apps = job[t].apps] : s \in applied}
        /\ UNCHANGED <<tunnel, main, vpnTable, rules>>
    BY <1>7, GoneTo DEF NoteApps, At, net, marks
  <2>2. \A s \in applied : [s EXCEPT !.apps = job[t].apps].mode = s.mode
    BY DEF SplitTypes, AppliedSplit
  <2>3. \A s \in applied' : s.mode \in rules BY <1>1, <2>1, <2>2
  <2>. QED BY <1>1, <2>1, <2>3 DEF PrivateInv
<1>8. CASE TearDown(t) \/ BringUp(t)
  <2>1. /\ pc[t] \in {"tearDown", "bringUp"} /\ pc'[t] = "idle"
        /\ tunnel' = "off" \/ main' = Routes
        /\ UNCHANGED <<rules, applied>>
    BY <1>8, GoneTo DEF TearDown, BringUp, At, marks
  <2>. QED BY <1>1, <2>1 DEF PrivateInv
<1>9. CASE \/ AskClear(t) \/ AskDisconnect(t) \/ AskConnect(t)
           \/ \E mode \in SplitMode, S \in Selections : AskApply(t, mode, S)
  <2>1. /\ pc[t] = "idle" /\ pc'[t] \in {"stopMonitor", "noteApps"}
        /\ UNCHANGED <<tunnel, main, vpnTable, rules, applied>>
    BY <1>9, GoneTo
       DEF AskClear, AskDisconnect, AskConnect, Ask, AskApply, ClearFirst, At, net, marks
  <2>. QED BY <1>2, <2>1
<1>. QED BY <1>3, <1>4, <1>5, <1>6, <1>7, <1>8, <1>9 DEF Apply

\* No step, and no pause, breaks the invariant.
LEMMA PrivateStep ==
    ASSUME RulesAreMade, OneThread
    PROVE  SplitTypes /\ KeptInv /\ PrivateInv /\ [Next]_vars => PrivateInv'
<1> SUFFICES ASSUME SplitTypes, KeptInv, PrivateInv, [Next]_vars PROVE PrivateInv'
  OBVIOUS
<1>1. PICK t : Threads = {t} BY DEF OneThread
<1>2. CASE \/ ThreadStep(t) \/ AskClear(t) \/ AskDisconnect(t) \/ AskConnect(t)
           \/ \E mode \in SplitMode, S \in Selections : AskApply(t, mode, S)
  BY <1>1, <1>2, PrivateByClear, PrivateByRequest DEF ThreadStep
<1>3. CASE \/ \E m \in monitors : MonitorStep(m)
           \/ \E a \in Apps : Launch(a) \/ Quit(a)
           \/ Drop \/ Reopen \/ UNCHANGED vars
  <2>1. /\ UNCHANGED <<rules, applied, pc, job>>
        /\ \/ UNCHANGED <<tunnel, main, vpnTable>>
           \/ tunnel' = "dropped"
           \/ main' = Routes
    BY <1>3 DEF MonitorStep, MonitorWakes, MonitorSyncs, Launch, Quit, Drop, Reopen, vars,
                net, marks
  <2>. QED BY <2>1 DEF PrivateInv
<1>. QED BY <1>1, <1>2, <1>3 DEF Next

(***************************************************************************)
(* "Only these": a selected program that has been placed uses the tunnel   *)
(* while it is up, also after it dropped and came back and after requests  *)
(* that ended with an error, as long as the commands that                  *)
(* make the groups and the rules work.                                     *)
(***************************************************************************)
THEOREM OnlyIsProtected ==
    ASSUME GroupsAreMade, RulesAreMade, OneThread
    PROVE  Spec => []OnlyProtects
<1>1. OneApplies BY DEF OneThread, OneApplies
<1>2. SplitTypes /\ KeptInv /\ [Next]_vars => KeptInv'
  BY <1>1, KeptByThread, KeptByAsk, KeptByOthers DEF Next
<1>3. Init => PrivateInv
  <2> SUFFICES ASSUME Init PROVE PrivateInv
    OBVIOUS
  <2>1. tunnel = "off" /\ applied = {} /\ pc = [t \in Threads |-> "idle"] BY DEF Init
  <2>. QED BY <2>1 DEF PrivateInv
<1>4. SplitTypes /\ PrivateInv => OnlyProtects
  <2> SUFFICES ASSUME SplitTypes, PrivateInv, Quiet, tunnel = "up",
                      NEW s \in applied, NEW a \in running,
                      s.mode = "only", group[a] = "only"
               PROVE  Tunnelled(a)
    BY DEF OnlyProtects
  <2>1. PICK t \in Threads : pc[t] = "idle" BY DEF OneThread, Quiet, At
  <2>2. /\ Routes \subseteq main \cup vpnTable /\ s.mode \in rules
        /\ main \subseteq Routes /\ vpnTable \subseteq Routes
    BY <2>1 DEF PrivateInv, SplitTypes
  <2>. QED BY <2>2 DEF Tunnelled
<1>. QED BY <1>2, <1>3, <1>4, PrivateStep, KeptInit, SplitTypesHold, PTL DEF Spec

=============================================================================
