------------------------- MODULE SessionGateProofs -------------------------
(***************************************************************************)
(* Theorems about SessionGate and the native planes under it, for any      *)
(* number of sessions in any order: no plane without its tunnel, nothing   *)
(* open that is not reported.                                              *)
(***************************************************************************)
EXTENDS SessionGate, SequenceTheorems, TLAPS

-----------------------------------------------------------------------------
(***************************************************************************)
(* Where the worker is.                                                    *)
(***************************************************************************)
Openings == {"wireguard", "outline", "tor"}

PlanNames == Openings \cup {"ok", "failed", "error", "cleanUp"}

\* The lists that the worker works off, as they are when it begins them.
Plan(name) ==
    CASE name = "wireguard" ->
            <<"check", "stopWg", "stopProxies", "configure", "closeFd", "establish",
              "stopWg", "readProfile", "spawnPump", "await", "report">>
      [] name = "outline" ->
            <<"check", "stopWg", "stopProxies", "configure", "closeFd", "establish",
              "stopOutline", "serve", "stopSocks", "route", "report">>
      [] name = "tor" ->
            <<"check", "stopWg", "stopOutline", "configure", "closeFd", "establish",
              "torPort", "stopSocks", "route", "report">>
      [] name = "ok" -> <<"flag", "status", "show">>
      [] name = "failed" -> <<"stopWg", "report">>
      [] name = "error" ->
            <<"status", "flag", "stopWg", "stopProxies", "closeFd", "show", "stopSelfId">>
      [] name = "cleanUp" -> <<"stopWg", "stopProxies", "closeFd">>

\* Thread w has the list from its i-th step on before it.
At(w, name, i) ==
    /\ i \in 1 .. Len(Plan(name))
    /\ w.steps = SubSeq(Plan(name), i, Len(Plan(name)))
    /\ name \in Openings \cup {"ok"} => w.as = "OK"
    /\ name \in {"failed", "error"} => w.as = "ERR"
    /\ name # "cleanUp" => w.token \in Tokens

-----------------------------------------------------------------------------
(***************************************************************************)
(* The invariants.                                                         *)
(***************************************************************************)

\* Between these steps no pump is to run, or no tun2proxy.
PumpStopped(name, i) ==
    \/ name \in Openings /\ i >= 3 /\ (name = "wireguard" => i < 10)
    \/ name = "error" /\ i >= 4
    \/ name = "cleanUp" /\ i >= 2

ProxyStopped(name, i) ==
    \/ name \in Openings /\ i \in 4 .. 6
    \/ name = "error" /\ i >= 5
    \/ name = "cleanUp" /\ i >= 3

PlaneFacts(name, i) ==
    /\ PumpStopped(name, i) => active = Nobody
    /\ ProxyStopped(name, i) => socks = Nobody
    /\ name \in Openings /\ i >= 7 => tunnel = worker.token

(***************************************************************************)
(* What PlaneHasTunnel needs to be inductive: when the worker closes a     *)
(* descriptor or opens the next, the planes have been stopped, and when it *)
(* starts one, the tunnel is that of its session.  Nobody else starts any. *)
(***************************************************************************)
PlaneInv ==
    /\ PlaneHasTunnel
    /\ \/ worker = Idle
       \/ \E name \in PlanNames : \E i \in Nat : At(worker, name, i) /\ PlaneFacts(name, i)

\* The gate knows the last session, or none once it was stopped.
GateInv == current = IF stopped THEN Nobody ELSE LastToken

\* No session is met before it began.
Begun ==
    /\ {worker.token, main.token, tunnel} \subseteq 0 .. LastToken
    /\ \A i \in 1 .. Len(queue) : queue[i] \in 0 .. LastToken

\* The main thread is done with a session when the worker is given it.
HandedOver ==
    \A i \in 1 .. Len(main.steps) : main.steps[i] = "enqueue" => i = Len(main.steps)

\* A Disconnect that has stopped the pumps goes on to the gate.
GoesOnToStop == stopper \in {<<>>, <<"stopProxies", "stopIntent">>, <<"stopIntent">>}

Works(token) == token \in running \cap answered

Settled == lastStatus = "OK" /\ runningFlag /\ shown = "OK"

\* While its thread runs, a Disconnect has not yet reached the gate.
WorksUnlessStopping(token) ==
    KindOfToken(token) = "wireguard" /\ stopper = <<>> => Works(token)

\* A session that is up, but whose report is not complete.
Reporting(name, i) == (name \in Openings /\ i = Len(Plan(name))) \/ name = "ok"

ReportFacts(name, i) ==
    /\ name \in Openings => name = KindOfToken(worker.token)
    /\ name = "cleanUp" => worker.token # current \/ current = Nobody
    /\ name = "error" /\ i >= 6 => tunnel = Nobody
    /\ name = "wireguard" /\ i = 9 => ~ handshakeOk
    /\ name = "wireguard" /\ i = 10 /\ handshakeOk => Works(worker.token)
    /\ worker.token = current =>
          /\ name = "ok" /\ i >= 2 => runningFlag
          /\ name = "ok" /\ i >= 3 => lastStatus = "OK"
          /\ Reporting(name, i) => WorksUnlessStopping(worker.token)

\* The current session is with the main thread, in the queue, with the worker,
\* or open: one after the other.
OneAfterTheOther ==
    current # Nobody =>
        /\ \A i \in 1 .. Len(queue) :
              queue[i] = current =>
                  /\ i = Len(queue) /\ main.steps = <<>>
                  /\ worker.token # current /\ tunnel # current
        /\ worker.token = current \/ tunnel = current => main.steps = <<>> /\ queue = <<>>
        /\ tunnel = current =>
              \/ worker.token = current
              \/ worker = Idle /\ Settled /\ WorksUnlessStopping(current)

(***************************************************************************)
(* What OpenIsReported needs to be inductive: which thread has the current *)
(* session, what the worker has already written of it, and that its pump   *)
(* has answered before the worker believes so.                             *)
(***************************************************************************)
ReportInv ==
    /\ GateInv /\ Begun /\ HandedOver /\ GoesOnToStop /\ OneAfterTheOther
    /\ \/ worker = Idle
       \/ \E name \in PlanNames : \E i \in Nat : At(worker, name, i) /\ ReportFacts(name, i)

-----------------------------------------------------------------------------
(***************************************************************************)
(* The lists.                                                              *)
(***************************************************************************)

LEMMA SameLists ==
    ASSUME NEW S, NEW s \in Seq(S), NEW t \in Seq(S), NEW n \in Nat, Len(s) = n, Len(t) = n,
           \A i \in 1 .. n : s[i] = t[i]
    PROVE  s = t
BY SeqEqual, Zenon

\* What the service puts together are these lists.
LEMMA OpeningJoined ==
    ASSUME NEW a \in Steps, NEW b \in Steps
    PROVE  <<"check">> \o <<a, b>> \o <<"configure", "closeFd", "establish">>
             \o <<"stopWg", "readProfile", "spawnPump", "await">> \o <<"report">>
           = <<"check", a, b, "configure", "closeFd", "establish",
               "stopWg", "readProfile", "spawnPump", "await", "report">>
<1> DEFINE l == <<"check">> \o <<a, b>> \o <<"configure", "closeFd", "establish">>
                  \o <<"stopWg", "readProfile", "spawnPump", "await">> \o <<"report">>
           r == <<"check", a, b, "configure", "closeFd", "establish",
                  "stopWg", "readProfile", "spawnPump", "await", "report">>
<1>1. Len(l) = 11 /\ Len(r) = 11 OBVIOUS
<1>2. l \in Seq(Steps) BY DEF Steps, NativeStops, Attachments
<1>3. r \in Seq(Steps) BY DEF Steps, NativeStops, Attachments
<1>4. \A i \in 1 .. 11 : l[i] = r[i] OBVIOUS
<1>. HIDE DEF l, r
<1>5. l = r BY <1>1, <1>2, <1>3, <1>4, SameLists
<1>. QED BY <1>5, Zenon DEF l, r

LEMMA OutlineJoined ==
    <<"check">> \o <<"stopWg", "stopProxies">> \o <<"configure", "closeFd", "establish">>
      \o (<<"stopOutline", "serve">> \o <<"stopSocks", "route">>) \o <<"report">>
    = Plan("outline")
<1> DEFINE l == <<"check">> \o <<"stopWg", "stopProxies">> \o <<"configure", "closeFd", "establish">>
                  \o (<<"stopOutline", "serve">> \o <<"stopSocks", "route">>) \o <<"report">>
           r == <<"check", "stopWg", "stopProxies", "configure", "closeFd", "establish",
                  "stopOutline", "serve", "stopSocks", "route", "report">>
<1>1. Len(l) = 11 /\ Len(r) = 11 OBVIOUS
<1>2. l \in Seq(Steps) BY DEF Steps, NativeStops, Attachments
<1>3. r \in Seq(Steps) BY DEF Steps, NativeStops, Attachments
<1>4. \A i \in 1 .. 11 : l[i] = r[i] OBVIOUS
<1>5. Plan("outline") = r BY DEF Plan
<1>. HIDE DEF l, r
<1>6. l = r BY <1>1, <1>2, <1>3, <1>4, SameLists
<1>7. l = Plan("outline") BY <1>5, <1>6, Zenon
<1>. QED BY <1>7, Zenon DEF l

LEMMA TorJoined ==
    <<"check">> \o <<"stopWg", "stopOutline">> \o <<"configure", "closeFd", "establish">>
      \o (<<"torPort">> \o <<"stopSocks", "route">>) \o <<"report">>
    = Plan("tor")
<1> DEFINE l == <<"check">> \o <<"stopWg", "stopOutline">> \o <<"configure", "closeFd", "establish">>
                  \o (<<"torPort">> \o <<"stopSocks", "route">>) \o <<"report">>
           r == <<"check", "stopWg", "stopOutline", "configure", "closeFd", "establish",
                  "torPort", "stopSocks", "route", "report">>
<1>1. Len(l) = 10 /\ Len(r) = 10 OBVIOUS
<1>2. l \in Seq(Steps) BY DEF Steps, NativeStops, Attachments
<1>3. r \in Seq(Steps) BY DEF Steps, NativeStops, Attachments
<1>4. \A i \in 1 .. 10 : l[i] = r[i] OBVIOUS
<1>5. Plan("tor") = r BY DEF Plan
<1>. HIDE DEF l, r
<1>6. l = r BY <1>1, <1>2, <1>3, <1>4, SameLists
<1>7. l = Plan("tor") BY <1>5, <1>6, Zenon
<1>. QED BY <1>7, Zenon DEF l

LEMMA CleanUpJoined == CleanUp = Plan("cleanUp")
<1> DEFINE l == <<"stopWg", "stopProxies">> \o <<"closeFd">>
           r == <<"stopWg", "stopProxies", "closeFd">>
<1>1. Len(l) = 3 /\ Len(r) = 3 OBVIOUS
<1>2. l \in Seq(Steps) BY DEF Steps, NativeStops, Attachments
<1>3. r \in Seq(Steps) BY DEF Steps, NativeStops, Attachments
<1>4. \A i \in 1 .. 3 : l[i] = r[i] OBVIOUS
<1>5. Plan("cleanUp") = r BY DEF Plan
<1>6. CleanUp = l BY Zenon DEF CleanUp, StopEverything
<1>. HIDE DEF l, r
<1>7. l = r BY <1>1, <1>2, <1>3, <1>4, SameLists
<1>. QED BY <1>5, <1>6, <1>7, Zenon

LEMMA ErrorJoined == <<"status", "flag">> \o CleanUp \o <<"show", "stopSelfId">> = Plan("error")
<1> DEFINE c == <<"stopWg", "stopProxies", "closeFd">>
           l == <<"status", "flag">> \o c \o <<"show", "stopSelfId">>
           r == <<"status", "flag", "stopWg", "stopProxies", "closeFd", "show", "stopSelfId">>
<1>1. Len(l) = 7 /\ Len(r) = 7 OBVIOUS
<1>2. l \in Seq(Steps) BY DEF Steps, NativeStops, Attachments
<1>3. r \in Seq(Steps) BY DEF Steps, NativeStops, Attachments
<1>4. \A i \in 1 .. 7 : l[i] = r[i] OBVIOUS
<1>5. Plan("error") = r BY DEF Plan
<1>6. CleanUp = c
  <2>1. Plan("cleanUp") = c BY DEF Plan
  <2>. QED BY <2>1, CleanUpJoined, Zenon
<1>. HIDE DEF l, r
<1>7. l = r BY <1>1, <1>2, <1>3, <1>4, SameLists
<1>8. l = Plan("error") BY <1>5, <1>7, Zenon
<1>. QED BY <1>6, <1>8, Zenon DEF l

\* A session is opened by the list of its kind.
LEMMA OpeningPlans ==
    ASSUME NEW token
    PROVE  \E name \in Openings :
              /\ StartTunnel(token) = Plan(name)
              /\ KindOfToken(token) \in Openings => name = KindOfToken(token)
<1>1. StartTunnel(token) =
        <<"check">> \o (IF KindOfToken(token) = "tor" THEN StopAllTunnels ELSE StopEverything)
          \o <<"configure", "closeFd", "establish">> \o Attaching(KindOfToken(token)) \o <<"report">>
  BY Zenon DEF StartTunnel
<1>2. CASE KindOfToken(token) = "tor"
  <2>1. Attaching("tor") = <<"torPort">> \o <<"stopSocks", "route">>
    <3>1. "tor" # "outline" OBVIOUS
    <3>2. Attaching("tor") = StartTorTunnel BY <3>1 DEF Attaching
    <3>. QED BY <3>2, Zenon DEF StartTorTunnel, StartSocksTunnel
  <2>2. StartTunnel(token) = Plan("tor") BY <1>1, <1>2, <2>1, TorJoined, Zenon DEF StopAllTunnels
  <2>. QED BY <1>2, <2>2, Zenon DEF Openings
<1>3. CASE KindOfToken(token) = "outline"
  <2>1. Attaching("outline") = <<"stopOutline", "serve">> \o <<"stopSocks", "route">>
    <3>1. Attaching("outline") = StartOutline BY DEF Attaching
    <3>. QED BY <3>1, Zenon DEF StartOutline, StartSocksTunnel
  <2>2. "outline" # "tor" OBVIOUS
  <2>3. StartTunnel(token) = Plan("outline")
    BY <1>1, <1>3, <2>1, <2>2, OutlineJoined, Zenon DEF StopEverything
  <2>. QED BY <1>3, <2>3, Zenon DEF Openings
<1>4. CASE KindOfToken(token) \notin {"tor", "outline"}
  <2>1. Attaching(KindOfToken(token)) = <<"stopWg", "readProfile", "spawnPump", "await">>
    <3>1. Attaching(KindOfToken(token)) = StartWireguard BY <1>4 DEF Attaching
    <3>. QED BY <3>1, Zenon DEF StartWireguard
  <2>2. KindOfToken(token) # "tor" BY <1>4
  <2>3. "stopWg" \in Steps /\ "stopProxies" \in Steps BY DEF Steps, NativeStops
  <2>4. Plan("wireguard") =
           <<"check", "stopWg", "stopProxies", "configure", "closeFd", "establish",
             "stopWg", "readProfile", "spawnPump", "await", "report">>
    BY DEF Plan
  <2>5. StartTunnel(token) = Plan("wireguard")
    BY <1>1, <2>1, <2>2, <2>3, <2>4, OpeningJoined, Zenon DEF StopEverything
  <2>6. KindOfToken(token) \in Openings => KindOfToken(token) = "wireguard"
    BY <1>4 DEF Openings
  <2>. QED BY <2>5, <2>6, Zenon DEF Openings
<1>. QED BY <1>2, <1>3, <1>4

LEMMA PlanTyped ==
    ASSUME NEW name \in PlanNames
    PROVE  Plan(name) \in Seq(Steps) /\ Len(Plan(name)) \in 2 .. 11
<1>1. CASE name = "wireguard"
  <2> DEFINE l ==
          <<"check", "stopWg", "stopProxies", "configure", "closeFd", "establish",
           "stopWg", "readProfile", "spawnPump", "await", "report">>
  <2>1. Plan("wireguard") = l BY DEF Plan
  <2>2. l \in Seq(Steps) BY DEF Steps, NativeStops, Attachments
  <2>3. Len(l) \in 2 .. 11 OBVIOUS
  <2>. QED BY <1>1, <2>1, <2>2, <2>3, Zenon
<1>2. CASE name = "outline"
  <2> DEFINE l ==
          <<"check", "stopWg", "stopProxies", "configure", "closeFd", "establish",
           "stopOutline", "serve", "stopSocks", "route", "report">>
  <2>1. Plan("outline") = l BY DEF Plan
  <2>2. l \in Seq(Steps) BY DEF Steps, NativeStops, Attachments
  <2>3. Len(l) \in 2 .. 11 OBVIOUS
  <2>. QED BY <1>2, <2>1, <2>2, <2>3, Zenon
<1>3. CASE name = "tor"
  <2> DEFINE l ==
          <<"check", "stopWg", "stopOutline", "configure", "closeFd", "establish",
           "torPort", "stopSocks", "route", "report">>
  <2>1. Plan("tor") = l BY DEF Plan
  <2>2. l \in Seq(Steps) BY DEF Steps, NativeStops, Attachments
  <2>3. Len(l) \in 2 .. 11 OBVIOUS
  <2>. QED BY <1>3, <2>1, <2>2, <2>3, Zenon
<1>4. CASE name = "ok"
  <2> DEFINE l ==
          <<"flag", "status", "show">>
  <2>1. Plan("ok") = l BY DEF Plan
  <2>2. l \in Seq(Steps) BY DEF Steps, NativeStops, Attachments
  <2>3. Len(l) \in 2 .. 11 OBVIOUS
  <2>. QED BY <1>4, <2>1, <2>2, <2>3, Zenon
<1>5. CASE name = "failed"
  <2> DEFINE l ==
          <<"stopWg", "report">>
  <2>1. Plan("failed") = l BY DEF Plan
  <2>2. l \in Seq(Steps) BY DEF Steps, NativeStops, Attachments
  <2>3. Len(l) \in 2 .. 11 OBVIOUS
  <2>. QED BY <1>5, <2>1, <2>2, <2>3, Zenon
<1>6. CASE name = "error"
  <2> DEFINE l ==
          <<"status", "flag", "stopWg", "stopProxies", "closeFd", "show",
           "stopSelfId">>
  <2>1. Plan("error") = l BY DEF Plan
  <2>2. l \in Seq(Steps) BY DEF Steps, NativeStops, Attachments
  <2>3. Len(l) \in 2 .. 11 OBVIOUS
  <2>. QED BY <1>6, <2>1, <2>2, <2>3, Zenon
<1>7. CASE name = "cleanUp"
  <2> DEFINE l ==
          <<"stopWg", "stopProxies", "closeFd">>
  <2>1. Plan("cleanUp") = l BY DEF Plan
  <2>2. l \in Seq(Steps) BY DEF Steps, NativeStops, Attachments
  <2>3. Len(l) \in 2 .. 11 OBVIOUS
  <2>. QED BY <1>7, <2>1, <2>2, <2>3, Zenon
<1>. QED BY <1>1, <1>2, <1>3, <1>4, <1>5, <1>6, <1>7 DEF PlanNames, Openings

LEMMA PlanEnds ==
    /\ Len(Plan("wireguard")) = 11 /\ Len(Plan("outline")) = 11 /\ Len(Plan("tor")) = 10
    /\ Len(Plan("ok")) = 3 /\ Len(Plan("failed")) = 2
    /\ Len(Plan("error")) = 7 /\ Len(Plan("cleanUp")) = 3
BY DEF Plan

LEMMA OpeningEnds ==
    ASSUME NEW name \in Openings
    PROVE  Len(Plan(name)) \in {10, 11} /\ name \in PlanNames
BY PlanEnds, Zenon DEF Openings, PlanNames

\* Which step is where: the service's own steps, those that start a plane, and
\* those that stop planes.
Where(name, i, x) ==
    /\ x = "check" => name \in Openings /\ i = 1
    /\ x = "configure" => name \in Openings /\ i = 4
    /\ x = "establish" => name \in Openings /\ i = 6
    /\ x = "closeFd" =>
          \/ name \in Openings \cup {"error"} /\ i = 5
          \/ name = "cleanUp" /\ i = 3
    /\ x = "report" =>
          \/ name \in {"wireguard", "outline"} /\ i = 11
          \/ name = "tor" /\ i = 10
          \/ name = "failed" /\ i = 2
    /\ x = "flag" => (name = "ok" /\ i = 1) \/ (name = "error" /\ i = 2)
    /\ x = "status" => (name = "ok" /\ i = 2) \/ (name = "error" /\ i = 1)
    /\ x = "show" => (name = "ok" /\ i = 3) \/ (name = "error" /\ i = 6)
    /\ x = "stopSelfId" => name = "error" /\ i = 7
    /\ x = "readProfile" => name = "wireguard" /\ i = 8
    /\ x = "spawnPump" => name = "wireguard" /\ i = 9
    /\ x = "await" => name = "wireguard" /\ i = 10
    /\ x = "serve" => name = "outline" /\ i = 8
    /\ x = "torPort" => name = "tor" /\ i = 7
    /\ x = "route" => (name = "outline" /\ i = 10) \/ (name = "tor" /\ i = 9)
    /\ x = "stopWg" =>
          \/ name \in Openings /\ i = 2
          \/ name = "wireguard" /\ i = 7
          \/ name = "failed" /\ i = 1
          \/ name = "error" /\ i = 3
          \/ name = "cleanUp" /\ i = 1
    /\ x = "stopProxies" =>
          \/ name \in {"wireguard", "outline"} /\ i = 3
          \/ name = "error" /\ i = 4
          \/ name = "cleanUp" /\ i = 2
    /\ x = "stopOutline" => (name = "tor" /\ i = 3) \/ (name = "outline" /\ i = 7)
    /\ x = "stopSocks" => (name = "outline" /\ i = 9) \/ (name = "tor" /\ i = 8)
    /\ x # "stopTor"

LEMMA WireguardWhere ==
    ASSUME NEW i \in 1 .. Len(Plan("wireguard"))
    PROVE  Where("wireguard", i, Plan("wireguard")[i])
<1> DEFINE l == <<"check", "stopWg", "stopProxies", "configure", "closeFd", "establish",
                  "stopWg", "readProfile", "spawnPump", "await", "report">>
           x == Plan("wireguard")[i]
<1>1. Plan("wireguard") = l BY DEF Plan
<1>2. Len(l) = 11 OBVIOUS
<1>3. /\ l[1] = "check" /\ l[2] = "stopWg" /\ l[3] = "stopProxies"
      /\ l[4] = "configure" /\ l[5] = "closeFd" /\ l[6] = "establish"
      /\ l[7] = "stopWg" /\ l[8] = "readProfile" /\ l[9] = "spawnPump"
      /\ l[10] = "await" /\ l[11] = "report"
  OBVIOUS
<1> HIDE DEF l
<1>4. i \in 1 .. 11 BY <1>1, <1>2
<1>5. \/ i = 1 \/ i = 2 \/ i = 3 \/ i = 4 \/ i = 5 \/ i = 6 \/ i = 7 \/ i = 8 \/ i = 9
      \/ i = 10 \/ i = 11
  BY <1>4
<1>6. x = l[i] BY <1>1, Zenon
<1> HIDE DEF x
<1>7. \/ (i = 1 /\ x = "check") \/ (i = 2 /\ x = "stopWg")
      \/ (i = 3 /\ x = "stopProxies") \/ (i = 4 /\ x = "configure")
      \/ (i = 5 /\ x = "closeFd") \/ (i = 6 /\ x = "establish")
      \/ (i = 7 /\ x = "stopWg") \/ (i = 8 /\ x = "readProfile")
      \/ (i = 9 /\ x = "spawnPump") \/ (i = 10 /\ x = "await")
      \/ (i = 11 /\ x = "report")
  BY <1>3, <1>5, <1>6
<1>8. Where("wireguard", i, x) BY <1>7 DEF Where, Openings
<1>. QED BY <1>8, Zenon DEF x

LEMMA OutlineWhere ==
    ASSUME NEW i \in 1 .. Len(Plan("outline"))
    PROVE  Where("outline", i, Plan("outline")[i])
<1> DEFINE l == <<"check", "stopWg", "stopProxies", "configure", "closeFd", "establish",
                  "stopOutline", "serve", "stopSocks", "route", "report">>
           x == Plan("outline")[i]
<1>1. Plan("outline") = l BY DEF Plan
<1>2. Len(l) = 11 OBVIOUS
<1>3. /\ l[1] = "check" /\ l[2] = "stopWg" /\ l[3] = "stopProxies"
      /\ l[4] = "configure" /\ l[5] = "closeFd" /\ l[6] = "establish"
      /\ l[7] = "stopOutline" /\ l[8] = "serve" /\ l[9] = "stopSocks"
      /\ l[10] = "route" /\ l[11] = "report"
  OBVIOUS
<1> HIDE DEF l
<1>4. i \in 1 .. 11 BY <1>1, <1>2
<1>5. \/ i = 1 \/ i = 2 \/ i = 3 \/ i = 4 \/ i = 5 \/ i = 6 \/ i = 7 \/ i = 8 \/ i = 9
      \/ i = 10 \/ i = 11
  BY <1>4
<1>6. x = l[i] BY <1>1, Zenon
<1> HIDE DEF x
<1>7. \/ (i = 1 /\ x = "check") \/ (i = 2 /\ x = "stopWg")
      \/ (i = 3 /\ x = "stopProxies") \/ (i = 4 /\ x = "configure")
      \/ (i = 5 /\ x = "closeFd") \/ (i = 6 /\ x = "establish")
      \/ (i = 7 /\ x = "stopOutline") \/ (i = 8 /\ x = "serve")
      \/ (i = 9 /\ x = "stopSocks") \/ (i = 10 /\ x = "route")
      \/ (i = 11 /\ x = "report")
  BY <1>3, <1>5, <1>6
<1>8. Where("outline", i, x) BY <1>7 DEF Where, Openings
<1>. QED BY <1>8, Zenon DEF x

LEMMA TorWhere ==
    ASSUME NEW i \in 1 .. Len(Plan("tor"))
    PROVE  Where("tor", i, Plan("tor")[i])
<1> DEFINE l == <<"check", "stopWg", "stopOutline", "configure", "closeFd", "establish",
                  "torPort", "stopSocks", "route", "report">>
           x == Plan("tor")[i]
<1>1. Plan("tor") = l BY DEF Plan
<1>2. Len(l) = 10 OBVIOUS
<1>3. /\ l[1] = "check" /\ l[2] = "stopWg" /\ l[3] = "stopOutline"
      /\ l[4] = "configure" /\ l[5] = "closeFd" /\ l[6] = "establish"
      /\ l[7] = "torPort" /\ l[8] = "stopSocks" /\ l[9] = "route" /\ l[10] = "report"
  OBVIOUS
<1> HIDE DEF l
<1>4. i \in 1 .. 10 BY <1>1, <1>2
<1>5. \/ i = 1 \/ i = 2 \/ i = 3 \/ i = 4 \/ i = 5 \/ i = 6 \/ i = 7 \/ i = 8 \/ i = 9
      \/ i = 10
  BY <1>4
<1>6. x = l[i] BY <1>1, Zenon
<1> HIDE DEF x
<1>7. \/ (i = 1 /\ x = "check") \/ (i = 2 /\ x = "stopWg")
      \/ (i = 3 /\ x = "stopOutline") \/ (i = 4 /\ x = "configure")
      \/ (i = 5 /\ x = "closeFd") \/ (i = 6 /\ x = "establish")
      \/ (i = 7 /\ x = "torPort") \/ (i = 8 /\ x = "stopSocks")
      \/ (i = 9 /\ x = "route") \/ (i = 10 /\ x = "report")
  BY <1>3, <1>5, <1>6
<1>8. Where("tor", i, x) BY <1>7 DEF Where, Openings
<1>. QED BY <1>8, Zenon DEF x

LEMMA OkWhere ==
    ASSUME NEW i \in 1 .. Len(Plan("ok"))
    PROVE  Where("ok", i, Plan("ok")[i])
<1> DEFINE l == <<"flag", "status", "show">>
           x == Plan("ok")[i]
<1>1. Plan("ok") = l BY DEF Plan
<1>2. Len(l) = 3 OBVIOUS
<1>3. /\ l[1] = "flag" /\ l[2] = "status" /\ l[3] = "show"
  OBVIOUS
<1> HIDE DEF l
<1>4. i \in 1 .. 3 BY <1>1, <1>2
<1>5. \/ i = 1 \/ i = 2 \/ i = 3
  BY <1>4
<1>6. x = l[i] BY <1>1, Zenon
<1> HIDE DEF x
<1>7. \/ (i = 1 /\ x = "flag") \/ (i = 2 /\ x = "status") \/ (i = 3 /\ x = "show")
  BY <1>3, <1>5, <1>6
<1>8. Where("ok", i, x) BY <1>7 DEF Where, Openings
<1>. QED BY <1>8, Zenon DEF x

LEMMA FailedWhere ==
    ASSUME NEW i \in 1 .. Len(Plan("failed"))
    PROVE  Where("failed", i, Plan("failed")[i])
<1> DEFINE l == <<"stopWg", "report">>
           x == Plan("failed")[i]
<1>1. Plan("failed") = l BY DEF Plan
<1>2. Len(l) = 2 OBVIOUS
<1>3. /\ l[1] = "stopWg" /\ l[2] = "report"
  OBVIOUS
<1> HIDE DEF l
<1>4. i \in 1 .. 2 BY <1>1, <1>2
<1>5. \/ i = 1 \/ i = 2
  BY <1>4
<1>6. x = l[i] BY <1>1, Zenon
<1> HIDE DEF x
<1>7. \/ (i = 1 /\ x = "stopWg") \/ (i = 2 /\ x = "report")
  BY <1>3, <1>5, <1>6
<1>8. Where("failed", i, x) BY <1>7 DEF Where, Openings
<1>. QED BY <1>8, Zenon DEF x

LEMMA ErrorWhere ==
    ASSUME NEW i \in 1 .. Len(Plan("error"))
    PROVE  Where("error", i, Plan("error")[i])
<1> DEFINE l == <<"status", "flag", "stopWg", "stopProxies", "closeFd", "show",
                  "stopSelfId">>
           x == Plan("error")[i]
<1>1. Plan("error") = l BY DEF Plan
<1>2. Len(l) = 7 OBVIOUS
<1>3. /\ l[1] = "status" /\ l[2] = "flag" /\ l[3] = "stopWg" /\ l[4] = "stopProxies"
      /\ l[5] = "closeFd" /\ l[6] = "show" /\ l[7] = "stopSelfId"
  OBVIOUS
<1> HIDE DEF l
<1>4. i \in 1 .. 7 BY <1>1, <1>2
<1>5. \/ i = 1 \/ i = 2 \/ i = 3 \/ i = 4 \/ i = 5 \/ i = 6 \/ i = 7
  BY <1>4
<1>6. x = l[i] BY <1>1, Zenon
<1> HIDE DEF x
<1>7. \/ (i = 1 /\ x = "status") \/ (i = 2 /\ x = "flag") \/ (i = 3 /\ x = "stopWg")
      \/ (i = 4 /\ x = "stopProxies") \/ (i = 5 /\ x = "closeFd")
      \/ (i = 6 /\ x = "show") \/ (i = 7 /\ x = "stopSelfId")
  BY <1>3, <1>5, <1>6
<1>8. Where("error", i, x) BY <1>7 DEF Where, Openings
<1>. QED BY <1>8, Zenon DEF x

LEMMA CleanUpWhere ==
    ASSUME NEW i \in 1 .. Len(Plan("cleanUp"))
    PROVE  Where("cleanUp", i, Plan("cleanUp")[i])
<1> DEFINE l == <<"stopWg", "stopProxies", "closeFd">>
           x == Plan("cleanUp")[i]
<1>1. Plan("cleanUp") = l BY DEF Plan
<1>2. Len(l) = 3 OBVIOUS
<1>3. /\ l[1] = "stopWg" /\ l[2] = "stopProxies" /\ l[3] = "closeFd"
  OBVIOUS
<1> HIDE DEF l
<1>4. i \in 1 .. 3 BY <1>1, <1>2
<1>5. \/ i = 1 \/ i = 2 \/ i = 3
  BY <1>4
<1>6. x = l[i] BY <1>1, Zenon
<1> HIDE DEF x
<1>7. \/ (i = 1 /\ x = "stopWg") \/ (i = 2 /\ x = "stopProxies")
      \/ (i = 3 /\ x = "closeFd")
  BY <1>3, <1>5, <1>6
<1>8. Where("cleanUp", i, x) BY <1>7 DEF Where, Openings
<1>. QED BY <1>8, Zenon DEF x

LEMMA WhereIs ==
    ASSUME NEW name \in PlanNames, NEW i \in 1 .. Len(Plan(name))
    PROVE  Where(name, i, Plan(name)[i])
<1>1. CASE name = "wireguard" BY <1>1, WireguardWhere, Zenon
<1>2. CASE name = "outline" BY <1>2, OutlineWhere, Zenon
<1>3. CASE name = "tor" BY <1>3, TorWhere, Zenon
<1>4. CASE name = "ok" BY <1>4, OkWhere, Zenon
<1>5. CASE name = "failed" BY <1>5, FailedWhere, Zenon
<1>6. CASE name = "error" BY <1>6, ErrorWhere, Zenon
<1>7. CASE name = "cleanUp" BY <1>7, CleanUpWhere, Zenon
<1>. QED BY <1>1, <1>2, <1>3, <1>4, <1>5, <1>6, <1>7 DEF PlanNames, Openings

\* A thread at a place has that place's step before it,
LEMMA AtHead ==
    ASSUME NEW w, NEW name \in PlanNames, NEW i, At(w, name, i)
    PROVE  /\ i \in 1 .. Len(Plan(name)) /\ w.steps # <<>> /\ w.steps \in Seq(Steps)
           /\ Head(w.steps) = Plan(name)[i]
           /\ Tail(w.steps) = SubSeq(Plan(name), i + 1, Len(Plan(name)))
           /\ Len(w.steps) = Len(Plan(name)) - i + 1
<1>1. i \in 1 .. Len(Plan(name)) /\ w.steps = SubSeq(Plan(name), i, Len(Plan(name)))
  BY DEF At
<1> DEFINE p == Plan(name)
           n == Len(Plan(name))
<1>2. p \in Seq(Steps) /\ n \in Nat /\ n \in i .. n
  BY <1>1, PlanTyped
<1>0. w.steps = SubSeq(p, i, n) /\ i \in 1 .. n BY <1>1
<1> HIDE DEF p, n
<1>3. Head(w.steps) = p[i] /\ Tail(w.steps) = SubSeq(p, i + 1, n)
  <2>1. n = Len(p) BY Zenon DEF p, n
  <2>. QED BY <1>0, <1>2, <2>1, HeadTailOfSubSeq
<1>4. w.steps \in Seq(Steps) /\ Len(w.steps) = n - i + 1
  <2>1. n = Len(p) BY Zenon DEF p, n
  <2>2. \A k \in i .. n : p[k] \in Steps BY <1>0, <1>2, <2>1
  <2>3. i \in Int /\ n \in Int /\ i <= n BY <1>0, <1>2
  <2>4. /\ SubSeq(p, i, n) \in Seq(Steps)
        /\ Len(SubSeq(p, i, n)) = IF i <= n THEN n - i + 1 ELSE 0
    BY <2>2, <2>3, SubSeqProperties, Zenon
  <2>. QED BY <1>0, <2>3, <2>4
<1>5. w.steps # <<>>
  <2>1. n - i + 1 # 0 BY <1>0, <1>2
  <2>2. Len(<<>>) = 0 OBVIOUS
  <2>. QED BY <2>1, <2>2, <1>4, Zenon
<1>. QED BY <1>0, <1>3, <1>4, <1>5, Zenon DEF p, n

LEMMA HeadWhere ==
    ASSUME NEW w, NEW name \in PlanNames, NEW i, At(w, name, i), NEW step, Head(w.steps) = step
    PROVE  Where(name, i, step)
<1>1. i \in 1 .. Len(Plan(name)) /\ step = Plan(name)[i] BY AtHead, Zenon
<1>. QED BY <1>1, WhereIs, Zenon

\* and the step after it when that one is done.
Goes(name, i) ==
    IF i = Len(Plan(name)) THEN worker' = Idle
    ELSE At(worker', name, i + 1) /\ worker'.as = worker.as /\ worker'.token = worker.token

LEMMA Advance ==
    ASSUME worker \in Thread, NEW name \in PlanNames, NEW i, At(worker, name, i),
           worker' = Rest(worker)
    PROVE  Goes(name, i)
<1>1. /\ i \in 1 .. Len(Plan(name)) /\ Len(worker.steps) = Len(Plan(name)) - i + 1
      /\ Tail(worker.steps) = SubSeq(Plan(name), i + 1, Len(Plan(name)))
      /\ Len(Plan(name)) \in Nat
  <2>1. Len(Plan(name)) \in Nat BY PlanTyped
  <2>. QED BY <2>1, AtHead, Zenon
<1>2. CASE i = Len(Plan(name))
  <2>1. Len(worker.steps) = 1 BY <1>1, <1>2
  <2>. QED BY <1>2, <2>1 DEF Goes, Rest
<1>3. CASE i # Len(Plan(name))
  <2>1. Len(worker.steps) # 1 BY <1>1, <1>3
  <2>2. worker' = [worker EXCEPT !.steps = Tail(@)] BY <2>1 DEF Rest
  <2>3. /\ worker'.steps = Tail(worker.steps)
        /\ worker'.as = worker.as /\ worker'.token = worker.token
    BY <2>2 DEF Thread
  <2>4. i + 1 \in 1 .. Len(Plan(name)) BY <1>1, <1>3
  <2>. QED BY <1>1, <1>3, <2>3, <2>4 DEF Goes, At
<1>. QED BY <1>2, <1>3

\* A list is begun at its first step.
LEMMA Begins ==
    ASSUME NEW w, NEW name \in PlanNames, w.steps = Plan(name),
           name \in Openings \cup {"ok"} => w.as = "OK",
           name \in {"failed", "error"} => w.as = "ERR",
           name # "cleanUp" => w.token \in Tokens
    PROVE  At(w, name, 1)
<1>1. Plan(name) \in Seq(Steps) /\ Len(Plan(name)) \in 2 .. 11 BY PlanTyped
<1>2. SubSeq(Plan(name), 1, Len(Plan(name))) = Plan(name) BY <1>1, SubSeqFull
<1>. QED BY <1>1, <1>2 DEF At

-----------------------------------------------------------------------------
(***************************************************************************)
(* Types.  They are inductive with the worker's place in its list: only    *)
(* there it is known that it starts a pump for a session.                  *)
(***************************************************************************)
Located == worker = Idle \/ \E name \in PlanNames : \E i \in Nat : At(worker, name, i)

GateTypes ==
    /\ sessions \in Seq(Profiles) /\ LastToken <= MaxTokens
    /\ current \in Tokens \cup {Nobody} /\ stopped \in BOOLEAN

QueueTypes == queue \in Seq(Tokens \cup {Cleanup})

NativeTypes ==
    /\ active \in Tokens \cup {Nobody} /\ outline \in Tokens \cup {Nobody}
    /\ socks \in Tokens \cup {Nobody}
    /\ running \subseteq Tokens /\ answered \subseteq Tokens
    /\ pumps \in [Tokens -> {"none", "resolving", "pumping"}]
    /\ handshakeOk \in BOOLEAN /\ tor \in BOOLEAN

ReportTypes ==
    /\ runningFlag \in BOOLEAN /\ leaving \in BOOLEAN
    /\ lastStatus \in Status /\ shown \in Status

LEMMA TypeParts ==
    TypeOK <=> /\ GateTypes /\ QueueTypes /\ NativeTypes /\ ReportTypes
               /\ main \in Thread /\ worker \in Thread /\ tunnel \in Tokens \cup {Nobody}
BY Zenon DEF TypeOK, GateTypes, QueueTypes, NativeTypes, ReportTypes

LEMMA NobodyNoToken == Nobody \notin Tokens /\ Tokens \subseteq Nat /\ Cleanup = Nobody
BY TokensAssumption DEF Nobody, Tokens, Cleanup

LEMMA IdleTyped == Idle \in Thread /\ Idle.steps = <<>> /\ Idle.token = Nobody /\ Idle.as = "IDLE"
BY DEF Idle, Thread, Status

\* A worker that has nothing before it is idle.
LEMMA NothingIsIdle ==
    ASSUME Located, worker.steps = <<>>
    PROVE  worker = Idle
BY AtHead DEF Located

\* What stops planes,
LEMMA StopsTyped ==
    ASSUME NativeTypes, NEW step, Stopping(step)
    PROVE  NativeTypes'
<1>1. /\ active \in Tokens \cup {Nobody} /\ outline \in Tokens \cup {Nobody}
      /\ socks \in Tokens \cup {Nobody}
      /\ running \subseteq Tokens /\ answered \subseteq Tokens
      /\ pumps \in [Tokens -> {"none", "resolving", "pumping"}]
  BY DEF NativeTypes
<1>2. handshakeOk \in BOOLEAN /\ tor \in BOOLEAN BY Zenon DEF NativeTypes
<1>3. CASE step = "stopWg"
  <2>1. StopWireguard BY <1>3 DEF Stopping
  <2>. QED BY <1>1, <1>2, <2>1 DEF StopWireguard, NativeTypes
<1>4. CASE step # "stopWg"
  <2>1. /\ outline' \in {outline, Nobody} /\ socks' = Nobody
        /\ tor' = tor \/ tor' = FALSE
        /\ UNCHANGED wireguard
    BY <1>4 DEF Stopping, StopProxies, StopSocks, StopOutline, StopTor
  <2>. QED BY <1>1, <1>2, <2>1 DEF NativeTypes, wireguard
<1>. QED BY <1>3, <1>4

\* what starts one,
LEMMA AttachTyped ==
    ASSUME NativeTypes, NEW step, NEW token \in Tokens, NEW succeeds \in BOOLEAN,
           Attach(step, token, succeeds)
    PROVE  NativeTypes'
<1>1. /\ active \in Tokens \cup {Nobody} /\ outline \in Tokens \cup {Nobody}
      /\ socks \in Tokens \cup {Nobody}
      /\ running \subseteq Tokens /\ answered \subseteq Tokens
      /\ pumps \in [Tokens -> {"none", "resolving", "pumping"}]
  BY DEF NativeTypes
<1>2. handshakeOk \in BOOLEAN /\ tor \in BOOLEAN BY Zenon DEF NativeTypes
<1>3. CASE UNCHANGED native
  BY <1>1, <1>2, <1>3 DEF NativeTypes, native, wireguard
<1>4. CASE step = "readProfile" /\ ReadProfile(succeeds)
  BY <1>1, <1>2, <1>4 DEF ReadProfile, NativeTypes
<1>5. CASE step = "spawnPump" /\ SpawnPump(token)
  BY <1>1, <1>2, <1>5 DEF SpawnPump, NativeTypes
<1>6. CASE step = "serve" /\ Serve(token, succeeds)
  BY <1>1, <1>2, <1>6 DEF Serve, NativeTypes, wireguard
<1>7. CASE step = "route" /\ Route(token, succeeds)
  BY <1>1, <1>2, <1>7 DEF Route, NativeTypes, wireguard
<1>. QED BY <1>3, <1>4, <1>5, <1>6, <1>7 DEF Attach, Await, TorPort

\* the pumps and the start of Tor's proxy keep the types.
LEMMA PumpsTyped ==
    ASSUME NativeTypes, NEW t \in Tokens, Resolve(t) \/ Answered(t) \/ EndPump(t)
    PROVE  NativeTypes'
<1>1. /\ active \in Tokens \cup {Nobody} /\ outline \in Tokens \cup {Nobody}
      /\ socks \in Tokens \cup {Nobody}
      /\ running \subseteq Tokens /\ answered \subseteq Tokens
      /\ pumps \in [Tokens -> {"none", "resolving", "pumping"}]
  BY DEF NativeTypes
<1>2. handshakeOk \in BOOLEAN /\ tor \in BOOLEAN BY Zenon DEF NativeTypes
<1>3. CASE Resolve(t) BY <1>1, <1>2, <1>3 DEF Resolve, NativeTypes
<1>4. CASE Answered(t) BY <1>1, <1>2, <1>4 DEF Answered, NativeTypes
<1>5. CASE EndPump(t) BY <1>1, <1>2, <1>5 DEF EndPump, NativeTypes
<1>. QED BY <1>3, <1>4, <1>5

LEMMA LaunchTyped ==
    ASSUME NativeTypes, NEW succeeds \in BOOLEAN, Launch(succeeds)
    PROVE  NativeTypes'
<1>1. tor \in BOOLEAN BY Zenon DEF NativeTypes
<1>2. tor' \in BOOLEAN BY <1>1 DEF Launch
<1>. QED BY <1>2, Zenon DEF Launch, NativeTypes, wireguard

\* What a thread writes.
LEMMA WritesTyped ==
    ASSUME ReportTypes, NEW w \in Thread, Write(w), leaving' = Resigned(w)
    PROVE  ReportTypes'
<1>1. w.as \in Status BY DEF Thread
<1>2. runningFlag' \in BOOLEAN
  <2>1. runningFlag \in BOOLEAN BY Zenon DEF ReportTypes
  <2>. QED BY <2>1 DEF Write
<1>3. leaving' \in BOOLEAN
  <2>1. leaving \in BOOLEAN BY Zenon DEF ReportTypes
  <2>. QED BY <2>1 DEF Resigned
<1>4. lastStatus' \in Status /\ shown' \in Status BY <1>1 DEF Write, ReportTypes
<1>. QED BY <1>2, <1>3, <1>4, Zenon DEF ReportTypes

\* A thread that has done a step.
LEMMA RestTyped ==
    ASSUME NEW w \in Thread, w.steps # <<>>
    PROVE  Rest(w) \in Thread
<1>1. w.steps \in Seq(Steps) BY DEF Thread
<1>2. Tail(w.steps) \in Seq(Steps) BY <1>1
<1>3. [w EXCEPT !.steps = Tail(@)] \in Thread BY <1>2 DEF Thread
<1>. QED BY <1>3, IdleTyped DEF Rest

\* The lists of the main thread.
LEMMA MainTyped ==
    ASSUME NEW t \in Tokens \cup {Nobody}
    PROVE  /\ Doing(<<"status", "flag", "show", "enqueue">>, "CONNECTING", t) \in Thread
           /\ Doing(<<"status", "flag", "show", "stopSelfId">>, "ERR", t) \in Thread
           /\ Doing(<<"flag", "status", "show", "stopSelf">>, "IDLE", t) \in Thread
           /\ Doing(<<"flag", "status">>, "IDLE", t) \in Thread
<1>1. /\ <<"status", "flag", "show", "enqueue">> \in Seq(Steps)
      /\ <<"status", "flag", "show", "stopSelfId">> \in Seq(Steps)
      /\ <<"flag", "status", "show", "stopSelf">> \in Seq(Steps)
      /\ <<"flag", "status">> \in Seq(Steps)
  BY DEF Steps
<1>2. {"CONNECTING", "ERR", "IDLE"} \subseteq Status BY DEF Status
<1>. QED BY <1>1, <1>2 DEF Doing, Thread

-----------------------------------------------------------------------------
(***************************************************************************)
(* Where each action takes the worker.                                     *)
(***************************************************************************)

\* The session it works for stays the same.
Same == worker'.token = worker.token

LEMMA GoesKeeps ==
    ASSUME NEW name \in PlanNames, NEW i, Goes(name, i)
    PROVE  \/ i = Len(Plan(name)) /\ worker' = Idle
           \/ At(worker', name, i + 1) /\ Same
BY Zenon DEF Goes, Same

\* A session that fails goes on with its report, from this step.
LEMMA Fails ==
    ASSUME NEW token \in Tokens, worker.token = token, NEW j \in {1, 2},
           worker' = Doing(IF j = 1 THEN Plan("failed") ELSE <<"report">>, "ERR", token)
    PROVE  At(worker', "failed", j) /\ Same
<1>0. "failed" \in PlanNames BY DEF PlanNames
<1>1. /\ worker'.as = "ERR" /\ worker'.token = token
      /\ worker'.steps = IF j = 1 THEN Plan("failed") ELSE <<"report">>
  BY DEF Doing
<1>2. CASE j = 1
  <2>1. "failed" \notin Openings \cup {"ok"} BY DEF Openings
  <2>2. At(worker', "failed", 1) BY <1>0, <1>1, <1>2, <2>1, Begins
  <2>. QED BY <1>1, <1>2, <2>2 DEF Same
<1>3. CASE j = 2
  <2>1. Plan("failed") = <<"stopWg", "report">> BY DEF Plan
  <2>2. SubSeq(<<"stopWg", "report">>, 2, 2) = <<"report">>
    <3> DEFINE l == <<"stopWg", "report">>
               r == <<"report">>
    <3>1. \A k \in 2 .. 2 : l[k] \in Steps BY DEF Steps, NativeStops
    <3>2. /\ SubSeq(l, 2, 2) \in Seq(Steps) /\ Len(SubSeq(l, 2, 2)) = 1
          /\ SubSeq(l, 2, 2)[1] = l[2]
      BY <3>1, SubSeqProperties
    <3>3. r \in Seq(Steps) /\ Len(r) = 1 /\ r[1] = l[2] BY DEF Steps
    <3> HIDE DEF l, r
    <3>4. SubSeq(l, 2, 2) = r
      <4>1. \A k \in 1 .. 1 : SubSeq(l, 2, 2)[k] = r[k] BY <3>2, <3>3
      <4>. QED BY <3>2, <3>3, <4>1, SameLists
    <3>. QED BY <3>4, Zenon DEF l, r
  <2>3. Len(Plan("failed")) = 2 BY PlanEnds
  <2>4. worker'.steps = SubSeq(Plan("failed"), 2, Len(Plan("failed")))
    <3>1. worker'.steps = <<"report">> BY <1>1, <1>3
    <3>. QED BY <2>1, <2>2, <2>3, <3>1, Zenon
  <2>5. "failed" \notin Openings \cup {"ok"} BY DEF Openings
  <2>6. 2 \in 1 .. Len(Plan("failed")) BY <2>3
  <2>7. At(worker', "failed", 2) BY <1>1, <2>4, <2>5, <2>6, Zenon DEF At
  <2>. QED BY <1>1, <1>3, <2>7 DEF Same
<1>. QED BY <1>2, <1>3

LEMMA CheckMoves ==
    ASSUME worker \in Thread, NEW name \in PlanNames, NEW i, At(worker, name, i), Check
    PROVE  /\ name \in Openings /\ i = 1
           /\ \/ IsCurrent(worker.token) /\ At(worker', name, 2) /\ Same
              \/ ~ IsCurrent(worker.token) /\ worker' = Idle
<1>1. name \in Openings /\ i = 1
  <2>1. Head(worker.steps) = "check" BY Zenon DEF Check, Ready
  <2>2. Where(name, i, "check") BY <2>1, HeadWhere
  <2>. QED BY <2>2 DEF Where
<1>2. CASE IsCurrent(worker.token)
  <2>1. worker' = Rest(worker) BY <1>2 DEF Check
  <2>2. Goes(name, i) BY <2>1, Advance
  <2>3. i # Len(Plan(name)) /\ i + 1 = 2 BY <1>1, OpeningEnds
  <2>. QED BY <1>1, <1>2, <2>2, <2>3, Zenon DEF Goes, Same
<1>3. CASE ~ IsCurrent(worker.token) BY <1>1, <1>3 DEF Check
<1>. QED BY <1>2, <1>3

LEMMA StopMoves ==
    ASSUME worker \in Thread, NEW name \in PlanNames, NEW i, At(worker, name, i), StopPlanes
    PROVE  Stopping(Plan(name)[i]) /\ Goes(name, i)
<1>1. Stopping(Head(worker.steps)) /\ worker' = Rest(worker) BY DEF StopPlanes
<1>. QED BY <1>1, AtHead, Advance, Zenon

LEMMA CloseMoves ==
    ASSUME worker \in Thread, NEW name \in PlanNames, NEW i, At(worker, name, i), CloseFd
    PROVE  /\ \/ name \in Openings \cup {"error"} /\ i = 5
              \/ name = "cleanUp" /\ i = 3
           /\ Goes(name, i)
<1>1. Head(worker.steps) = "closeFd" /\ worker' = Rest(worker) BY Zenon DEF CloseFd, Ready
<1>2. \/ name \in Openings \cup {"error"} /\ i = 5
      \/ name = "cleanUp" /\ i = 3
  <2>1. Where(name, i, "closeFd") BY <1>1, HeadWhere
  <2>. QED BY <2>1 DEF Where
<1>. QED BY <1>1, <1>2, Advance, Zenon

LEMMA ConfigureMoves ==
    ASSUME worker \in Thread, NEW name \in PlanNames, NEW i, At(worker, name, i), Configure
    PROVE  /\ name \in Openings /\ i = 4
           /\ At(worker', name, 5) \/ At(worker', "failed", 2)
           /\ Same
<1>1. name \in Openings /\ i = 4
  <2>1. Head(worker.steps) = "configure" BY Zenon DEF Configure, Ready
  <2>2. Where(name, i, "configure") BY <2>1, HeadWhere
  <2>. QED BY <2>2 DEF Where
<1>2. CASE worker' = Rest(worker)
  <2>1. Goes(name, i) BY <1>2, Advance
  <2>2. i # Len(Plan(name)) /\ i + 1 = 5 BY <1>1, OpeningEnds
  <2>. QED BY <1>1, <2>1, <2>2, Zenon DEF Goes, Same
<1>3. CASE worker' = Doing(<<"report">>, "ERR", worker.token)
  <2>1. name # "cleanUp" BY <1>1 DEF Openings
  <2>2. worker.token \in Tokens BY <2>1, Zenon DEF At
  <2>. QED BY <1>1, <1>3, <2>2, Fails
<1>. QED BY <1>2, <1>3, Zenon DEF Configure

LEMMA EstablishMoves ==
    ASSUME worker \in Thread, NEW name \in PlanNames, NEW i, At(worker, name, i), Establish
    PROVE  /\ name \in Openings /\ i = 6 /\ worker.token \in Tokens
           /\ \/ tunnel' = worker.token /\ At(worker', name, 7)
              \/ tunnel' = tunnel /\ At(worker', "failed", 2)
           /\ Same
<1>1. name \in Openings /\ i = 6
  <2>1. Head(worker.steps) = "establish" BY Zenon DEF Establish, Ready
  <2>2. Where(name, i, "establish") BY <2>1, HeadWhere
  <2>. QED BY <2>2 DEF Where
<1>2. worker.token \in Tokens
  <2>1. name # "cleanUp" BY <1>1 DEF Openings
  <2>. QED BY <2>1, Zenon DEF At
<1>3. CASE tunnel' = worker.token /\ worker' = Rest(worker)
  <2>1. Goes(name, i) BY <1>3, Advance
  <2>2. i # Len(Plan(name)) /\ i + 1 = 7 BY <1>1, OpeningEnds
  <2>. QED BY <1>1, <1>2, <1>3, <2>1, <2>2, Zenon DEF Goes, Same
<1>4. CASE tunnel' = tunnel /\ worker' = Doing(<<"report">>, "ERR", worker.token)
  BY <1>1, <1>2, <1>4, Fails
<1>. QED BY <1>3, <1>4, Zenon DEF Establish

LEMMA AttachMoves ==
    ASSUME worker \in Thread, NEW name \in PlanNames, NEW i, At(worker, name, i), AttachPlane
    PROVE  /\ name \in Openings /\ i >= 7 /\ i < Len(Plan(name)) /\ worker.token \in Tokens
           /\ \E succeeds \in BOOLEAN :
                 /\ Attach(Plan(name)[i], worker.token, succeeds)
                 /\ succeeds => At(worker', name, i + 1)
                 /\ ~ succeeds => At(worker', "failed", 1) \/ At(worker', "failed", 2)
           /\ Same
<1> DEFINE step == Plan(name)[i]
<1>1. step = Head(worker.steps) /\ i \in 1 .. Len(Plan(name)) BY AtHead
<1>2. PICK succeeds \in BOOLEAN :
          /\ Attach(step, worker.token, succeeds)
          /\ worker' = IF succeeds THEN Rest(worker)
                       ELSE Doing(Unwinding(step) \o <<"report">>, "ERR", worker.token)
  BY <1>1, Zenon DEF AttachPlane
<1>3. step \in Attachments BY <1>2 DEF Attach, Attachments
<1>4. Where(name, i, step) BY <1>1, WhereIs
<1> HIDE DEF step
<1>5. \/ name = "wireguard" /\ i \in {8, 9, 10}
      \/ name = "outline" /\ i \in {8, 10}
      \/ name = "tor" /\ i \in {7, 9}
  BY <1>3, <1>4 DEF Where, Attachments
<1>6. name \in Openings /\ i >= 7 /\ i < Len(Plan(name))
  <2>1. CASE name = "wireguard" /\ i \in {8, 9, 10}
    <3>1. Len(Plan(name)) = 11 /\ name \in Openings BY <2>1, PlanEnds, Zenon DEF Openings
    <3>2. i >= 7 /\ i < 11 BY <2>1
    <3>. QED BY <3>1, <3>2, Zenon
  <2>2. CASE name = "outline" /\ i \in {8, 10}
    <3>1. Len(Plan(name)) = 11 /\ name \in Openings BY <2>2, PlanEnds, Zenon DEF Openings
    <3>2. i >= 7 /\ i < 11 BY <2>2
    <3>. QED BY <3>1, <3>2, Zenon
  <2>3. CASE name = "tor" /\ i \in {7, 9}
    <3>1. Len(Plan(name)) = 10 /\ name \in Openings BY <2>3, PlanEnds, Zenon DEF Openings
    <3>2. i >= 7 /\ i < 10 BY <2>3
    <3>. QED BY <3>1, <3>2, Zenon
  <2>. QED BY <1>5, <2>1, <2>2, <2>3
<1>7. worker.token \in Tokens
  <2>1. name # "cleanUp" BY <1>5
  <2>. QED BY <2>1, Zenon DEF At
<1>8. CASE succeeds
  <2>1. worker' = Rest(worker) BY <1>2, <1>8
  <2>2. Goes(name, i) BY <2>1, Advance
  <2>3. i # Len(Plan(name)) BY <1>6
  <2>. QED BY <1>2, <1>6, <1>7, <1>8, <2>2, <2>3, Zenon DEF Goes, Same, step
<1>9. CASE ~ succeeds
  <2>1. worker' = Doing(Unwinding(step) \o <<"report">>, "ERR", worker.token) BY <1>2, <1>9
  <2>2. CASE step = "await"
    <3>1. <<"stopWg">> \o <<"report">> = Plan("failed")
      <4> DEFINE l == <<"stopWg">> \o <<"report">>
                 r == <<"stopWg", "report">>
      <4>1. Len(l) = 2 /\ Len(r) = 2 OBVIOUS
      <4>2. l \in Seq(Steps) BY DEF Steps, NativeStops
      <4>3. r \in Seq(Steps) BY DEF Steps, NativeStops
      <4>4. \A k \in 1 .. 2 : l[k] = r[k] OBVIOUS
      <4>5. Plan("failed") = r BY DEF Plan
      <4> HIDE DEF l, r
      <4>6. l = r BY <4>1, <4>2, <4>3, <4>4, SameLists
      <4>7. l = Plan("failed") BY <4>5, <4>6, Zenon
      <4>. QED BY <4>7, Zenon DEF l
    <3>2. Unwinding(step) = <<"stopWg">> BY <2>2 DEF Unwinding
    <3>3. worker' = Doing(Plan("failed"), "ERR", worker.token) BY <2>1, <3>1, <3>2, Zenon
    <3>4. worker' = Doing(IF 1 = 1 THEN Plan("failed") ELSE <<"report">>, "ERR", worker.token)
      BY <3>3
    <3>5. At(worker', "failed", 1) /\ Same BY <1>7, <3>4, Fails
    <3>. QED BY <1>2, <1>6, <1>7, <1>9, <3>5, Zenon DEF step
  <2>3. CASE step # "await"
    <3>1. <<>> \o <<"report">> = <<"report">>
      <4>1. <<"report">> \in Seq(Steps) BY DEF Steps
      <4>. QED BY <4>1, ConcatEmptySeq
    <3>2. Unwinding(step) = <<>> BY <2>3 DEF Unwinding
    <3>3. worker' = Doing(<<"report">>, "ERR", worker.token) BY <2>1, <3>1, <3>2, Zenon
    <3>4. worker' = Doing(IF 2 = 1 THEN Plan("failed") ELSE <<"report">>, "ERR", worker.token)
      BY <3>3
    <3>5. At(worker', "failed", 2) /\ Same BY <1>7, <3>4, Fails
    <3>. QED BY <1>2, <1>6, <1>7, <1>9, <3>5, Zenon DEF step
  <2>. QED BY <2>2, <2>3
<1>. QED BY <1>8, <1>9

LEMMA ReportMoves ==
    ASSUME worker \in Thread, NEW name \in PlanNames, NEW i, At(worker, name, i), Report
    PROVE  /\ \/ name \in Openings /\ i = Len(Plan(name))
              \/ name = "failed" /\ i = 2
           /\ worker.token \in Tokens
           /\ \/ ~ IsCurrent(worker.token) /\ At(worker', "cleanUp", 1)
              \/ IsCurrent(worker.token) /\ name \in Openings /\ At(worker', "ok", 1)
              \/ IsCurrent(worker.token) /\ name = "failed" /\ At(worker', "error", 1)
           /\ Same
<1>1. \/ name \in Openings /\ i = Len(Plan(name))
      \/ name = "failed" /\ i = 2
  <2>1. Head(worker.steps) = "report" BY Zenon DEF Report, Ready
  <2>2. \/ name \in {"wireguard", "outline"} /\ i = 11
        \/ name = "tor" /\ i = 10
        \/ name = "failed" /\ i = 2
    <3>1. Where(name, i, "report") BY <2>1, HeadWhere
    <3>. QED BY <3>1 DEF Where
  <2>. QED BY <2>2, PlanEnds, Zenon DEF Openings
<1>2. worker.token \in Tokens /\ (name \in Openings => worker.as = "OK")
      /\ (name = "failed" => worker.as = "ERR")
  <2>1. name # "cleanUp" BY <1>1 DEF Openings
  <2>. QED BY <2>1, Zenon DEF At
<1>3. ASSUME NEW steps, worker' = [worker EXCEPT !.steps = steps]
      PROVE  worker'.steps = steps /\ worker'.as = worker.as /\ worker'.token = worker.token
  BY <1>3 DEF Thread
<1>4. worker' = [worker EXCEPT !.steps =
          IF ~ IsCurrent(worker.token) THEN Plan("cleanUp")
          ELSE IF worker.as = "OK" THEN <<"flag", "status", "show">>
          ELSE Plan("error")]
  BY ErrorJoined, CleanUpJoined, Zenon DEF Report
<1>5. "cleanUp" \in PlanNames /\ "ok" \in PlanNames /\ "error" \in PlanNames BY DEF PlanNames
<1>6. "cleanUp" \notin Openings \cup {"ok", "failed", "error"} /\ "error" \notin Openings \cup {"ok"}
      /\ "ok" \notin {"failed", "error"} /\ "OK" # "ERR"
  BY DEF Openings
<1>7. CASE ~ IsCurrent(worker.token)
  <2>1. worker' = [worker EXCEPT !.steps = Plan("cleanUp")] BY <1>4, <1>7, Zenon
  <2>2. worker'.steps = Plan("cleanUp") /\ Same BY <1>3, <2>1, Zenon DEF Same
  <2>3. At(worker', "cleanUp", 1)
    <3>1. "cleanUp" \notin Openings \cup {"ok"} /\ "cleanUp" \notin {"failed", "error"}
      BY <1>6
    <3>. QED BY <1>5, <2>2, <3>1, Begins
  <2>. QED BY <1>1, <1>2, <1>7, <2>2, <2>3
<1>8. CASE IsCurrent(worker.token) /\ name \in Openings
  <2>1. worker.as = "OK" BY <1>2, <1>8
  <2>2. worker' = [worker EXCEPT !.steps = <<"flag", "status", "show">>]
    BY <1>4, <1>8, <2>1, Zenon
  <2>3. Plan("ok") = <<"flag", "status", "show">> BY DEF Plan
  <2>4. worker'.steps = Plan("ok") /\ worker'.as = "OK" /\ Same
    BY <1>3, <2>1, <2>2, <2>3, Zenon DEF Same
  <2>5. At(worker', "ok", 1)
    <3>1. worker'.token \in Tokens BY <1>2, <2>4 DEF Same
    <3>. QED BY <1>5, <1>6, <2>4, <3>1, Begins
  <2>. QED BY <1>1, <1>2, <1>8, <2>4, <2>5
<1>9. CASE IsCurrent(worker.token) /\ name = "failed"
  <2>1. worker.as = "ERR" /\ worker.as # "OK" BY <1>2, <1>6, <1>9
  <2>2. worker' = [worker EXCEPT !.steps = Plan("error")] BY <1>4, <1>9, <2>1, Zenon
  <2>3. worker'.steps = Plan("error") /\ worker'.as = "ERR" /\ Same
    BY <1>3, <2>1, <2>2, Zenon DEF Same
  <2>4. At(worker', "error", 1)
    <3>1. worker'.token \in Tokens BY <1>2, <2>3 DEF Same
    <3>2. "error" \notin Openings \cup {"ok"} BY <1>6
    <3>. QED BY <1>5, <2>3, <3>1, <3>2, Begins
  <2>. QED BY <1>1, <1>2, <1>9, <2>3, <2>4
<1>. QED BY <1>1, <1>7, <1>8, <1>9

LEMMA WriteMoves ==
    ASSUME worker \in Thread, NEW name \in PlanNames, NEW i, At(worker, name, i), WorkerWrites
    PROVE  /\ \/ name = "ok"
              \/ name = "error" /\ i \in {1, 2, 6, 7}
           /\ Goes(name, i)
           /\ Write(worker) /\ leaving' = Resigned(worker)
           /\ Head(worker.steps) = Plan(name)[i]
<1>1. PICK step \in {"flag", "status", "show", "stopSelfId"} : Ready(step)
  BY Zenon DEF WorkerWrites
<1>2. Head(worker.steps) = step /\ worker' = Rest(worker) BY <1>1, Zenon DEF WorkerWrites, Ready
<1>3. Plan(name)[i] = step /\ i \in 1 .. Len(Plan(name)) BY <1>2, AtHead, Zenon
<1>4. Where(name, i, step) BY <1>3, WhereIs, Zenon
<1>5. \/ name = "ok"
      \/ name = "error" /\ i \in {1, 2, 6, 7}
  BY <1>1, <1>4 DEF Where
<1>6. Goes(name, i) BY <1>2, Advance
<1>. QED BY <1>2, <1>3, <1>5, <1>6, Zenon DEF WorkerWrites

\* What is queued: the cleaning up, or a session that is opened by its kind's list.
LEMMA TakeMoves ==
    ASSUME QueueTypes, Take
    PROVE  /\ worker.steps = <<>> /\ queue # <<>> /\ queue' = Tail(queue)
           /\ \/ Head(queue) = Cleanup /\ At(worker', "cleanUp", 1) /\ worker'.token = Nobody
              \/ /\ Head(queue) \in Tokens /\ worker'.token = Head(queue)
                 /\ \E name \in Openings :
                       /\ At(worker', name, 1)
                       /\ KindOfToken(Head(queue)) \in Openings => name = KindOfToken(Head(queue))
<1>1. /\ worker.steps = <<>> /\ queue # <<>> /\ queue' = Tail(queue)
      /\ worker' = IF Head(queue) = Cleanup THEN Doing(CleanUp, "IDLE", Nobody)
                   ELSE Doing(StartTunnel(Head(queue)), "OK", Head(queue))
  BY Zenon DEF Take
<1>2. Head(queue) \in Tokens \cup {Cleanup} BY <1>1 DEF QueueTypes
<1>3. CASE Head(queue) = Cleanup
  <2>1. worker' = Doing(Plan("cleanUp"), "IDLE", Nobody) BY <1>1, <1>3, CleanUpJoined, Zenon
  <2>2. worker'.steps = Plan("cleanUp") /\ worker'.token = Nobody BY <2>1 DEF Doing
  <2>3. "cleanUp" \in PlanNames /\ "cleanUp" \notin Openings \cup {"ok"}
    BY DEF PlanNames, Openings
  <2>4. At(worker', "cleanUp", 1) BY <2>2, <2>3, Begins
  <2>. QED BY <1>1, <1>3, <2>2, <2>4
<1>4. CASE Head(queue) # Cleanup
  <2> DEFINE token == Head(queue)
  <2>1. token \in Tokens BY <1>2, <1>4
  <2>2. worker' = Doing(StartTunnel(token), "OK", token) BY <1>1, <1>4, Zenon
  <2> HIDE DEF token
  <2>3. PICK name \in Openings :
              /\ StartTunnel(token) = Plan(name)
              /\ KindOfToken(token) \in Openings => name = KindOfToken(token)
    BY OpeningPlans, Zenon
  <2>4. worker'.steps = Plan(name) /\ worker'.as = "OK" /\ worker'.token = token
    BY <2>2, <2>3 DEF Doing
  <2>5. name \in PlanNames /\ name \notin {"failed", "error"} BY DEF PlanNames, Openings
  <2>6. At(worker', name, 1) BY <2>1, <2>4, <2>5, Begins
  <2>. QED BY <1>1, <2>1, <2>3, <2>4, <2>6, Zenon DEF token
<1>. QED BY <1>3, <1>4

-----------------------------------------------------------------------------
(***************************************************************************)
(* Types, step by step.                                                    *)
(***************************************************************************)

LEMMA DoingTyped ==
    ASSUME NEW steps \in Seq(Steps), NEW as \in Status, NEW token \in Tokens \cup {Nobody}
    PROVE  Doing(steps, as, token) \in Thread
BY DEF Doing, Thread

LEMMA WorkerTyped ==
    ASSUME worker \in Thread, QueueTypes, WorkerStep
    PROVE  worker' \in Thread
<1>1. /\ worker.token \in Tokens \cup {Nobody} /\ worker.as \in Status
      /\ {"OK", "ERR", "IDLE"} \subseteq Status
  BY DEF Thread, Status
<1>2. <<"report">> \in Seq(Steps) /\ <<"stopWg">> \in Seq(Steps) /\ <<>> \in Seq(Steps)
  BY DEF Steps, NativeStops
<1>3. /\ Plan("cleanUp") \in Seq(Steps) /\ Plan("error") \in Seq(Steps)
      /\ <<"flag", "status", "show">> \in Seq(Steps)
  <2>1. "cleanUp" \in PlanNames /\ "error" \in PlanNames BY DEF PlanNames
  <2>2. <<"flag", "status", "show">> \in Seq(Steps) BY DEF Steps
  <2>. QED BY <2>1, <2>2, PlanTyped
<1>4. CASE worker.steps # <<>> /\ worker' = Rest(worker) BY <1>4, RestTyped
<1>5. CASE worker' = Doing(<<"report">>, "ERR", worker.token) BY <1>1, <1>2, <1>5, DoingTyped
<1>6. CASE Take
  <2>1. /\ queue # <<>>
        /\ worker' = IF Head(queue) = Cleanup THEN Doing(CleanUp, "IDLE", Nobody)
                     ELSE Doing(StartTunnel(Head(queue)), "OK", Head(queue))
    BY <1>6, Zenon DEF Take
  <2>2. Head(queue) \in Tokens \cup {Cleanup} BY <2>1 DEF QueueTypes
  <2>3. CASE Head(queue) = Cleanup
    <3>1. worker' = Doing(Plan("cleanUp"), "IDLE", Nobody) BY <2>1, <2>3, CleanUpJoined, Zenon
    <3>. QED BY <1>1, <1>3, <3>1, DoingTyped
  <2>4. CASE Head(queue) # Cleanup
    <3>1. worker' = Doing(StartTunnel(Head(queue)), "OK", Head(queue)) BY <2>1, <2>4, Zenon
    <3>2. Head(queue) \in Tokens BY <2>2, <2>4
    <3>3. StartTunnel(Head(queue)) \in Seq(Steps)
      <4>1. PICK name \in Openings : StartTunnel(Head(queue)) = Plan(name)
        BY OpeningPlans, Zenon
      <4>2. Plan(name) \in Seq(Steps) BY OpeningEnds, PlanTyped
      <4>. QED BY <4>1, <4>2, Zenon
    <3>. QED BY <1>1, <3>1, <3>2, <3>3, DoingTyped
  <2>. QED BY <2>3, <2>4
<1>7. CASE Check BY <1>4, <1>7, IdleTyped DEF Check, Ready
<1>8. CASE StopPlanes BY <1>4, <1>8, Zenon DEF StopPlanes
<1>9. CASE CloseFd BY <1>4, <1>9, Zenon DEF CloseFd, Ready
<1>10. CASE Configure
  <2>1. worker.steps # <<>>
        /\ worker' \in {Rest(worker), Doing(<<"report">>, "ERR", worker.token)}
    BY <1>10, Zenon DEF Configure, Ready
  <2>. QED BY <1>4, <1>5, <2>1
<1>11. CASE Establish
  <2>1. /\ worker.steps # <<>>
        /\ worker' = Rest(worker) \/ worker' = Doing(<<"report">>, "ERR", worker.token)
    BY <1>11, Zenon DEF Establish, Ready
  <2>. QED BY <1>4, <1>5, <2>1
<1>12. CASE AttachPlane
  <2>1. /\ worker.steps # <<>>
        /\ \/ worker' = Rest(worker)
           \/ worker' = Doing(Unwinding(Head(worker.steps)) \o <<"report">>, "ERR", worker.token)
    BY <1>12, Zenon DEF AttachPlane
  <2>2. Unwinding(Head(worker.steps)) \o <<"report">> \in Seq(Steps)
    <3>1. Unwinding(Head(worker.steps)) \in {<<"stopWg">>, <<>>} BY DEF Unwinding
    <3>. QED BY <1>2, <3>1, ConcatProperties
  <2>. QED BY <1>1, <1>4, <2>1, <2>2, DoingTyped
<1>13. CASE Report
  <2>1. \E s \in {Plan("cleanUp"), <<"flag", "status", "show">>, Plan("error")} :
           worker' = [worker EXCEPT !.steps = s]
    BY <1>13, ErrorJoined, CleanUpJoined, Zenon DEF Report
  <2>2. PICK s \in Seq(Steps) : worker' = [worker EXCEPT !.steps = s] BY <1>3, <2>1
  <2>. QED BY <2>2 DEF Thread
<1>14. CASE WorkerWrites BY <1>4, <1>14, Zenon DEF WorkerWrites, Ready
<1>. QED BY <1>6, <1>7, <1>8, <1>9, <1>10, <1>11, <1>12, <1>13, <1>14, Zenon DEF WorkerStep

\* A step of the worker takes it from a place to a place.
LEMMA WorkerLocated ==
    ASSUME worker \in Thread, QueueTypes, Located, WorkerStep
    PROVE  Located'
<1>1. ASSUME NEW name \in PlanNames, NEW i, At(worker, name, i), i \in Nat, Goes(name, i)
      PROVE  Located'
  <2>1. i + 1 \in Nat BY <1>1
  <2>. QED BY <1>1, <2>1, GoesKeeps, Zenon DEF Located
<1>2. 1 \in Nat /\ 2 \in Nat /\ 5 \in Nat /\ 7 \in Nat OBVIOUS
<1>3. {"cleanUp", "ok", "failed", "error"} \subseteq PlanNames BY DEF PlanNames
<1>4. Openings \subseteq PlanNames BY DEF PlanNames
<1>5. CASE Take
  <2>1. \E name \in PlanNames : At(worker', name, 1)
    BY <1>3, <1>4, <1>5, TakeMoves
  <2>. QED BY <1>2, <2>1, Zenon DEF Located
<1>6. CASE ~ Take
  <2>1. worker.steps # <<>> BY <1>6, Zenon DEF WorkerStep, Check, StopPlanes, CloseFd, Configure,
          Establish, AttachPlane, Report, WorkerWrites, Ready
  <2>2. PICK name \in PlanNames : \E i \in Nat : At(worker, name, i)
    BY <2>1, IdleTyped, Zenon DEF Located
  <2>3. PICK i \in Nat : At(worker, name, i) BY <2>2
  <2>4. CASE Check BY <1>2, <1>4, <2>3, <2>4, CheckMoves, Zenon DEF Located
  <2>5. CASE StopPlanes BY <1>1, <2>3, <2>5, StopMoves
  <2>6. CASE CloseFd BY <1>1, <2>3, <2>6, CloseMoves
  <2>7. CASE Configure
    <3>1. At(worker', name, 5) \/ At(worker', "failed", 2) BY <2>3, <2>7, ConfigureMoves, Zenon
    <3>2. "failed" \in PlanNames BY <1>3
    <3>. QED BY <1>2, <3>1, <3>2, Zenon DEF Located
  <2>8. CASE Establish
    <3>1. At(worker', name, 7) \/ At(worker', "failed", 2) BY <2>3, <2>8, EstablishMoves, Zenon
    <3>2. "failed" \in PlanNames BY <1>3
    <3>. QED BY <1>2, <3>1, <3>2, Zenon DEF Located
  <2>9. CASE AttachPlane
    <3>1. At(worker', name, i + 1) \/ At(worker', "failed", 1) \/ At(worker', "failed", 2)
      BY <2>3, <2>9, AttachMoves, Zenon
    <3>2. "failed" \in PlanNames BY <1>3
    <3>3. i + 1 \in Nat BY <2>3
    <3>. QED BY <1>2, <3>1, <3>2, <3>3, Zenon DEF Located
  <2>10. CASE Report
    <3>1. At(worker', "cleanUp", 1) \/ At(worker', "ok", 1) \/ At(worker', "error", 1)
      BY <2>3, <2>10, ReportMoves, Zenon
    <3>2. "cleanUp" \in PlanNames /\ "ok" \in PlanNames /\ "error" \in PlanNames BY <1>3
    <3>. QED BY <1>2, <3>1, <3>2, Zenon DEF Located
  <2>11. CASE WorkerWrites BY <1>1, <2>3, <2>11, WriteMoves
  <2>. QED BY <1>6, <2>4, <2>5, <2>6, <2>7, <2>8, <2>9, <2>10, <2>11, Zenon DEF WorkerStep
<1>. QED BY <1>5, <1>6

-----------------------------------------------------------------------------
(***************************************************************************)
(* The steps by kind: what else than the worker's they change.             *)
(***************************************************************************)

\* A session begins.
BeginStep == \E p \in Profiles : StartCommand(p)

\* The gate is stopped.
StopStep ==
    /\ main.steps = <<>> /\ Stop
    /\ main' \in {Doing(<<"flag", "status", "show", "stopSelf">>, "IDLE", Nobody),
                  Doing(<<"flag", "status">>, "IDLE", Nobody)}
    /\ leaving' \in {leaving, FALSE} /\ stopper' \in {stopper, <<>>}
    /\ UNCHANGED <<sessions, worker, tunnel, native, reports>>

\* Tor's proxy is started, or the screens do nothing to the planes.
TorStep ==
    /\ UNCHANGED <<service, stopper>>
    /\ UNCHANGED native \/ StopTor \/ \E succeeds \in BOOLEAN : Launch(succeeds)

\* A Disconnect stops planes before it stops the gate.
CutStep ==
    /\ UNCHANGED service
    /\ \E step :
          /\ Stopping(step)
          /\ \/ stopper = <<>> /\ stopper' = <<"stopProxies", "stopIntent">>
             \/ stopper # <<>> /\ step = Head(stopper) /\ stopper' = Tail(stopper)

LEMMA StepKinds ==
    ASSUME Next
    PROVE  BeginStep \/ StopStep \/ MainStep \/ WorkerStep \/ TorStep \/ CutStep
           \/ PumpStep \/ PeerAnswers
<1>1. ASSUME FullStop, stopper' \in {stopper, <<>>} PROVE StopStep
  BY <1>1, Zenon DEF FullStop, StopStep
<1>2. CASE \E p \in Profiles : Connect(p) \/ CancelProfile(p)
  BY <1>1, <1>2, Zenon DEF Connect, CancelProfile, StopAction, BeginStep
<1>3. CASE StopAction BY <1>1, <1>3, Zenon DEF StopAction
<1>4. CASE Destroy BY <1>4, Zenon DEF Destroy, StopStep, screens
<1>5. CASE ConnectTor
  <2>1. Stopping("stopTor") /\ UNCHANGED <<service, stopper>>
    <3>1. Head(StartTorSocks) = "stopTor" BY DEF StartTorSocks
    <3>. QED BY <1>5, <3>1, Zenon DEF ConnectTor
  <2>2. StopTor BY <2>1 DEF Stopping
  <2>. QED BY <2>1, <2>2, Zenon DEF TorStep
<1>6. CASE TorLaunched BY <1>6, Zenon DEF TorLaunched, TorStep
<1>7. CASE Present BY <1>7, Zenon DEF Present, BeginStep, TorStep
<1>8. CASE Disconnect
  <2>1. stopper = <<>> /\ Stopping(Head(StopEverything)) /\ UNCHANGED service
        /\ stopper' = Tail(StopEverything) \o <<"stopIntent">>
    BY <1>8, Zenon DEF Disconnect
  <2>2. Tail(StopEverything) = <<"stopProxies">> BY DEF StopEverything
  <2>3. <<"stopProxies">> \o <<"stopIntent">> = <<"stopProxies", "stopIntent">>
    <3> DEFINE l == <<"stopProxies">> \o <<"stopIntent">>
               r == <<"stopProxies", "stopIntent">>
               S == {"stopProxies", "stopIntent"}
    <3>1. Len(l) = 2 /\ Len(r) = 2 OBVIOUS
    <3>2. l \in Seq(S) OBVIOUS
    <3>3. r \in Seq(S) OBVIOUS
    <3>4. \A k \in 1 .. 2 : l[k] = r[k] OBVIOUS
    <3> HIDE DEF l, r, S
    <3>5. l = r BY <3>1, <3>2, <3>3, <3>4, SameLists
    <3>. QED BY <3>5, Zenon DEF l, r
  <2>. QED BY <2>1, <2>2, <2>3, Zenon DEF CutStep
<1>9. CASE StopperStep
  BY <1>1, <1>9, Zenon DEF StopperStep, CutStep
<1>. QED BY <1>2, <1>3, <1>4, <1>5, <1>6, <1>7, <1>8, <1>9, Zenon DEF Next

LEMMA BeginGate ==
    ASSUME GateTypes, NEW p \in Profiles, Begin(p)
    PROVE  /\ GateTypes' /\ LastToken' = LastToken + 1 /\ current' = LastToken'
           /\ stopped' = FALSE /\ current' \in Tokens /\ LastToken \in Nat
           /\ \A t \in 1 .. LastToken : sessions'[t] = sessions[t]
<1>1. sessions \in Seq(Profiles) BY DEF GateTypes
<1>2. LastToken \in Nat BY <1>1 DEF LastToken
<1>3. PICK order \in Orders : LastToken < Len(order) BY Zenon DEF Begin, MayBegin
<1>4. Len(order) \in Nat /\ Len(order) <= MaxTokens BY <1>3, GateAssumption
<1>5. LastToken + 1 \in 1 .. MaxTokens BY <1>2, <1>3, <1>4, TokensAssumption
<1>6. sessions' = Append(sessions, p) /\ current' = LastToken + 1 /\ stopped' = FALSE
  BY Zenon DEF Begin
<1>7. /\ sessions' \in Seq(Profiles) /\ Len(sessions') = Len(sessions) + 1
      /\ \A t \in 1 .. Len(sessions) : sessions'[t] = sessions[t]
  BY <1>1, <1>6
<1>8. LastToken' = LastToken + 1 /\ \A t \in 1 .. LastToken : sessions'[t] = sessions[t]
  BY <1>7 DEF LastToken
<1>9. GateTypes'
  <2>1. current' \in Tokens BY <1>5, <1>6 DEF Tokens
  <2>2. LastToken' <= MaxTokens BY <1>2, <1>5, <1>8, TokensAssumption
  <2>. QED BY <1>6, <1>7, <2>1, <2>2 DEF GateTypes
<1>. QED BY <1>2, <1>5, <1>6, <1>8, <1>9 DEF Tokens

LEMMA BeginTyped ==
    ASSUME TypeOK, BeginStep
    PROVE  TypeOK'
<1>1. PICK p \in Profiles : StartCommand(p) BY DEF BeginStep
<1>2. /\ GateTypes /\ QueueTypes /\ NativeTypes /\ ReportTypes
      /\ worker \in Thread /\ tunnel \in Tokens \cup {Nobody}
  BY TypeParts
<1>3. /\ Begin(p) /\ leaving' = FALSE
      /\ \/ main' = Doing(<<"status", "flag", "show", "enqueue">>, "CONNECTING", current')
         \/ main' = Doing(<<"status", "flag", "show", "stopSelfId">>, "ERR", current')
      /\ UNCHANGED <<queue, worker, stopper, tunnel, native, reports>>
  BY <1>1, Zenon DEF StartCommand
<1>4. GateTypes' /\ current' \in Tokens BY <1>2, <1>3, BeginGate
<1>5. main' \in Thread BY <1>3, <1>4, MainTyped
<1>6. QueueTypes' BY <1>2, <1>3 DEF QueueTypes
<1>7. NativeTypes' BY <1>2, <1>3, Zenon DEF NativeTypes, native, wireguard
<1>8. ReportTypes'
  <2>1. leaving' \in BOOLEAN BY <1>3
  <2>. QED BY <1>2, <1>3, <2>1, Zenon DEF ReportTypes, reports
<1>9. worker' \in Thread /\ tunnel' \in Tokens \cup {Nobody} BY <1>2, <1>3
<1>10. /\ GateTypes' /\ QueueTypes' /\ NativeTypes' /\ ReportTypes'
       /\ main' \in Thread /\ worker' \in Thread /\ (tunnel \in Tokens \cup {Nobody})'
  BY <1>4, <1>5, <1>6, <1>7, <1>8, <1>9, Zenon DEF Tokens
<1>. QED BY <1>10, Zenon DEF TypeOK, GateTypes, QueueTypes, NativeTypes, ReportTypes


LEMMA StopTyped ==
    ASSUME TypeOK, StopStep
    PROVE  TypeOK'
<1>1. /\ GateTypes /\ QueueTypes /\ NativeTypes /\ ReportTypes
      /\ worker \in Thread /\ tunnel \in Tokens \cup {Nobody}
  BY TypeParts
<1>2. /\ Stop /\ leaving' \in {leaving, FALSE}
      /\ main' \in {Doing(<<"flag", "status", "show", "stopSelf">>, "IDLE", Nobody),
                    Doing(<<"flag", "status">>, "IDLE", Nobody)}
      /\ UNCHANGED <<sessions, worker, tunnel, native, reports>>
  BY Zenon DEF StopStep
<1>3. main' \in Thread BY <1>2, MainTyped
<1>4. GateTypes'
  <2>1. stopped' = TRUE /\ current' \in {current, Nobody} BY <1>2 DEF Stop
  <2>. QED BY <1>1, <1>2, <2>1 DEF GateTypes, LastToken
<1>5. QueueTypes'
  <2>1. queue' = queue \/ queue' = Append(queue, Cleanup) BY <1>2 DEF Stop
  <2>. QED BY <1>1, <2>1 DEF QueueTypes
<1>6. NativeTypes' BY <1>1, <1>2, Zenon DEF NativeTypes, native, wireguard
<1>7. ReportTypes'
  <2>1. leaving' \in BOOLEAN
    <3>1. leaving \in BOOLEAN BY <1>1, Zenon DEF ReportTypes
    <3>. QED BY <1>2, <3>1
  <2>. QED BY <1>1, <1>2, <2>1, Zenon DEF ReportTypes, reports
<1>8. worker' \in Thread /\ (tunnel \in Tokens \cup {Nobody})' BY <1>1, <1>2, Zenon DEF Tokens
<1>. QED BY <1>3, <1>4, <1>5, <1>6, <1>7, <1>8, Zenon
     DEF TypeOK, GateTypes, QueueTypes, NativeTypes, ReportTypes

LEMMA MainStepTyped ==
    ASSUME TypeOK, MainStep
    PROVE  TypeOK'
<1>1. /\ GateTypes /\ QueueTypes /\ NativeTypes /\ ReportTypes
      /\ main \in Thread /\ worker \in Thread /\ tunnel \in Tokens \cup {Nobody}
  BY TypeParts
<1>2. /\ main.steps # <<>> /\ Write(main) /\ leaving' = Resigned(main)
      /\ queue' = queue \/ queue' = Append(queue, main.token)
      /\ main' = Rest(main)
      /\ UNCHANGED <<gate, worker, screens, tunnel, native>>
  BY Zenon DEF MainStep
<1>3. main' \in Thread BY <1>1, <1>2, RestTyped
<1>4. ReportTypes' BY <1>1, <1>2, WritesTyped
<1>5. QueueTypes'
  <2>1. main.token \in Tokens \cup {Cleanup} BY <1>1, NobodyNoToken DEF Thread
  <2>. QED BY <1>1, <1>2, <2>1 DEF QueueTypes
<1>6. NativeTypes' BY <1>1, <1>2, Zenon DEF NativeTypes, native, wireguard
<1>7. GateTypes' BY <1>1, <1>2, Zenon DEF GateTypes, gate, LastToken
<1>8. worker' \in Thread /\ (tunnel \in Tokens \cup {Nobody})' BY <1>1, <1>2, Zenon DEF Tokens
<1>. QED BY <1>3, <1>4, <1>5, <1>6, <1>7, <1>8, Zenon
     DEF TypeOK, GateTypes, QueueTypes, NativeTypes, ReportTypes

\* The screens' threads and the pumps only reach the planes.
LEMMA PlanesTyped ==
    ASSUME TypeOK, UNCHANGED service, NativeTypes'
    PROVE  TypeOK'
BY Zenon DEF service, gate, reports, TypeOK, LastToken, Tokens, NativeTypes

LEMMA OutsideTyped ==
    ASSUME TypeOK, TorStep \/ CutStep \/ PumpStep \/ PeerAnswers
    PROVE  TypeOK'
<1>1. NativeTypes BY TypeParts
<1>2. UNCHANGED service
  BY Zenon DEF TorStep, CutStep, PumpStep, PeerAnswers
<1>3. NativeTypes'
  <2>1. CASE TorStep
    <3>1. CASE UNCHANGED native BY <1>1, <3>1, Zenon DEF NativeTypes, native, wireguard
    <3>2. CASE StopTor
      <4>1. Stopping("stopTor") BY <3>2 DEF Stopping
      <4>. QED BY <1>1, <4>1, StopsTyped
    <3>3. CASE \E succeeds \in BOOLEAN : Launch(succeeds) BY <1>1, <3>3, LaunchTyped
    <3>. QED BY <2>1, <3>1, <3>2, <3>3, Zenon DEF TorStep
  <2>2. CASE CutStep BY <1>1, <2>2, StopsTyped, Zenon DEF CutStep
  <2>3. CASE PumpStep BY <1>1, <2>3, PumpsTyped, Zenon DEF PumpStep, PumpGoesOn
  <2>4. CASE PeerAnswers BY <1>1, <2>4, PumpsTyped, Zenon DEF PeerAnswers
  <2>. QED BY <2>1, <2>2, <2>3, <2>4
<1>. QED BY <1>2, <1>3, PlanesTyped

LEMMA WorkerStepTyped ==
    ASSUME TypeOK, Located, WorkerStep
    PROVE  TypeOK'
<1>1. /\ GateTypes /\ QueueTypes /\ NativeTypes /\ ReportTypes
      /\ main \in Thread /\ worker \in Thread /\ tunnel \in Tokens \cup {Nobody}
  BY TypeParts
<1>2. worker' \in Thread BY <1>1, WorkerTyped
<1>3. UNCHANGED <<gate, main>>
  BY Zenon DEF WorkerStep, Take, Check, StopPlanes, CloseFd, Configure, Establish, AttachPlane,
     Report, WorkerWrites
<1>4. QueueTypes'
  <2>1. UNCHANGED queue \/ (queue # <<>> /\ queue' = Tail(queue))
    BY Zenon DEF WorkerStep, Take, Check, StopPlanes, CloseFd, Configure, Establish, AttachPlane,
       Report, WorkerWrites
  <2>. QED BY <1>1, <2>1 DEF QueueTypes
<1>5. worker.token \in Tokens \cup {Nobody} BY <1>1 DEF Thread
<1>6. (tunnel \in Tokens \cup {Nobody})'
  <2>1. tunnel' = tunnel \/ tunnel' = Nobody \/ tunnel' = worker.token
    BY Zenon DEF WorkerStep, Take, Check, StopPlanes, CloseFd, Configure, Establish, AttachPlane,
       Report, WorkerWrites
  <2>2. tunnel' \in Tokens \cup {Nobody} BY <1>1, <1>5, <2>1
  <2>. QED BY <2>2, Zenon DEF Tokens
<1>7. ReportTypes'
  <2>1. UNCHANGED <<reports, leaving>> \/ (Write(worker) /\ leaving' = Resigned(worker))
    BY Zenon DEF WorkerStep, Take, Check, StopPlanes, CloseFd, Configure, Establish, AttachPlane,
       Report, WorkerWrites
  <2>2. CASE UNCHANGED <<reports, leaving>> BY <1>1, <2>2, Zenon DEF ReportTypes, reports
  <2>. QED BY <1>1, <2>1, <2>2, WritesTyped
<1>8. NativeTypes'
  <2>1. CASE StopPlanes BY <1>1, <2>1, StopsTyped, Zenon DEF StopPlanes
  <2>2. CASE AttachPlane
    <3>1. worker.steps # <<>> BY <2>2, Zenon DEF AttachPlane
    <3>2. PICK name \in PlanNames : \E i \in Nat : At(worker, name, i)
      BY <3>1, IdleTyped, Zenon DEF Located
    <3>3. PICK i \in Nat : At(worker, name, i) BY <3>2
    <3>4. worker.token \in Tokens /\ \E succeeds \in BOOLEAN :
             Attach(Plan(name)[i], worker.token, succeeds)
      BY <1>1, <2>2, <3>3, AttachMoves, Zenon
    <3>. QED BY <1>1, <3>4, AttachTyped, Zenon
  <2>3. CASE ~ StopPlanes /\ ~ AttachPlane
    <3>1. UNCHANGED native
      BY <2>3, Zenon DEF WorkerStep, Take, Check, CloseFd, Configure, Establish, Report, WorkerWrites
    <3>. QED BY <1>1, <3>1, Zenon DEF NativeTypes, native, wireguard
  <2>. QED BY <2>1, <2>2, <2>3
<1>9. GateTypes' BY <1>1, <1>3, Zenon DEF GateTypes, gate, LastToken
<1>10. main' \in Thread BY <1>1, <1>3
<1>. QED BY <1>2, <1>4, <1>6, <1>7, <1>8, <1>9, <1>10, Zenon
     DEF TypeOK, GateTypes, QueueTypes, NativeTypes, ReportTypes

\* Only its own steps move the worker.
LEMMA OthersLeaveTheWorker ==
    ASSUME \/ BeginStep \/ StopStep \/ MainStep \/ TorStep \/ CutStep \/ PumpStep \/ PeerAnswers
    PROVE  UNCHANGED <<worker, tunnel>>
BY Zenon DEF BeginStep, StartCommand, StopStep, MainStep, TorStep, CutStep, PumpStep, PeerAnswers,
   service

LEMMA StartsTyped ==
    ASSUME Init
    PROVE  TypeOK /\ worker = Idle
<1>1. worker = Idle /\ main = Idle BY DEF Init
<1>2. sessions = <<>> /\ LastToken = 0 /\ current = Nobody /\ stopped = FALSE
  BY DEF Init, LastToken
<1>3. GateTypes
  <2>1. LastToken <= MaxTokens
    <3>1. 0 <= MaxTokens BY TokensAssumption
    <3>. QED BY <1>2, <3>1, Zenon
  <2>2. sessions \in Seq(Profiles)
    <3>1. <<>> \in Seq(Profiles) OBVIOUS
    <3>. QED BY <1>2, <3>1, Zenon
  <2>3. current \in Tokens \cup {Nobody} /\ stopped \in BOOLEAN
    <3>1. FALSE \in BOOLEAN /\ Nobody \in Tokens \cup {Nobody} OBVIOUS
    <3>. QED BY <1>2, <3>1, Zenon
  <2>. QED BY <2>1, <2>2, <2>3, Zenon DEF GateTypes
<1>4. QueueTypes
  <2>1. queue = <<>> BY DEF Init
  <2>2. <<>> \in Seq(Tokens \cup {Cleanup}) OBVIOUS
  <2>. QED BY <2>1, <2>2, Zenon DEF QueueTypes
<1>5. ReportTypes BY DEF Init, ReportTypes, Status
<1>6. NativeTypes
  <2>1. /\ active = Nobody /\ running = {} /\ answered = {} /\ handshakeOk = FALSE
        /\ pumps = [t \in Tokens |-> "none"]
        /\ outline = Nobody /\ socks = Nobody /\ tor = FALSE
    BY DEF Init, NativeInit
  <2>. QED BY <2>1 DEF NativeTypes
<1>7. tunnel = Nobody BY DEF Init
<1>8. main \in Thread /\ worker \in Thread BY <1>1, IdleTyped
<1>9. tunnel \in Tokens \cup {Nobody} BY <1>7
<1>. QED BY <1>1, <1>3, <1>4, <1>5, <1>6, <1>8, <1>9, TypeParts

\* Every step, the stuttering ones too, keeps the types and the worker's place.
LEMMA StepsTyped ==
    ASSUME TypeOK, Located, [Next]_vars
    PROVE  TypeOK' /\ Located'
<1>1. CASE UNCHANGED vars
  <2>1. UNCHANGED <<service, native>> BY <1>1, Zenon DEF vars, service, screens
  <2>2. NativeTypes' BY <2>1, TypeParts, Zenon DEF NativeTypes, native, wireguard
  <2>3. UNCHANGED worker BY <1>1, Zenon DEF vars
  <2>. QED BY <2>1, <2>2, <2>3, PlanesTyped, Zenon DEF Located, At
<1>2. CASE BeginStep \/ StopStep \/ MainStep \/ TorStep \/ CutStep \/ PumpStep \/ PeerAnswers
  <2>1. TypeOK' BY <1>2, BeginTyped, StopTyped, MainStepTyped, OutsideTyped, Zenon
  <2>2. UNCHANGED worker BY <1>2, OthersLeaveTheWorker
  <2>. QED BY <2>1, <2>2, Zenon DEF Located, At
<1>3. CASE WorkerStep
  <2>1. worker \in Thread /\ QueueTypes BY TypeParts
  <2>. QED BY <1>3, <2>1, WorkerStepTyped, WorkerLocated
<1>. QED BY <1>1, <1>2, <1>3, StepKinds, Zenon

(***************************************************************************)
(* The two threads of the service, its gate and the statics of the native  *)
(* planes keep their types, and the worker is always somewhere in one of   *)
(* the lists that startTunnel and cleanup make.                            *)
(***************************************************************************)
THEOREM GateTypeCorrect == Spec => [](TypeOK /\ Located)
<1>1. Init => TypeOK /\ Located BY StartsTyped DEF Located
<1>2. TypeOK /\ Located /\ [Next]_vars => TypeOK' /\ Located' BY StepsTyped
<1>. QED BY <1>1, <1>2, PTL DEF Spec

-----------------------------------------------------------------------------
(***************************************************************************)
(* No plane without its tunnel.                                            *)
(***************************************************************************)

\* What anybody may do to the planes: stop them.
OnlyStops ==
    /\ \/ UNCHANGED <<active, running>>
       \/ active' = Nobody /\ running' = running \ {active}
    /\ socks' \in {socks, Nobody}

LEMMA StopsOnlyStop ==
    ASSUME NEW step, Stopping(step)
    PROVE  /\ OnlyStops
           /\ step = "stopWg" => active' = Nobody
           /\ step # "stopWg" => socks' = Nobody
<1>1. CASE step = "stopWg"
  <2>1. StopWireguard BY <1>1 DEF Stopping
  <2>. QED BY <1>1, <2>1 DEF StopWireguard, OnlyStops
<1>2. CASE step # "stopWg"
  <2>1. socks' = Nobody /\ UNCHANGED wireguard
    BY <1>2 DEF Stopping, StopProxies, StopSocks, StopOutline, StopTor
  <2>. QED BY <1>2, <2>1 DEF OnlyStops, wireguard
<1>. QED BY <1>1, <1>2

LEMMA OthersOnlyStop ==
    ASSUME BeginStep \/ StopStep \/ MainStep \/ TorStep \/ CutStep \/ PumpStep \/ PeerAnswers
    PROVE  OnlyStops
<1>1. CASE UNCHANGED native BY <1>1 DEF native, wireguard, OnlyStops
<1>2. CASE BeginStep \/ StopStep \/ MainStep
  BY <1>1, <1>2, Zenon DEF BeginStep, StartCommand, StopStep, MainStep
<1>3. CASE TorStep
  <2>1. ASSUME StopTor PROVE OnlyStops BY <2>1 DEF StopTor, wireguard, OnlyStops
  <2>2. ASSUME NEW succeeds \in BOOLEAN, Launch(succeeds) PROVE OnlyStops
    BY <2>2 DEF Launch, wireguard, OnlyStops
  <2>. QED BY <1>1, <1>3, <2>1, <2>2, Zenon DEF TorStep
<1>4. CASE CutStep BY <1>4, StopsOnlyStop, Zenon DEF CutStep
<1>5. CASE PumpStep \/ PeerAnswers
  <2>1. UNCHANGED <<active, running, socks>>
    BY <1>5, Zenon DEF PumpStep, PeerAnswers, PumpGoesOn, Resolve, Answered, EndPump
  <2>. QED BY <2>1 DEF OnlyStops
<1>. QED BY <1>2, <1>3, <1>4, <1>5

\* To stop planes is always harmless,
LEMMA StoppingIsHarmless ==
    ASSUME OnlyStops, PlaneHasTunnel, UNCHANGED tunnel
    PROVE  PlaneHasTunnel'
BY DEF OnlyStops, PlaneHasTunnel

LEMMA FactsSurviveStops ==
    ASSUME OnlyStops, UNCHANGED <<tunnel, worker>>, NEW name, NEW i, PlaneFacts(name, i)
    PROVE  PlaneFacts(name, i)'
BY DEF OnlyStops, PlaneFacts, PumpStopped, ProxyStopped

\* and a place's facts lead to those of the next if each new one holds by then.
LEMMA FactsGoOn ==
    ASSUME NEW name, NEW i \in Nat, PlaneFacts(name, i), OnlyStops, UNCHANGED tunnel, Same,
           PumpStopped(name, i + 1) /\ ~ PumpStopped(name, i) => active' = Nobody,
           ProxyStopped(name, i + 1) /\ ~ ProxyStopped(name, i) => socks' = Nobody,
           i # 6
    PROVE  PlaneFacts(name, i + 1)'
<1>1. PumpStopped(name, i + 1) => active' = Nobody BY DEF PlaneFacts, OnlyStops
<1>2. ProxyStopped(name, i + 1) => socks' = Nobody BY DEF PlaneFacts, OnlyStops
<1>3. name \in Openings /\ i + 1 >= 7 => tunnel' = worker'.token
  BY DEF PlaneFacts, Same
<1>. QED BY <1>1, <1>2, <1>3, Zenon DEF PlaneFacts, PumpStopped, ProxyStopped, Openings

\* Nothing is asked for at these places.
LEMMA NoFacts ==
    ASSUME NEW name \in PlanNames, NEW i, i \in {1, 2}, name # "cleanUp" \/ i = 1
    PROVE  PlaneFacts(name, i)'
BY DEF PlaneFacts, PumpStopped, ProxyStopped, Openings

LEMMA NoFactsOfFailed ==
    ASSUME NEW name \in {"failed", "ok"}, NEW i
    PROVE  PlaneFacts(name, i)'
BY DEF PlaneFacts, PumpStopped, ProxyStopped, Openings

\* The worker at a place of which that is known.
Known(name, i) == At(worker, name, i) /\ PlaneFacts(name, i)

LEMMA KnownNext ==
    ASSUME NEW name \in PlanNames, NEW i \in Nat, At(worker', name, i), PlaneFacts(name, i)',
           PlaneHasTunnel'
    PROVE  PlaneInv'
BY Zenon DEF PlaneInv, At

LEMMA KnownGoesOn ==
    ASSUME NEW name \in PlanNames, NEW i \in Nat, Goes(name, i), PlaneFacts(name, i + 1)' \/ ~ Same,
           PlaneHasTunnel'
    PROVE  PlaneInv'
<1>1. CASE worker' = Idle BY <1>1, Zenon DEF PlaneInv, Idle
<1>2. CASE At(worker', name, i + 1) /\ Same
  <2>1. i + 1 \in Nat OBVIOUS
  <2>. QED BY <1>2, <2>1, KnownNext
<1>. QED BY <1>1, <1>2, GoesKeeps

LEMMA TakeKeepsPlanes ==
    ASSUME TypeOK, PlaneInv, Take
    PROVE  PlaneInv'
<1>1. PlaneHasTunnel'
  <2>1. UNCHANGED <<tunnel, native>> BY Zenon DEF Take
  <2>. QED BY <2>1 DEF PlaneInv, PlaneHasTunnel, native, wireguard
<1>2. QueueTypes BY TypeParts
<1>3. "cleanUp" \in PlanNames /\ Openings \subseteq PlanNames BY DEF PlanNames
<1>4. PICK name \in PlanNames : At(worker', name, 1) BY <1>2, <1>3, TakeMoves
<1>5. PlaneFacts(name, 1)' BY NoFacts
<1>. QED BY <1>1, <1>4, <1>5, KnownNext

LEMMA StopKeepsPlanes ==
    ASSUME worker \in Thread, NEW name \in PlanNames, NEW i \in Nat, Known(name, i),
           PlaneHasTunnel, StopPlanes
    PROVE  PlaneInv'
<1>1. At(worker, name, i) /\ PlaneFacts(name, i) BY DEF Known
<1>2. Stopping(Plan(name)[i]) /\ Goes(name, i) BY <1>1, StopMoves
<1>3. UNCHANGED tunnel BY Zenon DEF StopPlanes
<1> DEFINE step == Plan(name)[i]
<1>4. Where(name, i, step) /\ i \in 1 .. Len(Plan(name)) BY <1>1, AtHead, WhereIs
<1>5. Stopping(step) BY <1>2
<1> HIDE DEF step
<1>6. /\ OnlyStops
      /\ step = "stopWg" => active' = Nobody
      /\ step # "stopWg" => socks' = Nobody
  BY <1>5, StopsOnlyStop
<1>7. step \in {"stopWg", "stopSocks", "stopOutline", "stopProxies"}
  BY <1>4, <1>5 DEF Stopping, Where
<1>8. PlaneHasTunnel' BY <1>3, <1>6, StoppingIsHarmless
<1>9. PumpStopped(name, i + 1) /\ ~ PumpStopped(name, i) => step = "stopWg"
  BY <1>4, <1>7 DEF Where, PumpStopped, Openings
<1>10. ProxyStopped(name, i + 1) /\ ~ ProxyStopped(name, i) => step # "stopWg"
  BY <1>4, <1>7 DEF Where, ProxyStopped, Openings
<1>11. i # 6 BY <1>4, <1>7 DEF Where, Openings
<1>12. PlaneFacts(name, i + 1)' \/ ~ Same
  BY <1>1, <1>3, <1>6, <1>9, <1>10, <1>11, FactsGoOn
<1>. QED BY <1>2, <1>8, <1>12, KnownGoesOn

LEMMA CloseKeepsPlanes ==
    ASSUME worker \in Thread, NEW name \in PlanNames, NEW i \in Nat, Known(name, i),
           PlaneHasTunnel, CloseFd
    PROVE  PlaneInv'
<1>1. At(worker, name, i) /\ PlaneFacts(name, i) BY DEF Known
<1>2. /\ \/ name \in Openings \cup {"error"} /\ i = 5
         \/ name = "cleanUp" /\ i = 3
      /\ Goes(name, i)
  BY <1>1, CloseMoves
<1>3. tunnel' = Nobody /\ UNCHANGED native BY Zenon DEF CloseFd
<1>4. active = Nobody /\ socks = Nobody
  BY <1>1, <1>2 DEF PlaneFacts, PumpStopped, ProxyStopped, Openings
<1>5. PlaneHasTunnel' BY <1>3, <1>4 DEF PlaneHasTunnel, native, wireguard
<1>6. CASE i = 5
  <2>1. active' = Nobody /\ socks' = Nobody BY <1>3, <1>4 DEF native, wireguard
  <2>2. PlaneFacts(name, 6)' BY <2>1 DEF PlaneFacts
  <2>. QED BY <1>2, <1>5, <1>6, <2>2, KnownGoesOn
<1>7. CASE i = 3 /\ name = "cleanUp"
  <2>1. worker' = Idle BY <1>2, <1>7, PlanEnds, Zenon DEF Goes
  <2>. QED BY <1>5, <2>1, Zenon DEF PlaneInv, Idle
<1>. QED BY <1>2, <1>6, <1>7

LEMMA EstablishKeepsPlanes ==
    ASSUME worker \in Thread, NEW name \in PlanNames, NEW i \in Nat, Known(name, i),
           PlaneHasTunnel, Establish
    PROVE  PlaneInv'
<1>1. At(worker, name, i) /\ PlaneFacts(name, i) BY DEF Known
<1>2. /\ name \in Openings /\ i = 6 /\ worker.token \in Tokens
      /\ \/ tunnel' = worker.token /\ At(worker', name, 7)
         \/ tunnel' = tunnel /\ At(worker', "failed", 2)
      /\ Same
  BY <1>1, EstablishMoves
<1>3. UNCHANGED native BY Zenon DEF Establish
<1>4. active = Nobody /\ socks = Nobody
  BY <1>1, <1>2 DEF PlaneFacts, PumpStopped, ProxyStopped, Openings
<1>5. active' = Nobody /\ socks' = Nobody /\ running' = running
  BY <1>3, <1>4 DEF native, wireguard
<1>6. PlaneHasTunnel' BY <1>3, <1>4, <1>5 DEF PlaneHasTunnel
<1>7. CASE tunnel' = worker.token /\ At(worker', name, 7)
  <2>1. tunnel' = worker'.token BY <1>2, <1>7 DEF Same
  <2>2. PlaneFacts(name, 7)' BY <1>5, <2>1 DEF PlaneFacts
  <2>3. 7 \in Nat OBVIOUS
  <2>. QED BY <1>6, <1>7, <2>2, <2>3, KnownNext
<1>8. CASE At(worker', "failed", 2)
  <2>1. "failed" \in PlanNames /\ 2 \in Nat BY DEF PlanNames
  <2>2. PlaneFacts("failed", 2)' BY NoFactsOfFailed
  <2>. QED BY <1>6, <1>8, <2>1, <2>2, KnownNext
<1>. QED BY <1>2, <1>7, <1>8

LEMMA AttachKeepsPlanes ==
    ASSUME TypeOK, NEW name \in PlanNames, NEW i \in Nat, Known(name, i),
           PlaneHasTunnel, AttachPlane
    PROVE  PlaneInv'
<1>0. worker \in Thread /\ running \subseteq Tokens
  <2>1. NativeTypes /\ worker \in Thread BY TypeParts
  <2>. QED BY <2>1, Zenon DEF NativeTypes
<1>1. At(worker, name, i) /\ PlaneFacts(name, i) BY DEF Known
<1>2. PICK succeeds \in BOOLEAN :
         /\ Attach(Plan(name)[i], worker.token, succeeds)
         /\ succeeds => At(worker', name, i + 1)
         /\ ~ succeeds => At(worker', "failed", 1) \/ At(worker', "failed", 2)
  BY <1>0, <1>1, AttachMoves, Zenon
<1>3. name \in Openings /\ i >= 7 /\ worker.token \in Tokens /\ Same
  BY <1>0, <1>1, AttachMoves, Zenon
<1>4. UNCHANGED tunnel BY Zenon DEF AttachPlane
<1>5. tunnel = worker.token BY <1>1, <1>3 DEF PlaneFacts
<1> DEFINE step == Plan(name)[i]
           token == worker.token
<1>6. Where(name, i, step) BY <1>1, AtHead, WhereIs
<1>7. Attach(step, token, succeeds) BY <1>2
<1>8. token \in Tokens /\ tunnel = token BY <1>3, <1>5
<1> HIDE DEF step, token
<1>9. \/ UNCHANGED <<active, running, socks>>
      \/ UNCHANGED <<active, running>> /\ socks' = token
      \/ /\ step = "spawnPump" /\ active' = token /\ running' = running \cup {token}
         /\ UNCHANGED socks
  BY <1>7 DEF Attach, ReadProfile, SpawnPump, Await, Serve, TorPort, Route, native, wireguard
<1>10. PlaneHasTunnel'
  <2>1. CASE UNCHANGED <<active, running, socks>> BY <1>4, <2>1 DEF PlaneHasTunnel
  <2>2. CASE UNCHANGED <<active, running>> /\ socks' = token
    BY <1>4, <1>8, <2>2 DEF PlaneHasTunnel
  <2>3. CASE /\ step = "spawnPump" /\ active' = token /\ running' = running \cup {token}
             /\ UNCHANGED socks
    <3>1. name = "wireguard" /\ i = 9 BY <1>6, <2>3 DEF Where
    <3>2. active = Nobody BY <1>1, <3>1 DEF PlaneFacts, PumpStopped, Openings
    <3>3. running = {} BY <1>0, <3>2, NobodyNoToken DEF PlaneHasTunnel
    <3>. QED BY <1>4, <1>8, <2>3, <3>3 DEF PlaneHasTunnel
  <2>. QED BY <1>9, <2>1, <2>2, <2>3
<1>11. CASE succeeds
  <2>1. At(worker', name, i + 1) BY <1>2, <1>11
  <2>2. PumpStopped(name, i + 1) => active' = Nobody
    <3>1. ASSUME PumpStopped(name, i + 1) PROVE PumpStopped(name, i) /\ step # "spawnPump"
      BY <1>3, <1>6, <3>1 DEF PumpStopped, Where, Openings
    <3>. QED BY <1>1, <1>9, <3>1 DEF PlaneFacts
  <2>3. ~ ProxyStopped(name, i + 1) BY <1>3 DEF ProxyStopped, Openings
  <2>4. tunnel' = worker'.token BY <1>3, <1>4, <1>5 DEF Same
  <2>5. PlaneFacts(name, i + 1)'
    BY <2>2, <2>3, <2>4, Zenon DEF PlaneFacts, PumpStopped, ProxyStopped, Openings
  <2>6. i + 1 \in Nat OBVIOUS
  <2>. QED BY <1>10, <2>1, <2>5, <2>6, KnownNext
<1>12. CASE ~ succeeds
  <2>1. PICK j \in {1, 2} : At(worker', "failed", j) BY <1>2, <1>12
  <2>2. "failed" \in PlanNames /\ j \in Nat BY DEF PlanNames
  <2>3. PlaneFacts("failed", j)' BY NoFactsOfFailed
  <2>. QED BY <1>10, <2>1, <2>2, <2>3, KnownNext
<1>. QED BY <1>11, <1>12

\* The steps that leave the planes and the tunnel alone.
LEMMA QuietKeepsPlanes ==
    ASSUME worker \in Thread, NEW name \in PlanNames, NEW i \in Nat, Known(name, i),
           PlaneHasTunnel, Check \/ Configure \/ Report \/ WorkerWrites
    PROVE  PlaneInv'
<1>1. At(worker, name, i) /\ PlaneFacts(name, i) BY DEF Known
<1>2. UNCHANGED <<tunnel, native>> BY Zenon DEF Check, Configure, Report, WorkerWrites
<1>3. OnlyStops BY <1>2 DEF OnlyStops, native, wireguard
<1>4. PlaneHasTunnel' BY <1>2, <1>3, StoppingIsHarmless
<1>5. {"cleanUp", "ok", "failed", "error"} \subseteq PlanNames BY DEF PlanNames
<1>6. ASSUME NEW n \in PlanNames, NEW j \in {1, 2}, At(worker', n, j), n # "cleanUp" \/ j = 1
      PROVE  PlaneInv'
  <2>1. j \in Nat OBVIOUS
  <2>. QED BY <1>4, <1>6, <2>1, NoFacts, KnownNext
<1>7. CASE Check
  <2>1. /\ name \in Openings
        /\ At(worker', name, 2) \/ worker' = Idle
    BY <1>1, <1>7, CheckMoves, Zenon
  <2>2. CASE worker' = Idle BY <1>4, <2>2, Zenon DEF PlaneInv, Idle
  <2>3. CASE At(worker', name, 2)
    <3>1. name # "cleanUp" BY <2>1 DEF Openings
    <3>. QED BY <1>6, <2>3, <3>1
  <2>. QED BY <2>1, <2>2, <2>3
<1>8. CASE Configure
  <2>1. /\ name \in Openings /\ i = 4
        /\ At(worker', name, 5) \/ At(worker', "failed", 2)
        /\ Same
    BY <1>1, <1>8, ConfigureMoves
  <2>2. CASE At(worker', name, 5)
    <3>1. PumpStopped(name, i) /\ ProxyStopped(name, i)
      BY <2>1 DEF PumpStopped, ProxyStopped, Openings
    <3>2. PlaneFacts(name, i + 1)' BY <1>1, <1>2, <1>3, <2>1, <3>1, FactsGoOn
    <3>3. PlaneFacts(name, 5)' BY <2>1, <3>2
    <3>4. 5 \in Nat OBVIOUS
    <3>. QED BY <1>4, <2>2, <3>3, <3>4, KnownNext
  <2>3. CASE At(worker', "failed", 2) BY <1>5, <1>6, <2>3
  <2>. QED BY <2>1, <2>2, <2>3
<1>9. CASE Report
  <2>1. At(worker', "cleanUp", 1) \/ At(worker', "ok", 1) \/ At(worker', "error", 1)
    BY <1>1, <1>9, ReportMoves, Zenon
  <2>. QED BY <1>5, <1>6, <2>1
<1>10. CASE WorkerWrites
  <2>1. /\ name = "ok" \/ (name = "error" /\ i \in {1, 2, 6, 7})
        /\ Goes(name, i)
    BY <1>1, <1>10, WriteMoves, Zenon
  <2>2. PlaneFacts(name, i + 1)' \/ ~ Same
    <3>1. CASE name = "ok" BY <3>1, NoFactsOfFailed
    <3>2. CASE name = "error" /\ i \in {1, 2, 6, 7} /\ Same
      <4>1. PumpStopped(name, i + 1) => PumpStopped(name, i)
        BY <3>2 DEF PumpStopped, Openings
      <4>2. ProxyStopped(name, i + 1) => ProxyStopped(name, i)
        BY <3>2 DEF ProxyStopped, Openings
      <4>3. PumpStopped(name, i + 1) => active' = Nobody
        BY <1>1, <1>3, <4>1 DEF PlaneFacts, OnlyStops
      <4>4. ProxyStopped(name, i + 1) => socks' = Nobody
        BY <1>1, <1>3, <4>2 DEF PlaneFacts, OnlyStops
      <4>5. name \notin Openings BY <3>2 DEF Openings
      <4>. QED BY <4>3, <4>4, <4>5, Zenon DEF PlaneFacts, PumpStopped, ProxyStopped, Openings
    <3>. QED BY <2>1, <3>1, <3>2
  <2>. QED BY <1>4, <2>1, <2>2, KnownGoesOn
<1>. QED BY <1>7, <1>8, <1>9, <1>10

LEMMA PlanesStepKept ==
    ASSUME TypeOK, PlaneInv, [Next]_vars
    PROVE  PlaneInv'
<1>1. PlaneHasTunnel BY DEF PlaneInv
<1>2. CASE OnlyStops /\ UNCHANGED <<worker, tunnel>>
  <2>1. PlaneHasTunnel' BY <1>1, <1>2, StoppingIsHarmless
  <2>2. CASE worker = Idle BY <1>2, <2>1, <2>2, Zenon DEF PlaneInv, Idle
  <2>3. CASE \E name \in PlanNames : \E i \in Nat : At(worker, name, i) /\ PlaneFacts(name, i)
    <3>1. PICK name \in PlanNames, i \in Nat : At(worker, name, i) /\ PlaneFacts(name, i)
      BY <2>3
    <3>2. PlaneFacts(name, i)' BY <1>2, <3>1, FactsSurviveStops
    <3>3. At(worker', name, i) BY <1>2, <3>1
    <3>. QED BY <2>1, <3>2, <3>3, KnownNext
  <2>. QED BY <2>2, <2>3, Zenon DEF PlaneInv
<1>3. CASE UNCHANGED vars
  <2>1. UNCHANGED <<worker, tunnel, native>> BY <1>3, Zenon DEF vars
  <2>2. OnlyStops BY <2>1 DEF native, wireguard, OnlyStops
  <2>. QED BY <1>2, <2>1, <2>2
<1>4. CASE WorkerStep
  <2>1. worker \in Thread BY TypeParts
  <2>2. CASE Take BY <2>2, TakeKeepsPlanes
  <2>3. CASE ~ Take
    <3>1. worker.steps # <<>> BY <1>4, <2>3, Zenon DEF WorkerStep, Check, StopPlanes, CloseFd,
            Configure, Establish, AttachPlane, Report, WorkerWrites, Ready
    <3>2. PICK name \in PlanNames, i \in Nat : Known(name, i)
      BY <3>1, IdleTyped, Zenon DEF PlaneInv, Known
    <3>. QED BY <1>1, <1>4, <2>1, <2>3, <3>2, StopKeepsPlanes, CloseKeepsPlanes,
           EstablishKeepsPlanes, AttachKeepsPlanes, QuietKeepsPlanes, Zenon DEF WorkerStep
  <2>. QED BY <2>2, <2>3
<1>5. CASE BeginStep \/ StopStep \/ MainStep \/ TorStep \/ CutStep \/ PumpStep \/ PeerAnswers
  BY <1>2, <1>5, OthersOnlyStop, OthersLeaveTheWorker
<1>. QED BY <1>3, <1>4, <1>5, StepKinds, Zenon

LEMMA PlanesStart == Init => PlaneInv
BY DEF Init, NativeInit, PlaneInv, PlaneHasTunnel

(***************************************************************************)
(* No data plane is left on a descriptor that was closed, nor on another   *)
(* session's, and no pump runs that a later stop will not find: whoever    *)
(* stops planes, and however often, in between.                            *)
(***************************************************************************)
THEOREM PlanesHaveTunnels == Spec => []PlaneHasTunnel
<1>1. Init => TypeOK /\ Located /\ PlaneInv BY StartsTyped, PlanesStart DEF Located
<1>2. TypeOK /\ Located /\ PlaneInv /\ [Next]_vars => TypeOK' /\ Located' /\ PlaneInv'
  BY StepsTyped, PlanesStepKept
<1>3. PlaneInv => PlaneHasTunnel BY DEF PlaneInv
<1>. QED BY <1>1, <1>2, <1>3, PTL DEF Spec

-----------------------------------------------------------------------------
(***************************************************************************)
(* Nothing open that is not reported.                                      *)
(***************************************************************************)
SimpleFacts == GateInv /\ Begun /\ HandedOver /\ GoesOnToStop

LEMMA SessionsCount ==
    ASSUME GateTypes
    PROVE  LastToken \in Nat
BY DEF GateTypes, LastToken

\* What a thread has before it after a step was before it already.
LEMMA HandedOverRest ==
    ASSUME HandedOver, main \in Thread, main.steps # <<>>, main' = Rest(main)
    PROVE  /\ HandedOver'
           /\ Head(main.steps) = "enqueue" => main'.steps = <<>>
           /\ main'.token \in {main.token, Nobody}
<1>1. main.steps \in Seq(Steps) BY DEF Thread
<1>2. CASE Len(main.steps) = 1
  <2>1. main' = Idle BY <1>2 DEF Rest
  <2>2. main'.steps = <<>> /\ main'.token = Nobody BY <2>1, IdleTyped
  <2>. QED BY <2>2 DEF HandedOver
<1>3. CASE Len(main.steps) # 1
  <2>1. main' = [main EXCEPT !.steps = Tail(@)] BY <1>3 DEF Rest
  <2>2. main'.steps = Tail(main.steps) /\ main'.token = main.token BY <2>1 DEF Thread
  <2>3. /\ Len(main'.steps) = Len(main.steps) - 1
        /\ \A i \in 1 .. Len(main'.steps) : main'.steps[i] = main.steps[i + 1]
    BY <1>1, <2>2
  <2>4. Head(main.steps) # "enqueue"
    <3>1. Head(main.steps) = main.steps[1] /\ 1 \in 1 .. Len(main.steps) BY <1>1
    <3>. QED BY <1>3, <3>1 DEF HandedOver
  <2>5. HandedOver'
    <3>1. SUFFICES ASSUME NEW i \in 1 .. Len(main'.steps), main'.steps[i] = "enqueue"
                   PROVE  i = Len(main'.steps)
      BY Zenon DEF HandedOver
    <3>2. Len(main.steps) \in Nat BY <1>1
    <3>3. i + 1 \in 1 .. Len(main.steps) BY <2>3, <3>2
    <3>4. main.steps[i + 1] = "enqueue" BY <2>3, <3>1
    <3>5. i + 1 = Len(main.steps) BY <3>3, <3>4, Zenon DEF HandedOver
    <3>. QED BY <2>3, <3>2, <3>5
  <2>. QED BY <2>2, <2>4, <2>5
<1>. QED BY <1>2, <1>3

LEMMA HandedOverLists ==
    /\ \A i \in 1 .. Len(<<"status", "flag", "show", "enqueue">>) :
          <<"status", "flag", "show", "enqueue">>[i] = "enqueue"
             => i = Len(<<"status", "flag", "show", "enqueue">>)
    /\ \A i \in 1 .. Len(<<"status", "flag", "show", "stopSelfId">>) :
          <<"status", "flag", "show", "stopSelfId">>[i] # "enqueue"
    /\ \A i \in 1 .. Len(<<"flag", "status", "show", "stopSelf">>) :
          <<"flag", "status", "show", "stopSelf">>[i] # "enqueue"
    /\ \A i \in 1 .. Len(<<"flag", "status">>) : <<"flag", "status">>[i] # "enqueue"
OBVIOUS

LEMMA BeginSimple ==
    ASSUME TypeOK, SimpleFacts, BeginStep
    PROVE  SimpleFacts'
<1>1. GateTypes /\ GateInv /\ Begun /\ GoesOnToStop
  BY TypeParts, Zenon DEF SimpleFacts
<1>2. PICK p \in Profiles :
         /\ Begin(p)
         /\ \/ main' = Doing(<<"status", "flag", "show", "enqueue">>, "CONNECTING", current')
            \/ main' = Doing(<<"status", "flag", "show", "stopSelfId">>, "ERR", current')
         /\ UNCHANGED <<queue, worker, stopper, tunnel, native, reports>>
  BY Zenon DEF BeginStep, StartCommand
<1>3. /\ LastToken' = LastToken + 1 /\ current' = LastToken' /\ stopped' = FALSE
      /\ LastToken \in Nat
  BY <1>1, <1>2, BeginGate
<1>4. GateInv' BY <1>3 DEF GateInv
<1>5. main'.token = current' BY <1>2 DEF Doing
<1>6. Begun'
  <2>1. 0 .. LastToken \subseteq 0 .. LastToken' BY <1>3
  <2>2. main'.token \in 0 .. LastToken' BY <1>3, <1>5
  <2>3. /\ worker.token \in 0 .. LastToken /\ tunnel \in 0 .. LastToken
        /\ \A i \in 1 .. Len(queue) : queue[i] \in 0 .. LastToken
    BY <1>1 DEF Begun
  <2>4. /\ worker.token \in 0 .. LastToken' /\ tunnel \in 0 .. LastToken'
        /\ \A i \in 1 .. Len(queue) : queue[i] \in 0 .. LastToken'
    BY <2>1, <2>3
  <2>5. /\ worker'.token \in 0 .. LastToken' /\ tunnel' \in 0 .. LastToken'
        /\ \A i \in 1 .. Len(queue') : queue'[i] \in 0 .. LastToken'
    BY <1>2, <2>4, Zenon
  <2>. QED BY <2>2, <2>5 DEF Begun
<1>7. HandedOver'
  <2>1. CASE main'.steps = <<"status", "flag", "show", "enqueue">>
    BY <2>1, HandedOverLists, Zenon DEF HandedOver
  <2>2. CASE main'.steps = <<"status", "flag", "show", "stopSelfId">>
    BY <2>2, HandedOverLists, Zenon DEF HandedOver
  <2>. QED BY <1>2, <2>1, <2>2 DEF Doing
<1>8. GoesOnToStop' BY <1>1, <1>2, Zenon DEF GoesOnToStop
<1>. QED BY <1>4, <1>6, <1>7, <1>8 DEF SimpleFacts

LEMMA StopSimple ==
    ASSUME TypeOK, SimpleFacts, StopStep
    PROVE  SimpleFacts'
<1>1. GateTypes /\ QueueTypes /\ GateInv /\ Begun /\ GoesOnToStop
  BY TypeParts, Zenon DEF SimpleFacts
<1>2. /\ Stop /\ stopper' \in {stopper, <<>>}
      /\ main' \in {Doing(<<"flag", "status", "show", "stopSelf">>, "IDLE", Nobody),
                    Doing(<<"flag", "status">>, "IDLE", Nobody)}
      /\ UNCHANGED <<sessions, worker, tunnel, native, reports>>
  BY Zenon DEF StopStep
<1>3. stopped' = TRUE /\ current' = Nobody BY <1>1, <1>2 DEF Stop, GateInv
<1>4. GateInv' BY <1>3 DEF GateInv
<1>5. LastToken \in Nat /\ LastToken' = LastToken
  <2>1. LastToken \in Nat BY <1>1, SessionsCount
  <2>. QED BY <1>2, <2>1 DEF LastToken
<1>6. main'.token = Nobody BY <1>2 DEF Doing
<1>7. \A i \in 1 .. Len(queue') : queue'[i] \in 0 .. LastToken
  <2>1. \A i \in 1 .. Len(queue) : queue[i] \in 0 .. LastToken BY <1>1, Zenon DEF Begun
  <2>2. CASE queue' = queue BY <2>1, <2>2, Zenon
  <2>3. CASE queue' = Append(queue, Cleanup)
    <3>1. Cleanup \in 0 .. LastToken BY <1>5 DEF Cleanup
    <3>2. /\ Len(queue') = Len(queue) + 1 /\ Len(queue) \in Nat
          /\ \A i \in 1 .. Len(queue) : queue'[i] = queue[i]
          /\ queue'[Len(queue) + 1] = Cleanup
      BY <1>1, <2>3 DEF QueueTypes
    <3>. QED BY <2>1, <3>1, <3>2
  <2>. QED BY <1>2, <2>2, <2>3, Zenon DEF Stop
<1>8. Begun'
  <2>1. worker.token \in 0 .. LastToken /\ tunnel \in 0 .. LastToken BY <1>1 DEF Begun
  <2>2. Nobody \in 0 .. LastToken BY <1>5 DEF Nobody
  <2>. QED BY <1>2, <1>5, <1>6, <1>7, <2>1, <2>2 DEF Begun
<1>9. HandedOver'
  <2>1. CASE main'.steps = <<"flag", "status", "show", "stopSelf">>
    BY <2>1, HandedOverLists, Zenon DEF HandedOver
  <2>2. CASE main'.steps = <<"flag", "status">>
    BY <2>2, HandedOverLists, Zenon DEF HandedOver
  <2>. QED BY <1>2, <2>1, <2>2 DEF Doing
<1>10. GoesOnToStop' BY <1>1, <1>2 DEF GoesOnToStop
<1>. QED BY <1>4, <1>8, <1>9, <1>10 DEF SimpleFacts

LEMMA MainSimple ==
    ASSUME TypeOK, SimpleFacts, MainStep
    PROVE  SimpleFacts'
<1>1. /\ GateTypes /\ QueueTypes /\ main \in Thread
      /\ GateInv /\ Begun /\ HandedOver /\ GoesOnToStop
  BY TypeParts, Zenon DEF SimpleFacts
<1>2. /\ main.steps # <<>> /\ main' = Rest(main)
      /\ queue' = queue \/ queue' = Append(queue, main.token)
      /\ UNCHANGED <<gate, worker, screens, tunnel, native>>
  BY Zenon DEF MainStep
<1>3. HandedOver' /\ main'.token \in {main.token, Nobody} BY <1>1, <1>2, HandedOverRest
<1>4. GateInv' /\ LastToken' = LastToken /\ GoesOnToStop'
  BY <1>1, <1>2, Zenon DEF GateInv, gate, screens, LastToken, GoesOnToStop
<1>5. LastToken \in Nat BY <1>1, SessionsCount
<1>6. /\ worker.token \in 0 .. LastToken /\ tunnel \in 0 .. LastToken
      /\ main.token \in 0 .. LastToken
  BY <1>1 DEF Begun
<1>7. \A i \in 1 .. Len(queue') : queue'[i] \in 0 .. LastToken
  <2>1. \A i \in 1 .. Len(queue) : queue[i] \in 0 .. LastToken BY <1>1, Zenon DEF Begun
  <2>2. CASE queue' = queue BY <2>1, <2>2, Zenon
  <2>3. CASE queue' = Append(queue, main.token)
    <3>1. /\ Len(queue') = Len(queue) + 1 /\ Len(queue) \in Nat
          /\ \A i \in 1 .. Len(queue) : queue'[i] = queue[i]
          /\ queue'[Len(queue) + 1] = main.token
      BY <1>1, <2>3 DEF QueueTypes
    <3>. QED BY <1>6, <2>1, <3>1
  <2>. QED BY <1>2, <2>2, <2>3
<1>8. Begun'
  <2>1. Nobody \in 0 .. LastToken BY <1>5 DEF Nobody
  <2>2. main'.token \in 0 .. LastToken BY <1>3, <1>6, <2>1
  <2>. QED BY <1>2, <1>4, <1>6, <1>7, <2>2 DEF Begun
<1>. QED BY <1>3, <1>4, <1>8 DEF SimpleFacts

LEMMA OutsideSimple ==
    ASSUME SimpleFacts, TorStep \/ CutStep \/ PumpStep \/ PeerAnswers
    PROVE  SimpleFacts'
<1>1. GateInv /\ Begun /\ HandedOver /\ GoesOnToStop BY Zenon DEF SimpleFacts
<1>2. UNCHANGED service BY Zenon DEF TorStep, CutStep, PumpStep, PeerAnswers
<1>3. GateInv' /\ Begun' /\ HandedOver'
  BY <1>1, <1>2, Zenon DEF service, gate, GateInv, Begun, HandedOver, LastToken
<1>4. GoesOnToStop'
  <2>1. CASE UNCHANGED stopper BY <1>1, <2>1, Zenon DEF GoesOnToStop
  <2>2. CASE CutStep
    <3>1. PICK step : /\ Stopping(step)
                      /\ \/ stopper = <<>> /\ stopper' = <<"stopProxies", "stopIntent">>
                         \/ stopper # <<>> /\ step = Head(stopper) /\ stopper' = Tail(stopper)
      BY <2>2, Zenon DEF CutStep
    <3>2. step # "stopIntent" BY <3>1 DEF Stopping
    <3>3. CASE stopper # <<>> /\ step = Head(stopper) /\ stopper' = Tail(stopper)
      <4>1. CASE stopper = <<"stopIntent">>
        <5>1. Head(stopper) = "stopIntent" BY <4>1
        <5>. QED BY <3>2, <3>3, <5>1
      <4>2. CASE stopper = <<"stopProxies", "stopIntent">>
        <5>1. Tail(<<"stopProxies", "stopIntent">>) = <<"stopIntent">> OBVIOUS
        <5>. QED BY <3>3, <4>2, <5>1 DEF GoesOnToStop
      <4>. QED BY <1>1, <3>3, <4>1, <4>2, Zenon DEF GoesOnToStop
    <3>. QED BY <3>1, <3>3 DEF GoesOnToStop
  <2>3. CASE TorStep \/ PumpStep \/ PeerAnswers
    BY <2>1, <2>3, Zenon DEF TorStep, PumpStep, PeerAnswers, screens
  <2>. QED BY <2>2, <2>3
<1>. QED BY <1>3, <1>4 DEF SimpleFacts

LEMMA WorkerSimple ==
    ASSUME TypeOK, SimpleFacts, WorkerStep
    PROVE  SimpleFacts'
<1>1. /\ GateTypes /\ QueueTypes /\ worker \in Thread
      /\ GateInv /\ Begun /\ HandedOver /\ GoesOnToStop
  BY TypeParts, Zenon DEF SimpleFacts
<1>2. UNCHANGED <<gate, main, screens>>
  BY Zenon DEF WorkerStep, Take, Check, StopPlanes, CloseFd, Configure, Establish, AttachPlane,
     Report, WorkerWrites
<1>3. GateInv' /\ HandedOver' /\ GoesOnToStop' /\ LastToken' = LastToken
  BY <1>1, <1>2, Zenon DEF gate, screens, GateInv, HandedOver, GoesOnToStop, LastToken
<1>4. LastToken \in Nat BY <1>1, SessionsCount
<1>5. /\ worker.token \in 0 .. LastToken /\ tunnel \in 0 .. LastToken
      /\ main.token \in 0 .. LastToken
      /\ \A i \in 1 .. Len(queue) : queue[i] \in 0 .. LastToken
  BY <1>1 DEF Begun
<1>6. Nobody \in 0 .. LastToken BY <1>4 DEF Nobody
<1>7. CASE Take
  <2>1. /\ queue # <<>> /\ queue' = Tail(queue)
        /\ worker'.token = Head(queue)
    BY <1>1, <1>7, TakeMoves, NobodyNoToken, Zenon
  <2>2. /\ Head(queue) = queue[1] /\ Len(queue) \in Nat /\ Len(queue) >= 1
        /\ Len(queue') = Len(queue) - 1
        /\ \A i \in 1 .. Len(queue') : queue'[i] = queue[i + 1]
    BY <1>1, <2>1 DEF QueueTypes
  <2>3. worker'.token \in 0 .. LastToken BY <1>5, <2>1, <2>2
  <2>4. \A i \in 1 .. Len(queue') : queue'[i] \in 0 .. LastToken BY <1>5, <2>2
  <2>5. tunnel' = tunnel BY <1>7, Zenon DEF Take
  <2>6. Begun' BY <1>2, <1>3, <1>5, <2>3, <2>4, <2>5 DEF Begun
  <2>. QED BY <1>3, <2>6 DEF SimpleFacts
<1>8. CASE ~ Take
  <2>1. queue' = queue /\ tunnel' \in {tunnel, Nobody, worker.token}
    BY <1>8, Zenon DEF WorkerStep, Check, StopPlanes, CloseFd, Configure, Establish, AttachPlane,
       Report, WorkerWrites
  <2>2. worker'.token \in {worker.token, Nobody}
    <3>1. CASE worker' \in {Rest(worker), Idle}
      <4>1. Rest(worker).token \in {worker.token, Nobody}
        BY <1>1, IdleTyped DEF Rest, Thread
      <4>. QED BY <3>1, <4>1, IdleTyped
    <3>2. CASE \E s : worker' = Doing(s, "ERR", worker.token) BY <3>2 DEF Doing
    <3>3. CASE \E s : worker' = [worker EXCEPT !.steps = s] BY <1>1, <3>3 DEF Thread
    <3>4. CASE Check \/ StopPlanes \/ CloseFd \/ Configure \/ Establish \/ WorkerWrites
      <4>1. worker' = Rest(worker) \/ worker' = Idle
            \/ worker' = Doing(<<"report">>, "ERR", worker.token)
        BY <3>4 DEF Check, StopPlanes, CloseFd, Configure, Establish, WorkerWrites
      <4>. QED BY <3>1, <3>2, <4>1
    <3>5. CASE AttachPlane BY <3>1, <3>2, <3>5, Zenon DEF AttachPlane
    <3>6. CASE Report BY <3>3, <3>6, Zenon DEF Report
    <3>. QED BY <1>8, <3>4, <3>5, <3>6, Zenon DEF WorkerStep
  <2>3. worker'.token \in 0 .. LastToken /\ tunnel' \in 0 .. LastToken BY <1>5, <1>6, <2>1, <2>2
  <2>4. \A i \in 1 .. Len(queue') : queue'[i] \in 0 .. LastToken BY <1>5, <2>1
  <2>5. Begun' BY <1>2, <1>3, <1>5, <2>3, <2>4 DEF Begun
  <2>. QED BY <1>3, <2>5 DEF SimpleFacts
<1>. QED BY <1>7, <1>8

\* The session that everything is about stays or leaves, while nobody else moves.
LEMMA OneElsewhere ==
    ASSUME \/ current' = Nobody
           \/ /\ worker'.token # current' /\ tunnel' # current'
              /\ \A i \in 1 .. Len(queue') : queue'[i] # current'
    PROVE  OneAfterTheOther'
BY Zenon DEF OneAfterTheOther

LEMMA FactsElsewhere ==
    ASSUME TypeOK, NEW name \in PlanNames, NEW i \in Nat, At(worker, name, i), ReportFacts(name, i),
           UNCHANGED <<worker, tunnel, native>>,
           worker.token # current' \/ current' = Nobody,
           worker.token \in Tokens => KindOfToken(worker.token)' = KindOfToken(worker.token)
    PROVE  At(worker', name, i) /\ ReportFacts(name, i)'
<1>1. At(worker', name, i) BY Zenon
<1>2. /\ name \in Openings => name = KindOfToken(worker.token)
      /\ name = "error" /\ i >= 6 => tunnel = Nobody
      /\ name = "wireguard" /\ i = 9 => ~ handshakeOk
      /\ name = "wireguard" /\ i = 10 /\ handshakeOk => Works(worker.token)
  BY Zenon DEF ReportFacts
<1>3. name # "cleanUp" => worker.token \in Tokens BY Zenon DEF At
<1>4. name \in Openings => name = KindOfToken(worker.token)'
  <2>1. name \in Openings => name # "cleanUp" BY DEF Openings
  <2>2. name \in Openings => KindOfToken(worker.token)' = KindOfToken(worker.token)
    BY <1>3, <2>1, Zenon
  <2>. QED BY <1>2, <2>2, Zenon
<1>5. name = "cleanUp" => worker'.token # current' \/ current' = Nobody BY Zenon
<1>6. worker'.token = current' => name \notin Openings \cup {"ok"}
  <2>1. worker'.token = current' => worker.token \notin Tokens BY NobodyNoToken, Zenon
  <2>2. name \in Openings \cup {"ok"} => name # "cleanUp" BY DEF Openings
  <2>. QED BY <1>3, <2>1, <2>2, Zenon
<1>7. /\ name = "error" /\ i >= 6 => tunnel' = Nobody
      /\ name = "wireguard" /\ i = 9 => ~ handshakeOk'
      /\ name = "wireguard" /\ i = 10 /\ handshakeOk' => Works(worker.token)'
  BY <1>2, Zenon DEF Works, native, wireguard
<1>8. worker'.token = current' => name # "ok" /\ ~ Reporting(name, i)
  <2>1. name \in Openings \/ name = "ok" => name \in Openings \cup {"ok"} OBVIOUS
  <2>. QED BY <1>6, <2>1, Zenon DEF Reporting
<1>9. ReportFacts(name, i)'
  <2>1. (name \in Openings => name = KindOfToken(worker.token))' BY <1>4, Zenon DEF Openings
  <2>. QED BY <1>5, <1>7, <1>8, <2>1, Zenon DEF ReportFacts, Works, Openings, Reporting
<1>. QED BY <1>1, <1>9

LEMMA ReportNext ==
    ASSUME SimpleFacts', OneAfterTheOther', NEW name \in PlanNames, NEW i \in Nat,
           At(worker', name, i), ReportFacts(name, i)'
    PROVE  ReportInv'
BY Zenon DEF ReportInv, SimpleFacts, At

LEMMA ReportNextIdle ==
    ASSUME SimpleFacts', OneAfterTheOther', worker' = Idle
    PROVE  ReportInv'
BY Zenon DEF ReportInv, SimpleFacts, Idle

LEMMA ReportParts ==
    ASSUME ReportInv
    PROVE  /\ SimpleFacts /\ GateInv /\ Begun /\ HandedOver /\ GoesOnToStop /\ OneAfterTheOther
           /\ \/ worker = Idle
              \/ \E name \in PlanNames : \E i \in Nat : At(worker, name, i) /\ ReportFacts(name, i)
BY Zenon DEF ReportInv, SimpleFacts

LEMMA ReportElsewhere ==
    ASSUME TypeOK, ReportInv, SimpleFacts', OneAfterTheOther',
           UNCHANGED <<worker, tunnel, native>>,
           worker.token # current' \/ current' = Nobody,
           worker.token \in Tokens => KindOfToken(worker.token)' = KindOfToken(worker.token)
    PROVE  ReportInv'
<1>1. CASE worker = Idle BY <1>1, ReportNextIdle, Zenon
<1>2. CASE \E name \in PlanNames : \E i \in Nat : At(worker, name, i) /\ ReportFacts(name, i)
  <2>1. PICK name \in PlanNames, i \in Nat : At(worker, name, i) /\ ReportFacts(name, i) BY <1>2
  <2>2. At(worker', name, i) /\ ReportFacts(name, i)' BY <2>1, FactsElsewhere
  <2>. QED BY <2>2, ReportNext
<1>. QED BY <1>1, <1>2, ReportParts

LEMMA BeginReport ==
    ASSUME TypeOK, ReportInv, BeginStep
    PROVE  ReportInv'
<1>1. GateTypes /\ SimpleFacts /\ Begun BY TypeParts, ReportParts
<1>2. PICK p \in Profiles :
         Begin(p) /\ UNCHANGED <<queue, worker, stopper, tunnel, native, reports>>
  BY Zenon DEF BeginStep, StartCommand
<1>3. SimpleFacts' BY <1>1, BeginSimple
<1>4. /\ LastToken' = LastToken + 1 /\ current' = LastToken' /\ LastToken \in Nat
      /\ \A t \in 1 .. LastToken : sessions'[t] = sessions[t]
  BY <1>1, <1>2, BeginGate
<1>5. /\ worker.token \in 0 .. LastToken /\ tunnel \in 0 .. LastToken
      /\ \A i \in 1 .. Len(queue) : queue[i] \in 0 .. LastToken
  BY <1>1 DEF Begun
<1>6. /\ worker.token # current' /\ tunnel # current'
      /\ \A i \in 1 .. Len(queue) : queue[i] # current'
  BY <1>4, <1>5
<1>7. OneAfterTheOther'
  <2>1. /\ worker'.token # current' /\ tunnel' # current'
        /\ \A i \in 1 .. Len(queue') : queue'[i] # current'
    BY <1>2, <1>6, Zenon
  <2>. QED BY <2>1, OneElsewhere
<1>8. worker.token \in Tokens => KindOfToken(worker.token)' = KindOfToken(worker.token)
  <2>1. worker.token \in Tokens => worker.token \in 1 .. LastToken BY <1>4, <1>5 DEF Tokens
  <2>2. worker.token \in Tokens => sessions'[worker.token] = sessions[worker.token]
    BY <1>4, <2>1
  <2>. QED BY <1>2, <2>2, Zenon DEF KindOfToken
<1>. QED BY <1>2, <1>3, <1>6, <1>7, <1>8, ReportElsewhere, Zenon

LEMMA StopReport ==
    ASSUME TypeOK, ReportInv, StopStep
    PROVE  ReportInv'
<1>1. SimpleFacts /\ GateInv BY ReportParts
<1>2. Stop /\ UNCHANGED <<sessions, worker, tunnel, native, reports>>
  BY Zenon DEF StopStep
<1>3. SimpleFacts' BY <1>1, StopSimple
<1>4. current' = Nobody BY <1>1, <1>2 DEF Stop, GateInv
<1>5. OneAfterTheOther' BY <1>4, OneElsewhere
<1>6. KindOfToken(worker.token)' = KindOfToken(worker.token) BY <1>2, Zenon DEF KindOfToken
<1>. QED BY <1>2, <1>3, <1>4, <1>5, <1>6, ReportElsewhere, Zenon

LEMMA MainReport ==
    ASSUME TypeOK, ReportInv, MainStep
    PROVE  ReportInv'
<1>1. QueueTypes /\ main \in Thread /\ SimpleFacts /\ HandedOver /\ OneAfterTheOther
  BY TypeParts, ReportParts
<1>2. /\ main.steps # <<>> /\ main' = Rest(main)
      /\ queue' = IF Head(main.steps) = "enqueue" THEN Append(queue, main.token) ELSE queue
      /\ UNCHANGED <<gate, worker, screens, tunnel, native>>
  BY Zenon DEF MainStep
<1>3. SimpleFacts' BY <1>1, MainSimple
<1>4. UNCHANGED <<sessions, current>> BY <1>2, Zenon DEF gate
<1>5. ASSUME current # Nobody
      PROVE  /\ worker.token # current /\ tunnel # current
             /\ \A i \in 1 .. Len(queue) : queue[i] # current
  BY <1>1, <1>2, <1>5, Zenon DEF OneAfterTheOther
<1>6. OneAfterTheOther'
  <2>1. SUFFICES ASSUME current' # Nobody PROVE OneAfterTheOther'
    BY OneElsewhere
  <2>2. /\ worker'.token # current' /\ tunnel' # current'
        /\ \A i \in 1 .. Len(queue) : queue[i] # current'
    BY <1>2, <1>4, <1>5, <2>1, Zenon
  <2>3. CASE Head(main.steps) # "enqueue"
    <3>1. queue' = queue BY <1>2, <2>3
    <3>. QED BY <2>2, <3>1, OneElsewhere, Zenon
  <2>4. CASE Head(main.steps) = "enqueue"
    <3>1. queue' = Append(queue, main.token) /\ main'.steps = <<>>
      BY <1>1, <1>2, <2>4, HandedOverRest
    <3>2. /\ Len(queue') = Len(queue) + 1 /\ Len(queue) \in Nat
          /\ \A i \in 1 .. Len(queue) : queue'[i] = queue[i]
      BY <1>1, <3>1 DEF QueueTypes
    <3>3. \A i \in 1 .. Len(queue') : queue'[i] = current' => i = Len(queue')
      BY <2>2, <3>2
    <3>. QED BY <2>2, <3>1, <3>3, Zenon DEF OneAfterTheOther
  <2>. QED BY <2>3, <2>4
<1>7. KindOfToken(worker.token)' = KindOfToken(worker.token) BY <1>2, <1>4, Zenon DEF KindOfToken
<1>8. worker.token # current' \/ current' = Nobody BY <1>4, <1>5
<1>9. UNCHANGED <<worker, tunnel, native>> BY <1>2, Zenon
<1>. QED BY <1>3, <1>6, <1>7, <1>8, <1>9, ReportElsewhere, Zenon

\* A pump that works goes on to, unless a Disconnect stops it.
LEMMA WorksOn ==
    ASSUME TorStep \/ CutStep \/ PumpStep \/ PeerAnswers, GoesOnToStop, NEW token,
           stopper = <<>> => Works(token)
    PROVE  stopper' = <<>> => Works(token)'
<1>1. CASE TorStep
  <2>1. UNCHANGED <<running, answered, stopper>>
    <3>1. UNCHANGED stopper BY <1>1, Zenon DEF TorStep
    <3>2. UNCHANGED <<running, answered>>
      BY <1>1, Zenon DEF TorStep, native, wireguard, StopTor, Launch
    <3>. QED BY <3>1, <3>2
  <2>. QED BY <2>1, Zenon DEF Works
<1>2. CASE CutStep
  <2>1. PICK step : /\ Stopping(step)
                    /\ \/ stopper = <<>> /\ stopper' = <<"stopProxies", "stopIntent">>
                       \/ stopper # <<>> /\ step = Head(stopper) /\ stopper' = Tail(stopper)
    BY <1>2, Zenon DEF CutStep
  <2>2. step # "stopIntent" BY <2>1 DEF Stopping
  <2>3. <<"stopProxies", "stopIntent">> # <<>> /\ <<"stopIntent">> # <<>> OBVIOUS
  <2>4. CASE stopper # <<>> /\ step = Head(stopper) /\ stopper' = Tail(stopper)
    <3>1. stopper # <<"stopIntent">>
      <4>1. Head(<<"stopIntent">>) = "stopIntent" OBVIOUS
      <4>. QED BY <2>2, <2>4, <4>1, Zenon
    <3>2. stopper = <<"stopProxies", "stopIntent">> BY <2>4, <3>1 DEF GoesOnToStop
    <3>3. Tail(<<"stopProxies", "stopIntent">>) = <<"stopIntent">> OBVIOUS
    <3>. QED BY <2>3, <2>4, <3>2, <3>3, Zenon
  <2>. QED BY <2>1, <2>3, <2>4, Zenon
<1>3. CASE PumpStep \/ PeerAnswers
  <2>1. UNCHANGED <<running, stopper>>
    BY <1>3, Zenon DEF PumpStep, PeerAnswers, PumpGoesOn, Resolve, EndPump, Answered, screens
  <2>2. \/ answered' = answered
        \/ \E t \in Tokens : t \notin running /\ answered' = answered \ {t}
        \/ \E t \in Tokens : answered' = answered \cup {t}
    BY <1>3, Zenon DEF PumpStep, PeerAnswers, PumpGoesOn, Resolve, EndPump, Answered
  <2>. QED BY <2>1, <2>2 DEF Works
<1>. QED BY <1>1, <1>2, <1>3

\* What the planes' places say where the pump is spawned, and awaited.
LEMMA AwaitFacts ==
    ASSUME PlaneInv, worker # Idle, NEW i \in {9, 10}, At(worker, "wireguard", i)
    PROVE  tunnel = worker.token /\ (i = 9 => active = Nobody)
<1>0. "wireguard" \in PlanNames BY DEF PlanNames, Openings
<1>1. Plan("wireguard")[9] = "spawnPump" /\ Plan("wireguard")[10] = "await" BY DEF Plan
<1>2. PICK name \in PlanNames, j \in Nat : At(worker, name, j) /\ PlaneFacts(name, j)
  BY Zenon DEF PlaneInv
<1>3. Head(worker.steps) = Plan("wireguard")[i] BY <1>0, AtHead
<1>4. CASE i = 9
  <2>1. Head(worker.steps) = "spawnPump" BY <1>1, <1>3, <1>4, Zenon
  <2>2. Where(name, j, "spawnPump") BY <1>2, <2>1, HeadWhere
  <2>3. name = "wireguard" /\ j = 9 BY <2>2 DEF Where
  <2>. QED BY <1>2, <1>4, <2>3 DEF PlaneFacts, PumpStopped, Openings
<1>5. CASE i = 10
  <2>1. Head(worker.steps) = "await" BY <1>1, <1>3, <1>5, Zenon
  <2>2. Where(name, j, "await") BY <1>2, <2>1, HeadWhere
  <2>3. name = "wireguard" /\ j = 10 BY <2>2 DEF Where
  <2>. QED BY <1>2, <1>5, <2>3 DEF PlaneFacts, Openings
<1>. QED BY <1>4, <1>5

\* The flag is up for this session's pump only.
LEMMA FlagKept ==
    ASSUME TypeOK, PlaneInv, TorStep \/ CutStep \/ PumpStep \/ PeerAnswers,
           worker # Idle, NEW i \in {9, 10}, At(worker, "wireguard", i),
           i = 9 => ~ handshakeOk,
           i = 10 /\ handshakeOk => Works(worker.token)
    PROVE  /\ i = 9 => ~ handshakeOk'
           /\ i = 10 /\ handshakeOk' => Works(worker.token)'
<1>1. /\ tunnel = worker.token /\ (i = 9 => active = Nobody)
      /\ PlaneHasTunnel /\ running \subseteq Tokens
  <2>1. running \subseteq Tokens BY TypeParts, Zenon DEF NativeTypes
  <2>. QED BY <2>1, AwaitFacts, Zenon DEF PlaneInv
<1>2. \A t \in running : i = 10 /\ t = worker.token
  BY <1>1, NobodyNoToken DEF PlaneHasTunnel
<1>0. worker' = worker BY OthersLeaveTheWorker
<1>3. CASE UNCHANGED <<running, answered, handshakeOk>> BY <1>0, <1>3, Zenon DEF Works
<1>4. CASE TorStep
  <2>1. UNCHANGED <<running, answered, handshakeOk>>
    BY <1>4, Zenon DEF TorStep, native, wireguard, StopTor, Launch
  <2>. QED BY <1>3, <2>1
<1>5. CASE CutStep
  <2>1. PICK step : Stopping(step) BY <1>5, Zenon DEF CutStep
  <2>2. handshakeOk' = FALSE \/ UNCHANGED <<running, answered, handshakeOk>>
    BY <2>1, Zenon DEF Stopping, StopWireguard, StopProxies, StopSocks, StopOutline, StopTor,
       wireguard
  <2>. QED BY <1>3, <2>2
<1>6. CASE PeerAnswers
  <2>1. PICK t \in Tokens : Answered(t) BY <1>6, Zenon DEF PeerAnswers
  <2>2. /\ t \in running /\ running' = running /\ answered' = answered \cup {t}
    BY <2>1 DEF Answered
  <2>3. i = 10 /\ t = worker.token BY <1>2, <2>2
  <2>. QED BY <1>0, <2>2, <2>3 DEF Works
<1>7. CASE PumpStep
  <2>1. PICK t \in Tokens : Resolve(t) \/ EndPump(t) BY <1>7, Zenon DEF PumpStep, PumpGoesOn
  <2>2. handshakeOk' = FALSE \/ UNCHANGED <<running, answered, handshakeOk>>
    BY <2>1, Zenon DEF Resolve, EndPump
  <2>. QED BY <1>3, <2>2
<1>. QED BY <1>4, <1>5, <1>6, <1>7

LEMMA OutsideReport ==
    ASSUME TypeOK, PlaneInv, ReportInv, TorStep \/ CutStep \/ PumpStep \/ PeerAnswers
    PROVE  ReportInv'
<1>1. SimpleFacts /\ GoesOnToStop /\ OneAfterTheOther BY ReportParts
<1>2. SimpleFacts' BY <1>1, OutsideSimple
<1>3. UNCHANGED service BY Zenon DEF TorStep, CutStep, PumpStep, PeerAnswers
<1>4. UNCHANGED <<sessions, current, queue, main, worker, tunnel, runningFlag, lastStatus, shown>>
  BY <1>3, Zenon DEF service, gate, reports
<1>5. ASSUME NEW token, WorksUnlessStopping(token) PROVE WorksUnlessStopping(token)'
  <2>1. KindOfToken(token)' = KindOfToken(token) BY <1>4, Zenon DEF KindOfToken
  <2>2. SUFFICES ASSUME KindOfToken(token) = "wireguard"
                 PROVE  stopper' = <<>> => Works(token)'
    BY <2>1, Zenon DEF WorksUnlessStopping
  <2>3. stopper = <<>> => Works(token) BY <1>5, <2>2, Zenon DEF WorksUnlessStopping
  <2>. QED BY <1>1, <2>3, WorksOn, Zenon
<1>6. OneAfterTheOther'
  <2>1. SUFFICES ASSUME current' # Nobody PROVE OneAfterTheOther' BY OneElsewhere
  <2>2. /\ \A i \in 1 .. Len(queue) :
              queue[i] = current =>
                  /\ i = Len(queue) /\ main.steps = <<>>
                  /\ worker.token # current /\ tunnel # current
        /\ worker.token = current \/ tunnel = current => main.steps = <<>> /\ queue = <<>>
        /\ tunnel = current =>
              \/ worker.token = current
              \/ worker = Idle /\ Settled /\ WorksUnlessStopping(current)
    BY <1>1, <1>4, <2>1, Zenon DEF OneAfterTheOther
  <2>3. tunnel = current =>
              \/ worker.token = current
              \/ worker = Idle /\ Settled /\ WorksUnlessStopping(current)'
    <3>1. WorksUnlessStopping(current) => WorksUnlessStopping(current)'
      BY <1>4, <1>5, Zenon DEF WorksUnlessStopping, KindOfToken, Works
    <3>. QED BY <2>2, <3>1, Zenon
  <2>4. Settled => Settled' BY <1>4, Zenon DEF Settled
  <2>. QED BY <1>4, <2>2, <2>3, <2>4, Zenon DEF OneAfterTheOther
<1>7. CASE worker = Idle BY <1>2, <1>4, <1>6, <1>7, ReportNextIdle, Zenon
<1>8. CASE worker # Idle
  <2>1. PICK name \in PlanNames, i \in Nat : At(worker, name, i) /\ ReportFacts(name, i)
    BY <1>8, ReportParts
  <2>2. At(worker', name, i) BY <1>4, <2>1, Zenon
  <2>3. /\ name = "wireguard" /\ i = 9 => ~ handshakeOk'
        /\ name = "wireguard" /\ i = 10 /\ handshakeOk' => Works(worker.token)'
    <3>1. /\ name = "wireguard" /\ i = 9 => ~ handshakeOk
          /\ name = "wireguard" /\ i = 10 /\ handshakeOk => Works(worker.token)
      BY <2>1, Zenon DEF ReportFacts
    <3>2. CASE name = "wireguard" /\ i \in {9, 10}
      <4>1. /\ At(worker, "wireguard", i) /\ i \in {9, 10} /\ (i = 9 => ~ handshakeOk)
            /\ (i = 10 /\ handshakeOk => Works(worker.token))
        BY <2>1, <3>1, <3>2, Zenon
      <4>2. /\ i = 9 => ~ handshakeOk'
            /\ i = 10 /\ handshakeOk' => Works(worker.token)'
        BY <1>8, <4>1, FlagKept, Zenon
      <4>. QED BY <4>2, Zenon
    <3>3. CASE ~ (name = "wireguard" /\ i \in {9, 10})
      <4>1. ~ (name = "wireguard" /\ i = 9) /\ ~ (name = "wireguard" /\ i = 10) BY <3>3
      <4>. QED BY <4>1, Zenon
    <3>. QED BY <3>2, <3>3
  <2>4. /\ name \in Openings => name = KindOfToken(worker.token)
        /\ name = "cleanUp" => worker.token # current \/ current = Nobody
        /\ name = "error" /\ i >= 6 => tunnel = Nobody
        /\ worker.token = current =>
              /\ name = "ok" /\ i >= 2 => runningFlag
              /\ name = "ok" /\ i >= 3 => lastStatus = "OK"
              /\ Reporting(name, i) => WorksUnlessStopping(worker.token)
    BY <2>1, Zenon DEF ReportFacts
  <2>5. worker.token = current /\ Reporting(name, i) => WorksUnlessStopping(worker.token)'
    BY <1>4, <1>5, <2>4, Zenon DEF WorksUnlessStopping, KindOfToken, Works
  <2>6. ReportFacts(name, i)'
    BY <1>4, <2>3, <2>4, <2>5, Zenon DEF ReportFacts, KindOfToken, Works, WorksUnlessStopping,
       Reporting, Openings
  <2>. QED BY <1>2, <1>6, <2>2, <2>6, ReportNext
<1>. QED BY <1>7, <1>8

\* The worker goes on with the session it has, or drops it.
LEMMA OneGoesOn ==
    ASSUME OneAfterTheOther, worker # Idle, UNCHANGED <<current, queue, main>>,
           Same \/ worker' = Idle,
           tunnel' = current /\ current # Nobody => tunnel = current \/ worker.token = current,
           worker' = Idle /\ current # Nobody /\ worker.token = current /\ tunnel' = current
             => Settled' /\ WorksUnlessStopping(current)'
    PROVE  OneAfterTheOther'
<1>1. SUFFICES ASSUME current' # Nobody PROVE OneAfterTheOther' BY OneElsewhere
<1>2. /\ \A i \in 1 .. Len(queue) :
            queue[i] = current =>
                /\ i = Len(queue) /\ main.steps = <<>>
                /\ worker.token # current /\ tunnel # current
      /\ worker.token = current \/ tunnel = current => main.steps = <<>> /\ queue = <<>>
      /\ tunnel = current => worker.token = current
  BY <1>1, Zenon DEF OneAfterTheOther
<1>3. current # Nobody BY <1>1, Zenon
<1>4. worker'.token = current => worker.token = current
  <2>1. worker' = Idle => worker'.token = Nobody BY IdleTyped
  <2>. QED BY <1>3, <2>1, Zenon DEF Same
<1>5. tunnel' = current => worker.token = current BY <1>2, <1>3, Zenon
<1>6. \A i \in 1 .. Len(queue) :
            queue[i] = current =>
                /\ i = Len(queue) /\ main.steps = <<>>
                /\ worker'.token # current /\ tunnel' # current
  BY <1>2, <1>4, <1>5, Zenon
<1>7. worker'.token = current \/ tunnel' = current => main.steps = <<>> /\ queue = <<>>
  BY <1>2, <1>4, <1>5, Zenon
<1>8. tunnel' = current =>
            \/ worker'.token = current
            \/ worker' = Idle /\ Settled' /\ WorksUnlessStopping(current)'
  BY <1>3, <1>5, Zenon DEF Same
<1>. QED BY <1>6, <1>7, <1>8, Zenon DEF OneAfterTheOther

LEMMA OneStays ==
    ASSUME OneAfterTheOther, worker # Idle, worker' # Idle, UNCHANGED current, UNCHANGED queue,
           UNCHANGED main, Same, tunnel' = tunnel \/ tunnel' = Nobody \/ tunnel' = worker.token
    PROVE  OneAfterTheOther'
<1>1. tunnel' = current /\ current # Nobody => tunnel = current \/ worker.token = current
  BY Zenon
<1>2. UNCHANGED <<current, queue, main>> BY Zenon
<1>3. Same \/ worker' = Idle BY Zenon
<1>4. worker' = Idle /\ current # Nobody /\ worker.token = current /\ tunnel' = current
        => Settled' /\ WorksUnlessStopping(current)'
  BY Zenon
<1>. QED BY <1>1, <1>2, <1>3, <1>4, OneGoesOn, Zenon

LEMMA OneDropped ==
    ASSUME OneAfterTheOther, worker # Idle, worker' = Idle, UNCHANGED current, UNCHANGED queue,
           UNCHANGED main, tunnel' = tunnel \/ tunnel' = Nobody,
           worker.token # current \/ current = Nobody \/ tunnel' = Nobody
    PROVE  OneAfterTheOther'
<1>1. tunnel' = current /\ current # Nobody => tunnel = current \/ worker.token = current
  BY Zenon
<1>2. UNCHANGED <<current, queue, main>> BY Zenon
<1>3. Same \/ worker' = Idle BY Zenon
<1>4. worker' = Idle /\ current # Nobody /\ worker.token = current /\ tunnel' = current
        => Settled' /\ WorksUnlessStopping(current)'
  BY Zenon
<1>. QED BY <1>1, <1>2, <1>3, <1>4, OneGoesOn, Zenon

LEMMA TakeReport ==
    ASSUME TypeOK, ReportInv, Take
    PROVE  ReportInv'
<1>1. GateTypes /\ QueueTypes /\ SimpleFacts /\ Begun /\ OneAfterTheOther BY TypeParts, ReportParts
<1>2. SimpleFacts' BY <1>1, WorkerSimple DEF WorkerStep
<1>3. UNCHANGED <<gate, main, stopper, tunnel, native, reports>> BY Zenon DEF Take, screens
<1>4. UNCHANGED <<sessions, current, main, tunnel>> BY <1>3, Zenon DEF gate
<1>5. /\ queue # <<>> /\ queue' = Tail(queue)
      /\ worker'.token = Head(queue)
  BY <1>1, TakeMoves, NobodyNoToken, Zenon
<1>6. /\ Head(queue) = queue[1] /\ 1 \in 1 .. Len(queue) /\ Len(queue) \in Nat
      /\ Len(queue') = Len(queue) - 1 /\ queue' \in Seq(Tokens \cup {Cleanup})
      /\ \A i \in 1 .. Len(queue') : queue'[i] = queue[i + 1]
  BY <1>1, <1>5 DEF QueueTypes
<1>7. OneAfterTheOther'
  <2>1. SUFFICES ASSUME current' # Nobody PROVE OneAfterTheOther' BY OneElsewhere
  <2>2. current # Nobody BY <1>4, <2>1, Zenon
  <2>3. /\ \A i \in 1 .. Len(queue) :
              queue[i] = current =>
                  i = Len(queue) /\ main.steps = <<>> /\ tunnel # current
        /\ tunnel # current
    <3>1. /\ \A i \in 1 .. Len(queue) :
                queue[i] = current =>
                    /\ i = Len(queue) /\ main.steps = <<>>
                    /\ worker.token # current /\ tunnel # current
          /\ worker.token = current \/ tunnel = current => main.steps = <<>> /\ queue = <<>>
      BY <1>1, <2>2, Zenon DEF OneAfterTheOther
    <3>. QED BY <1>5, <3>1, Zenon
  <2>4. \A i \in 1 .. Len(queue') : queue'[i] = current =>
           i = Len(queue') /\ main.steps = <<>> /\ worker'.token # current
    <3>1. SUFFICES ASSUME NEW i \in 1 .. Len(queue'), queue'[i] = current
                   PROVE  i = Len(queue') /\ main.steps = <<>> /\ worker'.token # current
      OBVIOUS
    <3>2. i + 1 \in 1 .. Len(queue) /\ queue[i + 1] = current BY <1>6, <3>1
    <3>3. i + 1 = Len(queue) /\ main.steps = <<>> BY <2>3, <3>2
    <3>4. queue[1] # current
      <4>1. 1 # Len(queue) BY <3>1, <3>3
      <4>. QED BY <1>6, <2>3, <4>1
    <3>5. worker'.token # current BY <1>5, <1>6, <3>4, Zenon
    <3>6. Len(queue') = Len(queue) - 1 /\ Len(queue) \in Nat BY <1>6, Zenon
    <3>7. i = Len(queue') BY <3>1, <3>3, <3>6
    <3>. QED BY <3>3, <3>5, <3>7
  <2>5. worker'.token = current => main.steps = <<>> /\ queue' = <<>>
    <3>1. SUFFICES ASSUME worker'.token = current PROVE main.steps = <<>> /\ queue' = <<>>
      BY Zenon
    <3>2. 1 = Len(queue) /\ main.steps = <<>> BY <1>5, <1>6, <2>3, <3>1, Zenon
    <3>3. Len(queue') = Len(queue) - 1 /\ queue' \in Seq(Tokens \cup {Cleanup})
      BY <1>6, Zenon
    <3>4. Len(queue') = 0 BY <3>2, <3>3
    <3>5. queue' = <<>>
      <4>1. queue' \in Seq(Tokens \cup {Cleanup}) BY <3>3
      <4>. QED BY <3>4, <4>1
    <3>. QED BY <3>2, <3>5
  <2>. QED BY <1>4, <2>3, <2>4, <2>5, Zenon DEF OneAfterTheOther
<1>8. CASE Head(queue) = Cleanup
  <2>1. At(worker', "cleanUp", 1) /\ worker'.token = Nobody
    BY <1>1, <1>8, TakeMoves, NobodyNoToken, Zenon
  <2>2. "cleanUp" \in PlanNames /\ "cleanUp" \notin Openings \cup {"wireguard", "error", "ok"}
    BY DEF PlanNames, Openings
  <2>3. ReportFacts("cleanUp", 1)'
    <3>1. worker'.token # current' \/ current' = Nobody BY <2>1
    <3>2. "cleanUp" \notin Openings /\ "cleanUp" # "wireguard" /\ "cleanUp" # "error" /\ "cleanUp" # "ok"
      BY <2>2
    <3>. QED BY <3>1, <3>2, Zenon DEF ReportFacts, Reporting, Openings
  <2>. QED BY <1>2, <1>7, <2>1, <2>2, <2>3, ReportNext
<1>9. CASE Head(queue) # Cleanup
  <2>1. PICK name \in Openings :
           /\ At(worker', name, 1)
           /\ KindOfToken(Head(queue)) \in Openings => name = KindOfToken(Head(queue))
    BY <1>1, <1>9, TakeMoves, Zenon
  <2>2. KindOfToken(Head(queue)) \in Openings
    <3>1. Head(queue) \in 1 .. LastToken
      <4>1. Head(queue) \in 0 .. LastToken /\ Head(queue) # 0
        BY <1>1, <1>6, <1>9 DEF Begun, Cleanup
      <4>2. LastToken \in Nat BY <1>1, SessionsCount
      <4>. QED BY <4>1, <4>2
    <3>2. sessions[Head(queue)] \in Profiles BY <1>1, <3>1 DEF GateTypes, LastToken
    <3>. QED BY <3>2, GateAssumption DEF KindOfToken, Openings
  <2>3. name = KindOfToken(worker.token)'
    <3>1. name = KindOfToken(Head(queue)) BY <2>1, <2>2
    <3>. QED BY <1>4, <1>5, <3>1, Zenon DEF KindOfToken
  <2>4. name \in PlanNames /\ name \notin {"cleanUp", "error", "ok"} /\ 1 # Len(Plan(name))
    BY OpeningEnds DEF Openings
  <2>5. ReportFacts(name, 1)'
    <3>1. name # "cleanUp" /\ name # "error" /\ name # "ok" BY <2>4
    <3>2. 1 # 9 /\ 1 # 10 OBVIOUS
    <3>. QED BY <2>3, <2>4, <3>1, <3>2, Zenon DEF ReportFacts, Reporting, Openings, Plan
  <2>6. 1 \in Nat OBVIOUS
  <2>. QED BY <1>2, <1>7, <2>1, <2>4, <2>5, <2>6, ReportNext
<1>. QED BY <1>8, <1>9

\* What is asked for at a place that the worker reaches by its own step.
LEMMA FactsOfFailed ==
    ASSUME NEW i
    PROVE  ReportFacts("failed", i)'
<1>1. "failed" \notin Openings /\ "failed" # "cleanUp" /\ "failed" # "error"
      /\ "failed" # "wireguard" /\ "failed" # "ok"
  BY DEF Openings
<1>. QED BY <1>1, Zenon DEF ReportFacts, Reporting, Openings

LEMMA FactsOfOpening ==
    ASSUME NEW name \in Openings, NEW i, i # Len(Plan(name)), UNCHANGED <<sessions>>, Same,
           name = KindOfToken(worker.token),
           name = "wireguard" => i # 9 /\ i # 10
    PROVE  ReportFacts(name, i)'
<1>1. name # "cleanUp" /\ name # "error" /\ name # "ok" BY DEF Openings
<1>2. name = KindOfToken(worker.token)' BY Zenon DEF KindOfToken, Same
<1>. QED BY <1>1, <1>2, Zenon DEF ReportFacts, Reporting, Openings, Plan

LEMMA FactsOfError ==
    ASSUME NEW i, i >= 6 => tunnel' = Nobody
    PROVE  ReportFacts("error", i)'
<1>1. "error" \notin Openings /\ "error" # "cleanUp" /\ "error" # "wireguard" /\ "error" # "ok"
  BY DEF Openings
<1>. QED BY <1>1, Zenon DEF ReportFacts, Reporting, Openings

LEMMA FactsOfCleanUp ==
    ASSUME NEW i, worker.token # current \/ current = Nobody, Same, UNCHANGED current
    PROVE  ReportFacts("cleanUp", i)'
<1>1. "cleanUp" \notin Openings /\ "cleanUp" # "error" /\ "cleanUp" # "wireguard" /\ "cleanUp" # "ok"
  BY DEF Openings
<1>2. worker'.token # current' \/ current' = Nobody BY Zenon DEF Same
<1>. QED BY <1>1, <1>2, Zenon DEF ReportFacts, Reporting, Openings

\* The worker at a place of which that is known.
Told(name, i) ==
    /\ At(worker, name, i) /\ ReportFacts(name, i)
    /\ worker \in Thread /\ worker # Idle
    /\ OneAfterTheOther /\ SimpleFacts'
    /\ name \in Openings => name = KindOfToken(worker.token)

LEMMA CheckReport ==
    ASSUME GateInv, NEW name \in PlanNames, NEW i \in Nat, Told(name, i), Check
    PROVE  ReportInv'
<1>1. /\ At(worker, name, i) /\ worker \in Thread /\ worker # Idle
      /\ OneAfterTheOther /\ SimpleFacts'
      /\ name \in Openings => name = KindOfToken(worker.token)
  BY Zenon DEF Told
<1>2. /\ name \in Openings
      /\ \/ IsCurrent(worker.token) /\ At(worker', name, 2) /\ Same
         \/ ~ IsCurrent(worker.token) /\ worker' = Idle
  BY <1>1, CheckMoves, Zenon
<1>3. UNCHANGED <<sessions, current, queue, main, tunnel>> BY Zenon DEF Check, gate
<1>4. ~ IsCurrent(worker.token) => worker.token # current \/ current = Nobody
  BY DEF GateInv, IsCurrent
<1>5. UNCHANGED sessions /\ UNCHANGED current /\ UNCHANGED queue /\ UNCHANGED main
      /\ UNCHANGED tunnel
  BY <1>3, Zenon
<1>6. CASE At(worker', name, 2) /\ Same
  <2>0. worker' # Idle
    <3>1. worker'.steps # <<>> BY <1>6, AtHead
    <3>. QED BY <3>1, IdleTyped
  <2>1. 2 # Len(Plan(name)) /\ 2 # 9 /\ 2 # 10 /\ 2 \in Nat BY <1>2, OpeningEnds
  <2>2. ReportFacts(name, 2)' BY <1>1, <1>2, <1>3, <1>6, <2>1, FactsOfOpening
  <2>3. OneAfterTheOther' BY <1>1, <1>5, <1>6, <2>0, OneStays, Zenon
  <2>. QED BY <1>1, <1>6, <2>1, <2>2, <2>3, ReportNext
<1>7. CASE ~ IsCurrent(worker.token) /\ worker' = Idle
  <2>1. OneAfterTheOther' BY <1>1, <1>4, <1>5, <1>7, OneDropped, Zenon
  <2>. QED BY <1>1, <1>7, <2>1, ReportNextIdle
<1>. QED BY <1>2, <1>6, <1>7

LEMMA StopPlanesReport ==
    ASSUME NEW name \in PlanNames, NEW i \in Nat, Told(name, i), StopPlanes
    PROVE  ReportInv'
<1>1. /\ At(worker, name, i) /\ worker \in Thread /\ worker # Idle
      /\ ReportFacts(name, i) /\ OneAfterTheOther /\ SimpleFacts'
      /\ name \in Openings => name = KindOfToken(worker.token)
  BY Zenon DEF Told
<1>2. Stopping(Plan(name)[i]) /\ Goes(name, i) BY <1>1, StopMoves
<1> DEFINE step == Plan(name)[i]
<1>3. Where(name, i, step) /\ Stopping(step) /\ i \in 1 .. Len(Plan(name))
  BY <1>1, <1>2, AtHead, WhereIs
<1> HIDE DEF step
<1>4. /\ name \in Openings \cup {"failed", "error", "cleanUp"}
      /\ name \in Openings => i \in {2, 3, 7, 8, 9}
      /\ name = "wireguard" => i \in {2, 3, 7}
      /\ name = "tor" => i \in {2, 3, 8}
      /\ name = "error" => i \in {3, 4}
      /\ name = "failed" => i = 1
      /\ name = "cleanUp" => i \in {1, 2}
  BY <1>3 DEF Stopping, Where, Openings
<1>5. UNCHANGED <<sessions, current, queue, main, tunnel>> BY Zenon DEF StopPlanes, gate
<1>6. i # Len(Plan(name))
  <2>1. CASE name \in Openings
    <3>1. Len(Plan(name)) \in {10, 11} BY <2>1, OpeningEnds
    <3>2. i # 10 /\ i # 11 BY <1>4, <2>1
    <3>. QED BY <3>1, <3>2, Zenon
  <2>2. CASE name = "failed"
    <3>1. Len(Plan(name)) = 2 BY <2>2, PlanEnds, Zenon
    <3>. QED BY <1>4, <2>2, <3>1
  <2>3. CASE name = "error"
    <3>1. Len(Plan(name)) = 7 BY <2>3, PlanEnds, Zenon
    <3>. QED BY <1>4, <2>3, <3>1
  <2>4. CASE name = "cleanUp"
    <3>1. Len(Plan(name)) = 3 BY <2>4, PlanEnds, Zenon
    <3>. QED BY <1>4, <2>4, <3>1
  <2>. QED BY <1>4, <2>1, <2>2, <2>3, <2>4
<1>7. At(worker', name, i + 1) /\ Same BY <1>2, <1>6, Zenon DEF Goes, Same
<1>8. worker' # Idle
  <2>1. worker'.steps # <<>> BY <1>7, AtHead
  <2>. QED BY <2>1, IdleTyped
<1>9. OneAfterTheOther'
  <2>1. UNCHANGED current /\ UNCHANGED queue /\ UNCHANGED main /\ tunnel' = tunnel
    BY <1>5, Zenon
  <2>. QED BY <1>1, <1>7, <1>8, <2>1, OneStays, Zenon
<1>10. ReportFacts(name, i + 1)'
  <2>1. CASE name \in Openings
    <3>1. i + 1 # Len(Plan(name))
      <4>1. CASE name = "tor"
        <5>1. Len(Plan(name)) = 10 BY <4>1, PlanEnds, Zenon
        <5>2. i + 1 # 10 BY <1>4, <4>1
        <5>. QED BY <5>1, <5>2, Zenon
      <4>2. CASE name # "tor"
        <5>1. Len(Plan(name)) = 11 BY <2>1, <4>2, PlanEnds, Zenon DEF Openings
        <5>2. i + 1 # 11 BY <1>4, <2>1
        <5>. QED BY <5>1, <5>2, Zenon
      <4>. QED BY <4>1, <4>2
    <3>2. name = "wireguard" => i + 1 # 9 /\ i + 1 # 10 BY <1>4
    <3>. QED BY <1>1, <1>5, <1>7, <2>1, <3>1, <3>2, FactsOfOpening
  <2>2. CASE name = "failed" BY <2>2, FactsOfFailed, Zenon
  <2>3. CASE name = "error"
    <3>1. ~ (i + 1 >= 6) BY <1>4, <2>3
    <3>. QED BY <2>3, <3>1, FactsOfError, Zenon
  <2>4. CASE name = "cleanUp"
    <3>1. worker.token # current \/ current = Nobody BY <1>1, <2>4, Zenon DEF ReportFacts
    <3>. QED BY <1>5, <1>7, <2>4, <3>1, FactsOfCleanUp, Zenon
  <2>. QED BY <1>4, <2>1, <2>2, <2>3, <2>4
<1>11. i + 1 \in Nat OBVIOUS
<1>. QED BY <1>1, <1>7, <1>9, <1>10, <1>11, ReportNext

LEMMA CloseReport ==
    ASSUME NEW name \in PlanNames, NEW i \in Nat, Told(name, i), CloseFd
    PROVE  ReportInv'
<1>1. /\ At(worker, name, i) /\ worker \in Thread /\ worker # Idle
      /\ ReportFacts(name, i) /\ OneAfterTheOther /\ SimpleFacts'
      /\ name \in Openings => name = KindOfToken(worker.token)
  BY Zenon DEF Told
<1>2. /\ \/ name \in Openings \cup {"error"} /\ i = 5
         \/ name = "cleanUp" /\ i = 3
      /\ Goes(name, i)
  BY <1>1, CloseMoves
<1>3. UNCHANGED <<sessions, current, queue, main>> /\ tunnel' = Nobody BY Zenon DEF CloseFd, gate
<1>4. Same \/ worker' = Idle BY <1>2, Zenon DEF Goes, Same
<1>5. OneAfterTheOther'
  <2>1. UNCHANGED current /\ UNCHANGED queue /\ UNCHANGED main /\ tunnel' = Nobody
    BY <1>3, Zenon
  <2>. QED BY <1>1, <1>4, <2>1, OneStays, OneDropped, Zenon
<1>6. CASE worker' = Idle BY <1>1, <1>5, <1>6, ReportNextIdle
<1>7. CASE worker' # Idle
  <2>1. At(worker', name, i + 1) /\ Same /\ i # Len(Plan(name))
    BY <1>2, <1>7, Zenon DEF Goes, Same
  <2>2. i = 5 /\ name \in Openings \cup {"error"} BY <1>2, <2>1, PlanEnds, Zenon
  <2>3. At(worker', name, 6) /\ 6 \in Nat BY <2>1, <2>2
  <2>4. ReportFacts(name, 6)'
    <3>1. CASE name \in Openings
      <4>1. 6 # Len(Plan(name)) /\ 6 # 9 /\ 6 # 10 BY <3>1, OpeningEnds
      <4>. QED BY <1>1, <1>3, <2>1, <3>1, <4>1, FactsOfOpening
    <3>2. CASE name = "error" BY <1>3, <3>2, FactsOfError, Zenon
    <3>. QED BY <2>2, <3>1, <3>2
  <2>. QED BY <1>1, <1>5, <2>3, <2>4, ReportNext
<1>. QED BY <1>6, <1>7

LEMMA ConfigureReport ==
    ASSUME NEW name \in PlanNames, NEW i \in Nat, Told(name, i), Configure
    PROVE  ReportInv'
<1>1. /\ At(worker, name, i) /\ worker \in Thread /\ worker # Idle
      /\ OneAfterTheOther /\ SimpleFacts'
      /\ name \in Openings => name = KindOfToken(worker.token)
  BY Zenon DEF Told
<1>2. /\ name \in Openings
      /\ At(worker', name, 5) \/ At(worker', "failed", 2)
      /\ Same
  BY <1>1, ConfigureMoves, Zenon
<1>3. UNCHANGED <<sessions, current, queue, main, tunnel>> BY Zenon DEF Configure, gate
<1>4. "failed" \in PlanNames BY DEF PlanNames
<1>5. worker' # Idle
  <2>1. worker'.steps # <<>> BY <1>2, <1>4, AtHead
  <2>. QED BY <2>1, IdleTyped
<1>6. OneAfterTheOther'
  <2>1. UNCHANGED current /\ UNCHANGED queue /\ UNCHANGED main BY <1>3, Zenon
  <2>2. tunnel' = tunnel \/ tunnel' = worker.token BY <1>2, <1>3, Zenon
  <2>. QED BY <1>1, <1>2, <1>5, <2>1, <2>2, OneStays, Zenon
<1>7. CASE At(worker', name, 5)
  <2>1. 5 # Len(Plan(name)) /\ 5 # 9 /\ 5 # 10 /\ 5 \in Nat BY <1>2, OpeningEnds
  <2>2. ReportFacts(name, 5)' BY <1>1, <1>2, <1>3, <2>1, FactsOfOpening
  <2>. QED BY <1>1, <1>6, <1>7, <2>1, <2>2, ReportNext
<1>8. CASE At(worker', "failed", 2)
  <2>1. 2 \in Nat OBVIOUS
  <2>. QED BY <1>1, <1>4, <1>6, <1>8, <2>1, FactsOfFailed, ReportNext
<1>. QED BY <1>2, <1>7, <1>8

LEMMA EstablishReport ==
    ASSUME NEW name \in PlanNames, NEW i \in Nat, Told(name, i), Establish
    PROVE  ReportInv'
<1>1. /\ At(worker, name, i) /\ worker \in Thread /\ worker # Idle
      /\ OneAfterTheOther /\ SimpleFacts'
      /\ name \in Openings => name = KindOfToken(worker.token)
  BY Zenon DEF Told
<1>2. /\ name \in Openings
      /\ \/ tunnel' = worker.token /\ At(worker', name, 7)
         \/ tunnel' = tunnel /\ At(worker', "failed", 2)
      /\ Same
  BY <1>1, EstablishMoves, Zenon
<1>3. UNCHANGED <<sessions, current, queue, main>> BY Zenon DEF Establish, gate
<1>4. "failed" \in PlanNames BY DEF PlanNames
<1>5. worker' # Idle
  <2>1. worker'.steps # <<>> BY <1>2, <1>4, AtHead
  <2>. QED BY <2>1, IdleTyped
<1>6. OneAfterTheOther'
  <2>1. UNCHANGED current /\ UNCHANGED queue /\ UNCHANGED main BY <1>3, Zenon
  <2>2. tunnel' = tunnel \/ tunnel' = worker.token BY <1>2, <1>3, Zenon
  <2>. QED BY <1>1, <1>2, <1>5, <2>1, <2>2, OneStays, Zenon
<1>7. CASE At(worker', name, 7)
  <2>1. 7 # Len(Plan(name)) /\ 7 # 9 /\ 7 # 10 /\ 7 \in Nat BY <1>2, OpeningEnds
  <2>2. ReportFacts(name, 7)' BY <1>1, <1>2, <1>3, <2>1, FactsOfOpening
  <2>. QED BY <1>1, <1>6, <1>7, <2>1, <2>2, ReportNext
<1>8. CASE At(worker', "failed", 2)
  <2>1. 2 \in Nat OBVIOUS
  <2>. QED BY <1>1, <1>4, <1>6, <1>8, <2>1, FactsOfFailed, ReportNext
<1>. QED BY <1>2, <1>7, <1>8

LEMMA FactsOfUp ==
    ASSUME NEW name \in Openings \cup {"ok"}, NEW i, UNCHANGED <<sessions, current, stopper>>, Same,
           name \in Openings => name = KindOfToken(worker.token),
           name = "ok" => i = 1,
           name = "wireguard" => i # 9 /\ i # 10,
           UNCHANGED <<running, answered>>,
           worker.token = current => WorksUnlessStopping(worker.token)
    PROVE  ReportFacts(name, i)'
<1>1. name # "cleanUp" /\ name # "error" BY DEF Openings
<1>2. name \in Openings => name = KindOfToken(worker.token)' BY Zenon DEF KindOfToken, Same
<1>3. worker'.token = current' => WorksUnlessStopping(worker.token)'
  BY Zenon DEF WorksUnlessStopping, Works, KindOfToken, Same
<1>4. ~ (name = "ok" /\ i >= 2) /\ ~ (name = "ok" /\ i >= 3) OBVIOUS
<1>. QED BY <1>1, <1>2, <1>3, <1>4, Zenon DEF ReportFacts, Reporting, Openings, Plan

LEMMA AttachReport ==
    ASSUME NEW name \in PlanNames, NEW i \in Nat, Told(name, i), AttachPlane
    PROVE  ReportInv'
<1>1. /\ At(worker, name, i) /\ worker \in Thread /\ worker # Idle
      /\ ReportFacts(name, i) /\ OneAfterTheOther /\ SimpleFacts'
      /\ name \in Openings => name = KindOfToken(worker.token)
  BY Zenon DEF Told
<1>2. /\ name \in Openings /\ i >= 7 /\ i < Len(Plan(name)) /\ Same
  BY <1>1, AttachMoves, Zenon
<1>3. PICK succeeds \in BOOLEAN :
         /\ Attach(Plan(name)[i], worker.token, succeeds)
         /\ succeeds => At(worker', name, i + 1)
         /\ ~ succeeds => At(worker', "failed", 1) \/ At(worker', "failed", 2)
  BY <1>1, AttachMoves, Zenon
<1>4. UNCHANGED <<sessions, current, queue, main, tunnel, stopper>>
  BY Zenon DEF AttachPlane, gate, screens
<1>5. "failed" \in PlanNames BY DEF PlanNames
<1>6. worker' # Idle
  <2>1. worker'.steps # <<>> BY <1>3, <1>5, AtHead
  <2>. QED BY <2>1, IdleTyped
<1>7. OneAfterTheOther'
  <2>1. UNCHANGED current /\ UNCHANGED queue /\ UNCHANGED main /\ tunnel' = tunnel
    BY <1>4, Zenon
  <2>. QED BY <1>1, <1>2, <1>6, <2>1, OneStays, Zenon
<1>8. CASE ~ succeeds
  <2>1. PICK j \in {1, 2} : At(worker', "failed", j) BY <1>3, <1>8
  <2>2. j \in Nat OBVIOUS
  <2>. QED BY <1>1, <1>5, <1>7, <2>1, <2>2, FactsOfFailed, ReportNext
<1>9. CASE succeeds /\ name # "wireguard"
  <2>1. name \in Openings \cup {"ok"} /\ name # "ok" /\ i + 1 \in Nat BY <1>2 DEF Openings
  <2>2. ReportFacts(name, i + 1)'
    <3>1. name # "cleanUp" /\ name # "error" BY <1>2 DEF Openings
    <3>2. name = KindOfToken(worker.token)' BY <1>1, <1>2, <1>4, Zenon DEF KindOfToken, Same
    <3>3. WorksUnlessStopping(worker.token)'
      BY <1>9, <3>2, Zenon DEF WorksUnlessStopping, KindOfToken, Works
    <3>. QED BY <1>9, <2>1, <3>1, <3>2, <3>3, Zenon DEF ReportFacts, Reporting, Openings, Plan
  <2>3. At(worker', name, i + 1) BY <1>3, <1>9
  <2>. QED BY <1>1, <1>7, <2>1, <2>2, <2>3, ReportNext
<1>10. CASE succeeds /\ name = "wireguard"
  <2>1. At(worker', name, i + 1) /\ i + 1 \in Nat BY <1>3, <1>10
  <2> DEFINE step == Plan(name)[i]
  <2>2. Where(name, i, step) /\ Attach(step, worker.token, succeeds) BY <1>1, <1>3, AtHead, WhereIs
  <2> HIDE DEF step
  <2>3. \/ step = "readProfile" /\ i = 8
        \/ step = "spawnPump" /\ i = 9
        \/ step = "await" /\ i = 10
    BY <1>10, <2>2 DEF Attach, Where
  <2>4. /\ i = 8 => ~ handshakeOk'
        /\ i = 9 => (handshakeOk' => handshakeOk)
        /\ i = 10 => handshakeOk /\ UNCHANGED <<running, answered>>
    <3>1. CASE step = "readProfile" /\ i = 8
      <4>1. ReadProfile(succeeds) BY <2>2, <3>1 DEF Attach
      <4>. QED BY <3>1, <4>1 DEF ReadProfile
    <3>2. CASE step = "spawnPump" /\ i = 9
      <4>1. SpawnPump(worker.token) \/ UNCHANGED native BY <2>2, <3>2 DEF Attach
      <4>2. handshakeOk' = handshakeOk BY <4>1, Zenon DEF SpawnPump, native, wireguard
      <4>. QED BY <3>2, <4>2
    <3>3. CASE step = "await" /\ i = 10
      <4>1. Await(worker.token, succeeds) BY <2>2, <3>3 DEF Attach
      <4>2. handshakeOk /\ UNCHANGED <<running, answered>>
        BY <1>10, <4>1, Zenon DEF Await, native, wireguard
      <4>. QED BY <3>3, <4>2
    <3>. QED BY <2>3, <3>1, <3>2, <3>3
  <2>5. /\ i = 9 => ~ handshakeOk
        /\ i = 10 /\ handshakeOk => Works(worker.token)
    BY <1>1, <1>10, Zenon DEF ReportFacts
  <2>6. /\ i + 1 = 9 => ~ handshakeOk'
        /\ i + 1 = 10 => ~ handshakeOk'
        /\ i + 1 = 11 => Works(worker.token)'
    <3>1. /\ i + 1 = 9 => i = 8
          /\ i + 1 = 10 => i = 9
          /\ i + 1 = 11 => i = 10
      OBVIOUS
    <3>2. i = 10 => Works(worker.token)'
      BY <1>2, <2>4, <2>5, Zenon DEF Works, Same
    <3>. QED BY <2>4, <2>5, <3>1, <3>2, Zenon
  <2>7. Len(Plan(name)) = 11 BY <1>10, PlanEnds, Zenon
  <2>8. name \in Openings /\ name # "cleanUp" /\ name # "error" /\ name # "ok"
    BY <1>10 DEF Openings
  <2>9. name = KindOfToken(worker.token)' BY <1>1, <1>2, <1>4, Zenon DEF KindOfToken, Same
  <2>10. Reporting(name, i + 1) => Works(worker.token)'
    BY <2>6, <2>7, <2>8, Zenon DEF Reporting
  <2>11. (Reporting(name, i + 1) => WorksUnlessStopping(worker.token))'
    BY <2>10, Zenon DEF WorksUnlessStopping, Reporting, Openings, Plan, Works
  <2>12. ReportFacts(name, i + 1)'
    BY <2>6, <2>8, <2>9, <2>11, Zenon DEF ReportFacts, Openings
  <2>. QED BY <1>1, <1>7, <2>1, <2>12, ReportNext
<1>. QED BY <1>8, <1>9, <1>10

LEMMA ReportReport ==
    ASSUME GateInv, NEW name \in PlanNames, NEW i \in Nat, Told(name, i), Report
    PROVE  ReportInv'
<1>1. /\ At(worker, name, i) /\ worker \in Thread /\ worker # Idle
      /\ ReportFacts(name, i) /\ OneAfterTheOther /\ SimpleFacts'
  BY Zenon DEF Told
<1>2. /\ \/ name \in Openings /\ i = Len(Plan(name))
         \/ name = "failed" /\ i = 2
      /\ \/ ~ IsCurrent(worker.token) /\ At(worker', "cleanUp", 1)
         \/ IsCurrent(worker.token) /\ name \in Openings /\ At(worker', "ok", 1)
         \/ IsCurrent(worker.token) /\ name = "failed" /\ At(worker', "error", 1)
      /\ Same
  BY <1>1, ReportMoves, Zenon
<1>3. UNCHANGED <<sessions, current, queue, main, tunnel, stopper>> /\ UNCHANGED native
  BY Zenon DEF Report, gate, screens
<1>4. {"cleanUp", "ok", "error"} \subseteq PlanNames /\ 1 \in Nat BY DEF PlanNames
<1>5. worker' # Idle
  <2>1. worker'.steps # <<>> BY <1>2, <1>4, AtHead
  <2>. QED BY <2>1, IdleTyped
<1>6. OneAfterTheOther'
  <2>1. UNCHANGED current /\ UNCHANGED queue /\ UNCHANGED main /\ tunnel' = tunnel
    BY <1>3, Zenon
  <2>. QED BY <1>1, <1>2, <1>5, <2>1, OneStays, Zenon
<1>7. CASE ~ IsCurrent(worker.token) /\ At(worker', "cleanUp", 1)
  <2>1. worker.token # current \/ current = Nobody BY <1>7 DEF GateInv, IsCurrent
  <2>2. UNCHANGED current BY <1>3, Zenon
  <2>3. ReportFacts("cleanUp", 1)' BY <1>2, <2>1, <2>2, FactsOfCleanUp, Zenon
  <2>. QED BY <1>1, <1>4, <1>6, <1>7, <2>3, ReportNext
<1>8. CASE name \in Openings /\ At(worker', "ok", 1)
  <2>1. Reporting(name, i) BY <1>2, <1>8, Zenon DEF Reporting, Openings
  <2>2. worker.token = current => WorksUnlessStopping(worker.token)
    BY <1>1, <2>1, Zenon DEF ReportFacts
  <2>3. UNCHANGED <<running, answered>> BY <1>3, Zenon DEF native, wireguard
  <2>4. "ok" \in Openings \cup {"ok"} /\ "ok" \notin Openings /\ "ok" # "wireguard" BY DEF Openings
  <2>5. UNCHANGED <<sessions, current, stopper>> BY <1>3, Zenon
  <2>6. ReportFacts("ok", 1)' BY <1>2, <2>2, <2>3, <2>4, <2>5, FactsOfUp
  <2>. QED BY <1>1, <1>4, <1>6, <1>8, <2>6, ReportNext
<1>9. CASE At(worker', "error", 1)
  <2>1. ~ (1 >= 6) OBVIOUS
  <2>2. ReportFacts("error", 1)' BY <2>1, FactsOfError
  <2>. QED BY <1>1, <1>4, <1>6, <1>9, <2>2, ReportNext
<1>. QED BY <1>2, <1>7, <1>8, <1>9

LEMMA WritesReport ==
    ASSUME NEW name \in PlanNames, NEW i \in Nat, Told(name, i), WorkerWrites
    PROVE  ReportInv'
<1>1. /\ At(worker, name, i) /\ worker \in Thread /\ worker # Idle
      /\ ReportFacts(name, i) /\ OneAfterTheOther /\ SimpleFacts'
  BY Zenon DEF Told
<1>2. /\ \/ name = "ok"
         \/ name = "error" /\ i \in {1, 2, 6, 7}
      /\ Goes(name, i) /\ Write(worker) /\ Head(worker.steps) = Plan(name)[i]
  BY <1>1, WriteMoves, Zenon
<1>3. UNCHANGED <<sessions, current, queue, main, tunnel, stopper>> /\ UNCHANGED native
  BY Zenon DEF WorkerWrites, gate, screens
<1>4. UNCHANGED current /\ UNCHANGED queue /\ UNCHANGED main /\ tunnel' = tunnel
  BY <1>3, Zenon
<1>5. i \in 1 .. Len(Plan(name)) BY <1>1, AtHead
<1>6. CASE name = "error"
  <2>1. i \in {1, 2, 6, 7} /\ Len(Plan(name)) = 7
    <3>1. Len(Plan(name)) = 7 BY <1>6, PlanEnds, Zenon
    <3>2. name # "ok" BY <1>6
    <3>. QED BY <1>2, <3>1, <3>2, Zenon
  <2>2. i >= 6 => tunnel = Nobody BY <1>1, <1>6, Zenon DEF ReportFacts
  <2>3. CASE i = 7
    <3>1. worker' = Idle BY <1>2, <2>1, <2>3, Zenon DEF Goes
    <3>2. tunnel' = Nobody BY <1>4, <2>2, <2>3
    <3>3. OneAfterTheOther' BY <1>1, <1>4, <3>1, <3>2, OneDropped, Zenon
    <3>. QED BY <1>1, <3>1, <3>3, ReportNextIdle
  <2>4. CASE i # 7
    <3>1. At(worker', name, i + 1) /\ Same BY <1>2, <2>1, <2>4, Zenon DEF Goes, Same
    <3>2. worker' # Idle
      <4>1. worker'.steps # <<>> BY <3>1, AtHead
      <4>. QED BY <4>1, IdleTyped
    <3>3. OneAfterTheOther' BY <1>1, <1>4, <3>1, <3>2, OneStays, Zenon
    <3>4. i + 1 >= 6 => tunnel' = Nobody BY <1>4, <2>1, <2>2
    <3>5. ReportFacts(name, i + 1)' BY <1>6, <3>4, FactsOfError, Zenon
    <3>6. i + 1 \in Nat OBVIOUS
    <3>. QED BY <1>1, <3>1, <3>3, <3>5, <3>6, ReportNext
  <2>. QED BY <2>3, <2>4
<1>7. CASE name = "ok"
  <2>1. /\ Plan("ok")[1] = "flag" /\ Plan("ok")[2] = "status" /\ Plan("ok")[3] = "show"
        /\ Len(Plan("ok")) = 3
    BY DEF Plan
  <2>2. i \in {1, 2, 3}
    <3>1. i \in 1 .. 3 BY <1>5, <1>7, <2>1, Zenon
    <3>. QED BY <3>1
  <2>3. worker.as = "OK" BY <1>1, <1>7, Zenon DEF At
  <2>4. name \notin Openings /\ name # "cleanUp" /\ name # "error" /\ name # "wireguard"
    BY <1>7 DEF Openings
  <2>5. /\ i = 1 => runningFlag'
        /\ i = 2 => lastStatus' = "OK" /\ runningFlag' = runningFlag
        /\ i = 3 => shown' = "OK" /\ runningFlag' = runningFlag /\ lastStatus' = lastStatus
    BY <1>2, <1>7, <2>1, <2>3 DEF Write
  <2>6. worker.token = current =>
           /\ i >= 2 => runningFlag
           /\ i >= 3 => lastStatus = "OK"
           /\ WorksUnlessStopping(worker.token)
    BY <1>1, <1>7, Zenon DEF ReportFacts, Reporting
  <2>7. worker.token = current =>
           /\ runningFlag'
           /\ i >= 2 => lastStatus' = "OK"
           /\ i >= 3 => shown' = "OK"
    <3>1. CASE i = 1 BY <2>5, <3>1
    <3>2. CASE i = 2 BY <2>5, <2>6, <3>2
    <3>3. CASE i = 3 BY <2>5, <2>6, <3>3
    <3>. QED BY <2>2, <3>1, <3>2, <3>3
  <2>8. WorksUnlessStopping(worker.token) => (\A t : t = worker.token => WorksUnlessStopping(t)')
    BY <1>3, Zenon DEF WorksUnlessStopping, Works, KindOfToken, native, wireguard
  <2>9. CASE i = 3
    <3>1. worker' = Idle BY <1>2, <1>7, <2>1, <2>9, Zenon DEF Goes
    <3>2. worker.token = current => Settled' /\ WorksUnlessStopping(current)'
      <4>1. worker.token = current => Settled' BY <2>7, <2>9 DEF Settled
      <4>2. worker.token = current => WorksUnlessStopping(current)'
        BY <1>4, <2>6, <2>8, Zenon DEF WorksUnlessStopping, Works, KindOfToken
      <4>. QED BY <4>1, <4>2
    <3>3. UNCHANGED <<current, queue, main>> BY <1>3, Zenon
    <3>4. tunnel' = current /\ current # Nobody => tunnel = current \/ worker.token = current
      BY <1>4, Zenon
    <3>5. worker' = Idle /\ current # Nobody /\ worker.token = current /\ tunnel' = current
            => Settled' /\ WorksUnlessStopping(current)'
      BY <3>2, Zenon
    <3>6. Same \/ worker' = Idle BY <3>1, Zenon
    <3>7. OneAfterTheOther' BY <1>1, <3>3, <3>4, <3>5, <3>6, OneGoesOn, Zenon
    <3>. QED BY <1>1, <3>1, <3>7, ReportNextIdle
  <2>10. CASE i # 3
    <3>1. At(worker', name, i + 1) /\ Same BY <1>2, <1>7, <2>1, <2>10, Zenon DEF Goes, Same
    <3>2. worker' # Idle
      <4>1. worker'.steps # <<>> BY <3>1, AtHead
      <4>. QED BY <4>1, IdleTyped
    <3>3. OneAfterTheOther' BY <1>1, <1>4, <3>1, <3>2, OneStays, Zenon
    <3>4. i + 1 >= 3 => i >= 2 BY <2>2
    <3>5. worker'.token = current' =>
             /\ runningFlag'
             /\ i + 1 >= 3 => lastStatus' = "OK"
             /\ WorksUnlessStopping(worker.token)'
      <4>1. worker'.token = current' => worker.token = current BY <1>4, <3>1, Zenon DEF Same
      <4>2. worker.token = current => WorksUnlessStopping(worker.token)'
        BY <2>6, <2>8, <3>1, Zenon DEF WorksUnlessStopping, Works, KindOfToken, Same
      <4>. QED BY <2>7, <3>4, <4>1, <4>2, Zenon
    <3>6. ReportFacts(name, i + 1)'
      BY <2>4, <3>5, Zenon DEF ReportFacts, Openings, Reporting
    <3>7. i + 1 \in Nat OBVIOUS
    <3>. QED BY <1>1, <3>1, <3>3, <3>6, <3>7, ReportNext
  <2>. QED BY <2>9, <2>10
<1>. QED BY <1>2, <1>6, <1>7

LEMMA WorkerReport ==
    ASSUME TypeOK, ReportInv, WorkerStep
    PROVE  ReportInv'
<1>1. worker \in Thread /\ SimpleFacts /\ GateInv /\ OneAfterTheOther BY TypeParts, ReportParts
<1>2. SimpleFacts' BY <1>1, WorkerSimple
<1>3. CASE Take BY <1>3, TakeReport
<1>4. CASE ~ Take
  <2>1. worker.steps # <<>> BY <1>4, Zenon DEF WorkerStep, Check, StopPlanes, CloseFd, Configure,
          Establish, AttachPlane, Report, WorkerWrites, Ready
  <2>2. worker # Idle BY <2>1, IdleTyped
  <2>3. PICK name \in PlanNames, i \in Nat : At(worker, name, i) /\ ReportFacts(name, i)
    BY <2>2, ReportParts
  <2>4. name \in Openings => name = KindOfToken(worker.token) BY <2>3, Zenon DEF ReportFacts
  <2>5. Told(name, i) BY <1>1, <1>2, <2>2, <2>3, <2>4, Zenon DEF Told
  <2>. QED BY <1>1, <1>4, <2>5, CheckReport, StopPlanesReport, CloseReport, ConfigureReport,
         EstablishReport, AttachReport, ReportReport, WritesReport, Zenon DEF WorkerStep
<1>. QED BY <1>3, <1>4

LEMMA ReportStepKept ==
    ASSUME TypeOK, PlaneInv, ReportInv, [Next]_vars
    PROVE  ReportInv'
<1>1. CASE UNCHANGED vars
  <2>1. TorStep BY <1>1, Zenon DEF vars, screens, service, TorStep
  <2>. QED BY <2>1, OutsideReport
<1>. QED BY <1>1, BeginReport, StopReport, MainReport, OutsideReport, WorkerReport, StepKinds, Zenon

LEMMA ReportsStart == Init => ReportInv
<1>1. SUFFICES ASSUME Init PROVE ReportInv OBVIOUS
<1>2. /\ sessions = <<>> /\ current = Nobody /\ stopped = FALSE /\ queue = <<>>
      /\ main = Idle /\ worker = Idle /\ stopper = <<>> /\ tunnel = Nobody
  BY <1>1 DEF Init
<1>3. LastToken = 0 /\ Nobody = 0 BY <1>2 DEF LastToken, Nobody
<1>4. GateInv BY <1>2, <1>3 DEF GateInv
<1>5. Begun
  <2>1. worker.token = 0 /\ main.token = 0 /\ tunnel = 0 BY <1>2, <1>3, IdleTyped, Zenon
  <2>2. 1 .. Len(queue) = {} BY <1>2
  <2>. QED BY <1>3, <2>1, <2>2 DEF Begun
<1>6. HandedOver
  <2>1. main.steps = <<>> BY <1>2, IdleTyped, Zenon
  <2>. QED BY <2>1 DEF HandedOver
<1>7. GoesOnToStop BY <1>2 DEF GoesOnToStop
<1>8. OneAfterTheOther BY <1>2, Zenon DEF OneAfterTheOther
<1>. QED BY <1>2, <1>4, <1>5, <1>6, <1>7, <1>8, Zenon DEF ReportInv

(***************************************************************************)
(* When all is done, an open tunnel of the current session is reported as  *)
(* connected, and a pump that works is behind it: no stop, start or        *)
(* failure, however they meet, leaves the service saying anything else.    *)
(***************************************************************************)
THEOREM OpenIsAlwaysReported == Spec => []OpenIsReported
<1>1. Init => TypeOK /\ Located /\ PlaneInv /\ ReportInv
  BY StartsTyped, PlanesStart, ReportsStart DEF Located
<1>2. TypeOK /\ Located /\ PlaneInv /\ ReportInv /\ [Next]_vars
        => TypeOK' /\ Located' /\ PlaneInv' /\ ReportInv'
  BY StepsTyped, PlanesStepKept, ReportStepKept
<1>3. TypeOK /\ Located /\ ReportInv => OpenIsReported
  <2>1. SUFFICES ASSUME Located, ReportInv, Drained, IsCurrent(tunnel)
                 PROVE  /\ Settled
                        /\ KindOfToken(tunnel) = "wireguard" => Works(tunnel)
    BY Zenon DEF OpenIsReported, Settled, Works
  <2>2. worker = Idle /\ stopper = <<>> BY <2>1, NothingIsIdle DEF Drained
  <2>3. current # Nobody /\ tunnel = current BY <2>1 DEF IsCurrent
  <2>4. worker.token # current BY <2>2, <2>3, IdleTyped
  <2>5. Settled /\ WorksUnlessStopping(current)
    BY <2>1, <2>3, <2>4, ReportParts, Zenon DEF OneAfterTheOther
  <2>. QED BY <2>2, <2>3, <2>5, Zenon DEF WorksUnlessStopping
<1>. QED BY <1>1, <1>2, <1>3, PTL DEF Spec
=============================================================================
