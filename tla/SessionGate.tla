---------------------------- MODULE SessionGate ----------------------------
(***************************************************************************)
(* The Android VPN service (VpnSessionGate.java, ZeroNodeVpnService.java)  *)
(* over the native data planes.  The main thread begins and stops sessions *)
(* and returns at once; one worker thread opens and closes tunnels, for    *)
(* seconds, from a queue.  The gate, under its lock, says which session is *)
(* current.  Everything else the two threads share is a volatile that each *)
(* of them just writes.                                                    *)
(*                                                                         *)
(* Two threads of the screens (MainActivity.java) call the data planes     *)
(* past the service: one starts Tor's proxy before there is a session, one *)
(* stops everything before it tells the service to.                        *)
(*                                                                         *)
(* A thread has the steps before it that are left of what it is doing.     *)
(***************************************************************************)
EXTENDS NativePlane

CONSTANTS Profiles,   \* the stored connections
          KindOf,     \* their kinds: "wireguard", "outline", "tor"
          Orders      \* TLC only: in which orders they are ever connected

ASSUME GateAssumption ==
    /\ KindOf \in [Profiles -> {"wireguard", "outline", "tor"}]
    /\ \A order \in Orders : order \in Seq(Profiles) /\ Len(order) <= MaxTokens

VARIABLES
    sessions,     \* the profiles of the tokens, which are numbered
    current,      \* the gate's token, or Nobody
    stopped,      \* the gate was stopped and no session begun since
    queue,        \* of the worker: tokens, and Cleanup
    main, worker, \* the two threads: [steps, as, token]
    starter,      \* what connectTorFull's thread has left to do
    stopper,      \* what disconnectAll's thread has left to do
    tunnel,       \* whose descriptor of the tunnel is open, or Nobody
    runningFlag, lastStatus,
    shown,        \* the last state broadcast to the screens
    leaving       \* stopSelf was called and no start came since

gate    == <<sessions, current, stopped>>
screens == <<starter, stopper>>
reports == <<runningFlag, lastStatus, shown>>
vars == <<gate, queue, main, worker, screens, tunnel, native, reports, leaving>>

Cleanup == 0

Status == {"IDLE", "CONNECTING", "OK", "ERR"}

NativeStops == {"stopWg", "stopSocks", "stopOutline", "stopTor", "stopProxies"}

Attachments == {"readProfile", "spawnPump", "await", "serve", "torPort", "route"}

Steps == {"flag", "status", "show", "stopSelf", "stopSelfId", "enqueue",
          "check", "configure", "closeFd", "establish", "report"}
         \cup NativeStops \cup Attachments

Thread == [steps : Seq(Steps), as : Status, token : Tokens \cup {Nobody}]

Idle == [steps |-> <<>>, as |-> "IDLE", token |-> Nobody]

Doing(steps, as, token) == [steps |-> steps, as |-> as, token |-> token]

Init ==
    /\ sessions = <<>> /\ current = Nobody /\ stopped = FALSE
    /\ queue = <<>> /\ main = Idle /\ worker = Idle
    /\ starter = <<>> /\ stopper = <<>>
    /\ tunnel = Nobody
    /\ NativeInit
    /\ runningFlag = FALSE /\ lastStatus = "IDLE" /\ shown = "IDLE"
    /\ leaving = FALSE

LastToken == Len(sessions)

KindOfToken(token) == KindOf[sessions[token]]

IsCurrent(token) == ~ stopped /\ token # Nobody /\ current = token

-----------------------------------------------------------------------------
(***************************************************************************)
(* What the main thread is called for.                                     *)
(***************************************************************************)

MayBegin(p) ==
    \E order \in Orders :
        /\ LastToken < Len(order)
        /\ SubSeq(order, 1, LastToken + 1) = Append(sessions, p)

\* Variant for the model checker: a gate that was stopped stays stopped.
BeginStopped(p) ==
    /\ MayBegin(p)
    /\ sessions' = Append(sessions, p)
    /\ current' = LastToken + 1
    /\ UNCHANGED stopped

\* `begin`
Begin(p) ==
    /\ MayBegin(p)
    /\ sessions' = Append(sessions, p)
    /\ current' = LastToken + 1
    /\ stopped' = FALSE

\* onStartCommand: an Outline session whose cipher is refused ends here, as
\* the current one; the others go to the worker.
StartCommand(p) ==
    /\ main.steps = <<>>
    /\ Begin(p)
    /\ leaving' = FALSE
    /\ \/ main' = Doing(<<"status", "flag", "show", "enqueue">>, "CONNECTING", current')
       \/ /\ KindOf[p] = "outline"
          /\ main' = Doing(<<"status", "flag", "show", "stopSelfId">>, "ERR", current')
    /\ UNCHANGED <<queue, worker, stopper, tunnel, native, reports>>

\* The user connects a profile; one of Tor's comes from its thread.
Connect(p) == KindOf[p] # "tor" /\ StartCommand(p) /\ UNCHANGED starter

\* Variant for the model checker: nobody queues the cleaning up.
StopWithoutCleanup ==
    /\ stopped' = TRUE
    /\ current' = IF stopped THEN current ELSE Nobody
    /\ UNCHANGED queue

\* `stop`
Stop ==
    /\ stopped' = TRUE
    /\ IF stopped THEN UNCHANGED <<current, queue>>
       ELSE current' = Nobody /\ queue' = Append(queue, Cleanup)

\* fullStop, for the stop action and for a revocation by the system.
FullStop ==
    /\ main.steps = <<>>
    /\ Stop
    /\ main' = Doing(<<"flag", "status", "show", "stopSelf">>, "IDLE", Nobody)
    /\ UNCHANGED <<sessions, worker, starter, tunnel, native, reports, leaving>>

\* The notification's button, and a revocation by the system.
StopAction == FullStop /\ UNCHANGED stopper

\* cancelProfile: the profile of the current session is deleted.
CancelProfile(p) ==
    /\ current # Nobody /\ sessions[current] = p /\ KindOf[p] # "tor"
    /\ StopAction

\* onDestroy: the system keeps a service whose tunnel is open.
Destroy ==
    /\ main.steps = <<>>
    /\ leaving /\ tunnel = Nobody
    /\ Stop
    /\ main' = Doing(<<"flag", "status">>, "IDLE", Nobody)
    /\ leaving' = FALSE
    /\ UNCHANGED <<sessions, worker, screens, tunnel, native, reports>>

-----------------------------------------------------------------------------
(***************************************************************************)
(* Steps of either thread.                                                 *)
(***************************************************************************)

Write(thread) ==
    /\ runningFlag' = IF Head(thread.steps) = "flag" THEN thread.as = "OK" ELSE runningFlag
    /\ lastStatus' = IF Head(thread.steps) = "status" THEN thread.as ELSE lastStatus
    /\ shown' = IF Head(thread.steps) = "show" THEN thread.as ELSE shown

Rest(thread) ==
    IF Len(thread.steps) = 1 THEN Idle ELSE [thread EXCEPT !.steps = Tail(@)]

\* stopSelf(startId) means nothing once there was another start.
Resigned(thread) ==
    CASE Head(thread.steps) = "stopSelf"   -> TRUE
      [] Head(thread.steps) = "stopSelfId" -> leaving \/ thread.token = LastToken
      [] OTHER                             -> leaving

MainStep ==
    /\ main.steps # <<>>
    /\ Write(main)
    /\ leaving' = Resigned(main)
    /\ queue' = IF Head(main.steps) = "enqueue" THEN Append(queue, main.token) ELSE queue
    /\ main' = Rest(main)
    /\ UNCHANGED <<gate, worker, screens, tunnel, native>>

\* startTunnel: what runs is stopped, Tor's proxy too unless it is wanted.
StartTunnel(token) ==
    LET kind == KindOfToken(token)
    IN  <<"check">>
        \o (IF kind = "tor" THEN StopAllTunnels ELSE StopEverything)
        \o <<"configure", "closeFd", "establish">> \o Attaching(kind) \o <<"report">>

\* Variant for the model checker: the descriptor is closed under the planes.
CleanUpClosingFirst == <<"closeFd">> \o StopEverything

\* `cleanup`
CleanUp == StopEverything \o <<"closeFd">>

\* The worker takes what is queued: the cleaning up, or a session.
Take ==
    /\ worker.steps = <<>> /\ queue # <<>>
    /\ queue' = Tail(queue)
    /\ worker' =
          IF Head(queue) = Cleanup THEN Doing(CleanUp, "IDLE", Nobody)
          ELSE Doing(StartTunnel(Head(queue)), "OK", Head(queue))
    /\ UNCHANGED <<gate, main, screens, tunnel, native, reports, leaving>>

Ready(step) == worker.steps # <<>> /\ Head(worker.steps) = step

Check ==
    /\ Ready("check")
    /\ worker' = IF IsCurrent(worker.token) THEN Rest(worker) ELSE Idle
    /\ UNCHANGED <<gate, queue, main, screens, tunnel, native, reports, leaving>>

\* stopDataPlanes
StopPlanes ==
    /\ worker.steps # <<>> /\ Stopping(Head(worker.steps))
    /\ worker' = Rest(worker)
    /\ UNCHANGED <<gate, queue, main, screens, tunnel, reports, leaving>>

\* closeTunnelFd
CloseFd ==
    /\ Ready("closeFd")
    /\ tunnel' = Nobody
    /\ worker' = Rest(worker)
    /\ UNCHANGED <<gate, queue, main, screens, native, reports, leaving>>

\* The profile is read, its endpoint resolved and the tunnel described: it may
\* take seconds, and may throw while the session before it still has its tunnel.
Configure ==
    /\ Ready("configure")
    /\ worker' \in {Rest(worker), Doing(<<"report">>, "ERR", worker.token)}
    /\ UNCHANGED <<gate, queue, main, screens, tunnel, native, reports, leaving>>

Establish ==
    /\ Ready("establish")
    /\ \/ tunnel' = worker.token /\ worker' = Rest(worker)
       \/ UNCHANGED tunnel
          /\ worker' = Doing(<<"report">>, "ERR", worker.token)
    /\ UNCHANGED <<gate, queue, main, screens, native, reports, leaving>>

\* The native call that starts the session's data plane.
AttachPlane ==
    /\ worker.steps # <<>>
    /\ \E succeeds \in BOOLEAN :
          /\ Attach(Head(worker.steps), worker.token, succeeds)
          /\ worker' = IF succeeds THEN Rest(worker)
                       ELSE Doing(Unwinding(Head(worker.steps)) \o <<"report">>,
                                  "ERR", worker.token)
    /\ UNCHANGED <<gate, queue, main, screens, tunnel, reports, leaving>>

\* Variant for the model checker: a failed start leaves its tunnel open.
ReportLeavingTunnel ==
    /\ Ready("report")
    /\ worker' = [worker EXCEPT !.steps =
          IF ~ IsCurrent(worker.token) THEN CleanUp
          ELSE IF worker.as = "OK" THEN <<"flag", "status", "show">>
          ELSE <<"status", "flag">> \o StopEverything \o <<"show", "stopSelfId">>]
    /\ UNCHANGED <<gate, queue, main, screens, tunnel, native, reports, leaving>>

\* The second look at the gate; what follows is outside its lock.
Report ==
    /\ Ready("report")
    /\ worker' = [worker EXCEPT !.steps =
          IF ~ IsCurrent(worker.token) THEN CleanUp
          ELSE IF worker.as = "OK" THEN <<"flag", "status", "show">>
          ELSE <<"status", "flag">> \o CleanUp \o <<"show", "stopSelfId">>]
    /\ UNCHANGED <<gate, queue, main, screens, tunnel, native, reports, leaving>>

WorkerWrites ==
    /\ \E step \in {"flag", "status", "show", "stopSelfId"} : Ready(step)
    /\ Write(worker)
    /\ leaving' = Resigned(worker)
    /\ worker' = Rest(worker)
    /\ UNCHANGED <<gate, queue, main, screens, tunnel, native>>

WorkerStep ==
    \/ Take \/ Check \/ StopPlanes \/ CloseFd \/ Configure \/ Establish
    \/ AttachPlane \/ Report \/ WorkerWrites

-----------------------------------------------------------------------------
(***************************************************************************)
(* The screens' threads.                                                   *)
(***************************************************************************)

service == <<gate, queue, main, worker, tunnel, reports, leaving>>

\* connectTorFull, where its thread has unpacked the bundle: for seconds, in
\* which the user may have gone on to anything.  One at a time.
ConnectTor ==
    /\ starter = <<>>
    /\ Stopping(Head(StartTorSocks))
    /\ starter' = Tail(StartTorSocks) \o <<"present">>
    /\ UNCHANGED <<service, stopper>>

\* The proxy is up or the thread is done.
TorLaunched ==
    /\ starter # <<>> /\ Head(starter) = "launch"
    /\ \E succeeds \in BOOLEAN :
          Launch(succeeds) /\ starter' = IF succeeds THEN Tail(starter) ELSE <<>>
    /\ UNCHANGED <<service, stopper>>

\* The session is asked for, unless the user is just disconnecting.
Present ==
    /\ starter = <<"present">> /\ starter' = <<>>
    /\ IF stopper = <<>> THEN \E p \in Profiles : KindOf[p] = "tor" /\ StartCommand(p)
       ELSE UNCHANGED <<service, stopper, native>>

\* disconnectAll, where its thread has told the server: one at a time.
Disconnect ==
    /\ stopper = <<>>
    /\ Stopping(Head(StopEverything))
    /\ stopper' = Tail(StopEverything) \o <<"stopIntent">>
    /\ UNCHANGED <<service, starter>>

StopperStep ==
    \/ /\ stopper # <<>> /\ Stopping(Head(stopper))
       /\ stopper' = Tail(stopper)
       /\ UNCHANGED <<service, starter>>
    \/ stopper = <<"stopIntent">> /\ stopper' = <<>> /\ FullStop

\* The pumps' threads.
PumpStep == PumpGoesOn /\ UNCHANGED <<service, screens>>

PeerAnswers == (\E t \in Tokens : Answered(t)) /\ UNCHANGED <<service, screens>>

Next ==
    \/ \E p \in Profiles : Connect(p) \/ CancelProfile(p)
    \/ StopAction \/ Destroy
    \/ MainStep \/ WorkerStep
    \/ ConnectTor \/ TorLaunched \/ Present \/ Disconnect \/ StopperStep
    \/ PumpStep \/ PeerAnswers

Spec == Init /\ [][Next]_vars

\* The threads run on; nobody has to start, stop or destroy anything, and no
\* peer has to answer.
FairSpec ==
    /\ Spec
    /\ WF_vars(MainStep) /\ WF_vars(WorkerStep) /\ WF_vars(PumpStep)
    /\ WF_vars(StopperStep)

-----------------------------------------------------------------------------

(***************************************************************************)
(* Type invariant.                                                         *)
(***************************************************************************)
TypeOK ==
    /\ sessions \in Seq(Profiles) /\ LastToken <= MaxTokens
    /\ current \in Tokens \cup {Nobody} /\ stopped \in BOOLEAN
    /\ queue \in Seq(Tokens \cup {Cleanup})
    /\ main \in Thread /\ worker \in Thread
    /\ {tunnel, active, outline, socks} \subseteq Tokens \cup {Nobody}
    /\ running \subseteq Tokens /\ answered \subseteq Tokens
    /\ pumps \in [Tokens -> {"none", "resolving", "pumping"}]
    /\ {handshakeOk, tor, runningFlag, leaving} \subseteq BOOLEAN
    /\ {lastStatus, shown} \subseteq Status

Drained ==
    main.steps = <<>> /\ worker.steps = <<>> /\ queue = <<>> /\ stopper = <<>>

(***************************************************************************)
(* No data plane is left running on a descriptor that was closed, or on    *)
(* that of another session, and a pump that was not told to stop is the    *)
(* one that a later stop will find: there is never a second one.           *)
(***************************************************************************)
PlaneHasTunnel ==
    /\ active # Nobody => tunnel = active
    /\ socks # Nobody => tunnel = socks
    /\ running \subseteq {active}

(***************************************************************************)
(* The tunnel of the current session is reported as connected once all is  *)
(* done, however stops, new starts and failures went before: a failure     *)
(* never leaves its own tunnel open.  And it is reported so only if it     *)
(* works: WireGuard's peer has answered the pump of that very session,     *)
(* which nobody has told to stop.                                          *)
(***************************************************************************)
OpenIsReported ==
    Drained /\ IsCurrent(tunnel) =>
        /\ lastStatus = "OK" /\ runningFlag /\ shown = "OK"
        /\ KindOfToken(tunnel) = "wireguard" => tunnel \in running \cap answered

(***************************************************************************)
(* Once stopped, the tunnel closes and its data planes end, the duplicate  *)
(* of the tunnel that a pump holds with them.                              *)
(***************************************************************************)
AllClosed ==
    /\ {tunnel, active, outline, socks} = {Nobody}
    /\ \A t \in Tokens : pumps[t] = "none"

StopCloses == stopped ~> AllClosed \/ ~ stopped

(***************************************************************************)
(* A session does not stay connecting: it connects, fails or is stopped.   *)
(***************************************************************************)
Settles == lastStatus = "CONNECTING" ~> lastStatus # "CONNECTING"

=============================================================================
