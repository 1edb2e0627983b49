----------------------------- MODULE WindowsClient -----------------------------
(***************************************************************************)
(* The desktop client's tunnels on Windows: embedded WireGuard on Wintun,  *)
(* Tor's and Outline's SOCKS tunnel, PPTP over RAS, WireGuard's own service*)
(* (platform-windows/src) and the handlers of app.rs that use them.        *)
(*                                                                         *)
(* One task handles the commands, and a handler is a list of steps; the    *)
(* workers it starts run beside it and may end by themselves at any time.  *)
(* A worker that was told to end does so in its own time: a stop waits     *)
(* about a second for it and then detaches it.  The handles lie in statics *)
(* of the process, one for each kind of worker.  The client may be killed. *)
(***************************************************************************)
EXTENDS Naturals, Sequences

CONSTANTS Endpoints,   \* the WireGuard servers
          MaxWorkers,  \* TLC only: how many workers are ever started
          MaxLives     \* TLC only: how many times the client is started

ASSUME WindowsAssumption ==
    /\ MaxWorkers \in Nat /\ MaxLives \in Nat
    /\ Endpoints \cap {"tor", "dialed", "service"} = {}

VARIABLES
    bundled,    \* wireguard.exe lies beside the client
    client,     \* "up" or "down"
    lives,
    elevated,   \* this process has an Administrator's token
    apps,       \* Tor is for chosen applications only
    active,     \* active_connection
    route,      \* tor_system_route_active
    socks,      \* tor_socks_port: the session's number, 0 for none
    job,        \* what the handler has still to do
    lastId,     \* workers and Tor sessions are numbered
    live,       \* the worker threads that run
    told,       \* the workers and the Tor sessions that a handler ended
    slot,       \* the handles: none or one of a kind
    tor,        \* the session whose tor.exe runs, 0 for none
    pins,       \* the endpoints with a route through the physical gateway
    dialed,     \* RAS: ZeroNodePPTP is connected
    service,    \* ZeroNodeClient, WireGuard's service, is installed
    astray,     \* history: what was left by a client or a pump that ended unasked
    mixed,      \* history: a connection was begun over another one
    clean       \* history: a Disconnect was carried out, and nothing begun since

own     == <<active, route, socks, job>>
workers == <<lastId, live, told, slot>>
system  == <<tor, pins, dialed, service>>
history == <<astray, mixed, clean>>
process == <<bundled, client, lives, elevated, apps>>
vars == <<process, own, workers, system, history>>

Kinds == {"tun", "ss", "pump"}    \* tun2proxy, Shadowsocks, run_packet_pump

\* of: the endpoint of a pump, the SOCKS server of a tunnel; in the handle of
\* Shadowsocks itself, if the system's tunnel leads to it.
Worker(kind, id, of) == [kind |-> kind, id |-> id, of |-> of]

None == [kind |-> "none", phase |-> "none"]
As(kind, phase) == [kind |-> kind, phase |-> phase]

S(name) == [step |-> name, of |-> 0]
At(name, of) == [step |-> name, of |-> of]

NoHandles == [kind \in Kinds |-> {}]

Init ==
    /\ bundled \in BOOLEAN /\ client = "up" /\ lives = 1
    /\ elevated \in BOOLEAN /\ apps \in BOOLEAN
    /\ active = None /\ route = FALSE /\ socks = 0 /\ job = <<>>
    /\ lastId = 0 /\ live = {} /\ told = {} /\ slot = NoHandles
    /\ tor = 0 /\ pins = {} /\ dialed = FALSE /\ service = FALSE
    /\ astray = {} /\ mixed = FALSE /\ clean = FALSE

-----------------------------------------------------------------------------
(***************************************************************************)
(* What the handlers are made of.                                          *)
(***************************************************************************)
Then(steps) == job' = steps \o Tail(job)

Fails(steps) == job' = steps

Ready(name) == client = "up" /\ job # <<>> /\ Head(job).step = name

Of == Head(job).of

\* stop_socks_system_tunnel waits for the worker or detaches it: either way it
\* goes on, so the wait is the next step's.
tunCancel ==
    /\ Ready("tunCancel")
    /\ told' = told \cup {w.id : w \in slot["tun"]}
    /\ slot' = [slot EXCEPT !["tun"] = {}]
    /\ Then(<<>>)
    /\ UNCHANGED <<process, active, route, socks, lastId, live, system, history>>

\* start_socks_system_tunnel, and the way out when it fails.
SystemTunnel(proxy) == <<S("tunCancel"), At("tunSpawn", proxy), S("tunWait")>>

NoTunnel ==
    IF \E i \in DOMAIN job : job[i].step = "ssStore" THEN <<S("ssTell"), S("failed")>>
    ELSE <<S("routeOff")>>

\* tun2proxy needs an Administrator.
tunSpawn ==
    /\ Ready("tunSpawn")
    /\ IF elevated
       THEN /\ lastId' = lastId + 1
            /\ live' = live \cup {Worker("tun", lastId + 1, Of)}
            /\ slot' = [slot EXCEPT !["tun"] = {Worker("tun", lastId + 1, Of)}]
            /\ Then(<<>>)
       ELSE Fails(NoTunnel) /\ UNCHANGED <<lastId, live, slot>>
    /\ UNCHANGED <<process, active, route, socks, told, system, history>>

\* A second later it still runs, or it is stopped for good.
tunWait ==
    /\ Ready("tunWait")
    /\ IF slot["tun"] \subseteq live THEN Then(<<>>) ELSE Fails(<<S("tunCancel")>> \o NoTunnel)
    /\ UNCHANGED <<process, active, route, socks, workers, system, history>>

\* The notice, and the flag that the window shows.
routeSet ==
    /\ Ready("routeOn") \/ Ready("routeOff")
    /\ route' = Ready("routeOn")
    /\ Then(<<>>)
    /\ UNCHANGED <<process, active, socks, workers, system, history>>

connected ==
    /\ Ready("connected")
    /\ active' = [active EXCEPT !.phase = "Connected"]
    /\ Then(<<>>)
    /\ UNCHANGED <<process, route, socks, workers, system, history>>

failed ==
    /\ Ready("failed")
    /\ active' = [active EXCEPT !.phase = "Error"]
    /\ Then(<<>>)
    /\ UNCHANGED <<process, route, socks, workers, system, history>>

-----------------------------------------------------------------------------
(***************************************************************************)
(* Outline.                                                                *)
(***************************************************************************)

\* Variant for the model checker: Shadowsocks goes before the tunnel into it.
ssTakeServerFirst ==
    /\ Ready("ssTake")
    /\ slot' = [slot EXCEPT !["ss"] = {}]
    /\ Then(IF slot["ss"] = {} THEN <<S("tunCancel")>>
            ELSE IF \E w \in slot["ss"] : w.of # 0 THEN <<S("ssTell"), S("tunCancel")>>
            ELSE <<S("ssTell")>>)
    /\ UNCHANGED <<process, active, route, socks, lastId, live, told, system, history>>

\* stop_outline: without a handle of its own it stops the tunnel all the same,
\* whose ever it is.
ssTake ==
    /\ Ready("ssTake")
    /\ slot' = [slot EXCEPT !["ss"] = {}]
    /\ Then(IF slot["ss"] = {} THEN <<S("tunCancel")>>
            ELSE IF \E w \in slot["ss"] : w.of # 0 THEN <<S("tunCancel"), S("ssTell")>>
            ELSE <<S("ssTell")>>)
    /\ UNCHANGED <<process, active, route, socks, lastId, live, told, system, history>>

\* There is one that was not told to end, at most: the one that is meant.
ssTell ==
    /\ Ready("ssTell")
    /\ LET servers == {w.id : w \in {v \in live : v.kind = "ss"}}
       IN  told' = told \cup servers
    /\ Then(<<>>)
    /\ UNCHANGED <<process, active, route, socks, lastId, live, slot, system, history>>

ssSpawn ==
    /\ Ready("ssSpawn")
    /\ lastId' = lastId + 1
    /\ live' = live \cup {Worker("ss", lastId + 1, 0)}
    /\ Then(<<>>)
    /\ UNCHANGED <<process, active, route, socks, told, slot, system, history>>

\* Its port opens within 8 seconds, or it is given up.
ssPort ==
    /\ Ready("ssPort")
    /\ \/ (\E w \in live : w.id = Of) /\ Then(<<>>)
       \/ Fails(<<S("ssTell"), S("failed")>>)
    /\ UNCHANGED <<process, active, route, socks, workers, system, history>>

\* The server's name must be resolved, to stay out of the tunnel.
ssBypass ==
    /\ Ready("ssBypass")
    /\ Then(<<>>) \/ Fails(<<S("ssTell"), S("failed")>>)
    /\ UNCHANGED <<process, active, route, socks, workers, system, history>>

ssStore ==
    /\ Ready("ssStore")
    /\ slot' = [slot EXCEPT !["ss"] =
          {Worker("ss", Of, IF \E w \in slot["tun"] : w.of = Of THEN Of ELSE 0)}]
    /\ Then(<<>>)
    /\ UNCHANGED <<process, active, route, socks, lastId, live, told, system, history>>

Outline(proxy, routing) ==
    <<S("ssTake"), S("ssSpawn"), At("ssPort", proxy)>>
    \o (IF routing = "system" THEN <<S("ssBypass")>> \o SystemTunnel(proxy) ELSE <<>>)
    \o <<At("ssStore", proxy), S("connected")>>

-----------------------------------------------------------------------------
(***************************************************************************)
(* WireGuard: start_global and stop_global.                                *)
(***************************************************************************)

\* Variant for the model checker: stop without the restoring of the routes.
wgTakeKeepingRoutes ==
    /\ Ready("wgTake")
    /\ slot' = [slot EXCEPT !["pump"] = {}]
    /\ LET running == slot["pump"] \cap live
       IN  /\ told' = told \cup {w.id : w \in running}
           /\ Then(<<>>)
    /\ UNCHANGED <<process, active, route, socks, lastId, live, system, history>>

\* `stop` does nothing for a pump that has ended: not even its routes go.
wgTake ==
    /\ Ready("wgTake")
    /\ slot' = [slot EXCEPT !["pump"] = {}]
    /\ LET running == slot["pump"] \cap live
       IN  /\ told' = told \cup {w.id : w \in running}
           /\ IF running = {} THEN Then(<<>>)
              ELSE \E w \in running : Then(<<At("wgClear", w.of)>>)
    /\ UNCHANGED <<process, active, route, socks, lastId, live, system, history>>

\* remove_tunnel_routes, remove_adapter_dns: the rest goes with the adapter.
wgClear ==
    /\ Ready("wgClear")
    /\ pins' = pins \ {Of} /\ astray' = astray \ {Of}
    /\ Then(<<>>)
    /\ UNCHANGED <<process, active, route, socks, workers, tor, dialed, service,
                   mixed, clean>>

\* A server's connection is shown as connected, whatever becomes of the tunnel.
NotUp == IF active.kind = "server" THEN <<>> ELSE <<S("failed")>>

wgParse ==
    /\ Ready("wgParse")
    /\ Then(<<>>) \/ Fails(NotUp)
    /\ UNCHANGED <<process, active, route, socks, workers, system, history>>

\* The driver, the adapter and its address; a value that is dropped is stopped.
wgOpen ==
    /\ Ready("wgOpen")
    /\ \/ elevated /\ Then(<<>>)
       \/ Fails(<<At("wgClear", Of)>> \o NotUp)
    /\ UNCHANGED <<process, active, route, socks, workers, system, history>>

\* add_tunnel_routes: no gateway, or a route that is refused, is passed over.
wgRoutes ==
    /\ Ready("wgRoutes")
    /\ pins' \in {pins, pins \cup {Of}}
    /\ Then(<<>>)
    /\ UNCHANGED <<process, active, route, socks, workers, tor, dialed, service, history>>

\* An adapter has one session: while the old pump runs on there is no new one.
wgPump ==
    /\ Ready("wgPump")
    /\ \/ /\ \A w \in live : w.kind # "pump"
          /\ lastId' = lastId + 1
          /\ live' = live \cup {Worker("pump", lastId + 1, Of)}
          /\ slot' = [slot EXCEPT !["pump"] = {Worker("pump", lastId + 1, Of)}]
          /\ Then(<<>>)
       \/ /\ Fails(<<At("wgClear", Of)>> \o NotUp)
          /\ UNCHANGED <<lastId, live, slot>>
    /\ UNCHANGED <<process, active, route, socks, told, system, history>>

\* Variant for the model checker: a pump that has ended is only reported.
wgSettleReporting ==
    /\ Ready("wgSettle")
    /\ Then(IF slot["pump"] \subseteq live THEN <<S("connected")>> ELSE <<>>)
    /\ UNCHANGED <<process, active, route, socks, workers, system, history>>

\* 400 ms later: is_wireguard_running
wgSettle ==
    /\ Ready("wgSettle")
    /\ Then(<<S(IF slot["pump"] \subseteq live THEN "connected" ELSE "failed")>>)
    /\ UNCHANGED <<process, active, route, socks, workers, system, history>>

Embedded(e) == <<S("wgTake"), At("wgOpen", e), At("wgRoutes", e), At("wgPump", e)>>

-----------------------------------------------------------------------------
(***************************************************************************)
(* WireGuard's service, RAS and tor.exe.                                   *)
(***************************************************************************)
svcUninstall ==
    /\ Ready("svcUninstall")
    /\ service' \in IF elevated THEN {FALSE} ELSE {service}
    /\ astray' = IF elevated THEN astray \ {"service"} ELSE astray
    /\ Then(<<>>)
    /\ UNCHANGED <<process, active, route, socks, workers, tor, pins, dialed, mixed,
                   clean>>

\* Who reads the checks is told, but shows the connection all the same.
svcInstall ==
    /\ Ready("svcInstall")
    /\ service' \in IF elevated THEN BOOLEAN ELSE {service}
    /\ Then(<<>>)
    /\ UNCHANGED <<process, active, route, socks, workers, tor, pins, dialed, history>>

rasHangUp ==
    /\ Ready("rasHangUp")
    /\ dialed' = FALSE /\ astray' = astray \ {"dialed"}
    /\ Then(<<>>)
    /\ UNCHANGED <<process, active, route, socks, workers, tor, pins, service, mixed,
                   clean>>

\* The entry or the call fails; or it is up; or it comes up when nobody waits.
rasDial ==
    /\ Ready("rasDial")
    /\ \/ dialed' = dialed /\ Fails(<<S("failed")>>)
       \/ dialed' = TRUE /\ Fails(<<S("failed")>>)
       \/ dialed' = TRUE /\ Then(<<>>)
    /\ UNCHANGED <<process, active, route, socks, workers, tor, pins, service, history>>

torKill ==
    /\ Ready("torKill")
    /\ tor' = 0 /\ astray' = astray \ {"tor"}
    /\ told' = told \cup {tor}
    /\ Then(<<>>)
    /\ UNCHANGED <<process, active, route, socks, lastId, live, slot, pins, dialed, service,
                   mixed, clean>>

\* The thread of the new session spawns tor.exe.
torSpawn ==
    /\ Ready("torSpawn")
    /\ tor' \in {0, socks}
    /\ Then(<<>>)
    /\ UNCHANGED <<process, active, route, socks, workers, pins, dialed, service, history>>

done ==
    /\ Ready("done")
    /\ clean' = TRUE
    /\ Then(<<>>)
    /\ UNCHANGED <<process, active, route, socks, workers, system, astray, mixed>>

\* The process is gone, with its threads and the adapters they had open.
Gone ==
    /\ active' = None /\ route' = FALSE /\ socks' = 0 /\ job' = <<>>
    /\ live' = {} /\ slot' = NoHandles
    /\ astray' = astray \cup pins \cup {x \in {"tor"} : tor # 0}
                        \cup {x \in {"dialed"} : dialed} \cup {x \in {"service"} : service}
    /\ mixed' = FALSE /\ clean' = FALSE
    /\ UNCHANGED <<bundled, apps, lastId, told, system>>

exit ==
    /\ Ready("exit")
    /\ Gone
    /\ client' = "down"
    /\ UNCHANGED <<lives, elevated>>

Step ==
    \/ tunCancel \/ tunSpawn \/ tunWait \/ routeSet \/ connected \/ failed
    \/ ssTake \/ ssTell \/ ssSpawn \/ ssPort \/ ssBypass \/ ssStore
    \/ wgTake \/ wgClear \/ wgParse \/ wgOpen \/ wgRoutes \/ wgPump \/ wgSettle
    \/ svcUninstall \/ svcInstall \/ rasHangUp \/ rasDial \/ torKill \/ torSpawn
    \/ done \/ exit

-----------------------------------------------------------------------------
(***************************************************************************)
(* The commands.                                                           *)
(***************************************************************************)
Idle == client = "up" /\ job = <<>>

Room(n) == lastId + n <= MaxWorkers

\* reject_if_other_tunnel_busy: a Tor session does not count.
Allowed(kind) ==
    active.phase \in {"Connecting", "Connected"} => active.kind \in {"tor", kind}

Begin(as, steps) ==
    /\ active' = as /\ job' = steps
    /\ mixed' = (mixed \/ active.kind \notin {"none", as.kind})
    /\ clean' = FALSE
    /\ UNCHANGED <<process, route, live, told, slot, system, astray>>

\* relaunch_elevated_with_args and exit_after_relaunch: the new process repeats the
\* command, which may also be given to it later.
Relaunch ==
    /\ ~elevated /\ lives < MaxLives
    /\ Gone
    /\ elevated' = TRUE /\ lives' = lives + 1
    /\ UNCHANGED client

\* Without an Administrator: Tor goes on without the system's tunnel.
ConnectTor ==
    /\ Idle /\ active.kind = "none"
    /\ \/ ~apps /\ Relaunch
       \/ /\ Room(2) /\ lastId' = lastId + 1 /\ socks' = lastId + 1
          /\ Begin(As("tor", "Connecting"), <<S("torKill"), S("torSpawn")>>)

\* Its report may come again, when more is known of its exit.
TorConnected ==
    /\ Idle /\ active.kind = "tor" /\ socks # 0 /\ tor = socks
    /\ active' = As("tor", "Connected")
    /\ job' = IF apps \/ (~elevated /\ ~(route /\ slot["tun"] \cap live # {}))
              THEN <<S("routeOff")>>
              ELSE IF route /\ slot["tun"] \cap live # {} THEN <<>>
              ELSE SystemTunnel(socks) \o <<S("routeOn")>>
    /\ Room(1)
    /\ UNCHANGED <<process, route, socks, workers, system, history>>

ApplyTorSystemRoute ==
    /\ Idle /\ active = As("tor", "Connected") /\ ~route
    /\ \/ Relaunch
       \/ /\ elevated /\ Room(1)
          /\ job' = SystemTunnel(socks) \o <<S("routeOn")>>
          /\ UNCHANGED <<process, active, route, socks, workers, system, history>>

RemoveTorSystemRoute ==
    /\ Idle /\ active.kind = "tor" /\ route
    /\ job' = <<S("tunCancel"), S("routeOff")>>
    /\ UNCHANGED <<process, active, route, socks, workers, system, history>>

ConnectWireGuard(e) ==
    /\ Idle /\ Allowed("wg") /\ Room(1)
    /\ \/ Relaunch
       \/ /\ Begin(As("wg", "Connecting"),
                   IF elevated THEN <<S("wgTake"), S("wgParse")>> \o Embedded(e) \o <<S("wgSettle")>>
                   ELSE <<S("failed")>>)
          /\ UNCHANGED <<socks, lastId>>

ConnectOutline(routing) ==
    /\ Idle /\ Allowed("outline") /\ Room(2)
    /\ \/ routing = "system" /\ Relaunch
       \/ /\ Begin(As("outline", "Connecting"),
                   IF routing = "system" /\ ~elevated THEN <<S("failed")>>
                   ELSE Outline(lastId + 1, routing))
          /\ UNCHANGED <<socks, lastId>>

ConnectPptp ==
    /\ Idle /\ Allowed("pptp")
    /\ Begin(As("pptp", "Connecting"), <<S("rasHangUp"), S("rasDial"), S("connected")>>)
    /\ UNCHANGED <<socks, lastId>>

\* apply_client_tunnel_service, once the server has let the client in.
ConnectServer(e) ==
    /\ Idle /\ active.kind = "none" /\ Room(1)
    /\ Begin(As("server", "Connected"),
             IF bundled THEN <<S("wgTake"), S("svcUninstall"), S("svcInstall")>>
             ELSE <<S("wgParse")>> \o Embedded(e))
    /\ UNCHANGED <<socks, lastId>>

\* remove_platform_tunnel
PlatformTunnelOff == <<S("wgTake"), S("svcUninstall")>>

All == <<S("tunCancel"), S("wgTake"), S("rasHangUp"), S("ssTake")>>

\* The steps of `disconnect`, by what was connected.
Ends(kind) ==
    CASE kind = "tor"     -> <<S("tunCancel"), S("torKill")>>
      [] kind = "wg"      -> <<S("wgTake")>>
      [] kind = "pptp"    -> <<S("rasHangUp")>>
      [] kind = "outline" -> <<S("ssTake")>>
      [] kind = "server"  -> PlatformTunnelOff \o PlatformTunnelOff
      [] OTHER            -> PlatformTunnelOff \o All

Disconnecting(after) ==
    /\ job' = Ends(active.kind) \o <<S("done")>> \o after
    /\ active' = None /\ route' = FALSE
    /\ socks' = IF active.kind \in {"tor", "none"} THEN 0 ELSE socks
    /\ UNCHANGED <<process, workers, system, history>>

Disconnect == Idle /\ Disconnecting(<<>>)

\* Tor's tunnel comes down with Tor: the worker's report, TorFailed.
TorFailed ==
    /\ Idle /\ active.kind = "tor" /\ socks # 0 /\ tor # socks
    /\ Disconnecting(<<>>)

Quits == All \o <<S("torKill"), S("exit")>>

DisconnectThenQuit == Idle /\ Disconnecting(Quits)

\* teardown_and_quit: what WireGuard's service does it goes on doing.
Quit ==
    /\ Idle
    /\ job' = Quits
    /\ UNCHANGED <<process, active, route, socks, workers, system, history>>

-----------------------------------------------------------------------------
(***************************************************************************)
(* What happens beside the handlers.                                       *)
(***************************************************************************)

\* A pump or a tunnel that ends unasked is nobody's business any more.
WorkerEnds(w) ==
    /\ w \in live
    /\ live' = live \ {w}
    /\ astray' = IF w.kind = "pump" /\ w.id \notin told THEN astray \cup {w.of} ELSE astray
    /\ UNCHANGED <<process, own, lastId, told, slot, system, mixed, clean>>

TorDies ==
    /\ tor # 0
    /\ tor' = 0 /\ astray' = astray \ {"tor"}
    /\ UNCHANGED <<process, own, workers, pins, dialed, service, mixed, clean>>

HungUp ==
    /\ dialed
    /\ dialed' = FALSE /\ astray' = astray \ {"dialed"}
    /\ UNCHANGED <<process, own, workers, tor, pins, service, mixed, clean>>

Killed ==
    /\ client = "up" /\ lives < MaxLives
    /\ Gone
    /\ client' = "down"
    /\ UNCHANGED <<lives, elevated>>

Started ==
    /\ client = "down" /\ lives < MaxLives
    /\ client' = "up" /\ lives' = lives + 1 /\ elevated' \in BOOLEAN
    /\ UNCHANGED <<bundled, apps, own, workers, system, history>>

Next ==
    \/ Step
    \/ ConnectTor \/ TorConnected \/ TorFailed
    \/ ApplyTorSystemRoute \/ RemoveTorSystemRoute
    \/ \E e \in Endpoints : ConnectWireGuard(e) \/ ConnectServer(e)
    \/ \E routing \in {"system", "socks"} : ConnectOutline(routing)
    \/ ConnectPptp \/ Disconnect \/ DisconnectThenQuit \/ Quit
    \/ \E w \in live : WorkerEnds(w)
    \/ TorDies \/ HungUp \/ Killed \/ Started

\* The handler goes on, and so does the worker of a Tor session.
Spec == Init /\ [][Next]_vars /\ WF_vars(Step) /\ WF_vars(TorConnected \/ TorFailed)

-----------------------------------------------------------------------------

\* Every variable has its type, the workers, the handles and the lists of steps too.
TypeOK ==
    /\ client \in {"up", "down"} /\ lives \in Nat
    /\ {bundled, elevated, apps, route, dialed, service, mixed, clean} \subseteq BOOLEAN
    /\ active \in [kind : {"none", "tor", "wg", "outline", "server", "pptp"},
                   phase : {"none", "Connecting", "Connected", "Error"}]
    /\ \A i \in 1 .. Len(job) : job[i].of \in Nat \cup Endpoints
    /\ lastId \in Nat /\ {socks, tor} \cup told \subseteq 0 .. lastId
    /\ live \subseteq [kind : Kinds, id : 1 .. lastId, of : Nat \cup Endpoints]
    /\ slot \in [Kinds -> SUBSET [kind : Kinds, id : Nat, of : Nat \cup Endpoints]]
    /\ pins \subseteq Endpoints
    /\ astray \subseteq Endpoints \cup {"tor", "dialed", "service"}

(***************************************************************************)
(* After a Disconnect nothing is left: no worker that was not told to end, *)
(* no tor.exe, no PPTP, no service, no route to an endpoint; whatever was  *)
(* begun, failed or stopped half-way before.  Except for what a client     *)
(* that is gone left to the next one, and for a connection that was begun  *)
(* over another.                                                           *)
(***************************************************************************)
NothingLeft ==
    clean /\ job = <<>> /\ ~mixed =>
        /\ \A w \in live : w.id \in told
        /\ tor # 0 => "tor" \in astray
        /\ dialed => "dialed" \in astray
        /\ service => "service" \in astray
        /\ pins \subseteq astray

\* The system's traffic is never led into a SOCKS server that a handler has
\* ended: the tunnel goes first and comes last.  Except where a connection was
\* begun over another: over Tor's, whose tunnel stays up meanwhile and outlives its
\* server when Tor is connected anew.
TunnelHasServer ==
    ~mixed => \A w \in live : w.kind = "tun" /\ w.id \notin told => w.of \notin told

\* A connection does not stay "Connecting", however its start ends.
ConnectingEnds ==
    active.phase = "Connecting" ~> active.phase # "Connecting"
=============================================================================
