------------------------------ MODULE Desktop ------------------------------
(***************************************************************************)
(* The desktop client's backend (apps/client/src/app.rs, the Linux build). *)
(*                                                                         *)
(* One task owns the state and handles one command at a time, from one     *)
(* queue without a bound.  The window, the tray, signals, the threads that *)
(* look after a Tor process and the delayed retries all post to that       *)
(* queue, so what a command finds when it is handled is not what its       *)
(* sender saw.  A handler is one action; what it asks of the host may      *)
(* succeed or fail.  A Tor session is named by the SOCKS port it reserved, *)
(* and ports are numbered in the order they are reserved.                  *)
(***************************************************************************)
EXTENDS Integers, Sequences

CONSTANTS MaxSessions,  \* TLC only: how many Tor sessions are started
          MaxMail,      \* TLC only: who posts for the user waits for a shorter queue
          Hosts,        \* the hosts and the users that are tried
          Commands      \* TLC only: what the users do

\* helper: the root daemon answers.  isolation: the stored mode of Tor.
\* bridges: the stored bridge settings can be used.  splits: applications are
\* chosen for split tunnelling.  overlaps: the user connects over another
\* connection or asks for two at once.  server: which of its buttons is used.
Host == [helper : BOOLEAN, isolation : {"system", "apps"}, bridges : BOOLEAN,
         splits : BOOLEAN, overlaps : BOOLEAN, server : {"wireguard", "openvpn"}]

VARIABLES
    active,    \* active_connection
    port,      \* tor_socks_port, 0 for none
    attempts,  \* tor_route_attempts
    route,     \* tor_system_route_active
    queue,     \* the commands not handled yet
    sleepers,  \* the delayed ApplyTorSystemRoute commands
    stage,     \* per Tor session: what its worker does
    tor,       \* the sessions whose tor process runs
    up,        \* the tunnels that are set up on the host
    proxy,     \* the session's proxy points at a SOCKS port
    split,     \* the helper splits the traffic
    sent,      \* last_split_sent: the window has asked for it
    process,   \* the client: "up", "quit" or "killed"
    root,      \* it runs as root
    host       \* the member of Hosts this is about

conn == <<active, port, attempts, route>>
net  == <<up, proxy, split>>
vars == <<conn, net, queue, sleepers, stage, tor, sent, process, root, host>>

Sessions == 1 .. MaxSessions
Profiles == {"ovpn", "wg", "pptp", "outline"}
Tunnels  == {"tor", "zn", "ovpn", "pptp", "outline"}   \* "zn" is znclient0
Socks    == {"tor", "outline"}      \* one process keeps one of the two

None == [kind |-> "none", phase |-> "none", tries |-> 0, session |-> FALSE]
As(kind, phase) == [kind |-> kind, phase |-> phase, tries |-> 0, session |-> FALSE]

Cmd(name) == [cmd |-> name, port |-> 0]
Report(name, s) == [cmd |-> name, port |-> s]

Init ==
    /\ active = None /\ port = 0 /\ attempts = 0 /\ route = FALSE
    /\ queue = <<>> /\ sleepers = 0
    /\ stage = [s \in Sessions |-> "none"] /\ tor = {}
    /\ up = {} /\ proxy = FALSE /\ split = FALSE /\ sent = FALSE
    /\ process = "up" /\ root \in BOOLEAN
    /\ host \in Hosts

Connects == {"ConnectTor", "Connect"} \cup Profiles

UserCommands ==
    {"Disconnect", "DisconnectThenQuit", "QuitApp", "RemoveTunnel", "ApplyTunnel",
     "EnableRoute"} \cup Connects

Names ==
    UserCommands \cup {"ApplyTorSystemRoute", "ApplySplitTunnel", "ClearSplitTunnel",
                      "TorConnected", "TorUnknown", "TorFailed"}

ASSUME DesktopAssumption ==
    /\ MaxSessions \in Nat /\ MaxMail \in Nat
    /\ Hosts \subseteq Host /\ Commands \subseteq UserCommands

-----------------------------------------------------------------------------
(***************************************************************************)
(* What is posted by the window and by the clock.                          *)
(***************************************************************************)
Busy == active.phase \in {"Connecting", "Connected"}

\* reject_if_other_tunnel_busy: a Tor session does not count.
reject_if_other_tunnel_busy(kind) == Busy /\ active.kind \notin {"tor", kind}

\* A connection was asked for and its turn has not come.
Connecting == \E i \in 1 .. Len(queue) : queue[i].cmd \in Connects

\* What the window offers for what it shows, and a user takes up.
Offers(c) ==
    \/ c \in {"Disconnect", "DisconnectThenQuit", "QuitApp", "RemoveTunnel", "ApplyTunnel"}
    \/ c = "EnableRoute" /\ active.kind = "tor" /\ active.phase = "Connected" /\ ~route
    \/ /\ c \in Connects
       /\ host.overlaps \/ (active.kind = "none" /\ ~Connecting)
       /\ c = "ConnectTor" => active.kind # "tor"
       /\ c \in Profiles => ~(active.kind = c /\ Busy)
       /\ c = "Connect" => active.kind # "server"

Click(c) ==
    /\ process = "up" /\ Len(queue) < MaxMail /\ Offers(c)
    /\ queue' = Append(queue, Cmd(IF c = "EnableRoute" THEN "ApplyTorSystemRoute" ELSE c))
    /\ UNCHANGED <<conn, net, sleepers, stage, tor, sent, process, root, host>>

split_tunnel_live == active.phase = "Connected" \/ route

\* Mutant: what was asked for once is not taken back.
pump_split_tunnel_once ==
    /\ process = "up" /\ Len(queue) < MaxMail
    /\ ~sent /\ host.splits /\ split_tunnel_live
    /\ sent' = TRUE
    /\ queue' = Append(queue, Cmd("ApplySplitTunnel"))
    /\ UNCHANGED <<conn, net, sleepers, stage, tor, process, root, host>>

\* pump_split_tunnel: what the window does with every snapshot it receives.
pump_split_tunnel ==
    /\ process = "up" /\ Len(queue) < MaxMail
    /\ sent # (host.splits /\ split_tunnel_live)
    /\ sent' = ~sent
    /\ queue' = Append(queue, Cmd(IF sent THEN "ClearSplitTunnel" ELSE "ApplySplitTunnel"))
    /\ UNCHANGED <<conn, net, sleepers, stage, tor, process, root, host>>

\* A delayed retry: it does not say for which session.
Wake ==
    /\ process = "up" /\ sleepers > 0
    /\ sleepers' = sleepers - 1
    /\ queue' = Append(queue, Cmd("ApplyTorSystemRoute"))
    /\ UNCHANGED <<conn, net, stage, tor, sent, process, root, host>>

-----------------------------------------------------------------------------
(***************************************************************************)
(* The worker of a Tor session and its process.  The process dies with the *)
(* thread that spawned it, and that thread waits for the worker's end.     *)
(***************************************************************************)
Working == {"boot", "refine", "watch", "shaky"}

Posts(s, name, next) ==
    /\ process = "up"
    /\ queue' = Append(queue, Report(name, s))
    /\ stage' = [stage EXCEPT ![s] = next]
    /\ tor' = IF next = "gone" THEN tor \ {s} ELSE tor
    /\ UNCHANGED <<conn, net, sleepers, sent, process, root, host>>

Becomes(s, next) ==
    /\ process = "up"
    /\ stage' = [stage EXCEPT ![s] = next]
    /\ UNCHANGED <<conn, net, queue, sleepers, tor, sent, process, root, host>>

\* Mutant: the process is looked at until an exit is found and no longer.
WorkerSeesDeathAtBoot(s) == stage[s] = "boot" /\ Posts(s, "TorFailed", "gone")

\* The process ended, or no client for its port could be built.
WorkerSeesDeath(s) ==
    /\ stage[s] \in {"boot", "watch", "shaky"}
    /\ s \notin tor \/ stage[s] = "boot"
    /\ Posts(s, "TorFailed", "gone")

\* An exit was found: with its country, or without it and more to be asked.
Resolved(s) ==
    /\ stage[s] = "boot" /\ s \in tor
    /\ \E next \in {"watch", "refine"} : Posts(s, "TorConnected", next)

\* Mutant: nothing is said when no exit is found.
UnresolvedSilently(s) == stage[s] = "boot" /\ s \in tor /\ Becomes(s, "watch")

\* No exit in 180 tries.
Unresolved(s) ==
    /\ stage[s] = "boot" /\ s \in tor
    /\ Posts(s, "TorUnknown", "watch")

\* The country was found later, or not at all.
Refined(s) ==
    /\ stage[s] = "refine"
    /\ \/ s \in tor /\ Posts(s, "TorConnected", "watch")
       \/ Becomes(s, "watch")

\* The health monitor: the second failure in a row is the end.
Probed(s) ==
    /\ s \in tor
    /\ \/ stage[s] = "watch" /\ Becomes(s, "shaky")
       \/ stage[s] = "shaky" /\ Becomes(s, "watch")
       \/ stage[s] = "shaky" /\ Posts(s, "TorFailed", "gone")

Worker(s) ==
    WorkerSeesDeath(s) \/ Resolved(s) \/ Unresolved(s) \/ Refined(s) \/ Probed(s)

TorDies(s) ==
    /\ s \in tor /\ tor' = tor \ {s}
    /\ UNCHANGED <<conn, net, queue, sleepers, stage, sent, process, root, host>>

-----------------------------------------------------------------------------
(***************************************************************************)
(* The handlers.                                                           *)
(***************************************************************************)
Next_is(name) == process = "up" /\ queue # <<>> /\ Head(queue).cmd = name
Takes(name)   == Next_is(name) /\ queue' = Tail(queue)

Stays == UNCHANGED <<process, root, host>>
Ignores == UNCHANGED <<conn, net, sleepers, stage, tor, sent>> /\ Stays

\* Taking something down needs the helper or an elevated client.
Can == host.helper \/ root

\* What is left when these are stopped.
Without(tunnels) == IF Can THEN up \ tunnels ELSE up

\* What disconnect stops, by what was active: one process keeps Tor's tunnel or
\* Outline's, and stopping either stops both.  With nothing active openvpn is
\* left to the helper.
Stopped ==
    [kind \in Profiles \cup {"none", "tor", "server"} |->
       CASE kind \in Socks           -> Socks
         [] kind \in {"wg", "server"} -> {"zn"}
         [] kind = "none"            -> IF host.helper THEN Tunnels ELSE Tunnels \ {"ovpn"}
         [] OTHER                    -> {kind}]

\* Mutant: the answer of a session that ended is not told apart from the current one's.
live_any(s) == active.kind = "tor"

\* The guard of the reports: only the current session's port counts.
live(s) == port = s /\ active.kind = "tor"

\* disconnect.  Every stop at the helper clears the split first.
Disconnected ==
    LET kind == active.kind
    IN  /\ active' = None /\ route' = FALSE
        /\ port' = IF kind \in {"tor", "none"} THEN 0 ELSE port
        /\ attempts' = CASE kind = "tor" -> 99 [] kind = "none" -> 0 [] OTHER -> attempts
        /\ tor' = IF kind \in {"tor", "none"} THEN {} ELSE tor
        /\ up' = Without(Stopped[kind])
        /\ proxy' = (proxy /\ kind \notin Socks \cup {"none"})
        /\ split' = FALSE

disconnect ==
    /\ Takes("Disconnect") /\ Disconnected
    /\ UNCHANGED <<sleepers, stage, sent>> /\ Stays

\* The threads of a process that ends, end; tor goes with the thread that spawned it.
NoThreads == [s \in Sessions |-> IF stage[s] = "none" THEN "none" ELSE "gone"]

\* teardown_and_quit
TornDown ==
    /\ active' = None /\ port' = 0 /\ attempts' = 0 /\ route' = FALSE
    /\ queue' = <<>> /\ sleepers' = 0 /\ stage' = NoThreads /\ tor' = {}
    /\ up' = Without(Tunnels) /\ proxy' = FALSE /\ split' = FALSE /\ sent' = FALSE
    /\ process' = "quit"
    /\ UNCHANGED <<root, host>>

\* QuitApp and SignalQuit
teardown_and_quit == Next_is("QuitApp") /\ TornDown

\* When the state cannot be saved the client only disconnects.
DisconnectThenQuit ==
    \/ Next_is("DisconnectThenQuit") /\ TornDown
    \/ /\ Takes("DisconnectThenQuit") /\ Disconnected
       /\ UNCHANGED <<sleepers, stage, sent>> /\ Stays

\* start_backend: what an earlier client may have left is cleaned up.
StartUp(elevated, commands) ==
    /\ active' = None /\ port' = 0 /\ attempts' = 0 /\ route' = FALSE
    /\ queue' = commands /\ sleepers' = 0 /\ stage' = NoThreads /\ tor' = {}
    /\ up' = IF host.helper \/ elevated THEN {} ELSE up
    /\ proxy' = FALSE /\ split' = FALSE /\ sent' = FALSE
    /\ process' = "up" /\ root' = elevated
    /\ UNCHANGED host

\* relaunch_elevated_with_args: an elevated client takes over, told what to
\* connect, and this one exits without taking anything down.
Relaunched(commands) == StartUp(TRUE, commands)

\* The ports are reserved one after another.
Free(s) == stage[s] = "none" /\ \A r \in 1 .. s - 1 : stage[r] # "none"

\* tor_bridge_torrc: bridges are off, or their transport and their lines are there.
tor_bridge_torrc == host.bridges

\* The bridges are refused, after the session was recorded; or the
\* process is spawned; or it cannot be.
SpawnTor(s) ==
    /\ active' = As("tor", "Connecting") /\ port' = s /\ attempts' = 0
    /\ \/ /\ tor_bridge_torrc
          /\ stage' = [stage EXCEPT ![s] = "boot"] /\ tor' = {s}
          /\ queue' = Tail(queue)
       \/ /\ stage' = [stage EXCEPT ![s] = "gone"] /\ tor' = {}
          /\ queue' = IF tor_bridge_torrc THEN Append(Tail(queue), Report("TorFailed", s))
                                      ELSE Tail(queue)
    /\ UNCHANGED <<route, net, sleepers, sent>> /\ Stays

\* connect_to_tor: something is active, or no tor is installed, or it starts.
connect_to_tor ==
    \/ Takes("ConnectTor") /\ Ignores
    \/ /\ Next_is("ConnectTor") /\ active.kind = "none"
       /\ \E s \in Sessions : Free(s) /\ SpawnTor(s)

\* system_proxy::enable: without gsettings nothing is set.
proxy_enable(before) == {before, TRUE}

\* Mutant: a start that fails leaves the flag.
TorStartKeeps ==
    LET rest == IF host.helper THEN up \ {"tor"} ELSE up \ Socks
    IN  /\ \/ /\ route' = TRUE /\ up' = rest \cup {"tor"}
              /\ proxy' \in proxy_enable(proxy /\ host.helper)
           \/ up' = rest /\ proxy' = (proxy /\ host.helper) /\ UNCHANGED route
        /\ split' = FALSE

\* tor_start at the helper, or start_tor_system_tunnel in the elevated client.
\* Both stop the tunnel they keep and clear the split before they start one.
TorStart ==
    LET rest == IF host.helper THEN up \ {"tor"} ELSE up \ Socks
    IN  /\ \/ /\ route' = TRUE /\ up' = rest \cup {"tor"}
              /\ proxy' \in proxy_enable(proxy /\ host.helper)
           \/ /\ route' = FALSE /\ up' = rest
              /\ proxy' = (proxy /\ host.helper)
        /\ split' = FALSE

\* An exit is known.  Without a helper and not elevated, the elevation is asked
\* for a little later.
TorConnected ==
    /\ Takes("TorConnected")
    /\ IF live(Head(queue).port)
       THEN /\ active' = [active EXCEPT !.phase = "Connected"]
            /\ attempts' = IF host.isolation = "apps" THEN attempts ELSE 0
            /\ IF host.isolation = "system" /\ (host.helper \/ (root /\ ~(route /\ "tor" \in up)))
               THEN TorStart /\ UNCHANGED sleepers
               ELSE /\ route' = (route /\ host.isolation = "system" /\ root)
                    /\ sleepers' = IF host.isolation = "system" /\ ~root THEN sleepers + 1
                                                                        ELSE sleepers
                    /\ UNCHANGED net
            /\ UNCHANGED <<port, stage, tor, sent>> /\ Stays
       ELSE Ignores

\* No exit is known: the route is tried in five seconds, 24 times in all.
TorUnknown ==
    /\ Takes("TorUnknown")
    /\ IF live(Head(queue).port)
       THEN /\ active' = [active EXCEPT !.phase = "Connected"]
            /\ route' = (route /\ host.isolation = "system" /\ attempts < 24)
            /\ IF host.isolation = "system" /\ attempts < 24
               THEN attempts' = attempts + 1 /\ sleepers' = sleepers + 1
               ELSE UNCHANGED <<attempts, sleepers>>
            /\ UNCHANGED <<port, net, stage, tor, sent>> /\ Stays
       ELSE Ignores

TorFailed ==
    /\ Takes("TorFailed")
    /\ IF live(Head(queue).port)
       THEN Disconnected /\ UNCHANGED <<sleepers, stage, sent>> /\ Stays
       ELSE Ignores

\* Mutant: a retry is taken for the current session's whatever is active.
apply_tor_system_route_any ==
    /\ Takes("ApplyTorSystemRoute")
    /\ Can /\ TorStart
    /\ UNCHANGED <<active, port, attempts, sleepers, stage, tor, sent>> /\ Stays

\* apply_tor_system_route.  What the helper answers never asks for a retry.
apply_tor_system_route ==
    \/ /\ Takes("ApplyTorSystemRoute")
       /\ IF port = 0 \/ active.kind # "tor"
          THEN route' = FALSE /\ UNCHANGED <<attempts, net>>
          ELSE \/ /\ Can /\ TorStart
                  /\ attempts' = IF host.helper /\ ~route' THEN 0 ELSE attempts
               \/ ~Can /\ UNCHANGED <<attempts, route, net>>
       /\ UNCHANGED <<active, port, sleepers, stage, tor, sent>> /\ Stays
    \/ /\ Next_is("ApplyTorSystemRoute")
       /\ port # 0 /\ active.kind = "tor" /\ ~Can
       /\ Relaunched(<<Cmd("ConnectTor")>>)

\* apply_client_tunnel: only an elevated client brings the interface up.
apply_client_tunnel == IF root THEN up \cup {"zn"} ELSE up

\* apply_platform_tunnel_for_connection: the interface, or an openvpn in place of
\* the one that runs, which may not be found or not be spawned.
apply_platform_tunnel_for_connection(protocol) ==
    IF protocol = "openvpn" /\ root
    THEN {up \ {"ovpn"}, up \cup {"ovpn"}}
    ELSE {up} \cup (IF protocol = "openvpn" THEN {} ELSE {apply_client_tunnel})

\* connection_from_lease: the session that the polls will ask after.
connection_from_lease == [As("server", "Connected") EXCEPT !.session = TRUE]

\* connect_to_server: a lease; a cooldown, stored or new; a refusal or
\* no answer.
Login ==
    \/ active' = connection_from_lease /\ up' \in apply_platform_tunnel_for_connection(host.server)
    \/ active' = As("server", "Cooldown") /\ UNCHANGED up
    \/ active' = [As("server", "Error") EXCEPT !.tries = 1] /\ UNCHANGED up

connect_to_server ==
    /\ Takes("Connect")
    /\ Login
    /\ UNCHANGED <<port, attempts, route, proxy, split, sleepers, stage, tor, sent>> /\ Stays

\* How a start of a profile ends: up, or with something of it left behind.
Starts(kind, tunnel, rest, leftovers) ==
    \/ active' = As(kind, "Connected") /\ up' = rest \cup {tunnel}
    \/ active' = As(kind, "Error") /\ up' \in {rest} \cup leftovers

\* connect_to_ovpn_file asks nobody whether a tunnel is up; a failed start kills
\* every openvpn.
ConnectOvpn ==
    root /\ Starts("ovpn", "ovpn", up \ {"ovpn"}, {}) /\ UNCHANGED <<proxy, split>>

\* connect_to_wireguard begins with stop_global.
ConnectWireGuard ==
    \/ root /\ Starts("wg", "zn", up \ {"zn"}, {up \cup {"zn"}}) /\ UNCHANGED <<proxy, split>>
    \/ ~root /\ active' = As("wg", "Error") /\ UNCHANGED net

\* connect_to_pptp: a start that fails leaves pppd.
ConnectPptp ==
    \/ root /\ Starts("pptp", "pptp", up \ {"pptp"}, {up \cup {"pptp"}}) /\ UNCHANGED <<proxy, split>>
    \/ ~root /\ active' = As("pptp", "Error") /\ UNCHANGED net

\* connect_to_outline begins with stop_outline, in this process.
ConnectOutline ==
    \/ /\ root /\ proxy' = FALSE /\ UNCHANGED split
       /\ LET rest == IF host.helper THEN up \ {"outline"} ELSE up \ Socks
          IN  Starts("outline", "outline", rest, {rest \cup {"outline"}})
    \/ ~root /\ active' = As("outline", "Error") /\ UNCHANGED net

\* The profile is not found, or another tunnel is busy; or it is started; or an
\* elevated client takes over.
ConnectProfile(kind) ==
    \/ Takes(kind) /\ Ignores
    \/ /\ Takes(kind)
       /\ kind # "ovpn" => ~reject_if_other_tunnel_busy(kind)
       /\ CASE kind = "ovpn" -> ConnectOvpn      [] kind = "wg"      -> ConnectWireGuard
            [] kind = "pptp" -> ConnectPptp      [] kind = "outline" -> ConnectOutline
       /\ UNCHANGED <<port, attempts, route, sleepers, stage, tor, sent>> /\ Stays
    \/ /\ Next_is(kind) /\ kind # "pptp" /\ ~root
       /\ kind # "ovpn" => ~reject_if_other_tunnel_busy(kind)
       /\ Relaunched(<<Cmd(kind)>>)

\* apply_kernel_tunnel: the session still has its lease, or nothing is done.
apply_kernel_tunnel ==
    /\ Takes("ApplyTunnel")
    /\ up' \in {up} \cup (IF active.session THEN apply_platform_tunnel_for_connection("wireguard") ELSE {})
    /\ UNCHANGED <<conn, proxy, split, sleepers, stage, tor, sent>> /\ Stays

\* remove_kernel_tunnel: the interface goes, whoever's it is.
remove_kernel_tunnel ==
    /\ Takes("RemoveTunnel")
    /\ up' = IF root THEN up \ {"zn"} ELSE up
    /\ UNCHANGED <<conn, proxy, split, sleepers, stage, tor, sent>> /\ Stays

\* split_apply at the helper: it wants a tunnel, and clears before it applies.
ApplySplitTunnel ==
    /\ Takes("ApplySplitTunnel")
    /\ split' \in IF host.helper THEN {split, FALSE, up # {}} ELSE {split}
    /\ UNCHANGED <<conn, up, proxy, sleepers, stage, tor, sent>> /\ Stays

ClearSplitTunnel ==
    /\ Takes("ClearSplitTunnel") /\ split' = FALSE
    /\ UNCHANGED <<conn, up, proxy, sleepers, stage, tor, sent>> /\ Stays

\* handle_command
Handle ==
    \/ connect_to_tor \/ TorConnected \/ TorUnknown \/ TorFailed \/ apply_tor_system_route
    \/ connect_to_server \/ \E kind \in Profiles : ConnectProfile(kind)
    \/ apply_kernel_tunnel \/ remove_kernel_tunnel
    \/ ApplySplitTunnel \/ ClearSplitTunnel
    \/ disconnect \/ DisconnectThenQuit \/ teardown_and_quit

-----------------------------------------------------------------------------
(***************************************************************************)
(* The five-second poll, the end of the client and its start.              *)
(***************************************************************************)
TryCap == 5   \* more failures in a row than this are not told apart

Tried == IF active.tries < TryCap THEN active.tries + 1 ELSE TryCap

\* consume_status and the branch of a query that failed.
Polled ==
    {[active EXCEPT !.phase = IF Tried >= 4 THEN "Error" ELSE "Reconnecting", !.tries = Tried],
     [active EXCEPT !.phase = "Error"],
     [active EXCEPT !.phase = "Connected", !.tries = 0],
     [active EXCEPT !.phase = IF active.tries >= 3 THEN "Error" ELSE "Reconnecting",
                    !.tries = Tried]}

\* poll_active_connection: a cooldown that is over, or a session of a server.
poll_active_connection ==
    /\ process = "up"
    /\ \/ active.phase = "Cooldown" /\ active' = None
       \/ active.session /\ active' \in Polled
    /\ UNCHANGED <<port, attempts, route, net, queue, sleepers, stage, tor, sent>> /\ Stays

\* The client is killed, and the kernel ends tor.
Killed ==
    /\ process = "up" /\ process' = "killed"
    /\ active' = None /\ port' = 0 /\ attempts' = 0 /\ route' = FALSE
    /\ queue' = <<>> /\ sleepers' = 0 /\ stage' = NoThreads /\ tor' = {} /\ sent' = FALSE
    /\ UNCHANGED <<net, root, host>>

\* The helper's watchdog: who asked for the Tor tunnel is gone.
Watchdog ==
    /\ process = "killed" /\ host.helper /\ "tor" \in up
    /\ up' = up \ {"tor"} /\ split' = FALSE
    /\ UNCHANGED <<conn, proxy, queue, sleepers, stage, tor, sent>> /\ Stays

Restarted ==
    /\ process # "up"
    /\ \E elevated \in BOOLEAN : StartUp(elevated, <<>>)

-----------------------------------------------------------------------------
Next ==
    \/ \E c \in Commands : Click(c)
    \/ pump_split_tunnel \/ Wake
    \/ \E s \in Sessions : Worker(s) \/ TorDies(s)
    \/ Handle \/ poll_active_connection
    \/ Killed \/ Watchdog \/ Restarted

\* The backend takes up what is queued, though the poll may come between; a worker
\* goes on; a sleeper wakes; the window looks at what it is shown.  MaxMail, which
\* the code has not, holds the window up from time to time but not for good.
Fairness ==
    /\ WF_vars(Handle) /\ WF_vars(Wake) /\ SF_vars(pump_split_tunnel)
    /\ \A s \in Sessions : WF_vars(Worker(s))

Spec == Init /\ [][Next]_vars /\ Fairness

-----------------------------------------------------------------------------
Phases == {"none", "Connecting", "Connected", "Reconnecting", "Cooldown", "Error"}

TypeOK ==
    /\ active \in [kind : Profiles \cup {"none", "tor", "server"}, phase : Phases,
                   tries : 0 .. TryCap, session : BOOLEAN]
    /\ port \in 0 .. MaxSessions /\ attempts \in 0 .. 24 \cup {99} /\ route \in BOOLEAN
    /\ sleepers \in Nat
    /\ queue \in Seq([cmd : Names, port : 0 .. MaxSessions])
    /\ stage \in [Sessions -> Working \cup {"none", "gone"}] /\ tor \subseteq Sessions
    /\ up \subseteq Tunnels /\ proxy \in BOOLEAN /\ split \in BOOLEAN /\ sent \in BOOLEAN
    /\ process \in {"up", "quit", "killed"} /\ root \in BOOLEAN /\ host \in Hosts

\* What a connection of a kind may have set up.
Own == [kind \in Profiles \cup {"none", "tor", "server"} |->
          CASE kind = "none" -> {}
            [] kind \in {"wg", "server"} -> {"zn"}
            [] OTHER -> {kind}]

\* One connection at a time, and the client can take down what it set up.
Orderly == Can /\ ~host.overlaps /\ host.server = "wireguard" /\ process # "killed"

\* What is set up on the host is the active connection's, after every failed
\* start, late answer, kill and restart; with none, nothing is left: no tunnel,
\* no tor, no proxy.
TunnelsBelong ==
    Orderly =>
        /\ up \subseteq Own[active.kind]
        /\ active.kind = "none" => tor = {} /\ ~proxy /\ ~route /\ port = 0

\* "On - all apps use Tor" is shown exactly while Tor's tunnel is up.
RouteShown ==
    Orderly /\ host.isolation = "system" => (route <=> "tor" \in up)

\* A session that runs is not ended by what another session's worker says, nor by
\* a late retry: only the user or its own worker's TorFailed ends it, never the poll.
EndsByItsOwn ==
    [][active.kind = "tor" /\ active'.kind # "tor" =>
          \/ process' # "up"
          \/ /\ queue # <<>>
             /\ \/ Head(queue).cmd \in UserCommands \cup {"ApplyTorSystemRoute"}
                \/ Head(queue) = Report("TorFailed", port)]_vars

\* A session whose tor died is over: no tunnel stays in front of a dead SOCKS port.
TorDeathEnds ==
    \A s \in Sessions :
        (stage[s] \in Working /\ s \notin tor) ~> (port # s \/ active.kind # "tor")

\* A session that was given its tor does not stay "Connecting".
BootstrapEnds ==
    (active.kind = "tor" /\ active.phase = "Connecting" /\ host.bridges)
        ~> (active.kind # "tor" \/ active.phase # "Connecting")

\* The split ends with the connection it was asked for, unless the client is killed.
SplitEnds ==
    (split /\ ~split_tunnel_live) ~> (~split \/ split_tunnel_live \/ process # "up")
=============================================================================
