---------------------------- MODULE DesktopProofs ----------------------------
(***************************************************************************)
(* The desktop backend keeps its promises for any number of Tor sessions,  *)
(* any length of the queue and every host.                                 *)
(***************************************************************************)
EXTENDS Desktop, TLAPS

Mail       == [cmd : Names, port : 0 .. MaxSessions]
Kinds      == Profiles \cup {"none", "tor", "server"}
Connection == [kind : Kinds, phase : Phases, tries : 0 .. TryCap, session : BOOLEAN]
Stages     == [Sessions -> Working \cup {"none", "gone"}]

-----------------------------------------------------------------------------
(***************************************************************************)
(* Type correctness.                                                       *)
(***************************************************************************)

\* The connections that handlers put in place.
LEMMA ConnectionTypes ==
    /\ None \in Connection /\ connection_from_lease \in Connection
    /\ \A kind \in Kinds, phase \in Phases :
         /\ As(kind, phase) \in Connection
         /\ [As(kind, phase) EXCEPT !.tries = 1] \in Connection
    /\ \A c \in Connection, phase \in Phases : [c EXCEPT !.phase = phase] \in Connection
<1>1. \A kind \in Kinds, phase \in Phases : As(kind, phase) \in Connection
  BY DEF As, Connection, TryCap
<1>2. {"none", "server"} \subseteq Kinds /\ {"none", "Connected"} \subseteq Phases /\ 1 \in 0 .. TryCap
  BY DEF Kinds, Phases, TryCap
<1>3. \A c \in Connection, phase \in Phases : [c EXCEPT !.phase = phase] \in Connection
  BY DEF Connection
<1>4. \A c \in Connection : [c EXCEPT !.tries = 1] \in Connection
  BY <1>2 DEF Connection
<1>5. \A c \in Connection : [c EXCEPT !.session = TRUE] \in Connection
  BY DEF Connection
<1>6. None \in Connection
  BY <1>1, <1>2 DEF None, As
<1>. QED BY <1>1, <1>2, <1>3, <1>4, <1>5, <1>6 DEF connection_from_lease

\* The phase is what most handlers change.
LEMMA PhaseTypes ==
    ASSUME TypeOK, NEW phase \in Phases
    PROVE  [active EXCEPT !.phase = phase] \in Connection
<1>1. active \in Connection
  BY DEF TypeOK, Connection, Kinds
<1>. QED BY <1>1, ConnectionTypes

\* Taking the first command, and posting one more, leave a queue.
LEMMA QueueTypes ==
    ASSUME TypeOK, NEW name \in Names, NEW s \in 0 .. MaxSessions
    PROVE  /\ queue # <<>> => Tail(queue) \in Seq(Mail) /\ Head(queue) \in Mail
           /\ Append(queue, Report(name, s)) \in Seq(Mail)
           /\ Append(queue, Cmd(name)) \in Seq(Mail)
           /\ queue # <<>> => Append(Tail(queue), Report(name, s)) \in Seq(Mail)
           /\ <<Cmd(name)>> \in Seq(Mail) /\ <<>> \in Seq(Mail)
<1>1. queue \in Seq(Mail)
  BY DEF TypeOK, Mail
<1>2. Report(name, s) \in Mail /\ Cmd(name) \in Mail
  BY DesktopAssumption DEF Report, Cmd, Mail
<1>. QED BY <1>1, <1>2

LEMMA TakesTypes ==
    ASSUME TypeOK, NEW name, Takes(name)
    PROVE  /\ queue' \in Seq([cmd : Names, port : 0 .. MaxSessions])
           /\ Head(queue) \in Mail
<1>1. "ConnectTor" \in Names /\ 0 \in 0 .. MaxSessions
  BY DesktopAssumption DEF Names, UserCommands, Connects
<1>. QED BY <1>1, QueueTypes DEF Takes, Next_is, Mail

\* The parts that most handlers leave alone.
LEMMA PostTypes ==
    TypeOK /\ ((\E c \in Commands : Click(c)) \/ pump_split_tunnel \/ Wake) => TypeOK'
<1> SUFFICES ASSUME TypeOK, (\E c \in Commands : Click(c)) \/ pump_split_tunnel \/ Wake
             PROVE TypeOK'
  OBVIOUS
<1>1. /\ {"ApplyTorSystemRoute", "ApplySplitTunnel", "ClearSplitTunnel"} \subseteq Names
      /\ Commands \subseteq Names /\ 0 \in 0 .. MaxSessions
  BY DesktopAssumption DEF Names
<1>2. queue' \in Seq(Mail)
  <2>1. \A name \in Names : Append(queue, Cmd(name)) \in Seq(Mail)
    BY <1>1, QueueTypes
  <2>2. CASE \E c \in Commands : Click(c)
    BY <1>1, <2>1, <2>2 DEF Click
  <2>3. CASE pump_split_tunnel
    BY <1>1, <2>1, <2>3 DEF pump_split_tunnel
  <2>4. CASE Wake
    BY <1>1, <2>1, <2>4 DEF Wake
  <2>. QED BY <2>2, <2>3, <2>4
<1>3. CASE \E c \in Commands : Click(c)
  BY <1>2, <1>3 DEF TypeOK, Click, conn, net, Mail
<1>4. CASE pump_split_tunnel
  <2>1. sent' \in BOOLEAN
    BY <1>4 DEF pump_split_tunnel
  <2>. QED BY <1>2, <1>4, <2>1 DEF TypeOK, pump_split_tunnel, conn, net, Mail
<1>5. CASE Wake
  <2>1. sleepers' \in Nat
    BY <1>5 DEF Wake, TypeOK
  <2>. QED BY <1>2, <1>5, <2>1 DEF TypeOK, Wake, conn, net, Mail
<1>. QED BY <1>3, <1>4, <1>5

LEMMA WorkerTypes ==
    ASSUME TypeOK, NEW s \in Sessions, Worker(s) \/ TorDies(s)
    PROVE  TypeOK'
<1>1. {"TorFailed", "TorConnected", "TorUnknown"} \subseteq Names /\ s \in 0 .. MaxSessions
  BY DEF Names, Sessions
<1>2. ASSUME NEW name \in {"TorFailed", "TorConnected", "TorUnknown"},
             NEW next \in Working \cup {"gone"}, Posts(s, name, next)
      PROVE  TypeOK'
  <2>1. queue' \in Seq(Mail)
    BY <1>1, <1>2, QueueTypes DEF Posts
  <2>2. stage' \in Stages /\ tor' \subseteq Sessions
    BY <1>2 DEF Posts, TypeOK, Stages
  <2>. QED BY <1>2, <2>1, <2>2 DEF TypeOK, Posts, conn, net, Mail, Stages
<1>3. ASSUME NEW next \in Working, Becomes(s, next) PROVE TypeOK'
  BY <1>3 DEF TypeOK, Becomes, conn, net
<1>4. CASE TorDies(s)
  BY <1>4 DEF TypeOK, TorDies, conn, net
<1>5. CASE WorkerSeesDeath(s)
  BY <1>2, <1>5 DEF WorkerSeesDeath
<1>6. CASE Resolved(s)
  BY <1>2, <1>6 DEF Resolved, Working
<1>7. CASE Unresolved(s)
  BY <1>2, <1>7 DEF Unresolved, Working
<1>8. CASE Refined(s)
  BY <1>2, <1>3, <1>8 DEF Refined, Working
<1>9. CASE Probed(s)
  BY <1>2, <1>3, <1>9 DEF Probed, Working
<1>. QED BY <1>4, <1>5, <1>6, <1>7, <1>8, <1>9 DEF Worker

\* What all the ways to disconnect have in common.
LEMMA DisconnectedTypes ==
    ASSUME TypeOK, Disconnected
    PROVE  /\ active' \in Connection /\ port' \in 0 .. MaxSessions
           /\ attempts' \in 0 .. 24 \cup {99} /\ route' \in BOOLEAN
           /\ tor' \subseteq Sessions /\ up' \subseteq Tunnels
           /\ proxy' \in BOOLEAN /\ split' \in BOOLEAN
<1>1. active' \in Connection
  BY ConnectionTypes DEF Disconnected
<1>2. port' \in 0 .. MaxSessions
  BY DesktopAssumption DEF Disconnected, TypeOK
<1>3. up' \subseteq Tunnels
  BY DEF Disconnected, Without, TypeOK
<1>4. attempts' \in 0 .. 24 \cup {99}
  BY DEF Disconnected, TypeOK
<1>. QED BY <1>1, <1>2, <1>3, <1>4 DEF Disconnected, TypeOK

LEMMA DisconnectTypes == TypeOK /\ (disconnect \/ DisconnectThenQuit \/ teardown_and_quit) => TypeOK'
<1>1. ASSUME TypeOK, NEW name, Takes(name), Disconnected,
             UNCHANGED <<sleepers, stage, sent>>, Stays
      PROVE  TypeOK'
  BY <1>1, DisconnectedTypes, TakesTypes DEF TypeOK, Stays, Connection, Kinds
<1>2. ASSUME TypeOK, TornDown PROVE TypeOK'
  <2>1. active' \in Connection /\ queue' \in Seq(Mail)
    BY <1>2, ConnectionTypes DEF TornDown
  <2>2. stage' \in Stages
    BY <1>2 DEF TornDown, NoThreads, Stages
  <2>3. up' \subseteq Tunnels
    BY <1>2 DEF TornDown, Without, TypeOK
  <2>4. port' \in 0 .. MaxSessions
    BY <1>2, DesktopAssumption DEF TornDown
  <2>5. attempts' \in 0 .. 24 \cup {99} /\ sleepers' \in Nat /\ tor' \subseteq Sessions
    BY <1>2 DEF TornDown
  <2>6. /\ route' \in BOOLEAN /\ proxy' \in BOOLEAN /\ split' \in BOOLEAN /\ sent' \in BOOLEAN
        /\ process' \in {"up", "quit", "killed"} /\ root' \in BOOLEAN /\ host' \in Hosts
    BY <1>2 DEF TornDown, TypeOK
  <2>. QED BY <2>1, <2>2, <2>3, <2>4, <2>5, <2>6
           DEF TypeOK, Connection, Kinds, Mail, Stages
<1>. QED BY <1>1, <1>2 DEF disconnect, DisconnectThenQuit, teardown_and_quit

\* A client that starts, by itself or in the place of another one.
LEMMA StartUpTypes ==
    ASSUME TypeOK, NEW elevated \in BOOLEAN, NEW commands \in Seq(Mail),
           StartUp(elevated, commands)
    PROVE  TypeOK'
<1>1. active' \in Connection /\ queue' \in Seq(Mail)
  BY ConnectionTypes DEF StartUp
<1>2. stage' \in Stages
  BY DEF StartUp, NoThreads, Stages
<1>3. up' \subseteq Tunnels
  BY DEF StartUp, TypeOK
<1>4. port' \in 0 .. MaxSessions
  BY DesktopAssumption DEF StartUp
<1>5. attempts' \in 0 .. 24 \cup {99} /\ sleepers' \in Nat /\ tor' \subseteq Sessions
  BY DEF StartUp
<1>6. /\ route' \in BOOLEAN /\ proxy' \in BOOLEAN /\ split' \in BOOLEAN /\ sent' \in BOOLEAN
      /\ process' \in {"up", "quit", "killed"} /\ root' \in BOOLEAN /\ host' \in Hosts
  BY DEF StartUp, TypeOK
<1>. QED BY <1>1, <1>2, <1>3, <1>4, <1>5, <1>6 DEF TypeOK, Connection, Kinds, Mail, Stages

LEMMA RelaunchedTypes ==
    ASSUME TypeOK, NEW name \in Names, Relaunched(<<Cmd(name)>>)
    PROVE  TypeOK'
<1>1. 0 \in 0 .. MaxSessions
  BY DesktopAssumption
<1>2. <<Cmd(name)>> \in Seq(Mail)
  BY <1>1, QueueTypes
<1>. QED BY <1>2, StartUpTypes DEF Relaunched

LEMMA TorStartTypes ==
    ASSUME TypeOK, TorStart
    PROVE  route' \in BOOLEAN /\ up' \subseteq Tunnels /\ proxy' \in BOOLEAN /\ split' \in BOOLEAN
BY DEF TorStart, TypeOK, proxy_enable, Tunnels, Socks

LEMMA TorTypes ==
    TypeOK /\ (connect_to_tor \/ TorConnected \/ TorUnknown \/ TorFailed
                              \/ apply_tor_system_route) => TypeOK'
<1> SUFFICES ASSUME TypeOK, connect_to_tor \/ TorConnected \/ TorUnknown \/ TorFailed
                                           \/ apply_tor_system_route
             PROVE TypeOK'
  OBVIOUS
<1>1. ASSUME NEW name, Takes(name), Ignores PROVE TypeOK'
  BY ZenonT(60), <1>1, TakesTypes DEF TypeOK, Ignores, Stays, conn, net
<1>2. CASE connect_to_tor
  <2>1. ASSUME NEW s \in Sessions, Next_is("ConnectTor"), SpawnTor(s) PROVE TypeOK'
    <3>1. s \in 0 .. MaxSessions /\ "TorFailed" \in Names
      BY DEF Names, Sessions
    <3>2. queue' \in Seq(Mail)
      BY <2>1, <3>1, QueueTypes DEF Next_is, SpawnTor
    <3>3. stage' \in Stages /\ tor' \subseteq Sessions
      BY <2>1 DEF SpawnTor, TypeOK, Stages, Working
    <3>4. active' \in Connection
      BY <2>1, ConnectionTypes DEF SpawnTor, Kinds, Phases
    <3>. QED BY <2>1, <3>1, <3>2, <3>3, <3>4
             DEF SpawnTor, TypeOK, Stays, net, Connection, Kinds, Mail, Stages
  <2>. QED BY <1>1, <1>2, <2>1 DEF connect_to_tor
<1>3. CASE TorConnected
  <2>1. CASE live(Head(queue).port)
    <3>1. active' = [active EXCEPT !.phase = "Connected"]
      BY <1>3, <2>1 DEF TorConnected
    <3>2. active' \in Connection
      BY <3>1, PhaseTypes DEF Phases
    <3>3. \/ TorStart /\ UNCHANGED sleepers
          \/ /\ route' = (route /\ host.isolation = "system" /\ root)
             /\ sleepers' \in {sleepers, sleepers + 1} /\ UNCHANGED net
      BY <1>3, <2>1, Zenon DEF TorConnected
    <3>4. route' \in BOOLEAN /\ up' \subseteq Tunnels /\ proxy' \in BOOLEAN /\ split' \in BOOLEAN
      BY <3>3, TorStartTypes, Zenon DEF TypeOK, net
    <3>5. sleepers' \in Nat
      BY <3>3 DEF TypeOK
    <3>6. attempts' \in {0, attempts}
      BY <1>3, <2>1 DEF TorConnected
    <3>7. attempts' \in 0 .. 24 \cup {99}
      BY <3>6 DEF TypeOK
    <3>8. queue' \in Seq(Mail)
      BY <1>3, TakesTypes DEF TorConnected, Mail
    <3>9. UNCHANGED <<port, stage, tor, sent>> /\ Stays
      BY <1>3, <2>1, Zenon DEF TorConnected
    <3>. QED BY <3>2, <3>4, <3>5, <3>7, <3>8, <3>9
             DEF TypeOK, Stays, Connection, Kinds, Mail
  <2>. QED BY <1>1, <1>3, <2>1 DEF TorConnected
<1>4. CASE TorUnknown
  <2>1. CASE live(Head(queue).port)
    <3>1. active' = [active EXCEPT !.phase = "Connected"]
      BY <1>4, <2>1 DEF TorUnknown
    <3>2. active' \in Connection
      BY <3>1, PhaseTypes DEF Phases
    <3>3. \/ attempts < 24 /\ attempts' = attempts + 1 /\ sleepers' = sleepers + 1
          \/ UNCHANGED <<attempts, sleepers>>
      BY <1>4, <2>1, Zenon DEF TorUnknown
    <3>4. attempts' \in 0 .. 24 \cup {99} /\ sleepers' \in Nat
      <4>1. attempts \in 0 .. 24 \cup {99} /\ sleepers \in Nat
        BY DEF TypeOK
      <4>. QED BY <3>3, <4>1
    <3>5. route' \in BOOLEAN
      BY <1>4, <2>1, Zenon DEF TorUnknown
    <3>6. queue' \in Seq(Mail)
      BY <1>4, TakesTypes DEF TorUnknown, Mail
    <3>7. UNCHANGED <<port, net, stage, tor, sent>> /\ Stays
      BY <1>4, <2>1, Zenon DEF TorUnknown
    <3>. QED BY <3>2, <3>4, <3>5, <3>6, <3>7
             DEF TypeOK, Stays, net, Connection, Kinds, Mail
  <2>. QED BY <1>1, <1>4, <2>1 DEF TorUnknown
<1>5. CASE TorFailed
  <2>1. CASE live(Head(queue).port)
    BY ZenonT(60), <1>5, <2>1, DisconnectedTypes, TakesTypes
    DEF TorFailed, TypeOK, Stays, Connection, Kinds
  <2>. QED BY <1>1, <1>5, <2>1 DEF TorFailed
<1>6. CASE apply_tor_system_route
  <2>1. ASSUME Takes("ApplyTorSystemRoute"), route' \in BOOLEAN, attempts' \in {0, attempts},
               TorStart \/ UNCHANGED net,
               UNCHANGED <<active, port, sleepers, stage, tor, sent>>, Stays
        PROVE  TypeOK'
    <3>1. up' \subseteq Tunnels /\ proxy' \in BOOLEAN /\ split' \in BOOLEAN
      BY <2>1, TorStartTypes, Zenon DEF TypeOK, net
    <3>2. attempts' \in 0 .. 24 \cup {99}
      BY <2>1 DEF TypeOK
    <3>3. queue' \in Seq(Mail)
      BY <2>1, TakesTypes DEF Mail
    <3>. QED BY <2>1, <3>1, <3>2, <3>3 DEF TypeOK, Stays, Mail
  <2>2. CASE Relaunched(<<Cmd("ConnectTor")>>)
    <3>1. "ConnectTor" \in Names
      BY DEF Names, UserCommands, Connects
    <3>. QED BY <2>2, <3>1, RelaunchedTypes
  <2>3. TorStart => route' \in BOOLEAN
    BY TorStartTypes
  <2>4. route \in BOOLEAN
    BY DEF TypeOK
  <2>. QED BY <1>6, <2>1, <2>2, <2>3, <2>4, Zenon DEF apply_tor_system_route
<1>. QED BY <1>2, <1>3, <1>4, <1>5, <1>6

LEMMA ConnectTypes ==
    TypeOK /\ (connect_to_server \/ \E kind \in Profiles : ConnectProfile(kind)) => TypeOK'
<1> SUFFICES ASSUME TypeOK, connect_to_server \/ \E kind \in Profiles : ConnectProfile(kind)
             PROVE TypeOK'
  OBVIOUS
<1>1. ASSUME NEW name, Takes(name), active' \in Connection, up' \subseteq Tunnels,
             proxy' \in BOOLEAN, split' \in BOOLEAN,
             UNCHANGED <<port, attempts, route, sleepers, stage, tor, sent>>, Stays
      PROVE  TypeOK'
  BY <1>1, TakesTypes DEF TypeOK, Stays, Connection, Kinds
<1>2. \A protocol : \A x \in apply_platform_tunnel_for_connection(protocol) : x \subseteq Tunnels
  BY DEF apply_platform_tunnel_for_connection, apply_client_tunnel, TypeOK, Tunnels
<1>3. CASE connect_to_server
  <2>1. active' \in Connection
    <3>1. "server" \in Kinds /\ "Cooldown" \in Phases /\ "Error" \in Phases
      BY DEF Kinds, Phases
    <3>. QED BY <1>3, <3>1, ConnectionTypes DEF connect_to_server, Login
  <2>2. up' \subseteq Tunnels
    BY <1>2, <1>3 DEF connect_to_server, Login, TypeOK
  <2>. QED BY <1>1, <1>3, <2>1, <2>2 DEF connect_to_server, TypeOK
<1>4. ASSUME NEW kind \in Profiles, ConnectProfile(kind) PROVE TypeOK'
  <2>1. ASSUME NEW tunnel \in Tunnels, NEW rest \in SUBSET Tunnels,
               NEW leftovers \in SUBSET SUBSET Tunnels, NEW k \in Profiles,
               Starts(k, tunnel, rest, leftovers)
        PROVE  active' \in Connection /\ up' \subseteq Tunnels
    <3>1. k \in Kinds /\ "Connected" \in Phases /\ "Error" \in Phases
      BY DEF Kinds, Phases
    <3>. QED BY <2>1, <3>1, ConnectionTypes DEF Starts
  <2>2. up \subseteq Tunnels /\ proxy \in BOOLEAN /\ split \in BOOLEAN
    BY DEF TypeOK
  <2>10. \A k \in Profiles : As(k, "Error") \in Connection
    BY ConnectionTypes DEF Kinds, Phases
  <2>3. ConnectOvpn => active' \in Connection /\ up' \subseteq Tunnels /\ UNCHANGED <<proxy, split>>
    BY <2>1, <2>2 DEF ConnectOvpn, Profiles, Tunnels
  <2>4. ConnectWireGuard => active' \in Connection /\ up' \subseteq Tunnels /\ UNCHANGED <<proxy, split>>
    BY <2>1, <2>2, <2>10 DEF ConnectWireGuard, net, Profiles, Tunnels
  <2>5. ConnectPptp => active' \in Connection /\ up' \subseteq Tunnels /\ UNCHANGED <<proxy, split>>
    BY <2>1, <2>2, <2>10 DEF ConnectPptp, net, Profiles, Tunnels
  <2>6. ConnectOutline => /\ active' \in Connection /\ up' \subseteq Tunnels
                          /\ proxy' \in BOOLEAN /\ UNCHANGED split
    <3>1. CASE root
      <4>1. (up \ {"outline"}) \in SUBSET Tunnels /\ (up \ Socks) \in SUBSET Tunnels
        BY <2>2
      <4>2. \A rest \in SUBSET Tunnels :
              Starts("outline", "outline", rest, {rest \cup {"outline"}})
                 => active' \in Connection /\ up' \subseteq Tunnels
        BY <2>1 DEF Profiles, Tunnels
      <4>. QED BY <3>1, <4>1, <4>2 DEF ConnectOutline
    <3>2. CASE ~root
      BY <2>2, <2>10, <3>2 DEF ConnectOutline, net, Profiles
    <3>. QED BY <3>1, <3>2
  <2>7. CASE Takes(kind) /\ Ignores
    BY ZenonT(60), <2>7, TakesTypes DEF TypeOK, Ignores, Stays, conn, net
  <2>8. CASE Relaunched(<<Cmd(kind)>>)
    <3>1. kind \in Names
      BY DEF Names, UserCommands, Connects
    <3>. QED BY <2>8, <3>1, RelaunchedTypes
  <2>9. CASE /\ Takes(kind)
             /\ ConnectOvpn \/ ConnectWireGuard \/ ConnectPptp \/ ConnectOutline
             /\ UNCHANGED <<port, attempts, route, sleepers, stage, tor, sent>> /\ Stays
    <3>1. active' \in Connection /\ up' \subseteq Tunnels /\ proxy' \in BOOLEAN /\ split' \in BOOLEAN
      BY <2>2, <2>3, <2>4, <2>5, <2>6, <2>9
    <3>. QED BY <1>1, <2>9, <3>1
  <2>11. CASE /\ Takes(kind)
              /\ CASE kind = "ovpn" -> ConnectOvpn      [] kind = "wg"      -> ConnectWireGuard
                   [] kind = "pptp" -> ConnectPptp      [] kind = "outline" -> ConnectOutline
              /\ UNCHANGED <<port, attempts, route, sleepers, stage, tor, sent>> /\ Stays
    <3>1. kind \in {"ovpn", "wg", "pptp", "outline"}
      BY DEF Profiles
    <3>. QED BY <2>9, <2>11, <3>1
  <2>. QED BY <1>4, <2>7, <2>8, <2>11, Zenon DEF ConnectProfile
<1>. QED BY <1>3, <1>4

LEMMA OtherTypes ==
    TypeOK /\ (apply_kernel_tunnel \/ remove_kernel_tunnel \/ ApplySplitTunnel \/ ClearSplitTunnel)
        => TypeOK'
<1> SUFFICES ASSUME TypeOK, apply_kernel_tunnel \/ remove_kernel_tunnel
                            \/ ApplySplitTunnel \/ ClearSplitTunnel
             PROVE TypeOK'
  OBVIOUS
<1>1. queue' \in Seq(Mail)
  BY TakesTypes
  DEF apply_kernel_tunnel, remove_kernel_tunnel, ApplySplitTunnel, ClearSplitTunnel, Mail
<1>2. CASE apply_kernel_tunnel
  <2>1. up' \subseteq Tunnels
    BY <1>2 DEF apply_kernel_tunnel, apply_platform_tunnel_for_connection, apply_client_tunnel,
                TypeOK, Tunnels
  <2>. QED BY <1>1, <1>2, <2>1 DEF apply_kernel_tunnel, TypeOK, Stays, conn, Mail
<1>3. CASE remove_kernel_tunnel
  BY <1>1, <1>3 DEF remove_kernel_tunnel, TypeOK, Stays, conn, Mail
<1>4. CASE ApplySplitTunnel
  <2>1. split' \in BOOLEAN
    BY <1>4 DEF ApplySplitTunnel, TypeOK
  <2>. QED BY <1>1, <1>4, <2>1 DEF ApplySplitTunnel, TypeOK, Stays, conn, Mail
<1>5. CASE ClearSplitTunnel
  BY <1>1, <1>5 DEF ClearSplitTunnel, TypeOK, Stays, conn, Mail
<1>. QED BY <1>2, <1>3, <1>4, <1>5

LEMMA PollTypes == TypeOK /\ poll_active_connection => TypeOK'
<1> SUFFICES ASSUME TypeOK, poll_active_connection PROVE TypeOK'
  OBVIOUS
<1>1. active \in Connection
  BY DEF TypeOK, Connection, Kinds
<1>2. Tried \in 0 .. TryCap
  BY <1>1 DEF Tried, TryCap, Connection
<1>3. Polled \subseteq Connection
  <2>1. \A c \in Connection, phase \in Phases, n \in 0 .. TryCap :
           [c EXCEPT !.phase = phase, !.tries = n] \in Connection
    BY DEF Connection
  <2>2. {"Error", "Connected", "Reconnecting"} \subseteq Phases /\ 0 \in 0 .. TryCap
    BY DEF Phases, TryCap
  <2>3. \A worse \in BOOLEAN :
           [active EXCEPT !.phase = IF worse THEN "Error" ELSE "Reconnecting", !.tries = Tried]
             \in Connection
    BY <1>1, <1>2, <2>1, <2>2
  <2>4. /\ [active EXCEPT !.phase = "Error"] \in Connection
        /\ [active EXCEPT !.phase = "Connected", !.tries = 0] \in Connection
    BY <1>1, <2>1, <2>2, ConnectionTypes
  <2>5. (Tried >= 4) \in BOOLEAN /\ (active.tries >= 3) \in BOOLEAN
    OBVIOUS
  <2>. QED BY <2>3, <2>4, <2>5, Zenon DEF Polled
<1>4. active' \in Connection
  BY <1>3, ConnectionTypes DEF poll_active_connection
<1>. QED BY <1>4 DEF poll_active_connection, TypeOK, Stays, net, Connection, Kinds

LEMMA EndTypes == TypeOK /\ (Killed \/ Watchdog \/ Restarted) => TypeOK'
<1> SUFFICES ASSUME TypeOK, Killed \/ Watchdog \/ Restarted PROVE TypeOK'
  OBVIOUS
<1>1. CASE Killed
  <2>1. active' \in Connection /\ queue' \in Seq(Mail) /\ port' \in 0 .. MaxSessions
    BY <1>1, ConnectionTypes, DesktopAssumption DEF Killed
  <2>2. stage' \in Stages /\ tor' \subseteq Sessions /\ attempts' \in 0 .. 24 \cup {99} /\ sleepers' \in Nat
    BY <1>1 DEF Killed, NoThreads, Stages
  <2>3. /\ route' \in BOOLEAN /\ sent' \in BOOLEAN /\ process' \in {"up", "quit", "killed"}
        /\ UNCHANGED <<net, root, host>>
    BY <1>1 DEF Killed
  <2>. QED BY <2>1, <2>2, <2>3 DEF TypeOK, net, Connection, Kinds, Mail, Stages
<1>2. CASE Watchdog
  BY <1>2 DEF Watchdog, TypeOK, Stays, conn
<1>3. CASE Restarted
  <2>1. <<>> \in Seq(Mail)
    OBVIOUS
  <2>. QED BY <1>3, <2>1, StartUpTypes DEF Restarted
<1>. QED BY <1>1, <1>2, <1>3

LEMMA TypesStep == TypeOK /\ [Next]_vars => TypeOK'
<1>1. TypeOK /\ Handle => TypeOK'
  BY DisconnectTypes, TorTypes, ConnectTypes, OtherTypes DEF Handle
<1>2. TypeOK /\ UNCHANGED vars => TypeOK'
  BY DEF TypeOK, vars, conn, net
<1>. QED BY <1>1, <1>2, PostTypes, WorkerTypes, PollTypes, EndTypes DEF Next

LEMMA TypesInit == Init => TypeOK
<1> SUFFICES ASSUME Init PROVE TypeOK
  OBVIOUS
<1>1. active \in Connection
  BY ConnectionTypes DEF Init
<1>2. queue \in Seq(Mail) /\ port \in 0 .. MaxSessions /\ attempts \in 0 .. 24 \cup {99} /\ sleepers \in Nat
  BY DesktopAssumption DEF Init
<1>3. stage \in Stages /\ tor \subseteq Sessions /\ up \subseteq Tunnels
  BY DEF Init, Stages
<1>4. /\ route \in BOOLEAN /\ proxy \in BOOLEAN /\ split \in BOOLEAN /\ sent \in BOOLEAN
      /\ process \in {"up", "quit", "killed"} /\ root \in BOOLEAN /\ host \in Hosts
  BY DEF Init
<1>. QED BY <1>1, <1>2, <1>3, <1>4 DEF TypeOK, Connection, Kinds, Mail, Stages

\* Every variable of the backend keeps its type: among them the retries of the route,
\* which stop at 24, and the polls.
THEOREM DesktopTypeCorrect == Spec => []TypeOK
<1>. QED BY TypesInit, TypesStep, PTL DEF Spec

-----------------------------------------------------------------------------
(***************************************************************************)
(* Which connection is what: only a server's is polled, only Tor's has a   *)
(* port, and a client that ended has none.                                 *)
(***************************************************************************)
PolledIsServer == active.session \/ active.phase = "Cooldown" => active.kind = "server"
OverIsEmpty    == process # "up" => active.kind = "none"
TorHasPort     == active.kind = "tor" => port \in Sessions

ConnectionInv == PolledIsServer /\ OverIsEmpty /\ TorHasPort

\* A handler that leaves the connection as it is, or only its phase.
LEMMA SameConnection ==
    ASSUME ConnectionInv, process' = process, port' = port,
           active' = active \/ active' = [active EXCEPT !.phase = "Connected"], TypeOK
    PROVE  ConnectionInv'
<1>1. active \in Connection
  BY DEF TypeOK, Connection, Kinds
<1>2. active'.kind = active.kind /\ active'.session = active.session
      /\ (active'.phase = active.phase \/ active'.phase = "Connected")
  BY <1>1 DEF Connection
<1>. QED BY <1>2 DEF ConnectionInv, PolledIsServer, OverIsEmpty, TorHasPort

\* A handler that puts a connection of a kind in place of the active one.
LEMMA NewConnection ==
    ASSUME NEW kind \in Kinds, NEW phase,
           \/ active' = As(kind, phase) \/ active' = [As(kind, phase) EXCEPT !.tries = 1],
           phase = "Cooldown" => kind = "server",
           kind = "tor" => port' \in Sessions,
           process' = "up"
    PROVE  ConnectionInv' /\ active'.kind = kind
BY DEF As, ConnectionInv, PolledIsServer, OverIsEmpty, TorHasPort

LEMMA NoConnection == active' = None => ConnectionInv' /\ active'.kind = "none"
BY DEF None, ConnectionInv, PolledIsServer, OverIsEmpty, TorHasPort

LEMMA LeasedConnection ==
    active' = connection_from_lease /\ process' = "up"
        => ConnectionInv' /\ active'.kind = "server"
BY DEF connection_from_lease, As, ConnectionInv, PolledIsServer, OverIsEmpty, TorHasPort

\* What the queue holds may change while the connection does not.
LEMMA QuietKeepsConnection ==
    TypeOK /\ ConnectionInv
    /\ (\/ \E c \in Commands : Click(c)
        \/ pump_split_tunnel \/ Wake
        \/ \E s \in Sessions : Worker(s) \/ TorDies(s)
        \/ apply_kernel_tunnel \/ remove_kernel_tunnel \/ ApplySplitTunnel \/ ClearSplitTunnel
        \/ Watchdog)
    => ConnectionInv' /\ active' = active /\ port' = port /\ process' = process /\ host' = host
<1>1. ASSUME NEW c \in Commands, Click(c)
      PROVE UNCHANGED <<active, port, process, host>>
  BY <1>1 DEF Click, conn
<1>2. pump_split_tunnel \/ Wake => UNCHANGED <<active, port, process, host>>
  BY DEF pump_split_tunnel, Wake, conn
<1>3. ASSUME NEW s \in Sessions, Worker(s) \/ TorDies(s)
      PROVE UNCHANGED <<active, port, process, host>>
  BY <1>3, Zenon DEF Worker, WorkerSeesDeath, Resolved, Unresolved, Refined, Probed, TorDies,
                     Posts, Becomes, conn
<1>4. apply_kernel_tunnel \/ remove_kernel_tunnel \/ ApplySplitTunnel \/ ClearSplitTunnel
        => UNCHANGED <<active, port, process, host>>
  BY DEF apply_kernel_tunnel, remove_kernel_tunnel, ApplySplitTunnel, ClearSplitTunnel, conn, Stays
<1>5. Watchdog => UNCHANGED <<active, port, process, host>>
  BY DEF Watchdog, conn, Stays
<1>. QED BY <1>1, <1>2, <1>3, <1>4, <1>5, SameConnection

LEMMA PollKeepsConnection ==
    TypeOK /\ ConnectionInv /\ poll_active_connection
        => /\ ConnectionInv' /\ active.kind = "server" /\ active'.kind \in {"none", "server"}
           /\ UNCHANGED <<port, attempts, route, net, queue, stage, tor, process, root, host>>
<1> SUFFICES ASSUME TypeOK, ConnectionInv, poll_active_connection
             PROVE  /\ ConnectionInv' /\ active.kind = "server" /\ active'.kind \in {"none", "server"}
                    /\ UNCHANGED <<port, attempts, route, net, queue, stage, tor, process, root, host>>
  OBVIOUS
<1>1. active.kind = "server" /\ active \in Connection
  BY DEF poll_active_connection, ConnectionInv, PolledIsServer, TypeOK, Connection, Kinds
<1>2. \A c \in Polled : c.kind = active.kind
  BY <1>1 DEF Polled, Connection
<1>3. UNCHANGED <<port, attempts, route, net, queue, stage, tor, process, root, host>>
  BY DEF poll_active_connection, Stays
<1>4. process' = "up"
  BY DEF poll_active_connection, Stays
<1>5. CASE active' = None
  BY <1>1, <1>3, <1>5, NoConnection
<1>6. CASE active' \in Polled
  BY <1>1, <1>2, <1>3, <1>4, <1>6 DEF ConnectionInv, PolledIsServer, OverIsEmpty, TorHasPort
<1>. QED BY <1>5, <1>6 DEF poll_active_connection

-----------------------------------------------------------------------------
(***************************************************************************)
(* What a handler does to the connection, the queue and the workers.       *)
(***************************************************************************)

\* The connection goes on; or it ends; or another one begins.
Continues ==
    /\ active'.kind = active.kind /\ port' = port
    /\ attempts' \in {0, attempts} \/ Head(queue) = Report("TorUnknown", port)

Ends ==
    /\ active'.kind = "none"
    /\ \/ Head(queue).cmd \in {"Disconnect", "DisconnectThenQuit"}
       \/ Head(queue) = Report("TorFailed", port)

Begins ==
    active'.kind # "tor" /\ Head(queue).cmd \in Connects

HandlerStep ==
    \/ /\ queue' = Tail(queue) /\ UNCHANGED <<stage, process, host>>
       /\ Continues \/ Ends \/ Begins
    \/ /\ Head(queue).cmd = "ConnectTor" /\ active.kind = "none"
       /\ \E s \in Sessions : Free(s) /\ SpawnTor(s)
    \/ TornDown
    \/ /\ Head(queue).cmd \in Connects \cup {"ApplyTorSystemRoute"}
       /\ \E name \in Connects : Relaunched(<<Cmd(name)>>)

\* A report that is live is one of the current session.
LEMMA LiveReport ==
    ASSUME TypeOK, NEW name, Takes(name), live(Head(queue).port)
    PROVE  Head(queue) = Report(name, port) /\ active.kind = "tor"
<1>1. Head(queue) \in Mail
  BY TakesTypes
<1>2. Head(queue) = [cmd |-> Head(queue).cmd, port |-> Head(queue).port]
  BY <1>1 DEF Mail
<1>. QED BY <1>2 DEF Takes, Next_is, live, Report

LEMMA HandlerShape == TypeOK /\ ConnectionInv /\ Handle => ConnectionInv' /\ HandlerStep
<1> SUFFICES ASSUME TypeOK, ConnectionInv, Handle PROVE ConnectionInv' /\ HandlerStep
  OBVIOUS
<1>0. process = "up" /\ queue # <<>>
  BY DEF Handle, Takes, Next_is, connect_to_tor, TorConnected, TorUnknown, TorFailed,
         apply_tor_system_route, connect_to_server, ConnectProfile, apply_kernel_tunnel,
         remove_kernel_tunnel, ApplySplitTunnel, ClearSplitTunnel, disconnect, DisconnectThenQuit,
         teardown_and_quit
<1>1. ASSUME NEW name, Takes(name), Ignores PROVE ConnectionInv' /\ HandlerStep
  <2>1. UNCHANGED <<active, port, attempts, stage, process, host>>
    BY <1>1 DEF Ignores, conn, Stays
  <2>. QED BY <1>1, <2>1, SameConnection DEF HandlerStep, Continues, Takes
<1>2. ASSUME NEW name, Takes(name), Disconnected, UNCHANGED <<sleepers, stage, sent>>, Stays,
             \/ name \in {"Disconnect", "DisconnectThenQuit"}
             \/ Head(queue) = Report("TorFailed", port)
      PROVE  ConnectionInv' /\ HandlerStep
  <2>1. ConnectionInv' /\ active'.kind = "none"
    BY <1>2, NoConnection DEF Disconnected
  <2>. QED BY <1>2, <2>1 DEF HandlerStep, Ends, Takes, Next_is, Stays
<1>3. TornDown => ConnectionInv' /\ HandlerStep
  BY NoConnection DEF TornDown, HandlerStep
<1>4. ASSUME NEW name \in Connects, Relaunched(<<Cmd(name)>>),
             Head(queue).cmd \in Connects \cup {"ApplyTorSystemRoute"}
      PROVE  ConnectionInv' /\ HandlerStep
  BY <1>4, NoConnection DEF HandlerStep, Relaunched, StartUp
<1>5. CASE connect_to_tor
  <2>1. ASSUME NEW s \in Sessions, SpawnTor(s) PROVE ConnectionInv'
    <3>1. active' = As("tor", "Connecting") /\ port' = s /\ process' = "up"
      BY <1>0, <2>1 DEF SpawnTor, Stays
    <3>. QED BY <3>1, NewConnection DEF Kinds
  <2>. QED BY <1>1, <1>5, <2>1 DEF connect_to_tor, HandlerStep, Next_is
<1>6. CASE TorConnected
  <2>1. CASE live(Head(queue).port)
    <3>1. /\ active' = [active EXCEPT !.phase = "Connected"] /\ queue' = Tail(queue)
          /\ UNCHANGED <<port, stage, process, host>> /\ attempts' \in {0, attempts}
      BY <1>6, <2>1 DEF TorConnected, Takes, Stays
    <3>2. active'.kind = active.kind
      BY <3>1 DEF TypeOK
    <3>. QED BY <3>1, <3>2, SameConnection DEF HandlerStep, Continues
  <2>. QED BY <1>1, <1>6, <2>1 DEF TorConnected
<1>7. CASE TorUnknown
  <2>1. CASE live(Head(queue).port)
    <3>1. /\ active' = [active EXCEPT !.phase = "Connected"] /\ queue' = Tail(queue)
          /\ UNCHANGED <<port, stage, process, host>>
      BY <1>7, <2>1, Zenon DEF TorUnknown, Takes, Stays
    <3>2. active'.kind = active.kind
      BY <3>1 DEF TypeOK
    <3>3. Head(queue) = Report("TorUnknown", port)
      BY <1>7, <2>1, LiveReport DEF TorUnknown
    <3>. QED BY <3>1, <3>2, <3>3, SameConnection DEF HandlerStep, Continues
  <2>. QED BY <1>1, <1>7, <2>1 DEF TorUnknown
<1>8. CASE TorFailed
  <2>1. CASE live(Head(queue).port)
    <3>1. Head(queue) = Report("TorFailed", port)
      BY <1>8, <2>1, LiveReport DEF TorFailed
    <3>. QED BY <1>2, <1>8, <2>1, <3>1 DEF TorFailed
  <2>. QED BY <1>1, <1>8, <2>1 DEF TorFailed
<1>9. CASE apply_tor_system_route
  <2>1. CASE Relaunched(<<Cmd("ConnectTor")>>) /\ Next_is("ApplyTorSystemRoute")
    BY <1>4, <2>1 DEF Connects, Next_is
  <2>2. CASE Takes("ApplyTorSystemRoute") /\ UNCHANGED <<active, port, stage>> /\ Stays
             /\ attempts' \in {0, attempts}
    <3>1. UNCHANGED <<process, host>>
      BY <2>2 DEF Stays
    <3>. QED BY <2>2, <3>1, SameConnection DEF HandlerStep, Continues, Takes
  <2>. QED BY <1>9, <2>1, <2>2, Zenon DEF apply_tor_system_route
<1>10. ASSUME NEW name \in Connects, Takes(name), ConnectionInv', active'.kind # "tor",
              UNCHANGED stage, Stays
       PROVE  ConnectionInv' /\ HandlerStep
  BY <1>10 DEF HandlerStep, Begins, Takes, Next_is, Stays
<1>11. CASE connect_to_server
  <2>1. process' = "up"
    BY <1>0, <1>11 DEF connect_to_server, Stays
  <2>2. ConnectionInv' /\ active'.kind = "server"
    <3>1. CASE active' = connection_from_lease
      BY <2>1, <3>1, LeasedConnection
    <3>2. CASE active' = As("server", "Cooldown")
      BY <2>1, <3>2, NewConnection DEF Kinds
    <3>3. CASE active' = [As("server", "Error") EXCEPT !.tries = 1]
      BY <2>1, <3>3, NewConnection DEF Kinds
    <3>. QED BY <1>11, <3>1, <3>2, <3>3 DEF connect_to_server, Login
  <2>. QED BY <1>10, <1>11, <2>2 DEF connect_to_server, Connects
<1>12. ASSUME NEW kind \in Profiles, ConnectProfile(kind) PROVE ConnectionInv' /\ HandlerStep
  <2>1. kind \in Connects
    BY DEF Connects
  <2>2. CASE Next_is(kind) /\ Relaunched(<<Cmd(kind)>>)
    BY <1>4, <2>1, <2>2 DEF Next_is
  <2>3. CASE /\ Takes(kind)
             /\ CASE kind = "ovpn" -> ConnectOvpn      [] kind = "wg"      -> ConnectWireGuard
                  [] kind = "pptp" -> ConnectPptp      [] kind = "outline" -> ConnectOutline
             /\ UNCHANGED <<port, attempts, route, sleepers, stage, tor, sent>> /\ Stays
    <3>1. kind \in {"ovpn", "wg", "pptp", "outline"}
      BY DEF Profiles
    <3>2. active' \in {As(kind, "Connected"), As(kind, "Error")}
      BY <2>3, <3>1 DEF ConnectOvpn, ConnectWireGuard, ConnectPptp, ConnectOutline, Starts
    <3>3. process' = "up"
      BY <1>0, <2>3 DEF Stays
    <3>4. ConnectionInv' /\ active'.kind = kind
      BY <3>1, <3>2, <3>3, NewConnection DEF Kinds
    <3>. QED BY <1>10, <2>1, <2>3, <3>1, <3>4
  <2>. QED BY <1>1, <1>12, <2>2, <2>3, Zenon DEF ConnectProfile
<1>13. CASE apply_kernel_tunnel \/ remove_kernel_tunnel \/ ApplySplitTunnel \/ ClearSplitTunnel
  <2>1. UNCHANGED <<active, port, attempts, stage, process, host>> /\ queue' = Tail(queue)
    BY <1>13 DEF apply_kernel_tunnel, remove_kernel_tunnel, ApplySplitTunnel, ClearSplitTunnel,
                 conn, Stays, Takes
  <2>. QED BY <2>1, SameConnection DEF HandlerStep, Continues
<1>14. CASE disconnect \/ DisconnectThenQuit \/ teardown_and_quit
  BY <1>2, <1>3, <1>14 DEF disconnect, DisconnectThenQuit, teardown_and_quit
<1>. QED BY <1>5, <1>6, <1>7, <1>8, <1>9, <1>11, <1>12, <1>13, <1>14 DEF Handle

LEMMA ConnectionStep == TypeOK /\ ConnectionInv /\ [Next]_vars => ConnectionInv'
<1> SUFFICES ASSUME TypeOK, ConnectionInv, [Next]_vars PROVE ConnectionInv'
  OBVIOUS
<1>1. Killed \/ Restarted => active' = None
  BY DEF Killed, Restarted, StartUp
<1>2. UNCHANGED vars => ConnectionInv'
  BY SameConnection DEF vars, conn
<1>. QED BY <1>1, <1>2, HandlerShape, QuietKeepsConnection, PollKeepsConnection, NoConnection
     DEF Next

\* A session that runs is ended by the user, by the end of the client or by its own
\* worker's report, whatever is late in the queue.
LEMMA EndsStep ==
    TypeOK /\ ConnectionInv /\ [Next]_vars =>
        (active.kind = "tor" /\ active'.kind # "tor" =>
            \/ process' # "up"
            \/ /\ queue # <<>>
               /\ \/ Head(queue).cmd \in UserCommands \cup {"ApplyTorSystemRoute"}
                  \/ Head(queue) = Report("TorFailed", port))
<1> SUFFICES ASSUME TypeOK, ConnectionInv, [Next]_vars, active.kind = "tor", active'.kind # "tor"
             PROVE  \/ process' # "up"
                    \/ /\ queue # <<>>
                       /\ \/ Head(queue).cmd \in UserCommands \cup {"ApplyTorSystemRoute"}
                          \/ Head(queue) = Report("TorFailed", port)
  OBVIOUS
<1>1. CASE Handle
  <2>1. queue # <<>>
    BY <1>1
    DEF Handle, Takes, Next_is, connect_to_tor, TorConnected, TorUnknown, TorFailed,
        apply_tor_system_route, connect_to_server, ConnectProfile, apply_kernel_tunnel,
        remove_kernel_tunnel, ApplySplitTunnel, ClearSplitTunnel, disconnect, DisconnectThenQuit,
        teardown_and_quit
  <2>2. HandlerStep
    BY <1>1, HandlerShape
  <2>3. TornDown => process' # "up"
    BY DEF TornDown
  <2>. QED BY <2>1, <2>2, <2>3 DEF HandlerStep, Continues, Ends, Begins, UserCommands, Connects
<1>2. CASE Killed
  BY <1>2 DEF Killed
<1>3. ~Restarted
  BY DEF Restarted, ConnectionInv, OverIsEmpty
<1>4. UNCHANGED vars => FALSE
  BY DEF vars, conn
<1>. QED BY <1>1, <1>2, <1>3, <1>4, QuietKeepsConnection, PollKeepsConnection DEF Next

\* A session of Tor is ended by the user, by the end of the client or by its own
\* worker's report: never by what an earlier session's worker says, nor by the poll.
THEOREM SessionEndsByItsOwn == Spec => EndsByItsOwn
<1>1. Init => ConnectionInv
  BY NoConnection DEF Init, None, ConnectionInv, PolledIsServer, OverIsEmpty, TorHasPort
<1>. QED BY <1>1, TypesInit, TypesStep, ConnectionStep, EndsStep, PTL DEF Spec, EndsByItsOwn

-----------------------------------------------------------------------------
(***************************************************************************)
(* What is in the queue, and that something is in it only once.            *)
(***************************************************************************)
Has(q, M)  == \E i \in 1 .. Len(q) : q[i] \in M
Once(q, M) == \A i, j \in 1 .. Len(q) : q[i] \in M /\ q[j] \in M => i = j

LEMMA InTail ==
    ASSUME NEW q \in Seq(Mail), q # <<>>, NEW M, Once(q, M)
    PROVE  /\ Once(Tail(q), M) /\ (Has(Tail(q), M) => Has(q, M))
           /\ Head(q) \in M => Has(q, M) /\ ~Has(Tail(q), M)
<1>1. Len(Tail(q)) = Len(q) - 1 /\ Len(q) \in Nat /\ Len(q) > 0 /\ Head(q) = q[1]
  OBVIOUS
<1>2. \A i \in 1 .. Len(Tail(q)) : Tail(q)[i] = q[i + 1] /\ i + 1 \in 1 .. Len(q) /\ i + 1 # 1
  BY <1>1
<1>3. Once(Tail(q), M)
  BY <1>1, <1>2 DEF Once
<1>4. Has(Tail(q), M) => Has(q, M)
  BY <1>2 DEF Has
<1>5. ASSUME Head(q) \in M PROVE Has(q, M) /\ ~Has(Tail(q), M)
  <2>1. 1 \in 1 .. Len(q)
    BY <1>1
  <2>. QED BY <1>1, <1>2, <1>5, <2>1 DEF Has, Once
<1>. QED BY <1>3, <1>4, <1>5

LEMMA InAppend ==
    ASSUME NEW q \in Seq(Mail), NEW m \in Mail, NEW M, Once(q, M), m \in M => ~Has(q, M)
    PROVE  /\ Once(Append(q, m), M)
           /\ Has(Append(q, m), M) => Has(q, M) \/ m \in M
<1>1. Len(Append(q, m)) = Len(q) + 1 /\ Len(q) \in Nat
  OBVIOUS
<1>2. \A i \in 1 .. Len(q) : Append(q, m)[i] = q[i]
  OBVIOUS
<1>3. Append(q, m)[Len(q) + 1] = m
  OBVIOUS
<1>4. \A i \in 1 .. Len(q) + 1 : i \in 1 .. Len(q) \/ i = Len(q) + 1
  BY <1>1
<1>. QED BY <1>1, <1>2, <1>3, <1>4 DEF Has, Once

LEMMA InShort ==
    ASSUME NEW m, NEW M
    PROVE  /\ Once(<<>>, M) /\ ~Has(<<>>, M)
           /\ Once(<<m>>, M) /\ (Has(<<m>>, M) => m \in M)
BY DEF Has, Once

-----------------------------------------------------------------------------
(***************************************************************************)
(* Who does not overlap connections asks for one at a time, and only when  *)
(* nothing is active.                                                      *)
(***************************************************************************)
Asked == {m \in Mail : m.cmd \in Connects}

OneConnects ==
    ~host.overlaps => Once(queue, Asked) /\ (Has(queue, Asked) => active.kind = "none")

\* The kinds of mail.
LEMMA MailTypes ==
    /\ \A name \in Names : Cmd(name) \in Mail
    /\ \A name \in Names, s \in Sessions : Report(name, s) \in Mail
    /\ \A name : Cmd(name) \in Asked => name \in Connects
    /\ \A name, s : Report(name, s) \in Asked => name \in Connects
<1>1. 0 \in 0 .. MaxSessions /\ \A s \in Sessions : s \in 0 .. MaxSessions
  BY DesktopAssumption DEF Sessions
<1>. QED BY <1>1 DEF Cmd, Report, Mail, Asked

LEMMA NotConnects ==
    /\ {"ApplyTorSystemRoute", "ApplySplitTunnel", "ClearSplitTunnel", "TorConnected",
        "TorUnknown", "TorFailed"} \subseteq Names \ Connects
    /\ Connects \subseteq UserCommands /\ UserCommands \subseteq Names
BY DEF Names, UserCommands, Connects, Profiles

\* What is posted, and by whom.
LEMMA Posting ==
    TypeOK /\ (\/ \E c \in Commands : Click(c)
               \/ pump_split_tunnel \/ Wake
               \/ \E s \in Sessions : Worker(s) \/ TorDies(s))
    => \/ queue' = queue
       \/ \E name \in Names \ Connects : queue' = Append(queue, Cmd(name))
       \/ \E name \in {"TorConnected", "TorUnknown", "TorFailed"}, s \in Sessions :
             queue' = Append(queue, Report(name, s))
       \/ \E c \in Connects : Offers(c) /\ queue' = Append(queue, Cmd(c))
<1>1. ASSUME NEW c \in Commands, Click(c)
      PROVE  \/ \E name \in Names \ Connects : queue' = Append(queue, Cmd(name))
             \/ c \in Connects /\ Offers(c) /\ queue' = Append(queue, Cmd(c))
  <2>1. c \in UserCommands
    BY DesktopAssumption
  <2>2. CASE c = "EnableRoute"
    BY <1>1, <2>2, NotConnects DEF Click
  <2>3. CASE c # "EnableRoute"
    BY <1>1, <2>1, <2>3, NotConnects DEF Click
  <2>. QED BY <2>2, <2>3
<1>2. pump_split_tunnel => \E name \in Names \ Connects : queue' = Append(queue, Cmd(name))
  BY NotConnects DEF pump_split_tunnel
<1>3. Wake => \E name \in Names \ Connects : queue' = Append(queue, Cmd(name))
  BY NotConnects DEF Wake
<1>4. ASSUME NEW s \in Sessions, Worker(s) \/ TorDies(s)
      PROVE  \/ queue' = queue
             \/ \E name \in {"TorConnected", "TorUnknown", "TorFailed"} :
                  queue' = Append(queue, Report(name, s))
  BY <1>4 DEF Worker, WorkerSeesDeath, Resolved, Unresolved, Refined, Probed, TorDies, Posts, Becomes
<1>. QED BY <1>1, <1>2, <1>3, <1>4

LEMMA OneConnectsStep ==
    TypeOK /\ ConnectionInv /\ OneConnects /\ [Next]_vars => OneConnects'
<1> SUFFICES ASSUME TypeOK, ConnectionInv, OneConnects, [Next]_vars, ~host'.overlaps
             PROVE  Once(queue', Asked) /\ (Has(queue', Asked) => active'.kind = "none")
  BY DEF OneConnects
<1>1. host' = host /\ queue \in Seq(Mail)
  <2>1. queue \in Seq(Mail)
    BY DEF TypeOK, Mail
  <2>2. Handle => host' = host
    BY HandlerShape DEF HandlerStep, TornDown, Relaunched, StartUp, SpawnTor, Stays
  <2>3. Killed \/ Restarted \/ UNCHANGED vars => host' = host
    BY DEF Killed, Restarted, StartUp, vars
  <2>. QED BY <2>1, <2>2, <2>3, QuietKeepsConnection, PollKeepsConnection DEF Next
<1>2. Once(queue, Asked) /\ (Has(queue, Asked) => active.kind = "none")
  BY <1>1 DEF OneConnects
<1>3. CASE \/ \E c \in Commands : Click(c)
           \/ pump_split_tunnel \/ Wake
           \/ \E s \in Sessions : Worker(s) \/ TorDies(s)
  <2>1. active' = active
    BY <1>3, QuietKeepsConnection
  <2>2. ASSUME NEW name \in Names \ Connects, queue' = Append(queue, Cmd(name))
        PROVE  Once(queue', Asked) /\ (Has(queue', Asked) => Has(queue, Asked))
    <3>1. Cmd(name) \in Mail /\ Cmd(name) \notin Asked
      BY MailTypes
    <3>. QED BY <1>1, <1>2, <2>2, <3>1, InAppend
  <2>3. ASSUME NEW name \in {"TorConnected", "TorUnknown", "TorFailed"}, NEW s \in Sessions,
               queue' = Append(queue, Report(name, s))
        PROVE  Once(queue', Asked) /\ (Has(queue', Asked) => Has(queue, Asked))
    <3>1. Report(name, s) \in Mail /\ Report(name, s) \notin Asked
      BY MailTypes, NotConnects
    <3>. QED BY <1>1, <1>2, <2>3, <3>1, InAppend
  <2>4. ASSUME NEW c \in Connects, Offers(c), queue' = Append(queue, Cmd(c))
        PROVE  Once(queue', Asked) /\ active.kind = "none"
    <3>1. active.kind = "none" /\ ~Connecting
      BY <1>1, <2>4 DEF Offers, Connects, Profiles
    <3>2. ~Has(queue, Asked)
      BY <3>1 DEF Connecting, Has, Asked
    <3>3. Cmd(c) \in Mail
      BY MailTypes, NotConnects
    <3>. QED BY <1>1, <1>2, <2>4, <3>1, <3>2, <3>3, InAppend
  <2>. QED BY <1>2, <1>3, <2>1, <2>2, <2>3, <2>4, Posting
<1>4. CASE Handle
  <2>1. queue # <<>>
    BY <1>4
    DEF Handle, Takes, Next_is, connect_to_tor, TorConnected, TorUnknown, TorFailed,
        apply_tor_system_route, connect_to_server, ConnectProfile, apply_kernel_tunnel,
        remove_kernel_tunnel, ApplySplitTunnel, ClearSplitTunnel, disconnect, DisconnectThenQuit,
        teardown_and_quit
  <2>2. /\ Once(Tail(queue), Asked) /\ (Has(Tail(queue), Asked) => Has(queue, Asked))
        /\ Head(queue) \in Asked => ~Has(Tail(queue), Asked)
        /\ Head(queue) \in Mail /\ Tail(queue) \in Seq(Mail)
    BY <1>1, <1>2, <2>1, InTail
  <2>3. Head(queue).cmd \in Connects => Head(queue) \in Asked
    BY <2>2 DEF Asked
  <2>4. HandlerStep
    BY <1>4, HandlerShape
  <2>5. CASE queue' = Tail(queue) /\ (Continues \/ Ends \/ Begins)
    BY <1>2, <2>2, <2>3, <2>5 DEF Continues, Ends, Begins
  <2>6. CASE Head(queue).cmd = "ConnectTor" /\ \E s \in Sessions : SpawnTor(s)
    <3>1. Head(queue) \in Asked
      BY <2>3, <2>6 DEF Connects
    <3>2. PICK s \in Sessions : SpawnTor(s)
      BY <2>6
    <3>3. queue' = Tail(queue) \/ queue' = Append(Tail(queue), Report("TorFailed", s))
      BY <3>2 DEF SpawnTor
    <3>4. Report("TorFailed", s) \in Mail /\ Report("TorFailed", s) \notin Asked
      BY MailTypes, NotConnects
    <3>. QED BY <2>2, <3>1, <3>3, <3>4, InAppend
  <2>7. CASE TornDown
    BY <2>7, InShort DEF TornDown
  <2>8. CASE \E name \in Connects : Relaunched(<<Cmd(name)>>)
    BY <2>8, InShort DEF Relaunched, StartUp, None
  <2>. QED BY <2>4, <2>5, <2>6, <2>7, <2>8 DEF HandlerStep
<1>5. CASE poll_active_connection
  <2>1. queue' = queue /\ active.kind = "server"
    BY <1>5, PollKeepsConnection
  <2>. QED BY <1>2, <2>1
<1>6. CASE Killed \/ Restarted
  BY <1>6, InShort DEF Killed, Restarted, StartUp
<1>7. CASE Watchdog \/ UNCHANGED vars
  <2>1. UNCHANGED <<active, queue>>
    BY <1>7 DEF Watchdog, vars, conn
  <2>. QED BY <1>2, <2>1
<1>. QED BY <1>3, <1>4, <1>5, <1>6, <1>7 DEF Next

-----------------------------------------------------------------------------
(***************************************************************************)
(* What is set up on the host is the active connection's.  A cooldown has  *)
(* nothing set up, so that the poll which ends it leaves nothing behind.   *)
(***************************************************************************)
Whole(kind, phase, session) ==
    /\ up \subseteq Own[kind]
    /\ kind # "tor" => tor = {} /\ ~proxy /\ ~route /\ port = 0
    /\ phase = "Cooldown" => up = {} /\ ~session

EverythingBelongs == Orderly => Whole(active.kind, active.phase, active.session)

LEMMA Owned ==
    /\ Own["none"] = {} /\ Own["tor"] = {"tor"} /\ Own["server"] = {"zn"} /\ Own["wg"] = {"zn"}
    /\ Own["ovpn"] = {"ovpn"} /\ Own["pptp"] = {"pptp"} /\ Own["outline"] = {"outline"}
    /\ \A kind \in Kinds : Own[kind] \subseteq Stopped[kind] /\ Own[kind] \subseteq Tunnels
    /\ \A kind \in Kinds \ {"tor"} : "tor" \notin Own[kind]
BY DEF Own, Stopped, Kinds, Profiles, Tunnels, Socks

\* A client that starts, or that tears down, leaves nothing.
LEMMA EmptyIsWhole ==
    active' = None /\ tor' = {} /\ ~proxy' /\ ~route' /\ port' = 0 /\ (Orderly' => up' = {})
        => EverythingBelongs'
BY DEF EverythingBelongs, Whole, None

\* A step that keeps the connection's kind and sets nothing up.
LEMMA LessIsWhole ==
    ASSUME EverythingBelongs, Orderly' => Orderly, active'.kind = active.kind,
           active'.phase = active.phase \/ active'.phase # "Cooldown",
           active'.session = active.session,
           up' \subseteq up, tor' \subseteq tor, port' = port, proxy' = proxy, route' => route
    PROVE  EverythingBelongs'
BY DEF EverythingBelongs, Whole

LEMMA DisconnectedIsWhole ==
    TypeOK /\ EverythingBelongs /\ Disconnected /\ Stays => EverythingBelongs'
<1> SUFFICES ASSUME TypeOK, EverythingBelongs, Disconnected, Stays, Orderly'
             PROVE  Whole(active.kind, active.phase, active.session)'
  BY DEF EverythingBelongs
<1>1. Orderly
  BY DEF Orderly, Can, Stays
<1>2. active.kind \in Kinds
  BY DEF TypeOK, Kinds
<1>3. up \subseteq Stopped[active.kind]
  BY <1>1, <1>2, Owned DEF EverythingBelongs, Whole
<1>4. up' = {}
  BY <1>1, <1>3 DEF Disconnected, Without, Orderly
<1>5. tor' = {} /\ ~proxy' /\ ~route' /\ port' = 0
  BY <1>1 DEF Disconnected, EverythingBelongs, Whole, Socks
<1>6. active' = None
  BY DEF Disconnected
<1>. QED BY <1>4, <1>5, <1>6 DEF Whole, None

LEMMA TornDownIsWhole == TypeOK /\ TornDown => EverythingBelongs'
<1> SUFFICES ASSUME TypeOK, TornDown PROVE EverythingBelongs'
  OBVIOUS
<1>1. Orderly' => up' = {}
  BY DEF TornDown, Without, Orderly, Can, TypeOK
<1>. QED BY <1>1, EmptyIsWhole DEF TornDown

LEMMA StartUpIsWhole ==
    ASSUME NEW elevated, NEW commands, StartUp(elevated, commands)
    PROVE  EverythingBelongs'
<1>1. Orderly' => up' = {}
  BY DEF StartUp, Orderly, Can
<1>. QED BY <1>1, EmptyIsWhole DEF StartUp

\* A command that asks for a connection finds none.
LEMMA FromNothing ==
    ASSUME TypeOK, OneConnects, ~host.overlaps, NEW name \in Connects, Next_is(name)
    PROVE  active.kind = "none"
<1>1. queue \in Seq(Mail) /\ queue # <<>>
  BY DEF TypeOK, Mail, Next_is
<1>2. Head(queue) = queue[1] /\ 1 \in 1 .. Len(queue) /\ Head(queue) \in Mail
  BY <1>1
<1>3. Head(queue) \in Asked
  BY <1>2 DEF Asked, Next_is
<1>. QED BY <1>2, <1>3 DEF OneConnects, Has

LEMMA PostIsWhole ==
    TypeOK /\ ConnectionInv /\ EverythingBelongs
    /\ (\/ \E c \in Commands : Click(c)
        \/ pump_split_tunnel \/ Wake
        \/ \E s \in Sessions : Worker(s) \/ TorDies(s))
    => EverythingBelongs' /\ UNCHANGED <<up, route>>
<1> SUFFICES ASSUME TypeOK, ConnectionInv, EverythingBelongs,
                    \/ \E c \in Commands : Click(c)
                    \/ pump_split_tunnel \/ Wake
                    \/ \E s \in Sessions : Worker(s) \/ TorDies(s)
             PROVE  EverythingBelongs' /\ UNCHANGED <<up, route>>
  OBVIOUS
<1>1. UNCHANGED <<active, port, process, host>>
  BY QuietKeepsConnection
<1>2. UNCHANGED <<up, proxy, route, root>> /\ tor' \subseteq tor
  <2>1. ASSUME NEW c \in Commands, Click(c)
        PROVE  UNCHANGED <<up, proxy, route, root>> /\ tor' \subseteq tor
    BY <2>1 DEF Click, conn, net
  <2>2. pump_split_tunnel \/ Wake => UNCHANGED <<up, proxy, route, root>> /\ tor' \subseteq tor
    BY DEF pump_split_tunnel, Wake, conn, net
  <2>3. ASSUME NEW s \in Sessions, Worker(s) \/ TorDies(s)
        PROVE  UNCHANGED <<up, proxy, route, root>> /\ tor' \subseteq tor
    BY <2>3 DEF Worker, WorkerSeesDeath, Resolved, Unresolved, Refined, Probed, TorDies,
                Posts, Becomes, conn, net
  <2>. QED BY <2>1, <2>2, <2>3
<1>3. Orderly' => Orderly
  BY <1>1, <1>2 DEF Orderly, Can
<1>. QED BY <1>1, <1>2, <1>3, LessIsWhole

LEMMA StaysOrderly == Stays => (Orderly' <=> Orderly) /\ (Can' <=> Can) /\ host' = host
BY DEF Stays, Orderly, Can

\* A connection that begins where nothing was.
LEMMA BegunIsWhole ==
    ASSUME EverythingBelongs, Stays, Orderly => active.kind = "none",
           UNCHANGED <<port, route, tor>>,
           Orderly => active'.kind \in Kinds \ {"tor"} /\ ~proxy' /\ up' \subseteq Own[active'.kind],
           active'.phase = "Cooldown" => up' = up /\ ~active'.session
    PROVE  EverythingBelongs'
<1> SUFFICES ASSUME Orderly' PROVE Whole(active.kind, active.phase, active.session)'
  BY DEF EverythingBelongs
<1>1. Orderly /\ active.kind = "none" /\ Whole("none", active.phase, active.session)
  BY StaysOrderly DEF EverythingBelongs
<1>2. up = {} /\ tor' = {} /\ ~route' /\ port' = 0
  BY <1>1, Owned DEF Whole
<1>. QED BY <1>1, <1>2 DEF Whole

LEMMA TorHandlersAreWhole ==
    TypeOK /\ ConnectionInv /\ OneConnects /\ EverythingBelongs
    /\ (TorConnected \/ TorUnknown \/ TorFailed \/ apply_tor_system_route)
    => EverythingBelongs'
<1> SUFFICES ASSUME TypeOK, ConnectionInv, OneConnects, EverythingBelongs,
                    TorConnected \/ TorUnknown \/ TorFailed \/ apply_tor_system_route
             PROVE  EverythingBelongs'
  OBVIOUS
<1>1. ASSUME Ignores PROVE EverythingBelongs'
  BY <1>1, LessIsWhole, StaysOrderly DEF Ignores, conn, net
<1>2. ASSUME TorStart, active.kind = "tor", active'.kind = "tor", active'.session = active.session,
             active'.phase = active.phase \/ active'.phase # "Cooldown", Stays
      PROVE  EverythingBelongs'
  <2>1. up' \subseteq up \cup {"tor"}
    BY <1>2 DEF TorStart
  <2>2. active.phase # "Cooldown"
    BY <1>2 DEF ConnectionInv, PolledIsServer
  <2>. QED BY <1>2, <2>1, <2>2, Owned, StaysOrderly DEF EverythingBelongs, Whole
<1>3. \A phase : [active EXCEPT !.phase = phase].kind = active.kind
             /\ [active EXCEPT !.phase = phase].session = active.session
             /\ [active EXCEPT !.phase = phase].phase = phase
  BY DEF TypeOK
<1>4. CASE TorConnected
  <2>1. CASE live(Head(queue).port)
    <3>1. active' = [active EXCEPT !.phase = "Connected"] /\ UNCHANGED <<port, tor>> /\ Stays
      BY <1>4, <2>1 DEF TorConnected
    <3>2. TorStart \/ (UNCHANGED net /\ (route' => route))
      BY <1>4, <2>1, Zenon DEF TorConnected
    <3>3. active.kind = "tor"
      BY <2>1 DEF live
    <3>4. CASE TorStart
      BY <1>2, <1>3, <3>1, <3>3, <3>4
    <3>5. CASE UNCHANGED net /\ (route' => route)
      BY <1>3, <3>1, <3>5, LessIsWhole, StaysOrderly DEF net
    <3>. QED BY <3>2, <3>4, <3>5
  <2>. QED BY <1>1, <1>4, <2>1 DEF TorConnected
<1>5. CASE TorUnknown
  <2>1. CASE live(Head(queue).port)
    <3>1. /\ active' = [active EXCEPT !.phase = "Connected"] /\ UNCHANGED <<port, tor, net>>
          /\ Stays /\ (route' => route)
      BY <1>5, <2>1, Zenon DEF TorUnknown
    <3>. QED BY <1>3, <3>1, LessIsWhole, StaysOrderly DEF net
  <2>. QED BY <1>1, <1>5, <2>1 DEF TorUnknown
<1>6. CASE TorFailed
  <2>1. CASE live(Head(queue).port)
    BY <1>6, <2>1, DisconnectedIsWhole DEF TorFailed
  <2>. QED BY <1>1, <1>6, <2>1 DEF TorFailed
<1>7. CASE apply_tor_system_route
  <2>1. CASE Relaunched(<<Cmd("ConnectTor")>>)
    BY <2>1, StartUpIsWhole DEF Relaunched
  <2>2. CASE UNCHANGED <<active, port, tor>> /\ Stays /\ UNCHANGED net /\ (route' => route)
    BY <2>2, LessIsWhole, StaysOrderly DEF net
  <2>3. CASE UNCHANGED <<active, port, tor>> /\ Stays /\ TorStart /\ active.kind = "tor"
    BY <1>2, <2>3
  <2>. QED BY <1>7, <2>1, <2>2, <2>3, Zenon DEF apply_tor_system_route
<1>. QED BY <1>4, <1>5, <1>6, <1>7

LEMMA ConnectsAreWhole ==
    TypeOK /\ ConnectionInv /\ OneConnects /\ EverythingBelongs
    /\ (connect_to_tor \/ connect_to_server \/ \E kind \in Profiles : ConnectProfile(kind))
    => EverythingBelongs'
<1> SUFFICES ASSUME TypeOK, ConnectionInv, OneConnects, EverythingBelongs,
                    \/ connect_to_tor \/ connect_to_server
                    \/ \E kind \in Profiles : ConnectProfile(kind)
             PROVE  EverythingBelongs'
  OBVIOUS
<1>1. ASSUME Ignores PROVE EverythingBelongs'
  BY <1>1, LessIsWhole, StaysOrderly DEF Ignores, conn, net
<1>2. CASE connect_to_tor
  <2>1. ASSUME NEW s \in Sessions, SpawnTor(s), active.kind = "none" PROVE EverythingBelongs'
    <3>1. active' = As("tor", "Connecting") /\ UNCHANGED <<up, proxy, route>> /\ Stays
      BY <2>1 DEF SpawnTor, net
    <3>. QED BY <2>1, <3>1, StaysOrderly, Owned DEF EverythingBelongs, Whole, As
  <2>. QED BY <1>1, <1>2, <2>1 DEF connect_to_tor
<1>3. ASSUME NEW name \in Connects, Next_is(name)
      PROVE  Orderly => active.kind = "none" /\ up = {} /\ ~proxy
  BY <1>3, FromNothing, Owned DEF EverythingBelongs, Whole, Orderly
<1>4. CASE connect_to_server
  <2>1. Orderly => active.kind = "none" /\ up = {} /\ ~proxy
    BY <1>3, <1>4 DEF connect_to_server, Takes, Connects
  <2>2. Stays /\ UNCHANGED <<port, route, tor, proxy>>
    BY <1>4 DEF connect_to_server
  <2>3. /\ active'.kind = "server"
        /\ active'.phase = "Cooldown" => up' = up /\ ~active'.session
        /\ up' = up \/ up' \in apply_platform_tunnel_for_connection(host.server)
    BY <1>4 DEF connect_to_server, Login, connection_from_lease, As
  <2>4. Orderly => up' \subseteq {"zn"}
    BY <2>1, <2>3 DEF apply_platform_tunnel_for_connection, apply_client_tunnel, Orderly
  <2>. QED BY <2>1, <2>2, <2>3, <2>4, BegunIsWhole, Owned DEF Kinds
<1>5. ASSUME NEW kind \in Profiles, ConnectProfile(kind) PROVE EverythingBelongs'
  <2>1. kind \in Connects /\ kind \in {"ovpn", "wg", "pptp", "outline"} /\ kind \in Kinds \ {"tor"}
    BY DEF Connects, Profiles, Kinds
  <2>2. CASE Relaunched(<<Cmd(kind)>>)
    BY <2>2, StartUpIsWhole DEF Relaunched
  <2>3. CASE /\ Takes(kind)
             /\ CASE kind = "ovpn" -> ConnectOvpn      [] kind = "wg"      -> ConnectWireGuard
                  [] kind = "pptp" -> ConnectPptp      [] kind = "outline" -> ConnectOutline
             /\ UNCHANGED <<port, attempts, route, sleepers, stage, tor, sent>> /\ Stays
    <3>1. Orderly => active.kind = "none" /\ up = {} /\ ~proxy
      BY <1>3, <2>1, <2>3 DEF Takes
    <3>2. active' \in {As(kind, "Connected"), As(kind, "Error")}
      BY <2>1, <2>3 DEF ConnectOvpn, ConnectWireGuard, ConnectPptp, ConnectOutline, Starts
    <3>3. active'.kind = kind /\ active'.phase # "Cooldown"
      BY <3>2 DEF As
    <3>4. Orderly => ~proxy'
      BY <2>1, <2>3, <3>1 DEF ConnectOvpn, ConnectWireGuard, ConnectPptp, ConnectOutline, net
    <3>5. Orderly => up' \subseteq Own[kind]
      <4>1. CASE kind = "ovpn"
        BY <2>3, <3>1, <4>1, Owned DEF ConnectOvpn, Starts
      <4>2. CASE kind = "wg"
        BY <2>3, <3>1, <4>2, Owned DEF ConnectWireGuard, Starts, net
      <4>3. CASE kind = "pptp"
        BY <2>3, <3>1, <4>3, Owned DEF ConnectPptp, Starts, net
      <4>4. CASE kind = "outline"
        BY <2>3, <3>1, <4>4, Owned DEF ConnectOutline, Starts, net
      <4>. QED BY <2>1, <4>1, <4>2, <4>3, <4>4
    <3>. QED BY <2>1, <2>3, <3>1, <3>3, <3>4, <3>5, BegunIsWhole
  <2>. QED BY <1>1, <1>5, <2>2, <2>3, Zenon DEF ConnectProfile
<1>. QED BY <1>2, <1>4, <1>5

LEMMA OthersAreWhole ==
    TypeOK /\ ConnectionInv /\ EverythingBelongs
    /\ (apply_kernel_tunnel \/ remove_kernel_tunnel \/ ApplySplitTunnel \/ ClearSplitTunnel)
    => /\ EverythingBelongs' /\ UNCHANGED <<active, route>> /\ (Orderly' => Orderly)
       /\ active.kind = "tor" => ("tor" \in up' <=> "tor" \in up)
<1> SUFFICES ASSUME TypeOK, ConnectionInv, EverythingBelongs,
                    apply_kernel_tunnel \/ remove_kernel_tunnel \/ ApplySplitTunnel \/ ClearSplitTunnel
             PROVE  /\ EverythingBelongs' /\ UNCHANGED <<active, route>> /\ (Orderly' => Orderly)
                    /\ active.kind = "tor" => ("tor" \in up' <=> "tor" \in up)
  OBVIOUS
<1>1. Stays /\ UNCHANGED <<active, port, route, proxy, tor>>
  BY DEF apply_kernel_tunnel, remove_kernel_tunnel, ApplySplitTunnel, ClearSplitTunnel, conn
<1>2. CASE up' = up \/ up' = up \ {"zn"}
  BY <1>1, <1>2, LessIsWhole, StaysOrderly
<1>3. CASE active.session /\ up' \subseteq up \cup {"zn"}
  <2>1. active.kind = "server"
    BY <1>3 DEF ConnectionInv, PolledIsServer
  <2>. QED BY <1>1, <1>3, <2>1, Owned, StaysOrderly DEF EverythingBelongs, Whole
<1>4. apply_kernel_tunnel => up' = up \/ (active.session /\ up' \subseteq up \cup {"zn"})
  BY DEF apply_kernel_tunnel, apply_platform_tunnel_for_connection, apply_client_tunnel
<1>5. remove_kernel_tunnel => up' = up \/ up' = up \ {"zn"}
  BY DEF remove_kernel_tunnel
<1>. QED BY <1>2, <1>3, <1>4, <1>5 DEF ApplySplitTunnel, ClearSplitTunnel

LEMMA PollIsWhole ==
    TypeOK /\ ConnectionInv /\ EverythingBelongs /\ poll_active_connection => EverythingBelongs'
<1> SUFFICES ASSUME TypeOK, ConnectionInv, EverythingBelongs, poll_active_connection
             PROVE  EverythingBelongs'
  OBVIOUS
<1>1. /\ active.kind = "server" /\ UNCHANGED <<port, route, up, proxy, tor, process, root, host>>
      /\ active \in Connection
  BY PollKeepsConnection DEF net, TypeOK, Connection, Kinds
<1>2. Orderly' => Orderly
  BY <1>1 DEF Orderly, Can
<1>3. CASE active.phase = "Cooldown" /\ active' = None
  BY <1>1, <1>2, <1>3, EmptyIsWhole DEF EverythingBelongs, Whole
<1>4. CASE active' \in Polled
  <2>1. \A c \in Polled : c.kind = active.kind /\ c.session = active.session /\ c.phase # "Cooldown"
    BY <1>1 DEF Polled, Connection
  <2>. QED BY <1>1, <1>2, <1>4, <2>1, LessIsWhole
<1>. QED BY <1>3, <1>4 DEF poll_active_connection

LEMMA WholeStep ==
    TypeOK /\ ConnectionInv /\ OneConnects /\ EverythingBelongs /\ [Next]_vars => EverythingBelongs'
<1> SUFFICES ASSUME TypeOK, ConnectionInv, OneConnects, EverythingBelongs, [Next]_vars
             PROVE  EverythingBelongs'
  OBVIOUS
<1>1. Killed \/ Watchdog => ~Orderly'
  BY DEF Killed, Watchdog, Orderly, Stays
<1>2. Restarted => EverythingBelongs'
  BY StartUpIsWhole DEF Restarted
<1>3. disconnect \/ DisconnectThenQuit \/ teardown_and_quit => EverythingBelongs'
  BY DisconnectedIsWhole, TornDownIsWhole DEF disconnect, DisconnectThenQuit, teardown_and_quit
<1>4. UNCHANGED vars => EverythingBelongs'
  BY DEF EverythingBelongs, Whole, Orderly, Can, vars, conn, net
<1>5. Handle => EverythingBelongs'
  BY <1>3, TorHandlersAreWhole, ConnectsAreWhole, OthersAreWhole DEF Handle
<1>. QED BY <1>1, <1>2, <1>4, <1>5, PostIsWhole, PollIsWhole DEF Next, EverythingBelongs

\* For who does not overlap connections and can take down what was set up: whatever
\* fails, comes late or is killed, what is set up on the host is the active connection's.
THEOREM TunnelsStayWithConnection == Spec => []TunnelsBelong
<1> DEFINE Inv == TypeOK /\ ConnectionInv /\ OneConnects /\ EverythingBelongs
<1>1. Init => Inv
  <2> SUFFICES ASSUME Init PROVE Inv
    OBVIOUS
  <2>1. ConnectionInv
    BY DEF Init, None, ConnectionInv, PolledIsServer, OverIsEmpty, TorHasPort
  <2>2. OneConnects
    BY InShort DEF Init, OneConnects
  <2>3. EverythingBelongs
    BY DEF Init, EverythingBelongs, Whole, None
  <2>. QED BY <2>1, <2>2, <2>3, TypesInit
<1>2. Inv /\ [Next]_vars => Inv'
  BY TypesStep, ConnectionStep, OneConnectsStep, WholeStep
<1>3. Inv => TunnelsBelong
  BY Owned DEF TunnelsBelong, EverythingBelongs, Whole
<1>. QED BY <1>1, <1>2, <1>3, PTL DEF Spec

-----------------------------------------------------------------------------
(***************************************************************************)
(* That no exit is known is reported once for a session, so its first      *)
(* retry of the route finds the counter at zero.                           *)
(***************************************************************************)
Unresolvable(s) == {Report("TorUnknown", s)}
Early == {"none", "boot"}

UnknownOnce ==
    \A s \in Sessions :
        /\ Once(queue, Unresolvable(s))
        /\ Has(queue, Unresolvable(s)) => stage[s] \notin Early

FirstTry ==
    active.kind = "tor" /\ attempts # 0 =>
        stage[port] \notin Early /\ ~Has(queue, Unresolvable(port))

LEMMA OtherReports ==
    /\ \A name, s, r : Report(name, s) \in Unresolvable(r) => name = "TorUnknown" /\ s = r
    /\ \A name : \A r \in Sessions : Cmd(name) \notin Unresolvable(r)
<1>1. \A s \in Sessions : s # 0
  BY DesktopAssumption DEF Sessions
<1>2. \A name, s : Cmd(name).port = 0 /\ Report(name, s).port = s /\ Report(name, s).cmd = name
  BY DEF Cmd, Report
<1>. QED BY <1>1, <1>2 DEF Unresolvable

\* A worker that is past its boot stays so, and says that no exit is known as it gets there.
LEMMA WorkerAges ==
    ASSUME TypeOK, NEW s \in Sessions, Worker(s) \/ TorDies(s)
    PROVE  /\ \A r \in Sessions : stage[r] \notin Early => stage'[r] \notin Early
           /\ \/ queue' = queue
              \/ \E name \in {"TorConnected", "TorFailed"} : queue' = Append(queue, Report(name, s))
              \/ /\ queue' = Append(queue, Report("TorUnknown", s))
                 /\ stage[s] \in Early /\ stage'[s] \notin Early
           /\ UNCHANGED <<active, port, attempts>>
<1>1. stage \in [Sessions -> Working \cup {"none", "gone"}]
  BY DEF TypeOK
<1>2. ASSUME NEW name, NEW next, Posts(s, name, next)
      PROVE  /\ queue' = Append(queue, Report(name, s)) /\ stage' = [stage EXCEPT ![s] = next]
             /\ UNCHANGED <<active, port, attempts>>
  BY <1>2 DEF Posts, conn
<1>3. ASSUME NEW next, Becomes(s, next)
      PROVE  queue' = queue /\ stage' = [stage EXCEPT ![s] = next] /\ UNCHANGED <<active, port, attempts>>
  BY <1>3 DEF Becomes, conn
<1>4. \A next : stage' = [stage EXCEPT ![s] = next] /\ next \notin Early
         => stage'[s] \notin Early /\ \A r \in Sessions : stage[r] \notin Early => stage'[r] \notin Early
  BY <1>1
<1>5. CASE WorkerSeesDeath(s)
  BY <1>2, <1>4, <1>5 DEF WorkerSeesDeath, Early
<1>6. CASE Resolved(s)
  BY <1>2, <1>4, <1>6 DEF Resolved, Early
<1>7. CASE Unresolved(s)
  <2>1. stage[s] \in Early /\ Posts(s, "TorUnknown", "watch") /\ "watch" \notin Early
    BY <1>7 DEF Unresolved, Early
  <2>. QED BY <1>2, <1>4, <2>1
<1>8. CASE Refined(s)
  BY <1>2, <1>3, <1>4, <1>8 DEF Refined, Early
<1>9. CASE Probed(s)
  BY <1>2, <1>3, <1>4, <1>9 DEF Probed, Early
<1>10. CASE TorDies(s)
  BY <1>10 DEF TorDies, conn
<1>. QED BY <1>5, <1>6, <1>7, <1>8, <1>9, <1>10 DEF Worker

\* Posting what is not such a report.
LEMMA OtherPost ==
    ASSUME TypeOK, ConnectionInv, UnknownOnce, FirstTry, NEW m \in Mail,
           \A s \in Sessions : m \notin Unresolvable(s),
           queue' = Append(queue, m) \/ queue' = queue,
           \A s \in Sessions : stage[s] \notin Early => stage'[s] \notin Early,
           UNCHANGED <<active, port, attempts>>
    PROVE  UnknownOnce' /\ FirstTry'
<1>1. queue \in Seq(Mail)
  BY DEF TypeOK, Mail
<1>2. \A s \in Sessions :
        /\ Once(queue', Unresolvable(s))
        /\ Has(queue', Unresolvable(s)) => Has(queue, Unresolvable(s))
  BY <1>1, InAppend DEF UnknownOnce
<1>3. UnknownOnce'
  BY <1>2 DEF UnknownOnce
<1>4. FirstTry'
  BY <1>2 DEF FirstTry, ConnectionInv, TorHasPort
<1>. QED BY <1>3, <1>4

LEMMA PostedOnce ==
    TypeOK /\ ConnectionInv /\ UnknownOnce /\ FirstTry
    /\ (\/ \E c \in Commands : Click(c)
        \/ pump_split_tunnel \/ Wake
        \/ \E s \in Sessions : Worker(s) \/ TorDies(s))
    => UnknownOnce' /\ FirstTry'
<1> SUFFICES ASSUME TypeOK, ConnectionInv, UnknownOnce, FirstTry,
                    \/ \E c \in Commands : Click(c)
                    \/ pump_split_tunnel \/ Wake
                    \/ \E s \in Sessions : Worker(s) \/ TorDies(s)
             PROVE  UnknownOnce' /\ FirstTry'
  OBVIOUS
<1>1. CASE (\E c \in Commands : Click(c)) \/ pump_split_tunnel \/ Wake
  <2>1. UNCHANGED <<active, port, attempts, stage>>
    BY <1>1 DEF Click, pump_split_tunnel, Wake, conn
  <2>2. \E name \in Names : queue' = Append(queue, Cmd(name))
    <3>1. \A c \in Commands : Click(c) => \E name \in Names : queue' = Append(queue, Cmd(name))
      BY DesktopAssumption, NotConnects DEF Click
    <3>2. pump_split_tunnel => \E name \in Names : queue' = Append(queue, Cmd(name))
      BY NotConnects DEF pump_split_tunnel
    <3>3. Wake => \E name \in Names : queue' = Append(queue, Cmd(name))
      BY NotConnects DEF Wake
    <3>. QED BY <1>1, <3>1, <3>2, <3>3
  <2>3. PICK name \in Names : queue' = Append(queue, Cmd(name))
    BY <2>2
  <2>4. Cmd(name) \in Mail /\ \A s \in Sessions : Cmd(name) \notin Unresolvable(s)
    BY MailTypes, OtherReports DEF Unresolvable
  <2>. QED BY <2>1, <2>3, <2>4, OtherPost
<1>2. ASSUME NEW s \in Sessions, Worker(s) \/ TorDies(s) PROVE UnknownOnce' /\ FirstTry'
  <2>1. /\ \A r \in Sessions : stage[r] \notin Early => stage'[r] \notin Early
        /\ UNCHANGED <<active, port, attempts>> /\ queue \in Seq(Mail)
    BY <1>2, WorkerAges DEF TypeOK, Mail
  <2>2. {"TorConnected", "TorFailed", "TorUnknown"} \subseteq Names
    BY NotConnects
  <2>3. \A name \in Names : Report(name, s) \in Mail
    BY MailTypes
  <2>4. ASSUME NEW name \in {"TorConnected", "TorFailed"}, queue' = Append(queue, Report(name, s))
        PROVE  UnknownOnce' /\ FirstTry'
    <3>1. \A r \in Sessions : Report(name, s) \notin Unresolvable(r)
      BY OtherReports
    <3>. QED BY <2>1, <2>2, <2>3, <2>4, <3>1, OtherPost
  <2>5. CASE queue' = queue
    <3>1. Cmd("TorFailed") \in Mail /\ \A r \in Sessions : Cmd("TorFailed") \notin Unresolvable(r)
      BY <2>2, MailTypes, OtherReports DEF Unresolvable
    <3>. QED BY <2>1, <2>5, <3>1, OtherPost
  <2>6. CASE /\ queue' = Append(queue, Report("TorUnknown", s))
             /\ stage[s] \in Early /\ stage'[s] \notin Early
    <3>1. Report("TorUnknown", s) \in Mail
      BY <2>2, <2>3
    <3>2. ASSUME NEW r \in Sessions
          PROVE  /\ Once(queue', Unresolvable(r))
                 /\ Has(queue', Unresolvable(r)) => Has(queue, Unresolvable(r)) \/ r = s
      <4>1. Once(queue, Unresolvable(r)) /\ (Has(queue, Unresolvable(r)) => stage[r] \notin Early)
        BY DEF UnknownOnce
      <4>2. Report("TorUnknown", s) \in Unresolvable(r) => r = s
        BY OtherReports
      <4>3. Report("TorUnknown", s) \in Unresolvable(r) => ~Has(queue, Unresolvable(r))
        BY <2>6, <4>1, <4>2
      <4>. QED BY <2>1, <2>6, <3>1, <4>1, <4>2, <4>3, InAppend
    <3>3. UnknownOnce'
      BY <2>1, <2>6, <3>2 DEF UnknownOnce
    <3>4. FirstTry'
      BY <2>1, <2>6, <3>2 DEF FirstTry, ConnectionInv, TorHasPort
    <3>. QED BY <3>3, <3>4
  <2>. QED BY <1>2, <2>4, <2>5, <2>6, WorkerAges
<1>. QED BY <1>1, <1>2

\* A queue without reports and no session.
LEMMA NothingAsked ==
    ASSUME active' = None, queue' = <<>> \/ \E name \in Names : queue' = <<Cmd(name)>>
    PROVE  UnknownOnce' /\ FirstTry'
<1>1. \A s \in Sessions : Once(queue', Unresolvable(s)) /\ ~Has(queue', Unresolvable(s))
  BY InShort, OtherReports
<1>. QED BY <1>1 DEF UnknownOnce, FirstTry, None

LEMMA HandledOnce ==
    TypeOK /\ ConnectionInv /\ UnknownOnce /\ FirstTry /\ queue # <<>> /\ HandlerStep
        => UnknownOnce' /\ FirstTry'
<1> SUFFICES ASSUME TypeOK, ConnectionInv, UnknownOnce, FirstTry, queue # <<>>, HandlerStep
             PROVE  UnknownOnce' /\ FirstTry'
  OBVIOUS
<1>1. queue \in Seq(Mail) /\ Tail(queue) \in Seq(Mail)
  BY DEF TypeOK, Mail
<1>2. \A s \in Sessions :
        /\ Once(Tail(queue), Unresolvable(s))
        /\ Has(Tail(queue), Unresolvable(s)) => Has(queue, Unresolvable(s))
        /\ Head(queue) \in Unresolvable(s) =>
             Has(queue, Unresolvable(s)) /\ ~Has(Tail(queue), Unresolvable(s))
  BY <1>1, InTail DEF UnknownOnce
<1>3. CASE /\ queue' = Tail(queue) /\ UNCHANGED <<stage, process, host>>
           /\ Continues \/ Ends \/ Begins
  <2>1. UnknownOnce'
    BY <1>2, <1>3 DEF UnknownOnce
  <2>2. ASSUME Continues, active'.kind = "tor", attempts' # 0
        PROVE  stage'[port'] \notin Early /\ ~Has(queue', Unresolvable(port'))
    <3>1. active.kind = "tor" /\ port \in Sessions /\ port' = port
      BY <2>2 DEF Continues, ConnectionInv, TorHasPort
    <3>2. CASE attempts' = attempts
      BY <1>2, <1>3, <2>2, <3>1, <3>2 DEF FirstTry
    <3>3. CASE Head(queue) = Report("TorUnknown", port)
      BY <1>2, <1>3, <3>1, <3>3 DEF UnknownOnce, Unresolvable
    <3>. QED BY <2>2, <3>2, <3>3 DEF Continues
  <2>3. FirstTry'
    BY <1>3, <2>2 DEF FirstTry, Ends, Begins
  <2>. QED BY <2>1, <2>3
<1>4. ASSUME NEW s \in Sessions, Free(s), SpawnTor(s) PROVE UnknownOnce' /\ FirstTry'
  <2>1. /\ stage[s] \in Early /\ attempts' = 0
        /\ stage' = [stage EXCEPT ![s] = "boot"] \/ stage' = [stage EXCEPT ![s] = "gone"]
        /\ queue' = Tail(queue) \/ queue' = Append(Tail(queue), Report("TorFailed", s))
    BY <1>4 DEF Free, SpawnTor, Early
  <2>2. Report("TorFailed", s) \in Mail /\ \A r \in Sessions : Report("TorFailed", s) \notin Unresolvable(r)
    BY MailTypes, OtherReports, NotConnects
  <2>3. \A r \in Sessions :
          /\ Once(queue', Unresolvable(r))
          /\ Has(queue', Unresolvable(r)) => Has(queue, Unresolvable(r))
    BY ZenonT(60), <1>1, <1>2, <2>1, <2>2, InAppend
  <2>4. \A r \in Sessions : Has(queue, Unresolvable(r)) => r # s /\ stage'[r] = stage[r]
    BY <2>1 DEF UnknownOnce, TypeOK
  <2>. QED BY <2>1, <2>3, <2>4 DEF UnknownOnce, FirstTry
<1>5. CASE TornDown
  BY <1>5, NothingAsked DEF TornDown
<1>6. CASE \E name \in Connects : Relaunched(<<Cmd(name)>>)
  BY <1>6, NothingAsked, NotConnects DEF Relaunched, StartUp
<1>. QED BY <1>3, <1>4, <1>5, <1>6 DEF HandlerStep

LEMMA UnknownStep ==
    TypeOK /\ ConnectionInv /\ UnknownOnce /\ FirstTry /\ [Next]_vars => UnknownOnce' /\ FirstTry'
<1> SUFFICES ASSUME TypeOK, ConnectionInv, UnknownOnce, FirstTry, [Next]_vars
             PROVE  UnknownOnce' /\ FirstTry'
  OBVIOUS
<1>1. Handle => queue # <<>>
  BY DEF Handle, Takes, Next_is, connect_to_tor, TorConnected, TorUnknown, TorFailed,
         apply_tor_system_route, connect_to_server, ConnectProfile, apply_kernel_tunnel,
         remove_kernel_tunnel, ApplySplitTunnel, ClearSplitTunnel, disconnect, DisconnectThenQuit,
         teardown_and_quit
<1>2. Killed \/ Restarted => active' = None /\ queue' = <<>>
  BY DEF Killed, Restarted, StartUp
<1>3. poll_active_connection => active'.kind # "tor" /\ UNCHANGED <<queue, stage>>
  BY PollKeepsConnection
<1>4. Watchdog \/ UNCHANGED vars => UNCHANGED <<active, port, attempts, queue, stage>>
  BY DEF Watchdog, vars, conn
<1>. QED BY <1>1, <1>2, <1>3, <1>4, HandlerShape, HandledOnce, PostedOnce, NothingAsked
     DEF Next, UnknownOnce, FirstTry

-----------------------------------------------------------------------------
(***************************************************************************)
(* What is shown of the route is so.                                       *)
(***************************************************************************)

\* A connection that is not Tor's has neither the route nor Tor's tunnel.
LEMMA OthersShowNothing ==
    ASSUME TypeOK', EverythingBelongs', active'.kind # "tor"
    PROVE  RouteShown'
<1>1. active'.kind \in Kinds \ {"tor"}
  BY DEF TypeOK, Kinds
<1>2. "tor" \notin Own[active'.kind]
  BY <1>1, Owned
<1>. QED BY <1>2 DEF RouteShown, EverythingBelongs, Whole

LEMMA SameRoute ==
    ASSUME RouteShown, Stays, route' = route, "tor" \in up' <=> "tor" \in up
    PROVE  RouteShown'
BY StaysOrderly DEF RouteShown

LEMMA StartedRoute == TorStart /\ Stays => RouteShown'
<1>1. TorStart => (route' <=> "tor" \in up')
  BY DEF TorStart, Socks
<1>. QED BY <1>1 DEF RouteShown

LEMMA TorHandlersShow ==
    TypeOK /\ ConnectionInv /\ EverythingBelongs /\ UnknownOnce /\ FirstTry /\ RouteShown
    /\ TypeOK' /\ EverythingBelongs'
    /\ (connect_to_tor \/ TorConnected \/ TorUnknown \/ TorFailed \/ apply_tor_system_route)
    => RouteShown'
<1> SUFFICES ASSUME TypeOK, ConnectionInv, EverythingBelongs, UnknownOnce, FirstTry, RouteShown,
                    TypeOK', EverythingBelongs', active'.kind = "tor",
                    \/ connect_to_tor \/ TorConnected \/ TorUnknown
                    \/ TorFailed \/ apply_tor_system_route
             PROVE  RouteShown'
  BY OthersShowNothing
<1>1. ASSUME Ignores PROVE RouteShown'
  BY <1>1, SameRoute DEF Ignores, conn, net
<1>2. CASE connect_to_tor
  <2>1. \A s \in Sessions : SpawnTor(s) => RouteShown'
    BY SameRoute DEF SpawnTor, net
  <2>. QED BY <1>1, <1>2, <2>1 DEF connect_to_tor
<1>3. CASE TorConnected
  <2>1. CASE live(Head(queue).port)
    <3>1. Stays
      BY <1>3, <2>1 DEF TorConnected
    <3>2. \/ TorStart
          \/ /\ ~(host.isolation = "system" /\ (host.helper \/ (root /\ ~(route /\ "tor" \in up))))
             /\ UNCHANGED net
             /\ route' = (route /\ host.isolation = "system" /\ root)
      BY <1>3, <2>1, Zenon DEF TorConnected
    <3>3. CASE TorStart
      BY <3>1, <3>3, StartedRoute
    <3>4. CASE /\ ~(host.isolation = "system" /\ (host.helper \/ (root /\ ~(route /\ "tor" \in up))))
               /\ UNCHANGED net
               /\ route' = (route /\ host.isolation = "system" /\ root)
      <4>1. host.isolation = "system" /\ Orderly => route' /\ "tor" \in up'
        BY <3>4 DEF Orderly, Can, net
      <4>. QED BY <3>1, <4>1, StaysOrderly DEF RouteShown
    <3>. QED BY <3>2, <3>3, <3>4
  <2>. QED BY <1>1, <1>3, <2>1 DEF TorConnected
<1>4. CASE TorUnknown
  <2>1. CASE live(Head(queue).port)
    <3>1. Stays /\ UNCHANGED net /\ route' = (route /\ host.isolation = "system" /\ attempts < 24)
      BY <1>4, <2>1, Zenon DEF TorUnknown
    <3>2. Head(queue) = Report("TorUnknown", port) /\ active.kind = "tor" /\ port \in Sessions
      BY <1>4, <2>1, LiveReport DEF TorUnknown, ConnectionInv, TorHasPort
    <3>3. queue \in Seq(Mail) /\ queue # <<>>
      BY <1>4 DEF TorUnknown, Takes, Next_is, TypeOK, Mail
    <3>4. Has(queue, Unresolvable(port))
      BY <3>2, <3>3, InTail DEF UnknownOnce, Unresolvable
    <3>5. attempts < 24
      BY <3>2, <3>4 DEF FirstTry
    <3>6. host.isolation = "system" => (route' <=> route)
      BY <3>1, <3>5
    <3>. QED BY <3>1, <3>6, StaysOrderly DEF RouteShown, net
  <2>. QED BY <1>1, <1>4, <2>1 DEF TorUnknown
<1>5. CASE TorFailed
  <2>1. Disconnected => FALSE
    BY DEF Disconnected, None
  <2>. QED BY <1>1, <1>5, <2>1 DEF TorFailed
<1>6. CASE apply_tor_system_route
  <2>1. ~Relaunched(<<Cmd("ConnectTor")>>)
    BY DEF Relaunched, StartUp, None
  <2>2. Stays /\ UNCHANGED <<active, port>>
    BY <1>6, <2>1, Zenon DEF apply_tor_system_route
  <2>3. active.kind = "tor" /\ port # 0
    <3>1. port \in Sessions
      BY <2>2 DEF ConnectionInv, TorHasPort
    <3>. QED BY <2>2, <3>1 DEF Sessions
  <2>4. TorStart \/ (~Can /\ UNCHANGED net)
    BY <1>6, <2>1, <2>3, Zenon DEF apply_tor_system_route
  <2>5. ~Can => RouteShown'
    BY <2>2, StaysOrderly DEF RouteShown, Orderly
  <2>. QED BY <2>2, <2>4, <2>5, StartedRoute
<1>. QED BY <1>2, <1>3, <1>4, <1>5, <1>6

LEMMA RouteStep ==
    TypeOK /\ ConnectionInv /\ EverythingBelongs /\ UnknownOnce /\ FirstTry /\ RouteShown
    /\ TypeOK' /\ EverythingBelongs' /\ [Next]_vars
    => RouteShown'
<1> SUFFICES ASSUME TypeOK, ConnectionInv, EverythingBelongs, UnknownOnce, FirstTry, RouteShown,
                    TypeOK', EverythingBelongs', [Next]_vars, active'.kind = "tor"
             PROVE  RouteShown'
  BY OthersShowNothing
<1>1. CASE \/ \E c \in Commands : Click(c)
           \/ pump_split_tunnel \/ Wake
           \/ \E s \in Sessions : Worker(s) \/ TorDies(s)
  <2>1. UNCHANGED <<up, route, process, host>>
    BY <1>1, PostIsWhole, QuietKeepsConnection
  <2>2. root' = root
    BY <1>1 DEF Click, pump_split_tunnel, Wake, Worker, WorkerSeesDeath, Resolved, Unresolved,
                Refined, Probed, TorDies, Posts, Becomes
  <2>3. Stays
    BY <2>1, <2>2 DEF Stays
  <2>. QED BY <2>1, <2>3, SameRoute
<1>2. CASE connect_to_server \/ \E kind \in Profiles : ConnectProfile(kind)
  <2>1. ASSUME Ignores PROVE RouteShown'
    BY <2>1, SameRoute DEF Ignores, conn, net
  <2>2. ~connect_to_server
    BY DEF connect_to_server, Login, connection_from_lease, As
  <2>3. ASSUME NEW kind \in Profiles, ConnectProfile(kind) PROVE Ignores
    <3>1. kind \in {"ovpn", "wg", "pptp", "outline"}
      BY DEF Profiles
    <3>2. ~Relaunched(<<Cmd(kind)>>)
      BY DEF Relaunched, StartUp, None
    <3>3. ~(CASE kind = "ovpn" -> ConnectOvpn      [] kind = "wg"      -> ConnectWireGuard
              [] kind = "pptp" -> ConnectPptp      [] kind = "outline" -> ConnectOutline)
      <4>1. \A k \in Profiles : \A phase : As(k, phase).kind # "tor"
        BY DEF As, Profiles
      <4>2. \A k \in Profiles : \A tunnel, rest, leftovers : ~Starts(k, tunnel, rest, leftovers)
        BY <4>1 DEF Starts
      <4>3. ~ConnectOvpn
        BY <4>2 DEF ConnectOvpn, Profiles
      <4>4. ~ConnectWireGuard
        BY <4>1, <4>2 DEF ConnectWireGuard, Profiles
      <4>5. ~ConnectPptp
        BY <4>1, <4>2 DEF ConnectPptp, Profiles
      <4>6. ~ConnectOutline
        BY <4>1, <4>2 DEF ConnectOutline, Profiles
      <4>. QED BY <3>1, <4>3, <4>4, <4>5, <4>6
    <3>. QED BY <2>3, <3>2, <3>3, Zenon DEF ConnectProfile
  <2>. QED BY <1>2, <2>1, <2>2, <2>3
<1>3. CASE apply_kernel_tunnel \/ remove_kernel_tunnel \/ ApplySplitTunnel \/ ClearSplitTunnel
  <2>1. Stays
    BY <1>3 DEF apply_kernel_tunnel, remove_kernel_tunnel, ApplySplitTunnel, ClearSplitTunnel
  <2>. QED BY <1>3, <2>1, OthersAreWhole, SameRoute
<1>4. ~(disconnect \/ DisconnectThenQuit \/ teardown_and_quit)
  BY DEF disconnect, DisconnectThenQuit, teardown_and_quit, Disconnected, TornDown, None
<1>5. ~(Killed \/ Restarted)
  BY DEF Killed, Restarted, StartUp, None
<1>6. ~poll_active_connection
  BY PollKeepsConnection
<1>7. Watchdog => ~Orderly'
  BY DEF Watchdog, Orderly, Stays
<1>8. UNCHANGED vars => RouteShown'
  BY SameRoute DEF vars, conn, net, Stays
<1>. QED BY <1>1, <1>2, <1>3, <1>4, <1>5, <1>6, <1>7, <1>8, TorHandlersShow
     DEF Next, Handle, RouteShown

\* "On - all apps use Tor" is shown exactly while Tor's tunnel is up: after a start that
\* failed, a retry that came late, a relaunch or a restart.
THEOREM RouteIsShown == Spec => []RouteShown
<1> DEFINE Inv == /\ TypeOK /\ ConnectionInv /\ OneConnects /\ EverythingBelongs
                  /\ UnknownOnce /\ FirstTry /\ RouteShown
<1>1. Init => Inv
  <2> SUFFICES ASSUME Init PROVE Inv
    OBVIOUS
  <2>1. ConnectionInv
    BY DEF Init, None, ConnectionInv, PolledIsServer, OverIsEmpty, TorHasPort
  <2>2. OneConnects /\ UnknownOnce /\ FirstTry
    BY InShort DEF Init, OneConnects, UnknownOnce, FirstTry
  <2>3. EverythingBelongs
    BY DEF Init, EverythingBelongs, Whole, None
  <2>4. RouteShown
    BY DEF Init, RouteShown
  <2>. QED BY <2>1, <2>2, <2>3, <2>4, TypesInit
<1>2. Inv /\ [Next]_vars => Inv'
  BY TypesStep, ConnectionStep, OneConnectsStep, WholeStep, UnknownStep, RouteStep
<1>. QED BY <1>1, <1>2, PTL DEF Spec

==============================================================================
