---------------------------- MODULE NativePlane ----------------------------
(***************************************************************************)
(* The data planes of the Android client (crates/platform-android, and the *)
(* JNI entries of apps/client/src/lib.rs): statics behind mutexes that     *)
(* several Java threads call into at once.  A WireGuard pump reads a       *)
(* duplicate of the tunnel's descriptor and ends by itself, some time      *)
(* after it is told to; Outline's and Tor's proxies are fed by one         *)
(* tun2proxy that reads the descriptor itself.                             *)
(*                                                                         *)
(* A call is the sequence of steps it makes; the module that EXTENDS this  *)
(* one gives them to its threads.                                          *)
(*                                                                         *)
(* Left out: the progress that is shown, and ports.  A stop waits 80 ms    *)
(* for tun2proxy, 120 ms for a pump: the step it is in is over by then.    *)
(***************************************************************************)
EXTENDS Integers, Sequences

CONSTANT MaxTokens   \* TLC only: how many sessions are ever begun

ASSUME TokensAssumption == MaxTokens \in Nat

VARIABLES
    active,       \* ACTIVE: whose pump is to run, or Nobody
    running,      \* the pumps that were not told to stop
    pumps,        \* where each session's pump is
    answered,     \* the pumps whose peer has answered
    handshakeOk,  \* HANDSHAKE_OK, of whichever pump
    outline,      \* OUTLINE: whose shadowsocks runs, or Nobody
    socks,        \* SOCKS_TUN: whose descriptor tun2proxy reads, or Nobody
    tor           \* TOR: a tor is running

wireguard == <<active, running, pumps, answered, handshakeOk>>
native == <<wireguard, outline, socks, tor>>

Nobody == 0

Tokens == 1 .. MaxTokens

NativeInit ==
    /\ active = Nobody /\ running = {} /\ answered = {} /\ handshakeOk = FALSE
    /\ pumps = [t \in Tokens |-> "none"]
    /\ outline = Nobody /\ socks = Nobody /\ tor = FALSE

-----------------------------------------------------------------------------
(***************************************************************************)
(* Stopping.                                                               *)
(***************************************************************************)

\* stop_all_tunnels, which keeps Tor's proxy.
StopAllTunnels == <<"stopWg", "stopOutline">>

StopEverything == <<"stopWg", "stopProxies">>

StopWireguard ==
    /\ handshakeOk' = FALSE
    /\ active' = Nobody /\ running' = running \ {active}
    /\ UNCHANGED <<pumps, answered, outline, socks, tor>>

StopSocks == socks' = Nobody /\ UNCHANGED <<wireguard, outline, tor>>

\* Either proxy takes the tunnel that is fed to it along.
StopOutline == outline' = Nobody /\ socks' = Nobody /\ UNCHANGED <<wireguard, tor>>

StopTor == tor' = FALSE /\ socks' = Nobody /\ UNCHANGED <<wireguard, outline>>

\* stop_outline, stop_tor and stop_socks_system_tunnel on end.
StopProxies ==
    outline' = Nobody /\ tor' = FALSE /\ socks' = Nobody /\ UNCHANGED wireguard

Stopping(step) ==
    \/ step = "stopProxies" /\ StopProxies
    \/ step = "stopWg" /\ StopWireguard
    \/ step = "stopSocks" /\ StopSocks
    \/ step = "stopOutline" /\ StopOutline
    \/ step = "stopTor" /\ StopTor

-----------------------------------------------------------------------------
(***************************************************************************)
(* Attaching a data plane to a session's tunnel.                           *)
(***************************************************************************)

StartWireguard == <<"stopWg", "readProfile", "spawnPump", "await">>

StartSocksTunnel == <<"stopSocks", "route">>

StartOutline == <<"stopOutline", "serve">> \o StartSocksTunnel

StartTorTunnel == <<"torPort">> \o StartSocksTunnel

\* android_start_tunnel.  A tunnel for PPTP is refused before.
Attaching(kind) ==
    CASE kind = "outline" -> StartOutline
      [] kind = "tor"     -> StartTorTunnel
      [] OTHER            -> StartWireguard

\* The profile has no key, no endpoint, or a key that does not decode.
ReadProfile(succeeds) ==
    /\ handshakeOk' = FALSE
    /\ succeeds \in BOOLEAN
    /\ UNCHANGED <<active, running, pumps, answered, outline, socks, tor>>

\* The descriptor is duplicated, and the pump's thread begins.
SpawnPump(token) ==
    /\ active' = token /\ running' = running \cup {token}
    /\ pumps' = [pumps EXCEPT ![token] = "resolving"]
    /\ UNCHANGED <<answered, handshakeOk, outline, socks, tor>>

\* For 22 s: the flag is up, somebody stopped the pump, or the time is over.
\* A pump that ended by itself is not noticed: nothing takes its flag away.
Await(token, succeeds) ==
    /\ succeeds => handshakeOk
    /\ UNCHANGED native

\* Shadowsocks' own proxy answers within 8 s and is remembered only then.
Serve(token, succeeds) ==
    /\ outline' = IF succeeds THEN token ELSE outline
    /\ UNCHANGED <<wireguard, socks, tor>>

TorPort(succeeds) ==
    /\ succeeds = tor
    /\ UNCHANGED native

\* tun2proxy begins to read the session's descriptor.
Route(token, succeeds) ==
    /\ socks' = IF succeeds THEN token ELSE socks
    /\ UNCHANGED <<wireguard, outline, tor>>

Attach(step, token, succeeds) ==
    \/ step = "readProfile" /\ ReadProfile(succeeds)
    \/ step = "spawnPump" /\ succeeds /\ SpawnPump(token)
    \/ step = "spawnPump" /\ ~ succeeds /\ UNCHANGED native
    \/ step = "await" /\ Await(token, succeeds)
    \/ step = "serve" /\ Serve(token, succeeds)
    \/ step = "torPort" /\ TorPort(succeeds)
    \/ step = "route" /\ Route(token, succeeds)

\* What a failed step does before the call returns its error.
Unwinding(step) == IF step = "await" THEN <<"stopWg">> ELSE <<>>

-----------------------------------------------------------------------------
(***************************************************************************)
(* The pump of a session, run_pump, on its own thread.                     *)
(***************************************************************************)

\* The endpoint is resolved, whatever became of the session meanwhile, and the
\* socket connected.  The errors of this part leave before the descriptor is
\* owned by anybody: its duplicate is never closed.
Resolve(t) ==
    /\ pumps[t] = "resolving"
    /\ \/ /\ pumps' = [pumps EXCEPT ![t] = "pumping"]
          /\ UNCHANGED handshakeOk
       \/ /\ pumps' = [pumps EXCEPT ![t] = "none"]
          /\ handshakeOk' = FALSE
    /\ UNCHANGED <<active, running, answered, outline, socks, tor>>

\* The loop finds the session established, by a datagram or by its timers.
Answered(t) ==
    /\ pumps[t] = "pumping" /\ t \in running \ answered
    /\ answered' = answered \cup {t} /\ handshakeOk' = TRUE
    /\ UNCHANGED <<active, running, pumps, outline, socks, tor>>

\* The duplicate is closed.  The flag falls, whosever it is by now.
EndPump(t) ==
    /\ pumps[t] = "pumping" /\ t \notin running
    /\ pumps' = [pumps EXCEPT ![t] = "none"]
    /\ answered' = answered \ {t} /\ handshakeOk' = FALSE
    /\ UNCHANGED <<active, running, outline, socks, tor>>

PumpGoesOn == \E t \in Tokens : Resolve(t) \/ EndPump(t)

-----------------------------------------------------------------------------
(***************************************************************************)
(* Tor's proxy, which the screens start before there is a tunnel.          *)
(***************************************************************************)

StartTorSocks == <<"stopTor", "launch">>

\* The bundle is there, its configuration written, tor started, and its port
\* answers within 90 s; else it is killed.  Only now is it known to whoever
\* stops everything.
Launch(succeeds) ==
    /\ tor' = (succeeds \/ tor)
    /\ UNCHANGED <<wireguard, outline, socks>>

=============================================================================
