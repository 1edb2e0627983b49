---------------------------- MODULE TunnelHelper ----------------------------
(***************************************************************************)
(* The root helper daemon and the Linux tunnels it owns                    *)
(* (apps/client/src/helper.rs; crates/platform-linux/src: socks_tun.rs,    *)
(* wireguard.rs, openvpn.rs, pptp.rs, outline.rs, leak_protect.rs).        *)
(*                                                                         *)
(* Every connection to the socket has a thread, and every thread runs its  *)
(* commands on the same five slots.  A slot has a mutex, held only while   *)
(* the slot is read or written (for the SOCKS tunnel, during the whole     *)
(* teardown), so what a command undoes on the host is undone outside it.   *)
(* A command is the sequence of steps it has still to take: a step that    *)
(* fails replaces the rest by what the code does about it.                 *)
(***************************************************************************)
EXTENDS Integers, Sequences, FiniteSets

CONSTANTS Threads,      \* connection threads of the daemon
          Apps,         \* client processes, a new pid each
          Guis,         \* those whose executable is vpn-client
          NoApp,
          Main,         \* the thread that the signals are delivered to
          Watchdog,     \* zn-tor-watchdog
          Offered,      \* TLC only: the commands that clients send
          RoutesFail,   \* a route of an IPv6 tunnel may be refused
          MaxStarts     \* TLC only: how many tunnels are asked for

Tunnels == {"wg", "ovpn", "pptp", "ss", "socks"}

Starts == {"tor_start", "wg_start", "ovpn_start", "pptp_start", "ss_start"}
Stops  == {"tor_stop", "wg_stop", "ovpn_stop", "pptp_stop", "ss_stop"}
Splits == {"split_apply", "split_clear"}

ASSUME HelperAssumption ==
    /\ Guis \subseteq Apps /\ NoApp \notin Apps \cup Threads \cup {Main, Watchdog}
    /\ Main \notin Threads /\ Watchdog \notin Threads /\ Main # Watchdog
    /\ Offered \subseteq Starts \cup Stops \cup Splits
    /\ RoutesFail \in BOOLEAN /\ MaxStarts \in Nat

VARIABLES
    ipv6,      \* disable_ipv6 is 0 on the physical interfaces
    resolver,  \* whose /etc/resolv.conf it is
    pinned,    \* the WireGuard server has a route of its own, past the tunnel
    rule,      \* `ip rule from <Tor's address> lookup 100` is installed
    split,     \* split tunnelling is on
    live,      \* per tunnel: what runs for it, by the command that started it
    slot,      \* the slots: {} or {handle}
    lock,      \* who is inside the SOCKS slot's mutex
    todo,      \* per thread: the steps still to take
    hand,      \* per thread: the command it runs and the handle it took
    owner,     \* TOR_OWNER_PID
    alive,     \* the client processes that exist
    owes,      \* per client: the stops it sends before it asks for a tunnel
    daemon,    \* "up" or "down"
    sent       \* how many starts were sent

host   == <<ipv6, resolver, pinned, rule, split>>
slots  == <<live, slot, lock>>
procs  == <<owner, alive, owes, daemon, sent>>
vars   == <<host, slots, todo, hand, procs>>

Runners == Threads \cup {Main, Watchdog}
Free == NoApp

Saved == {"none", "on", "off"}
Handle ==
    [id : Nat, guard : Saved, dns : {"none", "own", "tunnel"},
     pin : BOOLEAN, tor : BOOLEAN]

NoHand == [id |-> 0, taken |-> {}]

Idle(t) == todo[t] = <<>>
Quiet == \A t \in Runners : Idle(t)

\* start_backend: every kind of tunnel is stopped, one after the other.
StartUp == <<"tor_stop", "wg_stop", "ovpn_stop", "pptp_stop", "ss_stop">>

Init ==
    /\ ipv6 = TRUE /\ resolver = "own" /\ pinned = FALSE /\ rule = FALSE /\ split = FALSE
    /\ live = [p \in Tunnels |-> {}]
    /\ slot = [p \in Tunnels |-> {}]
    /\ lock = Free
    /\ todo = [t \in Runners |-> <<>>]
    /\ hand = [t \in Runners |-> NoHand]
    /\ owner = NoApp /\ alive = Apps /\ owes = [app \in Apps |-> StartUp]
    /\ daemon = "up" /\ sent = 0

-----------------------------------------------------------------------------
(***************************************************************************)
(* What each command does, step by step.                                   *)
(***************************************************************************)

stop_socks == << <<"take", "socks">>, <<"undo", "socks">>, <<"check", "socks">> >>

TakeAndUndo(p) == << <<"take", p>>, <<"undo", p>> >>

stop_outline == stop_socks \o << <<"stop", "ss">> >>

start_socks(name) == stop_socks \o << <<"up", name>>, <<"probe", "socks">> >>

start_tor == stop_socks \o << <<"bypass", "socks">> >> \o start_socks("ZeroNodeTor")

start_outline == stop_outline \o << <<"up", "ss">> >> \o start_socks("ZeroNodeOutline")

start_wg == TakeAndUndo("wg") \o << <<"link", "wg">>, <<"up", "wg">> >>

start_ppp(p) == TakeAndUndo(p) \o << <<"spawn", p>>, <<"up", p>>, <<"wait", p>> >>

Program(cmd) ==
    CASE cmd = "tor_start"  -> start_tor
      [] cmd = "tor_stop"   -> stop_socks
      [] cmd = "wg_start"   -> start_wg
      [] cmd = "wg_stop"    -> TakeAndUndo("wg")
      [] cmd = "ovpn_start" -> start_ppp("ovpn")
      [] cmd = "ovpn_stop"  -> TakeAndUndo("ovpn")
      [] cmd = "pptp_start" -> start_ppp("pptp")
      [] cmd = "pptp_stop"  -> TakeAndUndo("pptp")
      [] cmd = "ss_start"   -> start_outline
      [] cmd = "ss_stop"    -> stop_outline
      [] cmd \in Splits     -> <<>>

\* handle_signal: every tunnel is stopped, and the process exits.
on_signal ==
    stop_socks \o TakeAndUndo("wg") \o TakeAndUndo("ovpn") \o TakeAndUndo("pptp")
        \o stop_outline \o << <<"exit", "daemon">> >>

\* ensure_tor_watchdog: what it does about a dead owner.
on_dead_owner == stop_socks \o << <<"forget", "owner">> >>

-----------------------------------------------------------------------------
At(t, do, on) == /\ ~Idle(t)
                 /\ Head(todo[t]) = <<do, on>>

Proceed(t)  == todo' = [todo EXCEPT ![t] = Tail(@)]
Turn(t, to) == todo' = [todo EXCEPT ![t] = to]
GiveUp(t)   == Turn(t, <<>>)

\* Mutant: the knob is written before it is read.
disable_all_then_read == "off"

\* leak_protect::disable_all: what it found is the guard, and the knob is 1.
disable_all == IF ipv6 THEN "on" ELSE "off"

\* leak_protect::restore
restore(guard) == IF guard = "none" THEN ipv6 ELSE guard = "on"

\* backup_and_override_dns: who is overridden is what the handle keeps.
backup_and_override_dns(override) == IF override THEN resolver ELSE "none"

\* restore_dns
restore_dns(taken) ==
    IF \E h \in taken : h.dns # "none" THEN (CHOOSE h \in taken : TRUE).dns ELSE resolver

\* The rule of the Tor tunnel goes with it, whether its address is known or not.
remove_tor_source_bypass(taken) == rule /\ \A h \in taken : ~h.tor

\* tor_guard_bypass_strings: Tor may or may not have connections to exempt.
tor_guard_bypass_strings == {{}, {"guard"}}

NewHandle(t, guard) ==
    [id |-> hand[t].id, guard |-> guard, dns |-> "none", pin |-> FALSE, tor |-> FALSE]

\* A new handle replaces the one in the slot, whose guard and worker are lost.
Store(p, h) == slot' = [slot EXCEPT ![p] = {h}]

Runs(p, ids) == live' = [live EXCEPT ![p] = ids]

\* Mutant: the handle is read and stays in its slot.
TakeKeeps(t, p) ==
    /\ At(t, "take", p)
    /\ p = "socks" => lock = Free
    /\ lock' = IF p = "socks" THEN t ELSE lock
    /\ hand' = [hand EXCEPT ![t].taken = slot[p]]
    /\ split' = FALSE
    /\ Proceed(t)
    /\ UNCHANGED <<ipv6, resolver, pinned, rule, live, slot, procs>>

\* The handle leaves its slot; split tunnelling was cleared just before.
Take(t, p) ==
    /\ At(t, "take", p)
    /\ p = "socks" => lock = Free
    /\ lock' = IF p = "socks" THEN t ELSE lock
    /\ slot' = [slot EXCEPT ![p] = {}]
    /\ hand' = [hand EXCEPT ![t].taken = slot[p]]
    /\ split' = FALSE
    /\ Proceed(t)
    /\ UNCHANGED <<ipv6, resolver, pinned, rule, live, procs>>

\* Mutant: a stop that finds no handle returns with the mutex held.
UndoSocksHolds(t) ==
    /\ At(t, "undo", "socks")
    /\ LET taken == hand[t].taken
       IN  /\ Runs("socks", {id \in live["socks"] : \A h \in taken : id # h.id})
           /\ ipv6' = IF taken = {} THEN ipv6 ELSE \A h \in taken : restore(h.guard)
           /\ rule' = remove_tor_source_bypass(taken)
           /\ lock' = IF taken = {} THEN lock ELSE Free
    /\ hand' = [hand EXCEPT ![t].taken = {}]
    /\ Proceed(t)
    /\ UNCHANGED <<resolver, pinned, split, slot, procs>>

\* The worker is cancelled, the host is put back, the mutex is released.
UndoSocks(t) ==
    /\ At(t, "undo", "socks")
    /\ LET taken == hand[t].taken
       IN  /\ Runs("socks", {id \in live["socks"] : \A h \in taken : id # h.id})
           /\ ipv6' = IF taken = {} THEN ipv6 ELSE \A h \in taken : restore(h.guard)
           /\ rule' = remove_tor_source_bypass(taken)
    /\ hand' = [hand EXCEPT ![t].taken = {}]
    /\ lock' = Free
    /\ Proceed(t)
    /\ UNCHANGED <<resolver, pinned, split, slot, procs>>

\* Whether or not the slot held a handle: its mutex is taken once more.
CheckSocks(t) ==
    /\ At(t, "check", "socks")
    /\ lock = Free
    /\ Proceed(t)
    /\ UNCHANGED <<host, slots, hand, procs>>

\* stop_global: the interface goes in any case; openvpn and pppd are killed by
\* pid and by name.
Undo(t, p) ==
    /\ At(t, "undo", p) /\ p \in {"wg", "ovpn", "pptp"}
    /\ LET taken == hand[t].taken
       IN  /\ ipv6' = IF taken = {} THEN ipv6 ELSE \A h \in taken : restore(h.guard)
           /\ resolver' = restore_dns(taken)
           /\ pinned' = (pinned /\ \A h \in taken : ~h.pin)
    /\ Runs(p, {})
    /\ hand' = [hand EXCEPT ![t].taken = {}]
    /\ Proceed(t)
    /\ UNCHANGED <<rule, split, slot, lock, procs>>

\* Mutant: the slot forgets its child, which runs on.
StopOutlineForgets(t) ==
    /\ At(t, "stop", "ss")
    /\ slot' = [slot EXCEPT !["ss"] = {}]
    /\ Proceed(t)
    /\ UNCHANGED <<host, live, lock, hand, procs>>

\* The rest of stop_outline: under the mutex, the child in the slot is killed.
StopOutline(t) ==
    /\ At(t, "stop", "ss")
    /\ Runs("ss", {id \in live["ss"] : \A h \in slot["ss"] : id # h.id})
    /\ slot' = [slot EXCEPT !["ss"] = {}]
    /\ Proceed(t)
    /\ UNCHANGED <<host, lock, hand, procs>>

-----------------------------------------------------------------------------
(***************************************************************************)
(* The starts.                                                             *)
(***************************************************************************)

\* setup_tor_source_bypass needs an address of Tor's and may fail half way; without the rule and without a
\* guard of Tor's to exempt, the tunnel is refused.
TorBypass(t) ==
    /\ At(t, "bypass", "socks")
    /\ \E address, installed, complete \in BOOLEAN, guards \in tor_guard_bypass_strings :
          /\ complete => installed /\ address
          /\ rule' = IF address THEN installed ELSE rule
          /\ IF complete \/ guards # {} THEN Proceed(t) ELSE GiveUp(t)
    /\ UNCHANGED <<ipv6, resolver, pinned, split, slots, hand, procs>>

\* The worker is spawned, IPv6 is blocked and the handle is stored.
SocksUp(t, name) ==
    /\ At(t, "up", name) /\ name \in {"ZeroNodeTor", "ZeroNodeOutline"}
    /\ lock = Free
    /\ \/ /\ Store("socks", [NewHandle(t, disable_all) EXCEPT !.tor = name = "ZeroNodeTor"])
          /\ Runs("socks", live["socks"] \cup {hand[t].id})
          /\ ipv6' = FALSE
          /\ Proceed(t)
       \/ GiveUp(t) /\ UNCHANGED <<ipv6, live, slot>>
    /\ UNCHANGED <<resolver, pinned, rule, split, lock, hand, procs>>

\* The worker in the slot has finished, or nothing is in the slot: a failure.
SocksProbe(t) ==
    /\ At(t, "probe", "socks")
    /\ lock = Free
    /\ IF \E h \in slot["socks"] : h.id \in live["socks"]
       THEN Proceed(t)
       ELSE Turn(t, stop_socks)
    /\ UNCHANGED <<host, slots, hand, procs>>

\* sslocal answers on its port and is stored, and Shadowsocks alone may be all
\* that was asked for; or it does not answer, and is gone.
OutlineUp(t) ==
    /\ At(t, "up", "ss")
    /\ \/ /\ Runs("ss", live["ss"] \cup {hand[t].id})
          /\ Store("ss", NewHandle(t, "none"))
          /\ Proceed(t) \/ GiveUp(t)
       \/ /\ GiveUp(t)
          /\ UNCHANGED <<live, slot>>
    /\ UNCHANGED <<host, lock, hand, procs>>

\* apply_kernel_tunnel: a step of it that fails leaves the interface behind.
WgLink(t) ==
    /\ At(t, "link", "wg")
    /\ \/ Runs("wg", {hand[t].id}) /\ (Proceed(t) \/ GiveUp(t))
       \/ GiveUp(t) /\ UNCHANGED live
    /\ UNCHANGED <<host, slot, lock, hand, procs>>

\* parse_client_config: what a profile that parses asks for.  One without DNS
\* gets servers of the parser's; the server's own address is an IPv4 one.
parse_client_config == [full : BOOLEAN, carries : BOOLEAN]

\* pin_endpoint_route: a host without a default gateway gets no pin.
pin_endpoint_route(profile) == IF profile.full THEN BOOLEAN ELSE {FALSE}

\* The rest of start_global.  A full tunnel whose profile carries no IPv6 blocks
\* it; one that does carry it blocks it too when the route cannot be set, and
\* add_full_tunnel_routes drops that guard.
WgUp(t) ==
    /\ At(t, "up", "wg")
    /\ \E profile \in parse_client_config, routed \in BOOLEAN :
       \E pin \in pin_endpoint_route(profile) :
          /\ routed \/ (RoutesFail /\ profile.full /\ profile.carries)
          /\ LET guard == IF profile.full /\ ~profile.carries THEN disable_all ELSE "none"
             IN  /\ ipv6' = (ipv6 /\ guard = "none" /\ routed)
                 /\ resolver' = IF profile.full THEN "tunnel" ELSE resolver
                 /\ pinned' = (pinned \/ pin)
                 /\ Store("wg", [NewHandle(t, guard) EXCEPT
                                   !.dns = backup_and_override_dns(profile.full), !.pin = pin])
    /\ Proceed(t)
    /\ UNCHANGED <<rule, split, live, lock, hand, procs>>

\* openvpn or pppd is spawned; no profile, no file or no process ends the start.
Spawn(t, p) ==
    /\ At(t, "spawn", p)
    /\ \/ Runs(p, live[p] \cup {hand[t].id}) /\ Proceed(t)
       \/ GiveUp(t) /\ UNCHANGED live
    /\ UNCHANGED <<host, slot, lock, hand, procs>>

\* The handle is stored before anybody knows whether the tunnel comes up; an
\* OpenVPN profile may carry IPv6 itself.
PppUp(t, p) ==
    /\ At(t, "up", p) /\ p \in {"ovpn", "pptp"}
    /\ \E guard \in {disable_all} \cup (IF p = "ovpn" THEN {"none"} ELSE {}) :
          /\ Store(p, NewHandle(t, guard))
          /\ ipv6' = (ipv6 /\ guard = "none")
    /\ Proceed(t)
    /\ UNCHANGED <<resolver, pinned, rule, split, live, lock, hand, procs>>

\* classify_ovpn_line: the last word of openvpn's log, if it has one.
classify_ovpn_line == {"Up", "AuthFailed", "Fatal", "none"}

\* wait_for_openvpn_up: the log decides, then whether the process is there, then
\* the time.  A start that fails stops what it started.
OvpnWait(t) ==
    /\ At(t, "wait", "ovpn")
    /\ \E line \in classify_ovpn_line :
          IF line = "Up" THEN Proceed(t) ELSE Turn(t, TakeAndUndo("ovpn"))
    /\ UNCHANGED <<host, slots, hand, procs>>

\* The wait for ppp0.  A start that fails leaves everything as it is.
PptpWait(t) ==
    /\ At(t, "wait", "pptp")
    /\ GiveUp(t)
    /\ UNCHANGED <<host, slots, hand, procs>>

-----------------------------------------------------------------------------
(***************************************************************************)
(* The daemon: commands, the watchdog, signals.                            *)
(***************************************************************************)

\* The stop that ends what a start has begun.
StopOf(cmd) ==
    CASE cmd = "tor_start"  -> "tor_stop"
      [] cmd = "wg_start"   -> "wg_stop"
      [] cmd = "ovpn_start" -> "ovpn_stop"
      [] cmd = "pptp_start" -> "pptp_stop"
      [] cmd = "ss_start"   -> "ss_stop"

\* There is one desktop client at a time ("only one app window ever exists").  It
\* waits for each answer and begins by stopping whatever an earlier one may have
\* left, once the daemon is through with that one's command.  A tunnel that it has
\* asked for it may ask for again, as Tor's is when more is known of its exit or the
\* first try failed.  The app of this repository asks for Tor's only; a client of the
\* other kinds is taken to stop what it asked for, come up or not, before it asks for
\* another kind.
MayAsk(app, cmd) ==
    /\ app \in alive /\ \A other \in alive \ {app} : owes[other] = StartUp
    /\ \A t \in Threads \cup {Main} : Idle(t)
    /\ IF Len(owes[app]) > 1 THEN cmd = Head(owes[app])
       ELSE cmd \in Starts => owes[app] \in {<<>>, <<StopOf(cmd)>>}

\* dispatch_with_peer
Command(t, app, cmd) ==
    /\ daemon = "up"
    /\ Idle(t) /\ MayAsk(app, cmd)
    /\ IF cmd \in Starts
       THEN /\ sent < MaxStarts /\ sent' = sent + 1
            /\ hand' = [hand EXCEPT ![t].id = sent + 1]
       ELSE UNCHANGED <<hand, sent>>
    /\ owes' = [owes EXCEPT ![app] =
                   IF cmd \in Starts THEN <<StopOf(cmd)>>
                   ELSE IF @ # <<>> /\ cmd = Head(@) THEN Tail(@) ELSE @]
    /\ Turn(t, Program(cmd))
    /\ owner' = CASE cmd = "tor_start" /\ app \in Guis -> app
                  [] cmd = "tor_stop" -> NoApp
                  [] OTHER -> owner
    /\ split' \in CASE cmd = "split_apply" -> BOOLEAN
                    [] cmd = "split_clear" -> {FALSE}
                    [] OTHER -> {split}
    /\ UNCHANGED <<ipv6, resolver, pinned, rule, slots, alive, daemon>>

\* Every two seconds: is the process that asked for Tor still there?
WatchdogLook ==
    /\ daemon = "up" /\ Idle(Watchdog)
    /\ owner \in Apps \ alive
    /\ Turn(Watchdog, on_dead_owner)
    /\ UNCHANGED <<host, slots, hand, procs>>

\* It stores 0, whoever the owner is by now.
Forget ==
    /\ At(Watchdog, "forget", "owner")
    /\ owner' = NoApp
    /\ Proceed(Watchdog)
    /\ UNCHANGED <<host, slots, hand, alive, owes, daemon, sent>>

\* SIGTERM or SIGINT
Signal ==
    /\ daemon = "up" /\ Idle(Main)
    /\ \A t \in Threads : Idle(t)
    /\ Turn(Main, on_signal)
    /\ UNCHANGED <<host, slots, hand, procs>>

\* The process ends, and with it what it kept in memory, the threads in the middle
\* of a command, and the processes of its control group.
Exit ==
    /\ At(Main, "exit", "daemon")
    /\ daemon' = "down" /\ owner' = NoApp /\ lock' = Free
    /\ slot' = [p \in Tunnels |-> {}]
    /\ live' = [p \in Tunnels |-> IF p = "wg" THEN live[p] ELSE {}]
    /\ todo' = [t \in Runners |-> <<>>]
    /\ hand' = [t \in Runners |-> NoHand]
    /\ UNCHANGED <<host, alive, owes, sent>>

\* run_daemon
Restart ==
    /\ daemon = "down"
    /\ daemon' = "up"
    /\ UNCHANGED <<host, slots, todo, hand, owner, alive, owes, sent>>

-----------------------------------------------------------------------------
(***************************************************************************)
(* The environment.                                                        *)
(***************************************************************************)

\* A worker, openvpn, pppd or sslocal ends by itself.
ProcessDies ==
    /\ \E p \in Tunnels \ {"wg"} : \E id \in live[p] :
          live' = [live EXCEPT ![p] = @ \ {id}]
    /\ UNCHANGED <<host, slot, lock, todo, hand, procs>>

\* A client is killed.  The thread that runs its command takes no notice.
AppDies ==
    /\ \E app \in alive :
          /\ alive' = alive \ {app}
    /\ UNCHANGED <<host, slots, todo, hand, owner, owes, daemon, sent>>

-----------------------------------------------------------------------------
Step(t) ==
    \/ \E p \in Tunnels : Take(t, p)
    \/ UndoSocks(t) \/ CheckSocks(t)
    \/ \E p \in Tunnels : Undo(t, p)
    \/ StopOutline(t)
    \/ TorBypass(t)
    \/ \E name \in {"ZeroNodeTor", "ZeroNodeOutline"} : SocksUp(t, name)
    \/ SocksProbe(t) \/ OutlineUp(t)
    \/ WgLink(t) \/ WgUp(t)
    \/ \E p \in {"ovpn", "pptp"} : Spawn(t, p) \/ PppUp(t, p)
    \/ OvpnWait(t) \/ PptpWait(t)

Next ==
    \/ \E t \in Threads, app \in Apps, cmd \in Offered : Command(t, app, cmd)
    \/ \E t \in Runners : Step(t)
    \/ WatchdogLook \/ Forget
    \/ Signal \/ Exit \/ Restart
    \/ ProcessDies \/ AppDies

\* A thread that can go on does: every wait in the code ends.  Strong fairness is
\* for the mutex of the SOCKS slot: who waits for it gets it some time, as long as
\* the others release it.
Fairness ==
    /\ \A t \in Runners : SF_vars(Step(t))
    /\ WF_vars(WatchdogLook) /\ WF_vars(Forget) /\ WF_vars(Exit)

Spec == Init /\ [][Next]_vars /\ Fairness

-----------------------------------------------------------------------------
TypeOK ==
    /\ ipv6 \in BOOLEAN /\ resolver \in {"own", "tunnel"} /\ pinned \in BOOLEAN
    /\ rule \in BOOLEAN /\ split \in BOOLEAN
    /\ live \in [Tunnels -> SUBSET Nat]
    /\ slot \in [Tunnels -> SUBSET Handle]
    /\ \A p \in Tunnels : Cardinality(slot[p]) <= 1
    /\ lock \in Runners \cup {Free}
    /\ owner \in Apps \cup {NoApp} /\ alive \subseteq Apps /\ owes \in [Apps -> Seq(Stops)]
    /\ daemon \in {"up", "down"} /\ sent \in Nat

\* When nothing is under way and no tunnel is recorded, IPv6, the resolver and the
\* route to the server are as they were found (wireguard.rs: "IPv6 back exactly as found").
HostAsFound ==
    Quiet /\ (\A p \in Tunnels : slot[p] = {})
        => ipv6 /\ resolver = "own" /\ ~pinned

\* While a tunnel that blocked IPv6 is recorded, IPv6 is blocked.
NoLeak == \A p \in Tunnels : \A h \in slot[p] : h.guard # "none" => ~ipv6

\* When nothing is under way, no worker, no openvpn and no sslocal runs that
\* its slot does not know: each can still be stopped.
NothingStray ==
    Quiet =>
              \A p \in {"socks", "ovpn", "ss"} :
                  live[p] \subseteq {h.id : h \in slot[p]}

\* Every command ends: the mutex of the SOCKS slot, taken again by every stop,
\* is never kept ("every stop self-deadlocks on an empty slot").
EveryCommandEnds == \A t \in Runners : ~Idle(t) ~> Idle(t)
=============================================================================
