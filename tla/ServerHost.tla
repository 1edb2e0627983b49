------------------------------ MODULE ServerHost ------------------------------
(***************************************************************************)
(* The host below the control server: the WireGuard interface with its     *)
(* peers, the peer files, the firewall and address translation, and the    *)
(* programs that set them up and start and stop the daemon, on Linux       *)
(* (platform-linux/src/lib.rs) and on Windows (platform-windows/src/lib.rs)*)
(* with the desktop client's "host a server" (apps/client/src/app.rs).     *)
(*                                                                         *)
(* The daemon's decisions are those of ControlServer: here a login, an end *)
(* of a session or a lockdown may come whenever the daemon waits.          *)
(***************************************************************************)
EXTENDS Naturals, FiniteSets, Sequences, Functions

CONSTANTS Clients,    \* the clients, each with its key
          Hosts,      \* the addresses that are leased
          MaxSid,     \* TLC only: how many sessions are ever created
          MaxOps,     \* TLC only: how many programs are run on the host
          MaxFaults   \* TLC only: how often a command fails or a process dies


VARIABLES
    os,       \* "linux" or "windows"
    wg,       \* Windows: wg.exe lies beside the daemon
    daemon,   \* who runs the daemon: the unit, the window, somebody by hand
    sessions, \* ServerRuntime.sessions
    lastSid,  \* session ids are fresh
    job,      \* what the packet in hand, or the start, has still to do
    lease,    \* the session it is about: {} or {session}
    files,    \* the server-peer files, by the session they were written for
    link,     \* the server's interface
    opened,   \* forwarding, firewall and translation that are in place
    unit,     \* Linux: systemd keeps the daemon running, and does so at boot
    pidFile,  \* Windows: server-process.pid names the window's daemon, a dead one
    op,       \* the program that an operator or the window runs
    ops, faults,
    granted,  \* history: the sessions whose peer was reported as applied
    gone,     \* history: the clients whose peer was reported as removed
    refused,  \* history: the interface was not configured at a start
    stopped   \* history: the server was taken down, and nothing was begun since

process == <<daemon, sessions, lastSid, job, lease>>
host    == <<files, link, opened, unit, pidFile>>
counts  == <<ops, faults>>
history == <<granted, gone, refused, stopped>>
vars == <<os, wg, process, host, op, counts, history>>

Nobody == "nobody"

ASSUME HostAssumption ==
    /\ Nobody \notin Clients
    /\ Hosts \subseteq Nat /\ MaxSid \in Nat /\ MaxOps \in Nat /\ MaxFaults \in Nat

Session == [sid : 1 .. MaxSid, key : Clients, host : Hosts]

\* set: it has its key, its port and its addresses and is up.
Route == [Hosts -> Clients \cup {Nobody}]

Link == [there : BOOLEAN, set : BOOLEAN, route : Route]

NoLink == [there |-> FALSE, set |-> FALSE, route |-> [h \in Hosts |-> Nobody]]

NoOp == [name |-> "none", steps |-> <<>>, ok |-> TRUE]

Init ==
    /\ os \in {"linux", "windows"} /\ wg \in BOOLEAN /\ (os = "linux" => wg)
    /\ daemon = Nobody /\ sessions = {} /\ lastSid = 0 /\ job = <<>> /\ lease = {}
    /\ files = {} /\ link = NoLink /\ opened = {}
    /\ unit = [on |-> FALSE, boot |-> FALSE] /\ pidFile = "none"
    /\ op = NoOp /\ ops = 0 /\ faults = 0
    /\ granted = {} /\ gone = {} /\ refused = FALSE /\ stopped = FALSE

-----------------------------------------------------------------------------
(***************************************************************************)
(* The interface.                                                          *)
(***************************************************************************)

\* Variant for the model checker: the address is added, not replaced.
AddAddress(route, s) == [route EXCEPT ![s.host] = IF @ = Nobody THEN s.key ELSE @]

\* `replace_allowed_ips`, and an address that is one peer's leaves every other.
AddPeer(route, s) ==
    [h \in Hosts |-> IF h = s.host THEN s.key
                     ELSE IF route[h] = s.key THEN Nobody ELSE route[h]]

DropPeer(route, key) == [h \in Hosts |-> IF route[h] = key THEN Nobody ELSE route[h]]

\* The profile of `write_server_tunnel_profile`: the files come in the order of
\* their names, which are random, and a file has its address unless a later one
\* names its key or its address.
Orders == Injection(files, 1 .. Cardinality(files))

Lasting(order, h) ==
    {f \in files : /\ f.host = h
                   /\ \A g \in files \ {f} :
                         g.key = f.key \/ g.host = h => order[g] < order[f]}

Profile(order) ==
    [h \in Hosts |->
        IF Lasting(order, h) = {} THEN Nobody
        ELSE (CHOOSE f \in Lasting(order, h) : TRUE).key]

Profiles == {Profile(order) : order \in Orders}

\* Any update of a device that is missing creates it.
Created == IF link.there THEN link ELSE [NoLink EXCEPT !.there = TRUE]

Faulty == faults < MaxFaults /\ faults' = faults + 1

Works == faults' = faults

-----------------------------------------------------------------------------
(***************************************************************************)
(* The daemon: one packet at a time, and its effects one by one.           *)
(***************************************************************************)

Waits == daemon # Nobody /\ job = <<>>

FreeHosts(S) == Hosts \ {s.host : s \in S}

LowestFree(S) == CHOOSE h \in FreeHosts(S) : \A k \in FreeHosts(S) : h <= k

\* The client's old session is dropped, its peer and its file are not.
Login(c) ==
    /\ Waits /\ lastSid < MaxSid
    /\ LET others == {s \in sessions : s.key # c}
           s == [sid |-> lastSid + 1, key |-> c, host |-> LowestFree(others)]
       IN  /\ FreeHosts(others) # {}
           /\ sessions' = others \cup {s}
           /\ lease' = {s}
           /\ granted' = granted \cap {t.sid : t \in others}
    /\ lastSid' = lastSid + 1
    /\ job' = <<"write", "apply">>
    /\ gone' = gone \ {c}
    /\ UNCHANGED <<os, wg, daemon, host, op, counts, refused, stopped>>

\* Variant for the model checker: the peer goes before the file.
DisconnectPeerFirst(s) ==
    /\ Waits /\ s \in sessions
    /\ sessions' = sessions \ {s}
    /\ granted' = granted \ {s.sid}
    /\ lease' = {s}
    /\ job' = IF os = "windows" THEN <<"unapply", "unfile">> ELSE <<"unapply">>
    /\ UNCHANGED <<os, wg, daemon, lastSid, host, op, counts, gone, refused, stopped>>

\* A client gives its session up.
Disconnect(s) ==
    /\ Waits /\ s \in sessions
    /\ sessions' = sessions \ {s}
    /\ granted' = granted \ {s.sid}
    /\ lease' = {s}
    /\ job' = IF os = "windows" THEN <<"unfile", "unapply">> ELSE <<"unapply">>
    /\ UNCHANGED <<os, wg, daemon, lastSid, host, op, counts, gone, refused, stopped>>

\* Sessions that expire, all of them in a lockdown: nothing on the host changes.
Forget(S) ==
    /\ Waits /\ S # {}
    /\ sessions' = sessions \ S
    /\ granted' = granted \ {s.sid : s \in S}
    /\ UNCHANGED <<os, wg, daemon, lastSid, job, lease, host, op, counts, gone,
                   refused, stopped>>

Ready(step) == daemon # Nobody /\ job # <<>> /\ Head(job) = step

\* A session that lives was applied, one that does not was removed.
Passed(net) ==
    /\ link' = net
    /\ job' = Tail(job)
    /\ granted' = granted \cup {s.sid : s \in lease \cap sessions}
    /\ gone' = gone \cup {s.key : s \in lease \ sessions}

Fails(rest) ==
    /\ job' = rest
    /\ UNCHANGED <<link, granted, gone>>

\* `apply_platform_server_tunnel` of a daemon that starts.
StartWork == IF os = "linux" THEN <<"device">> ELSE <<"uninstall", "install">>

Configured == [Created EXCEPT !.set = TRUE]

SetUpDevice ==
    /\ Ready("device")
    /\ \/ Works /\ Passed(Configured) /\ refused' = FALSE
       \/ Faulty /\ Fails(<<>>) /\ refused' = TRUE
    /\ UNCHANGED <<os, wg, daemon, sessions, lastSid, lease, files, opened, unit, pidFile,
                   op, ops, stopped>>

\* `write_server_peer_artifact`: its error is the handler's.
WriteFile ==
    /\ Ready("write")
    /\ \/ Works /\ files' = files \cup lease /\ job' = Tail(job)
       \/ Faulty /\ files' = files /\ job' = <<>>
    /\ UNCHANGED <<os, wg, daemon, sessions, lastSid, lease, link, opened, unit, pidFile,
                   op, ops, history>>

\* The file of the session goes first; an error is passed over.
Unfile ==
    /\ Ready("unfile")
    /\ \/ Works /\ files' = files \ lease
       \/ Faulty /\ files' = files
    /\ job' = Tail(job)
    /\ UNCHANGED <<os, wg, daemon, sessions, lastSid, lease, link, opened, unit, pidFile,
                   op, ops, history>>

Rebuild == <<"uninstall", "install">> \o Tail(job)

\* The kernel on Linux; wg.exe on Windows, which may lack the tool or the tunnel.
Live == wg /\ (os = "windows" => link.there)

\* `apply_server_peer`: on Windows, what wg.exe cannot do is done by building
\* the tunnel again.
ApplyPeer ==
    /\ Ready("apply")
    /\ \E s \in lease :
          \/ /\ Live /\ Works
             /\ Passed([Created EXCEPT !.route = AddPeer(@, s)])
          \/ /\ IF Live THEN Faulty ELSE Works
             /\ Fails(IF os = "windows" THEN Rebuild ELSE Tail(job))
    /\ UNCHANGED <<os, wg, daemon, sessions, lastSid, lease, files, opened, unit, pidFile,
                   op, ops, refused, stopped>>

RemovePeer ==
    /\ Ready("unapply")
    /\ \E s \in lease :
          \/ /\ Live /\ Works
             /\ Passed([Created EXCEPT !.route = DropPeer(@, s.key)])
          \/ /\ IF Live THEN Faulty ELSE Works
             /\ Fails(IF os = "windows" THEN Rebuild ELSE Tail(job))
    /\ UNCHANGED <<os, wg, daemon, sessions, lastSid, lease, files, opened, unit, pidFile,
                   op, ops, refused, stopped>>

\* `apply_server_tunnel_from_peer_files`: the old tunnel service, then the new.
Uninstall ==
    /\ Ready("uninstall")
    /\ \/ Works /\ link' = NoLink
       \/ Faulty /\ link' = link
    /\ job' = Tail(job)
    /\ UNCHANGED <<os, wg, daemon, sessions, lastSid, lease, files, opened, unit, pidFile,
                   op, ops, history>>

\* A service that is still there is not installed again.
Install ==
    /\ Ready("install")
    /\ \/ /\ Works /\ ~ link.there
          /\ \E route \in Profiles :
                Passed([there |-> TRUE, set |-> TRUE, route |-> route])
       \/ (IF link.there THEN Works ELSE Faulty) /\ Fails(Tail(job))
    /\ UNCHANGED <<os, wg, daemon, sessions, lastSid, lease, files, opened, unit, pidFile,
                   op, ops, refused, stopped>>

DaemonStep ==
    \/ \E c \in Clients : Login(c)
    \/ \E s \in sessions : Disconnect(s) \/ Forget({s})
    \/ Forget(sessions)
    \/ SetUpDevice \/ WriteFile \/ Unfile \/ ApplyPeer \/ RemovePeer \/ Uninstall \/ Install

-----------------------------------------------------------------------------
(***************************************************************************)
(* The daemon starts and ends.  A second one cannot bind its sockets.      *)
(***************************************************************************)

NoFileOf(p) == IF p = "its" THEN "stale" ELSE p

\* The process ends as a whole, with what it was doing.
Ended ==
    /\ daemon' = Nobody /\ sessions' = {} /\ granted' = {}
    /\ job' = <<>> /\ lease' = {}

Begun(who) ==
    /\ daemon' = who
    /\ job' = StartWork
    /\ UNCHANGED <<sessions, lease, granted>>

Same == UNCHANGED <<daemon, sessions, job, lease, granted>>

\* Somebody runs `vpn-server run`; or the unit does, whenever it is on.
StartDaemon ==
    /\ daemon = Nobody
    /\ \E who \in {"hand", "unit"} :
          /\ who = "unit" => unit.on
          /\ Begun(who)
    /\ stopped' = FALSE
    /\ op' = [op EXCEPT !.ok = (op = NoOp)]
    /\ UNCHANGED <<os, wg, lastSid, host, counts, gone, refused>>

\* It crashes, is killed or is ended by who started it.
DaemonDies ==
    /\ daemon # Nobody
    /\ Ended
    /\ pidFile' = NoFileOf(pidFile)
    /\ UNCHANGED <<os, wg, lastSid, files, link, opened, unit, op, counts, gone, refused,
                   stopped>>

\* What the host keeps: Windows its rules, translation and tunnel service.
Reboot ==
    /\ Faulty /\ Ended
    /\ pidFile' = NoFileOf(pidFile)
    /\ unit' = [unit EXCEPT !.on = unit.boot]
    /\ op' = NoOp
    /\ stopped' = FALSE
    /\ IF os = "linux" THEN link' = NoLink /\ opened' = {}
                       ELSE UNCHANGED <<link, opened>>
    /\ UNCHANGED <<os, wg, lastSid, files, ops, gone, refused>>

-----------------------------------------------------------------------------
(***************************************************************************)
(* Programs on the host, one at a time: `host-setup apply` and `remove`,   *)
(* and the window's "start" and "stop", which run them on Windows.         *)
(***************************************************************************)

\* Variant for the model checker: the host is cleaned before the daemon ends.
TakingLate == <<"deleteRules", "uninstall", "deleteNetNat", "kill", "forget">>

\* `stop_windows_server_process`: the process, `host-setup remove`, the file.
Taking == <<"kill", "deleteRules", "uninstall", "deleteNetNat", "forget">>

SetUp == <<"router", "netNat", "rules">>

\* "start" takes down what an earlier daemon left before it sets up.
Steps(system, name) ==
    IF system = "linux"
    THEN CASE name = "apply" -> <<"restart", "forward", "table", "masquerade", "tunnel">>
           [] name = "remove" -> <<"disable", "deleteTable", "deleteLink">>
           [] name = "start" -> <<"systemctlStart">>
           [] name = "stop" -> <<"systemctlStop">>
    ELSE CASE name = "apply" -> SetUp
           [] name = "remove" -> <<"deleteRules", "uninstall", "deleteNetNat">>
           [] name = "start" -> Taking \o SetUp \o <<"spawn", "savePid">>
           [] name = "stop" -> Taking

Begin(name) ==
    /\ op = NoOp /\ ops < MaxOps
    /\ op' = [name |-> name, steps |-> Steps(os, name), ok |-> TRUE]
    /\ ops' = ops + 1
    /\ stopped' = FALSE
    /\ UNCHANGED <<os, wg, process, host, faults, granted, gone, refused>>

\* What takes the server down, when nobody runs one by hand besides.
TakesDown(o) == o.name = (IF os = "linux" THEN "remove" ELSE "stop")

Does(step) == op.steps # <<>> /\ Head(op.steps) = step

\* Each step goes on to the next, whatever came of it.  ok: all of them did what
\* they were for, and nobody started a daemon by hand meanwhile.
Went(ok) ==
    LET rest == [op EXCEPT !.steps = Tail(@), !.ok = @ /\ ok]
    IN  /\ op' = IF rest.steps = <<>> THEN NoOp ELSE rest
        /\ stopped' = (rest.steps = <<>> /\ rest.ok /\ TakesDown(rest) /\ daemon' # "hand")

\* A command that makes `now` of what is open, or leaves `else` when it fails.
Command(now, else) ==
    \/ Works /\ opened' = now /\ Went(TRUE)
    \/ Faulty /\ opened' = else /\ Went(FALSE)

Forward == Does("forward") /\ Command(opened \cup {"forward"}, opened)

\* The table is deleted before it is added.
Table == Does("table") /\ Command(opened \cup {"table"}, opened \ {"table"})

\* nft, or else iptables.
Masquerade ==
    /\ Does("masquerade")
    /\ \/ Command(opened \cup {"masquerade"}, opened \ {"masquerade"})
       \/ Faulty /\ opened' = (opened \ {"masquerade"}) \cup {"iptables"} /\ Went(TRUE)

DeleteTable == Does("deleteTable") /\ Command(opened \ {"table"}, opened)

Router == Does("router") /\ Command(opened \cup {"router"}, opened)

\* A translation of another subnet is removed, the same one is kept.
NetNat == Does("netNat") /\ Command(opened \cup {"netNat"}, opened)

DeleteNetNat == Does("deleteNetNat") /\ Command(opened \ {"netNat"}, opened)

\* The rules of an earlier set-up are deleted before they are added.
Rules == Does("rules") /\ Command(opened \cup {"rules"}, opened \ {"rules"})

DeleteRules == Does("deleteRules") /\ Command(opened \ {"rules"}, opened)

OpenOrClose ==
    /\ UNCHANGED <<os, wg, process, files, link, unit, pidFile, ops, granted, gone, refused>>
    /\ \/ Forward \/ Table \/ Masquerade \/ DeleteTable
       \/ Router \/ NetNat \/ DeleteNetNat \/ Rules \/ DeleteRules

\* `apply_server_tunnel` in the program's own process, beside the daemon's.
Tunnel ==
    /\ UNCHANGED <<os, wg, process, files, opened, unit, pidFile, ops, gone>>
    /\ Does("tunnel")
    /\ \/ Works /\ link' = Configured /\ refused' = FALSE /\ Went(TRUE)
       \/ Faulty /\ UNCHANGED <<link, refused>> /\ Went(FALSE)
    /\ granted' = granted

\* `remove_link`, or the tunnel service.  What its peers were goes with it.
TakeLink ==
    /\ UNCHANGED <<os, wg, process, files, opened, unit, pidFile, ops, gone, refused>>
    /\ Does("deleteLink") \/ Does("uninstall")
    /\ \/ Works /\ link' = NoLink /\ Went(TRUE)
          /\ granted' = IF os = "linux" THEN {} ELSE granted
       \/ Faulty /\ UNCHANGED <<link, granted>> /\ Went(FALSE)

\* systemctl: what runs by hand is not its business.
Systemctl(now, ends) ==
    /\ unit' = now
    /\ IF daemon = "unit" /\ ends THEN Ended ELSE Same
    /\ Works /\ Went(TRUE)
    /\ UNCHANGED <<os, wg, lastSid, files, link, opened, pidFile, ops, gone, refused>>

Restart == Does("restart") /\ Systemctl([on |-> TRUE, boot |-> TRUE], TRUE)

Disable == Does("disable") /\ Systemctl([on |-> FALSE, boot |-> FALSE], TRUE)

StartUnit == Does("systemctlStart") /\ Systemctl([unit EXCEPT !.on = TRUE], FALSE)

StopUnit == Does("systemctlStop") /\ Systemctl([unit EXCEPT !.on = FALSE], TRUE)

\* taskkill by the process id of the file, or by name when there is no file.
Kill ==
    /\ Does("kill")
    /\ IF pidFile = "its" \/ pidFile = "none" THEN Ended ELSE Same
    /\ pidFile' = NoFileOf(pidFile)
    /\ Works /\ Went(daemon' = Nobody)
    /\ UNCHANGED <<os, wg, lastSid, files, link, opened, unit, ops, gone, refused>>

ForgetPid ==
    /\ Does("forget") /\ pidFile' = "none"
    /\ Same /\ Works /\ Went(TRUE)
    /\ UNCHANGED <<os, wg, lastSid, files, link, opened, unit, ops, gone, refused>>

\* The new process ends at once when another has the sockets; its id is saved.
Spawn ==
    /\ Does("spawn")
    /\ IF daemon = Nobody THEN Begun("window") ELSE Same
    /\ Works /\ Went(TRUE)
    /\ UNCHANGED <<os, wg, lastSid, host, ops, gone, refused>>

SavePid ==
    /\ Does("savePid")
    /\ pidFile' = IF daemon = "window" THEN "its" ELSE "stale"
    /\ Same /\ Works /\ Went(TRUE)
    /\ UNCHANGED <<os, wg, lastSid, files, link, opened, unit, ops, gone, refused>>

\* The program is killed, or the window is, and what is left of it is not done.
ProgramDies ==
    /\ op # NoOp /\ Faulty
    /\ op' = NoOp
    /\ UNCHANGED <<os, wg, process, host, ops, history>>

ProgramStep ==
    \/ \E name \in {"apply", "remove", "start", "stop"} : Begin(name)
    \/ OpenOrClose \/ Tunnel \/ TakeLink
    \/ Restart \/ Disable \/ StartUnit \/ StopUnit
    \/ Kill \/ ForgetPid \/ Spawn \/ SavePid
    \/ ProgramDies

Next == DaemonStep \/ StartDaemon \/ DaemonDies \/ Reboot \/ ProgramStep

Spec == Init /\ [][Next]_vars

-----------------------------------------------------------------------------
(***************************************************************************)
(* Properties.                                                             *)
(***************************************************************************)

\* What a program may still have to do: once the daemon is to be taken down, the
\* rest of that list; elsewhere the steps of the platform.
Rests(system, name) ==
    IF system = "linux"
    THEN CASE name = "remove" -> {<<"disable", "deleteTable", "deleteLink">>,
                                  <<"deleteTable", "deleteLink">>, <<"deleteLink">>}
           [] name = "apply" -> Seq({"restart", "forward", "table", "masquerade", "tunnel"})
           [] OTHER -> Seq({"systemctlStart", "systemctlStop"})
    ELSE CASE name = "stop" -> {<<"kill", "deleteRules", "uninstall", "deleteNetNat", "forget">>,
                                <<"deleteRules", "uninstall", "deleteNetNat", "forget">>,
                                <<"uninstall", "deleteNetNat", "forget">>,
                                <<"deleteNetNat", "forget">>, <<"forget">>}
           [] OTHER -> Seq({"kill", "deleteRules", "uninstall", "deleteNetNat", "forget",
                            "router", "netNat", "rules", "spawn", "savePid"})

Running(o) ==
    /\ o \in [name : {"apply", "remove", "start", "stop"}, steps : Rests(os, o.name), ok : BOOLEAN]
    /\ o.steps # <<>>

\* What the daemon may still have to do.
Jobs(system) ==
    {<<>>, <<"write", "apply">>, <<"apply">>, <<"unapply">>} \cup
    (IF system = "linux" THEN {<<"device">>}
     ELSE {<<"unfile", "unapply">>, <<"uninstall", "install">>, <<"install">>})

Openings(system) ==
    IF system = "linux" THEN {"forward", "table", "masquerade", "iptables"}
    ELSE {"router", "netNat", "rules"}

(***************************************************************************)
(* Types, and what each platform never has: systemd's daemon on Windows,   *)
(* the window's on Linux, the other's rules.                               *)
(***************************************************************************)
TypeOK ==
    /\ os \in {"linux", "windows"} /\ wg \in BOOLEAN
    /\ daemon \in {Nobody, "hand"} \cup (IF os = "linux" THEN {"unit"} ELSE {"window"})
    /\ sessions \subseteq Session /\ lastSid \in Nat
    /\ job \in Jobs(os) /\ lease \subseteq Session
    /\ files \subseteq Session
    /\ link \in Link
    /\ opened \subseteq Openings(os)
    /\ unit \in [on : BOOLEAN, boot : BOOLEAN]
    /\ os = "windows" => unit = [on |-> FALSE, boot |-> FALSE]
    /\ pidFile \in {"none", "its", "stale"}
    /\ op = NoOp \/ Running(op)
    /\ granted \subseteq Nat /\ gone \subseteq Clients
    /\ refused \in BOOLEAN /\ stopped \in BOOLEAN

\* A file of another session that names the same key or the same address: the
\* files of sessions that expired or were replaced are never removed.
Contested(s) ==
    os = "windows" /\ \E f \in files \ {s} : f.key = s.key \/ f.host = s.host

(***************************************************************************)
(* The address of a session whose peer was applied belongs to its client's *)
(* key as long as the session lives and the interface is there, whoever    *)
(* came, went or was rebuilt since; and the interface that systemd's       *)
(* daemon serves is one with its key, port and addresses.                  *)
(***************************************************************************)
SessionsRouted ==
    link.there =>
        /\ \A s \in sessions :
              s.sid \in granted /\ ~ Contested(s) => link.route[s.host] = s.key
        /\ daemon = "unit" /\ granted # {} /\ ~ refused => link.set

(***************************************************************************)
(* A client whose peer was reported as removed stays out, also when the    *)
(* tunnel is built again from the files, unless a file still names it.     *)
(***************************************************************************)
DepartedStayOut ==
    \A c \in gone :
        (\E f \in files : os = "windows" /\ f.key = c) \/ \A h \in Hosts : link.route[h] # c

(***************************************************************************)
(* After "stop" or `host-setup remove` went through, nothing of the server *)
(* is left that it put up: no daemon of the window or of systemd, no       *)
(* interface, no open port.                                                *)
(***************************************************************************)
StoppedIsDown ==
    stopped =>
        /\ daemon \notin {"window", "unit"}
        /\ ~ link.there
        /\ opened \cap {"table", "rules", "netNat"} = {}

=============================================================================
