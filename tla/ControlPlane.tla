----------------------------- MODULE ControlPlane -----------------------------
(***************************************************************************)
(* The control server together with its clients and the network between    *)
(* them (crates/core/src/control_plane.rs, apps/client-cli/src/main.rs).   *)
(*                                                                         *)
(* Requests and answers are datagrams that arrive late, out of order or    *)
(* not at all: one that is lost is one that stays on the way.  A login is  *)
(* sent again when no answer comes in time, and every copy that arrives is *)
(* a login of its own for the server.  Each call opens its own socket, so  *)
(* an answer to a call that is over reaches nobody.  The server's side of  *)
(* each step is one of ControlServer.                                      *)
(***************************************************************************)
EXTENDS ControlServer

CONSTANTS Home,      \* the address that a client's packets come from
          MaxSends,  \* max_attempts of a login
          MaxCalls,  \* TLC only: how many commands each client runs
          MaxFaults  \* TLC only: how often the server stops or an effect fails

ASSUME PlaneAssumption ==
    /\ Home \in [Clients -> IPs]
    /\ MaxSends \in Nat \ {0}
    /\ MaxCalls \in [Clients -> Nat] /\ MaxFaults \in Nat

VARIABLES
    wire,       \* requests under way
    back,       \* answers under way to a socket that is open
    answer,     \* what the packet in hand will be answered: {} or {answer}
    call,       \* what each client waits for
    cached,     \* ClientState.last_active_connection: {} or {connection}
    cooldowns,  \* ClientState.cooldowns, the entry of this server
    calls,      \* how many commands each client ran
    mistakes,   \* history: logins with a wrong password, by address
    faults,     \* how often an effect failed or the server stopped
    floor       \* history: a stop or a lockdown ended every session up to here

network == <<wire, back, answer>>
client  == <<call, cached, cooldowns, calls, mistakes>>
planeVars == <<vars, network, client, faults, floor>>

Idle == [what |-> "idle", good |-> FALSE, sends |-> 0]

Call == [what : {"idle", "login", "status"}, good : BOOLEAN, sends : 0 .. MaxSends]

Request ==
    [kind : {"login", "status", "disconnect"}, from : Clients,
     no : Nat, copy : 1 .. MaxSends, good : BOOLEAN, sid : Nat]

Reply ==
    [kind : {"login", "status"}, to : Clients, no : Nat,
     lease : SUBSET Session, until : Nat, locked : BOOLEAN]

Connection == [sid : Nat, host : Hosts, expires : Nat, phase : {"connected", "error"}]

PlaneInit ==
    /\ Init
    /\ wire = {} /\ back = {} /\ answer = {}
    /\ call = [c \in Clients |-> Idle]
    /\ cached = [c \in Clients |-> {}]
    /\ cooldowns = [c \in Clients |-> NoCooldown]
    /\ calls = [c \in Clients |-> 0]
    /\ mistakes = [ip \in IPs |-> 0]
    /\ faults = 0 /\ floor = 0

-----------------------------------------------------------------------------
(***************************************************************************)
(* The client.  One command at a time; a command is over when its call is. *)
(***************************************************************************)

NewRequest(c, kind, copy, sid) ==
    [kind |-> kind, from |-> c, no |-> calls'[c], copy |-> copy,
     good |-> call'[c].good, sid |-> sid]

SendRequest(request) == wire' = wire \cup {request}

\* The socket of the call before is closed.
CloseSocket(c) == back' = {a \in back : a.to # c}

Waits(c, what, good) == call' = [call EXCEPT ![c] = [what |-> what, good |-> good, sends |-> 1]]

CallOver(c) ==
    /\ call' = [call EXCEPT ![c] = Idle]
    /\ CloseSocket(c)

CanRun(c) == call[c] = Idle /\ calls[c] < MaxCalls[c]

Runs(c) == calls' = [calls EXCEPT ![c] = @ + 1]

\* A connect first looks for the server, which answers when it is up and not
\* locked, and leaves one alone that it remembers a cooldown of.
Discovered == up /\ ~ journal.lockdown

RefusedLocally(c) == cooldowns[c] > now

AttemptAuth(c, good) ==
    /\ CanRun(c) /\ Runs(c)
    /\ Discovered /\ ~ RefusedLocally(c)
    /\ Waits(c, "login", good)
    /\ SendRequest(NewRequest(c, "login", 1, 0))
    /\ mistakes' = [mistakes EXCEPT ![Home[c]] = @ + (IF good THEN 0 ELSE 1)]
    /\ UNCHANGED <<vars, back, answer, cached, cooldowns, faults, floor>>

Heard(c) == {a \in back : a.to = c}

\* Variant for the model checker: one more copy than max_attempts.
ResendOnceMore(c) ==
    /\ call[c].what = "login" /\ call[c].sends <= MaxSends
    /\ call' = [call EXCEPT ![c].sends = @ + 1]
    /\ UNCHANGED calls
    /\ SendRequest(NewRequest(c, "login", call'[c].sends, 0))
    /\ UNCHANGED <<vars, back, answer, cached, cooldowns, mistakes, faults, floor>>

Resend(c) ==
    /\ call[c].what = "login" /\ call[c].sends < MaxSends
    /\ call' = [call EXCEPT ![c].sends = @ + 1]
    /\ UNCHANGED calls
    /\ SendRequest(NewRequest(c, "login", call'[c].sends, 0))
    /\ UNCHANGED <<vars, back, answer, cached, cooldowns, mistakes, faults, floor>>

TimesOut(c) ==
    /\ call[c].what = "status" \/ call[c].sends = MaxSends
    /\ CallOver(c)
    /\ UNCHANGED <<vars, wire, answer, cached, cooldowns, calls, mistakes, faults, floor>>

Connected(s) == [sid |-> s.sid, host |-> s.host, expires |-> s.expires, phase |-> "connected"]

\* Acceptance stores the lease and forgets the cooldown, a refusal with a
\* cooldown stores that, and any other refusal stores nothing.
TakeAuthResult(c) ==
    /\ call[c].what = "login"
    /\ \E a \in Heard(c) :
          IF a.lease # {}
          THEN /\ cached' = [cached EXCEPT ![c] = {Connected(s) : s \in a.lease}]
               /\ cooldowns' = [cooldowns EXCEPT ![c] = NoCooldown]
          ELSE /\ cooldowns' = [cooldowns EXCEPT ![c] = IF a.until = NoCooldown THEN @ ELSE a.until]
               /\ UNCHANGED cached
    /\ CallOver(c)
    /\ UNCHANGED <<vars, wire, answer, calls, mistakes, faults, floor>>

QueryServerStatus(c) ==
    /\ CanRun(c) /\ Runs(c)
    /\ Waits(c, "status", FALSE)
    /\ \E k \in cached[c] : SendRequest(NewRequest(c, "status", 1, k.sid))
    /\ UNCHANGED <<vars, back, answer, cached, cooldowns, mistakes, faults, floor>>

TakeStatus(c) ==
    /\ call[c].what = "status"
    /\ \E a \in Heard(c) :
          cached' = [cached EXCEPT ![c] =
              IF a.locked THEN {[k EXCEPT !.phase = "error"] : k \in @}
                          ELSE {Connected(s) : s \in a.lease}]
    /\ CallOver(c)
    /\ UNCHANGED <<vars, wire, answer, cooldowns, calls, mistakes, faults, floor>>

\* The notice is sent once and nobody answers it.
SendDisconnectNotice(c) ==
    /\ CanRun(c) /\ Runs(c)
    /\ UNCHANGED call
    /\ \E k \in cached[c] : SendRequest(NewRequest(c, "disconnect", 1, k.sid))
    /\ cached' = [cached EXCEPT ![c] = {}]
    /\ UNCHANGED <<vars, back, answer, cooldowns, mistakes, faults, floor>>

ClientSteps(c) ==
    \/ \E good \in BOOLEAN : AttemptAuth(c, good)
    \/ QueryServerStatus(c) \/ SendDisconnectNotice(c)
    \/ Resend(c) \/ TimesOut(c) \/ TakeAuthResult(c) \/ TakeStatus(c)

-----------------------------------------------------------------------------
(***************************************************************************)
(* The network and the server.                                             *)
(***************************************************************************)

Replied(m, leased, until, locked) ==
    {[kind |-> m.kind, to |-> m.from, no |-> m.no,
      lease |-> leased, until |-> until, locked |-> locked]}

\* The configured hash parses here: AuthErrs is left to ControlServer.
OnLogin(m) ==
    /\ m.kind = "login"
    /\ \/ AuthDropped(Home[m.from]) /\ answer' = {}
       \/ m.good /\ AuthNoAddress(Home[m.from], m.from) /\ answer' = {}
       \/ m.good /\ AuthAccepted(Home[m.from], m.from)
                 /\ answer' = Replied(m, lease', NoCooldown, FALSE)
    /\ UNCHANGED floor

OnWrongLogin(m) ==
    /\ m.kind = "login" /\ ~ m.good
    /\ AuthRejected(Home[m.from])
    /\ answer' = UNION {Replied(m, {}, v.until, v.locked) : v \in refusal'}
    /\ floor' = IF journal'.lockdown THEN lastSid ELSE floor

OnStatus(m) ==
    /\ m.kind = "status"
    /\ IF Queried(m.sid, Home[m.from], {m.from}) = {}
       THEN Inform ELSE StatusQuery(m.sid, Home[m.from], {m.from})
    /\ answer' = Replied(m, {s \in sessions' : s.sid = m.sid /\ s.client = m.from},
                         NoCooldown, journal.lockdown)
    /\ UNCHANGED floor

OnDisconnect(m) ==
    /\ m.kind = "disconnect"
    /\ IF Named({m.sid}, Home[m.from], m.from) = {}
       THEN Ignore ELSE Disconnect({m.sid}, Home[m.from], m.from)
    /\ answer' = {}
    /\ UNCHANGED floor

Deliver ==
    /\ \E m \in wire :
          /\ OnLogin(m) \/ OnWrongLogin(m) \/ OnStatus(m) \/ OnDisconnect(m)
          /\ wire' = wire \ {m}
    /\ UNCHANGED <<back, client, faults>>

\* An answer to a call that is over meets a closed socket.
Awaited(a) == a.kind = call[a.to].what /\ a.no = calls[a.to]

ServerSends ==
    /\ Send
    /\ back' = back \cup {a \in answer : Awaited(a)}
    /\ answer' = {}
    /\ UNCHANGED <<wire, client, faults, floor>>

\* Files cut short, reboots and the operator are left to ControlServer.
Fault ==
    /\ faults < MaxFaults
    /\ faults' = faults + 1
    /\ shape' = shape

\* The kernel's refusal is a fault too.
ServerSetsPeer ==
    /\ ApplyPeer \/ RemovePeer
    /\ IF \A s \in lease : kernel'[s.client] = (IF Head(todo) = "peer" THEN s.host ELSE NoHost)
       THEN UNCHANGED faults ELSE Fault
    /\ UNCHANGED <<network, client, floor>>

ServerGivesUp ==
    /\ EffectFails
    /\ Fault
    /\ answer' = {}
    /\ UNCHANGED <<wire, back, client, floor>>

ServerStops ==
    /\ Stop
    /\ Fault
    /\ answer' = {}
    /\ floor' = lastSid
    /\ UNCHANGED <<wire, back, client>>

ServerAlone ==
    /\ \/ SaveJournal \/ PersistRuntime
       \/ Start \/ Tick
    /\ UNCHANGED <<network, client, faults, floor>>

PlaneNext ==
    \/ \E c \in Clients : ClientSteps(c)
    \/ Deliver
    \/ ServerSends \/ ServerSetsPeer \/ ServerGivesUp \/ ServerStops \/ ServerAlone

PlaneSpec == PlaneInit /\ [][PlaneNext]_planeVars

-----------------------------------------------------------------------------

(***************************************************************************)
(* Type invariant of the clients and the network.                          *)
(***************************************************************************)
PlaneTypeOK ==
    /\ wire \subseteq Request /\ back \subseteq Reply /\ answer \subseteq Reply
    /\ call \in [Clients -> Call]
    /\ cached \in [Clients -> SUBSET Connection]
    /\ cooldowns \in [Clients -> Nat]
    /\ calls \in [Clients -> Nat] /\ mistakes \in [IPs -> Nat]
    /\ faults \in Nat /\ floor \in Nat

(***************************************************************************)
(* A client that keeps itself from logging in is one that the server would *)
(* refuse: the cooldown it remembers is one of the server's journal, in    *)
(* memory and on disk, for all that was lost, late or restarted since.     *)
(***************************************************************************)
CooldownAgreed ==
    \A c \in Clients : cooldowns[c] > now =>
        /\ up => journal.failures[Home[c]].cooldownUntil >= cooldowns[c]
        /\ stateFile.failures[Home[c]].cooldownUntil >= cooldowns[c]

(***************************************************************************)
(* Until the time it was told, a client that is connected has a session    *)
(* at the server, its own or one that a late copy of its own login put in  *)
(* its place: no other client's login, notice or query, and no late notice *)
(* of its own, ends it.  Only a stop or a lockdown does (floor).           *)
(***************************************************************************)
LeaseKept ==
    \A c \in Clients : \A k \in cached[c] :
        k.expires > now /\ k.sid > floor =>
            \E s \in sessions : s.client = c /\ s.sid >= k.sid /\ (s.sid = k.sid => s.host = k.host)

(***************************************************************************)
(* A wrong login costs its address at most one failure for each copy that  *)
(* attempt_auth sends of it: copies are what turns one mistyped password   *)
(* into a cooldown.                                                        *)
(***************************************************************************)
MistakesBounded ==
    \A ip \in IPs :
        Cardinality({i \in 1 .. Len(journal.recent) : journal.recent[i].ip = ip})
            <= MaxSends * mistakes[ip]

=============================================================================
